-------------------------------- MODULE SignIn --------------------------------
(***************************************************************************)
(* The authorization-code sign-in of web_app.rs: the redirect to the       *)
(* provider, its callback and logout, for browsers with several tabs.      *)
(*                                                                         *)
(* The server keeps nothing between the redirect and the callback.  The    *)
(* random state, the nonce and the PKCE verifier of a sign-in are in the   *)
(* encrypted q_oidc_redirect cookie, of which a browser has one: each      *)
(* redirect overwrites it, and a callback that was correlated clears it    *)
(* with its answer, which arrives whenever it arrives.  The encryption key *)
(* is configured or generated at every start of the server.                *)
(*                                                                         *)
(* A sign-in is named by the request that was redirected, a session by the *)
(* callback that made it, and a cookie by the request whose answer set it. *)
(***************************************************************************)
EXTENDS Naturals

CONSTANTS Browsers,
          Requests,
          NoBrowser, NoRequest,
          KeyConfigured,  \* oidc.authentication.token-state-cookie-key is set
          MaxRestarts     \* bound on the restarts of the server

ASSUME SignInAssumption ==
    /\ NoBrowser \notin Browsers /\ NoRequest \notin Requests
    /\ KeyConfigured \in BOOLEAN /\ MaxRestarts \in Nat

VARIABLES
    restarts,    \* how often the server was restarted
    stateJar,    \* the q_oidc_redirect cookie of each browser
    sessionJar,  \* the q_oidc cookie of each browser
    pc,          \* where each request is
    kind,        \* "page", "callback" or "logout", once it is sent
    from,        \* the browser it comes from
    link,        \* the sign-in whose callback it is
    sealedAt,    \* the restarts when its cookies were encrypted
    setState,    \* what its answer does to q_oidc_redirect
    setSession,  \* what its answer does to q_oidc
    grant,       \* grant[a]: what the provider's redirect for sign-in a holds
    spent,       \* the sign-ins whose code was exchanged
    expired      \* the sign-ins whose state cookie the browser dropped by itself

jars == <<stateJar, sessionJar>>
requestVars == <<pc, kind, from, link, sealedAt, setState, setSession>>
outsideVars == <<grant, spent, expired>>
vars == <<restarts, jars, requestVars, outsideVars>>

(* What the provider's redirect holds: nothing is one with neither a code   *)
(* nor an error.                                                            *)
Grants == {"code", "error", "nothing"}

(* The cookie instructions of an answer: one that sets a cookie sets that   *)
(* of the request that is answered.                                         *)
Instructions == {"keep", "clear", "set"}

TypeOK ==
    /\ restarts \in 0 .. MaxRestarts
    /\ stateJar \in [Browsers -> Requests \cup {NoRequest}]
    /\ sessionJar \in [Browsers -> Requests \cup {NoRequest}]
    /\ pc \in [Requests -> {"new", "exchanging", "validating", "answered", "done", "lost"}]
    /\ kind \in [Requests -> {"none", "page", "callback", "logout"}]
    /\ from \in [Requests -> Browsers \cup {NoBrowser}]
    /\ link \in [Requests -> Requests \cup {NoRequest}]
    /\ sealedAt \in [Requests -> 0 .. MaxRestarts]
    /\ setState \in [Requests -> Instructions]
    /\ setSession \in [Requests -> Instructions]
    /\ grant \in [Requests -> Grants \cup {"none"}]
    /\ spent \subseteq Requests
    /\ expired \subseteq Requests
    /\ \A b \in Browsers :
         /\ stateJar[b] # NoRequest => kind[stateJar[b]] = "page"
         /\ sessionJar[b] # NoRequest => kind[sessionJar[b]] = "callback"

Init ==
    /\ restarts = 0
    /\ stateJar = [b \in Browsers |-> NoRequest]
    /\ sessionJar = [b \in Browsers |-> NoRequest]
    /\ pc = [r \in Requests |-> "new"]
    /\ kind = [r \in Requests |-> "none"]
    /\ from = [r \in Requests |-> NoBrowser]
    /\ link = [r \in Requests |-> NoRequest]
    /\ sealedAt = [r \in Requests |-> 0]
    /\ setState = [r \in Requests |-> "keep"]
    /\ setSession = [r \in Requests |-> "keep"]
    /\ grant = [a \in Requests |-> "none"]
    /\ spent = {} /\ expired = {}

-----------------------------------------------------------------------------
(* A cookie that this server can decrypt: it was made with the key in use. *)
Readable(c) == c # NoRequest /\ (KeyConfigured \/ sealedAt[c] = restarts)

Receive(r, k, b, a) ==
    /\ pc[r] = "new"
    /\ kind' = [kind EXCEPT ![r] = k]
    /\ from' = [from EXCEPT ![r] = b]
    /\ link' = [link EXCEPT ![r] = a]

Answer(r, state, session) ==
    /\ pc' = [pc EXCEPT ![r] = "answered"]
    /\ setState' = [setState EXCEPT ![r] = state]
    /\ setSession' = [setSession EXCEPT ![r] = session]
    /\ sealedAt' = [sealedAt EXCEPT ![r] = restarts]

(* Browser b opens the callback link of sign-in a: its own, or one it got   *)
(* from elsewhere, for the first time or again.                             *)
OpensCallback(r, b, a) ==
    /\ grant[a] # "none"
    /\ Receive(r, "callback", b, a)

(* A slip, like those below: any sign-in of any browser is continued.   *)
CorrelatedIfReadable(b, a) == Readable(stateJar[b])

(* The correlation: the cookie of this browser is that of this sign-in. *)
Correlated(b, a) == Readable(stateJar[b]) /\ stateJar[b] = a

-----------------------------------------------------------------------------
(* Slips: forms that some of the operators below could have by mistake.  No *)
(* specification uses them; they show that the properties can fail.         *)

(* A callback that is rejected clears the cookie. *)
RejectCallbackAndClear(r, b, a) ==
    /\ OpensCallback(r, b, a)
    /\ ~Correlated(b, a)
    /\ Answer(r, "clear", "keep")
    /\ UNCHANGED <<restarts, jars, outsideVars>>

(* The next request of a browser is answered with the session. *)
SealPageAsSession(r, b) ==
    /\ ~Readable(sessionJar[b])
    /\ Receive(r, "page", b, NoRequest)
    /\ Answer(r, "set", "set")
    /\ UNCHANGED <<restarts, jars, outsideVars>>

-----------------------------------------------------------------------------
(* A page is asked for without a readable session: session_context queues   *)
(* the removal of an unreadable cookie, authorization_redirect begins a     *)
(* sign-in and answers with its state.                                      *)
RedirectToLogin(r, b) ==
    /\ ~Readable(sessionJar[b])
    /\ Receive(r, "page", b, NoRequest)
    /\ Answer(r, "set", IF sessionJar[b] = NoRequest THEN "keep" ELSE "clear")
    /\ UNCHANGED <<restarts, jars, outsideVars>>

(* The state cookie has a Max-Age of ten minutes.  Time is not modelled:    *)
(* they may be over at any moment, and the browser drops the cookie.        *)
StateExpires(a) ==
    /\ kind[a] = "page" /\ pc[a] = "done"
    /\ stateJar[from[a]] = a
    /\ stateJar' = [stateJar EXCEPT ![from[a]] = NoRequest]
    /\ expired' = expired \cup {a}
    /\ UNCHANGED <<restarts, sessionJar, requestVars, grant, spent>>

(* The user is at the provider, which redirects back.                       *)
Authorize(a) ==
    /\ kind[a] = "page" /\ pc[a] = "done"
    /\ grant[a] = "none"
    /\ \E g \in Grants : grant' = [grant EXCEPT ![a] = g]
    /\ UNCHANGED <<restarts, jars, requestVars, spent, expired>>

(* A callback that names no sign-in: it has no state, or its form has       *)
(* another content type, is too large or is no text.  It is refused before  *)
(* the cookie is looked at.                                                 *)
RejectMalformed(r, b) ==
    /\ Receive(r, "callback", b, NoRequest)
    /\ Answer(r, "keep", "keep")
    /\ UNCHANGED <<restarts, jars, outsideVars>>

(* No readable state, or that of another sign-in: InvalidCallbackRequest,   *)
(* and the cookie is left alone.                                            *)
RejectCallback(r, b, a) ==
    /\ OpensCallback(r, b, a)
    /\ ~Correlated(b, a)
    /\ Answer(r, "keep", "keep")
    /\ UNCHANGED <<restarts, jars, outsideVars>>

(* A correlated callback consumes the state: here with the provider's error *)
(* or the missing code as outcome ...                                       *)
ReportError(r, b, a) ==
    /\ OpensCallback(r, b, a)
    /\ Correlated(b, a)
    /\ grant[a] # "code"
    /\ Answer(r, "clear", "keep")
    /\ UNCHANGED <<restarts, jars, outsideVars>>

(* ... here the code is sent to the token endpoint. *)
AcceptCallback(r, b, a) ==
    /\ OpensCallback(r, b, a)
    /\ Correlated(b, a)
    /\ grant[a] = "code"
    /\ pc' = [pc EXCEPT ![r] = "exchanging"]
    /\ UNCHANGED <<restarts, jars, sealedAt, setState, setSession, outsideVars>>

(* The provider exchanges a code once. *)
Exchange(r) ==
    /\ pc[r] = "exchanging"
    /\ link[r] \notin spent
    /\ spent' = spent \cup {link[r]}
    /\ pc' = [pc EXCEPT ![r] = "validating"]
    /\ UNCHANGED <<restarts, jars, kind, from, link, sealedAt, setState, setSession, grant, expired>>

(* The exchange or the validation of the tokens fails, or the session does  *)
(* not fit into a cookie: an error that consumes the state.                 *)
FailCallback(r) ==
    /\ pc[r] \in {"exchanging", "validating"}
    /\ Answer(r, "clear", "keep")
    /\ UNCHANGED <<restarts, jars, kind, from, link, outsideVars>>

(* The nonce and the tokens are valid: the session is made. *)
FinishCallback(r) ==
    /\ pc[r] = "validating"
    /\ Answer(r, "clear", "set")
    /\ UNCHANGED <<restarts, jars, kind, from, link, outsideVars>>

(* Logout with a readable session; without one it is refused and changes no *)
(* cookie.                                                                  *)
Logout(r, b) ==
    /\ Receive(r, "logout", b, NoRequest)
    /\ IF Readable(sessionJar[b]) THEN Answer(r, "clear", "clear")
                                  ELSE Answer(r, "keep", "keep")
    /\ UNCHANGED <<restarts, jars, outsideVars>>

(* An answer reaches the browser.  Answers arrive in any order. *)
Obey(instruction, r, jar) ==
    [jar EXCEPT ![from[r]] = CASE instruction = "set" -> r
                               [] instruction = "clear" -> NoRequest
                               [] OTHER -> @]

Deliver(r) ==
    /\ pc[r] = "answered"
    /\ pc' = [pc EXCEPT ![r] = "done"]
    /\ stateJar' = Obey(setState[r], r, stateJar)
    /\ sessionJar' = Obey(setSession[r], r, sessionJar)
    /\ UNCHANGED <<restarts, kind, from, link, sealedAt, setState, setSession, outsideVars>>

(* The connection ends before the answer has arrived. *)
Disconnect(r) ==
    /\ pc[r] \in {"exchanging", "validating", "answered"}
    /\ pc' = [pc EXCEPT ![r] = "lost"]
    /\ UNCHANGED <<restarts, jars, kind, from, link, sealedAt, setState, setSession, outsideVars>>

(* The server is restarted: the requests it is handling are lost. *)
Restart ==
    /\ restarts < MaxRestarts
    /\ restarts' = restarts + 1
    /\ pc' = [r \in Requests |-> IF pc[r] \in {"exchanging", "validating"} THEN "lost" ELSE pc[r]]
    /\ UNCHANGED <<jars, kind, from, link, sealedAt, setState, setSession, outsideVars>>

Next ==
    \/ \E r \in Requests :
         \/ \E b \in Browsers :
              \/ RedirectToLogin(r, b)
              \/ Logout(r, b)
              \/ RejectMalformed(r, b)
              \/ \E a \in Requests :
                   RejectCallback(r, b, a) \/ ReportError(r, b, a) \/ AcceptCallback(r, b, a)
         \/ StateExpires(r)
         \/ Authorize(r)
         \/ Exchange(r)
         \/ FailCallback(r)
         \/ FinishCallback(r)
         \/ Deliver(r)
         \/ Disconnect(r)
    \/ Restart

Spec == Init /\ [][Next]_vars

-----------------------------------------------------------------------------
(* A browser is signed in only by a sign-in that it began itself, whatever  *)
(* callback links it opens: its state, nonce and verifier never end up with *)
(* another (the comparison of the states in callback).                      *)
OwnSignIn ==
    \A b \in Browsers : sessionJar[b] # NoRequest => from[link[sessionJar[b]]] = b

(* What can cost sign-in a its callback r: another page that the browser    *)
(* asked for and whose state overwrites, another callback of the sign-in or *)
(* a logout that consumed the state, a restart that generated another key,  *)
(* or the end of the ten minutes.                                           *)
Disturbed(a, r) ==
    \/ \E q \in Requests \ {a} : kind[q] = "page" /\ from[q] = from[a]
    \/ \E q \in Requests \ {r} : link[q] = a /\ from[q] = from[a]
    \/ \E q \in Requests : kind[q] = "logout" /\ from[q] = from[a]
    \/ ~Readable(a)
    \/ a \in expired

(* The provider does not exchange a code that was never exchanged, or what  *)
(* it answers is not valid or fits into no cookie.                          *)
RefusedByProvider(a, r) ==
    \/ pc[r] = "exchanging" /\ a \notin spent
    \/ pc[r] = "validating"

FailsForCause(r) ==
    LET a == link'[r]
    IN (/\ pc[r] # "answered" /\ pc'[r] = "answered"
        /\ a # NoRequest /\ grant[a] = "code" /\ setSession'[r] # "set")
       => from'[r] # from[a] \/ Disturbed(a, r) \/ RefusedByProvider(a, r)

(* A callback that brings a state and a code is answered with an error only *)
(* if it comes from a browser that did not begin the sign-in, if the        *)
(* sign-in was disturbed, or if the provider refuses the fresh code or      *)
(* gives no usable tokens for it.  What else the browser sends meanwhile    *)
(* costs the sign-in nothing: callbacks of other sign-ins, and callbacks    *)
(* that cannot be read ("Only a callback correlated to this browser's       *)
(* encrypted state may consume the one-time state.", callback).             *)
SignInFailsForCause == [][\A r \in Requests : FailsForCause(r)]_vars
=============================================================================
