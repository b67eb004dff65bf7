---------------------------- MODULE WebAppSession ----------------------------
(***************************************************************************)
(* Browser sessions of web_app.rs: the encrypted q_oidc cookie, the pages  *)
(* that restore a session from it, the refresh of expired tokens and       *)
(* logout.                                                                 *)
(*                                                                         *)
(* The server keeps no session.  A session is what the cookie says: the    *)
(* identity, the expiry and the refresh token.  Several requests of one    *)
(* browser carry the same cookie, are handled concurrently, and their      *)
(* answers reach the browser in any order; the last Set-Cookie wins.  The  *)
(* provider may rotate the refresh token at every use, so a cookie that is *)
(* one refresh behind holds a dead token.  What protects the browser is    *)
(* the table of refresh flights, whose module this one composes with.      *)
(***************************************************************************)
EXTENDS TokenLifetime

CONSTANTS Browsers,
          Requests,
          Tokens,      \* all refresh tokens the provider can issue
          NoToken, NoFlight, Retention, MaxTime,
          NoSession,   \* no readable cookie
          FirstToken,  \* FirstToken[b]: the token of the session b starts with
          Config,      \* the lifetimes the application is configured with
          Lifespan,    \* how long the provider's tokens live
          Tenanted     \* the application uses TenantsLayer and not OidcLayer

ASSUME SessionAssumption ==
    /\ FirstToken \in [Browsers -> Tokens]
    /\ \A b, d \in Browsers : FirstToken[b] = FirstToken[d] => b = d
    /\ Config \in Lifetimes
    /\ Lifespan \in Nat \ {0}
    /\ Tenanted \in BOOLEAN
    /\ "unissued" \notin Browsers /\ "unsent" \notin Browsers
    /\ NoSession \notin [user : Browsers, token : Tokens, exp : Nat]
    /\ NoFlight \notin Requests /\ NoToken \notin Tokens
    /\ Retention \in Nat \ {0} /\ MaxTime \in Nat

VARIABLES
    now, flights, outcome, completedAt, pc, token, joined, result, \* RefreshFlights
    jar,      \* jar[b]: the session in the q_oidc cookie of b, and its end
    from,     \* the browser a request comes from
    cookie,   \* the session a request carries
    answered, \* the requests that were answered
    replies,  \* the answers on their way to the browsers
    issued,   \* issued[f]: the session the provider answered the call of f with
    refused,  \* the flights whose call the provider refused
    owner,    \* the browser whose session a refresh token continues
    spent     \* the refresh tokens that the provider has rotated out

flightVars == <<now, flights, outcome, completedAt, pc, token, joined, result>>
answerVars == <<answered, replies>>
providerVars == <<issued, refused, owner, spent>>
vars == <<flightVars, jar, from, cookie, answerVars, providerVars>>

Flights == INSTANCE RefreshFlights

Sessions == [user : Browsers, token : Tokens, exp : Nat]

(* A Set-Cookie header for q_oidc; without a session it clears the cookie.  *)
SetCookies == [session : Sessions \cup {NoSession}, maxAge : Nat]

(* An answer: the page for a session, or a redirect to the provider or an   *)
(* error without one, and at most one Set-Cookie.                           *)
Replies == [to : Requests, page : Sessions \cup {NoSession}, set : SUBSET SetCookies]

TypeOK ==
    /\ Flights!TypeOK
    /\ jar \in [Browsers -> [session : Sessions \cup {NoSession}, until : Nat]]
    /\ from \in [Requests -> Browsers \cup {"unsent"}]
    /\ cookie \in [Requests -> Sessions \cup {NoSession}]
    /\ answered \subseteq Requests
    /\ \A m \in replies :
         /\ m.to \in answered
         /\ m.page \in Sessions \cup {NoSession}
         /\ \A c \in m.set : c \in SetCookies
    /\ issued \in [Requests -> Sessions \cup {NoSession}]
    /\ refused \subseteq Requests
    /\ owner \in [Tokens -> Browsers \cup {"unissued"}]
    /\ spent \subseteq Tokens

(* Every browser has signed in at time 0, each with a token of its own. *)
FirstSession(b) == [user |-> b, token |-> FirstToken[b], exp |-> Lifespan]

Init ==
    /\ Flights!Init
    /\ jar = [b \in Browsers |-> [session |-> FirstSession(b),
                                  until |-> MaxAge(Config, Lifespan, 0)]]
    /\ from = [r \in Requests |-> "unsent"]
    /\ cookie = [r \in Requests |-> NoSession]
    /\ answered = {}
    /\ replies = {}
    /\ issued = [r \in Requests |-> NoSession]
    /\ refused = {}
    /\ owner = [k \in Tokens |->
                  IF \E b \in Browsers : FirstToken[b] = k
                  THEN CHOOSE b \in Browsers : FirstToken[b] = k ELSE "unissued"]
    /\ spent = {}

(* A request that reached the server and that nothing was decided about. *)
Arrived(r) == from[r] # "unsent" /\ pc[r] = "start" /\ r \notin answered

Keep == {}
Clear == {[session |-> NoSession, maxAge |-> 0]}
Store(s) == {[session |-> s, maxAge |-> MaxAge(Config, s.exp, now)]}

Answer(r, page, set) ==
    /\ answered' = answered \cup {r}
    /\ replies' = replies \cup {[to |-> r, page |-> page, set |-> set]}

(* The call of r is at the provider; it may be answered there although the  *)
(* leader that made it was dropped.                                         *)
Calling(r) ==
    /\ pc[r] \in {"leading", "removing", "abandoned"}
    /\ issued[r] = NoSession
    /\ r \notin refused

-----------------------------------------------------------------------------
(* Slips: forms that some of the operators below could have by mistake.  No *)
(* specification uses them; they show that the properties can fail.         *)

(* The expiry of the refreshed session is not counted from the present. *)
ProviderAcceptsForever(r) ==
    /\ Calling(r)
    /\ token[r] \notin spent
    /\ issued' = [issued EXCEPT ![r] = [user |-> from[r], token |-> token[r], exp |-> Never]]
    /\ UNCHANGED <<flightVars, jar, from, cookie, answerVars, refused, owner, spent>>

-----------------------------------------------------------------------------
(* A browser sends a request with the cookie it holds now. *)
Send(r, b) ==
    /\ from[r] = "unsent"
    /\ from' = [from EXCEPT ![r] = b]
    /\ cookie' = [cookie EXCEPT ![r] = IF now < jar[b].until THEN jar[b].session ELSE NoSession]
    /\ UNCHANGED <<flightVars, jar, answerVars, providerVars>>

(* session_context without a session: the browser is sent to the provider. *)
RedirectToLogin(r) ==
    /\ Arrived(r)
    /\ cookie[r] = NoSession
    /\ Answer(r, NoSession, Keep)
    /\ UNCHANGED <<flightVars, jar, from, cookie, providerVars>>

(* session_context with a session that is served as it is, or that is over. *)
UseStored(r) ==
    /\ Arrived(r)
    /\ cookie[r] # NoSession
    /\ LET treatment == Treatment(Config, cookie[r].exp, TRUE, now, now)
       IN  \/ treatment = "serve" /\ Answer(r, cookie[r], Keep)
           \/ treatment = "clear" /\ Answer(r, NoSession, Clear)
    /\ UNCHANGED <<flightVars, jar, from, cookie, providerVars>>

(* session_context with a session to refresh joins a flight. *)
StartRefresh(r) ==
    /\ Arrived(r)
    /\ cookie[r] # NoSession
    /\ Treatment(Config, cookie[r].exp, TRUE, now, now) = "refresh"
    /\ \/ Flights!JoinAsFollower(r, cookie[r].token)
       \/ Flights!JoinAsLeader(r, cookie[r].token)
    /\ UNCHANGED <<jar, from, cookie, answerVars, providerVars>>

(* The provider accepts a live refresh token.  It may rotate it, and then   *)
(* the old one is spent, or let it live; without a refresh token in the     *)
(* response the application keeps the one it has.                           *)
ProviderAccepts(r) ==
    /\ Calling(r)
    /\ token[r] \notin spent
    /\ \E k \in Tokens :
         /\ \/ k = token[r] /\ UNCHANGED <<owner, spent>>
            \/ /\ owner[k] = "unissued"
               /\ owner' = [owner EXCEPT ![k] = owner[token[r]]]
               /\ spent' = spent \cup {token[r]}
         /\ issued' = [issued EXCEPT
                         ![r] = [user |-> owner[token[r]], token |-> k, exp |-> now + Lifespan]]
    /\ UNCHANGED <<flightVars, jar, from, cookie, answerVars, refused>>

(* The provider refuses a token that it has rotated out.  Nobody learns of  *)
(* the refusal of a call whose leader was dropped.                          *)
ProviderRefuses(r) ==
    /\ Calling(r)
    /\ pc[r] = "leading"
    /\ token[r] \in spent
    /\ refused' = refused \cup {r}
    /\ UNCHANGED <<flightVars, jar, from, cookie, answerVars, issued, owner, spent>>

(* The leader has the response and its tokens are valid. *)
RefreshSucceeds(r) ==
    /\ issued[r] # NoSession
    /\ Flights!Complete(r, "Success")
    /\ UNCHANGED <<jar, from, cookie, answerVars, providerVars>>

(* The refresh fails: the provider refused, could not be reached, its       *)
(* response was lost, or the tokens were rejected by the validators.        *)
RefreshFails(r) ==
    /\ Flights!Complete(r, "Failed")
    /\ UNCHANGED <<jar, from, cookie, answerVars, providerVars>>

(* The outcome of the flight decides the answer.  A session too large for a *)
(* cookie is an error that leaves the old cookie in place.  The cookie of a *)
(* session is queued with the request, and OidcService puts it on the page; *)
(* TenantsService puts nothing on it.  That of a redirect is put there by   *)
(* authorization_redirect.                                                  *)
AnswerRefreshed(r) ==
    /\ Flights!ReturnOutcome(r)
    /\ LET s == issued[joined[r]]
       IN  \/ /\ outcome[joined[r]] = "Success"
              /\ Answer(r, s, IF Tenanted THEN Keep ELSE Store(s))
           \/ outcome[joined[r]] = "Success" /\ Answer(r, NoSession, Keep)
           \/ outcome[joined[r]] = "Failed" /\ Answer(r, NoSession, Clear)
    /\ UNCHANGED <<jar, from, cookie, providerVars>>

(* A logout request with a session. *)
Logout(r) ==
    /\ Arrived(r)
    /\ cookie[r] # NoSession
    /\ Answer(r, NoSession, Clear)
    /\ UNCHANGED <<flightVars, jar, from, cookie, providerVars>>

(* The connection of a request ends while it waits or leads a flight. *)
Disconnect(r) ==
    /\ Flights!DropLeader(r) \/ Flights!DropWaiter(r)
    /\ UNCHANGED <<jar, from, cookie, answerVars, providerVars>>

FinishDrop(r) ==
    /\ Flights!RemoveFlight(r)
    /\ UNCHANGED <<jar, from, cookie, answerVars, providerVars>>

(* An answer reaches the browser, which obeys its Set-Cookie.  The answers  *)
(* of concurrent requests arrive in any order.                              *)
Deliver(r) ==
    /\ \E m \in replies :
         /\ m.to = r
         /\ replies' = replies \ {m}
         /\ jar' = [jar EXCEPT ![from[r]] =
                      IF m.set = Keep THEN @
                      ELSE LET c == CHOOSE c \in m.set : TRUE
                           IN  [session |-> c.session, until |-> now + c.maxAge]]
    /\ UNCHANGED <<flightVars, from, cookie, answered, providerVars>>

Tick ==
    /\ Flights!Tick
    /\ UNCHANGED <<jar, from, cookie, answerVars, providerVars>>

Next ==
    \/ Tick
    \/ \E r \in Requests :
         \/ \E b \in Browsers : Send(r, b)
         \/ RedirectToLogin(r)
         \/ UseStored(r)
         \/ StartRefresh(r)
         \/ ProviderAccepts(r)
         \/ ProviderRefuses(r)
         \/ RefreshSucceeds(r)
         \/ RefreshFails(r)
         \/ AnswerRefreshed(r)
         \/ Logout(r)
         \/ Disconnect(r)
         \/ FinishDrop(r)
         \/ Deliver(r)

Spec == Init /\ [][Next]_vars

-----------------------------------------------------------------------------
(* The flight whose call rotated a refresh token out. *)
Rotated(g, k) == token[g] = k /\ issued[g] # NoSession /\ issued[g].token # k

(* The provider refuses a refresh token, because it has rotated it out, only *)
(* if the call that rotated it was lost on its way back, or ended at least a *)
(* retention period ago.  Otherwise the concurrent and the late requests of *)
(* a browser get the outcome of that call, and none of them signs the       *)
(* browser out (coordinated_refresh).                                       *)
RotatedTokenIsReplayedLate ==
    \A f \in refused : \A g \in Requests :
        Rotated(g, token[f]) =>
            outcome[g] = "Failed" \/ (outcome[g] = "Success" /\ now - completedAt[g] >= Retention)

(* The pages and the cookies of a browser are those of its own session,     *)
(* although the flights of all browsers are in one table.                   *)
OwnSession ==
    \A m \in replies :
        \A s \in {m.page} \cup {c.session : c \in m.set} :
            s # NoSession => s.user = from[m.to]

(* A page made from refreshed tokens takes them to the browser: the cookie  *)
(* it had holds a refresh token that may be dead now.  "`Tenants` selects   *)
(* one [`crate::Oidc`] instance for each request, then runs that tenant's   *)
(* normal authentication flow." (tenants.rs)                                *)
RefreshReachesBrowser ==
    \A m \in replies :
        pc[m.to] = "done" /\ m.page # NoSession =>
            \E c \in m.set : c.session = m.page
=============================================================================
