-------------------------------- MODULE Dispatch --------------------------------
(***************************************************************************)
(* From the start of an application to the answer of a request: Setup      *)
(* builds the tenants, TenantsLayer selects one of them, the tenant        *)
(* authenticates by a token or by a session, or sends to the login, and a  *)
(* guard of the route lets the principal pass to the handler or not.       *)
(*                                                                         *)
(* OidcLayer is TenantsLayer with a default tenant and no other, but for   *)
(* the cookies on its answers, which are in WebAppSession.  A tenant does  *)
(* not change after the start and a request shares nothing with another    *)
(* one, so one request is enough.                                          *)
(*                                                                         *)
(* What the validators and session_context decide is in TokenValidation,   *)
(* SessionTokens and WebAppSession.  Here a token is accepted or rejected, *)
(* and what is kept of the reasons is who accepts it and what issuer they  *)
(* saw.                                                                    *)
(* Many issuers can share a provider and its keys.  Each tenant seals its  *)
(* cookies with a key of its own.                                          *)
(***************************************************************************)
EXTENDS Setup, TenantPaths, SequencesExt

CONSTANTS Default,       \* the tenant without a name
          Addresses,     \* issuers and addresses of providers
          Environments,  \* an application, and what its provider answers at the start
          Requests,
          Tokens,        \* well-formed values of a token header: a JWT, with the
                         \* issuer that it names if it does, or another one
          Malformed,     \* any other value: too long, unreadable, another scheme
          Roles

Installed(a) == Range(a.order) \cup (IF a.hasDefault THEN {Default} ELSE {})

TenantNames == UNION {Installed(e.app) : e \in Environments}

(* OidcConfig of a tenant, as far as anybody looks at it here. *)
Configurations ==
    [type : Types, enabled : BOOLEAN, tenantEnabled : BOOLEAN, unsupported : BOOLEAN,
     refresh : BOOLEAN, clientId : BOOLEAN, publicKey : BOOLEAN, discovery : BOOLEAN,
     introspectionOnly : BOOLEAN, userInfoOnly : BOOLEAN,
     issuer : Addresses \cup {None, AnyIssuer}, authServer : Addresses \cup {None},
     wellKnown : Addresses \cup {None},
     rolesSource : {"accesstoken", "idtoken", "userinfo"},
     paths : [{"login", "introspection", "userinfo", "jwks"} -> Endpoints],
     header : STRING, id : TenantNames \cup {None},
     tenantPaths : SUBSET [segments : Seq(DOMAIN Length \cup {Star}), slash : BOOLEAN]]

Principals == [tenant : TenantNames, by : {"token", "session"},
               issuer : Addresses \cup {None}, roles : SUBSET Roles]

Stages == {"starting", "failed", "serving", "selected", "validating", "session",
           "admitted", "answered"}

Answers == {"page", "login", "callback", "unauthorized", "forbidden", "not found",
            "server error"}

ASSUME DispatchAssumption ==
    /\ None \notin Tokens /\ None \notin Principals /\ None \notin Answers
    /\ AnyIssuer \notin Addresses \cup {None}
    /\ \A tk \in Tokens : tk.issuer \in Addresses \cup {None}
    /\ \A r \in Requests : r.path \in Paths
    /\ \A e \in Environments :
         /\ e.app.order \in Seq(Range(e.app.order)) /\ Range(e.app.order) \subseteq DOMAIN Length
         /\ \A t \in Installed(e.app) : e.app.config[t] \in Configurations

VARIABLES
    app,        \* tenants, their configurations, and a route with a guard
    provider,
    built,      \* what the start has made of the tenants
    stage,      \* "starting", "failed", "serving", then the steps of a request
    request,
    tenant,     \* the tenant that was selected for the request
    principal,  \* the extension of the request, None if there is none
    answer

vars == <<app, provider, built, stage, request, tenant, principal, answer>>
outside == <<app, provider, built>>

TypeOK ==
    /\ stage \in Stages
    /\ stage \notin {"starting", "failed"} =>
         /\ DOMAIN built = Installed(app)
         /\ \A t \in Installed(app) :
              /\ built[t].chain \in Chains /\ built[t].idKeys \in {"none", "fixed", "refreshing"}
              /\ built[t].login \in BOOLEAN
    /\ stage \in {"selected", "validating", "session", "admitted", "answered"} =>
         request \in Requests
    /\ tenant \in Installed(app) \cup {None}
    /\ principal \in Principals \cup {None}
    /\ answer \in Answers \cup {None}
    /\ stage = "answered" <=> answer # None

Init ==
    /\ \E e \in Environments : app = e.app /\ provider = e.provider
    /\ built = None /\ stage = "starting"
    /\ request = None /\ tenant = None /\ principal = None /\ answer = None

-----------------------------------------------------------------------------
(* The start.  One tenant that cannot be built keeps all from starting. *)

Starts(a, t, p) ==
    Loadable(a.config[t]) /\ (a.discover => Discoverable(a.config[t], p))

BuiltFrom(a, t, p) ==
    IF a.discover THEN Discovered(a.config[t], p) ELSE FromConfig(a.config[t])

Start ==
    /\ stage = "starting"
    /\ \A t \in Installed(app) : Starts(app, t, provider)
    /\ built' = [t \in Installed(app) |-> BuiltFrom(app, t, provider)]
    /\ stage' = "serving"
    /\ UNCHANGED <<app, provider, request, tenant, principal, answer>>

StartFails ==
    /\ stage = "starting"
    /\ \E t \in Installed(app) : ~Starts(app, t, provider)
    /\ stage' = "failed"
    /\ UNCHANGED <<outside, request, tenant, principal, answer>>

-----------------------------------------------------------------------------
(* The token that a request carries for a tenant, in the header and with    *)
(* the scheme of that tenant.  Selection and validation read it alike.      *)
TokenFor(a, t, r) ==
    LET value == r.headers[a.config[t].header] IN IF value \in Tokens THEN value ELSE None

(* The issuer that a token names, unverified, and the one a tenant is       *)
(* looked up by.  "any" falls back to the address of the provider here.     *)
UnverifiedIssuer(a, t, r) ==
    LET tk == TokenFor(a, t, r)
    IN IF tk # None /\ tk.jwt THEN tk.issuer ELSE None

LookupIssuer(c) == IF c.issuer \notin {None, AnyIssuer} THEN c.issuer ELSE c.authServer

PathsOf(a, t) ==
    IF a.config[t].tenantPaths # {} THEN a.config[t].tenantPaths
    ELSE {[segments |-> <<t, Star>>, slash |-> FALSE]}

PathScore(a, t, r) == Max({Score(p, r.path) : p \in PathsOf(a, t)})

(* The first tenant in order, and of those that fit a path equally well the *)
(* last.                                                                    *)
ByHeader(a, r) ==
    {i \in DOMAIN a.order :
        /\ a.byHeader /\ r.selector # None
        /\ r.selector \in {a.order[i], a.config[a.order[i]].id}}

ByIssuer(a, r) ==
    {i \in DOMAIN a.order :
        /\ a.byIssuer
        /\ UnverifiedIssuer(a, a.order[i], r) # None
        /\ UnverifiedIssuer(a, a.order[i], r) = LookupIssuer(a.config[a.order[i]])}

(* A slip: of all the tenants with a path that fits. *)
ByAnyPath(a, r) == {i \in DOMAIN a.order : PathScore(a, a.order[i], r) > 0}

ByPath(a, r) ==
    {i \in DOMAIN a.order :
        /\ PathScore(a, a.order[i], r) > 0
        /\ \A j \in DOMAIN a.order : PathScore(a, a.order[j], r) <= PathScore(a, a.order[i], r)}

(* A slip: a default tenant is taken for granted. *)
SelectOrDefault(a, r) ==
    IF ByHeader(a, r) # {} THEN a.order[Min(ByHeader(a, r))] ELSE Default

Select(a, r) ==
    CASE ByHeader(a, r) # {} -> a.order[Min(ByHeader(a, r))]
      [] ByHeader(a, r) = {} /\ ByIssuer(a, r) # {} -> a.order[Min(ByIssuer(a, r))]
      [] ByHeader(a, r) = {} /\ ByIssuer(a, r) = {} /\ ByPath(a, r) # {} ->
           a.order[Max(ByPath(a, r))]
      [] OTHER -> IF a.hasDefault THEN Default ELSE None

Receive(r) ==
    /\ stage = "serving"
    /\ request' = r /\ tenant' = Select(app, r)
    /\ stage' = "selected"
    /\ UNCHANGED <<outside, principal, answer>>

-----------------------------------------------------------------------------
(* Authentication by the selected tenant. *)

Config == app.config[tenant]
Built == built[tenant]
Token == TokenFor(app, tenant, request)

Goto(s) == stage' = s /\ UNCHANGED <<outside, request, tenant, principal, answer>>

Respond(a) ==
    /\ stage' = "answered" /\ answer' = a
    /\ UNCHANGED <<outside, request, tenant, principal>>

Admit(p) ==
    /\ stage' = "admitted" /\ principal' = p
    /\ UNCHANGED <<outside, request, tenant, answer>>

(* Nobody authenticates: no tenant, or a layer that is switched off. *)
Unprotected == tenant # None => ~Config.enabled

(* A slip: a disabled tenant is taken for a disabled layer. *)
PassThroughDisabled ==
    /\ stage = "selected"
    /\ tenant # None => ~(Config.enabled /\ Config.tenantEnabled)
    /\ Goto("admitted")

PassThrough == stage = "selected" /\ Unprotected /\ Goto("admitted")

HideTenant ==
    /\ stage = "selected" /\ ~Unprotected /\ ~Config.tenantEnabled
    /\ Respond("not found")

(* A slip: a hybrid application looks for a cookie first. *)
SessionFirst ==
    \/ Config.type = "web-app"
    \/ Config.type = "hybrid" /\ Built.login /\ (Token = None \/ request.cookie # None)

(* A browser is asked for a session, other callers for a token.  In a       *)
(* hybrid application that depends on the request.                          *)
UsesLogin ==
    \/ Config.type = "web-app"
    \/ Config.type = "hybrid" /\ Built.login /\ (request.callback \/ Token = None)

Authenticating(login) ==
    /\ stage = "selected" /\ ~Unprotected /\ Config.tenantEnabled
    /\ UsesLogin = login

RejectHeader == Authenticating(FALSE) /\ Token = None /\ Respond("unauthorized")

Validate == Authenticating(FALSE) /\ Token # None /\ Goto("validating")

NoLogin == Authenticating(TRUE) /\ ~Built.login /\ Respond("server error")

Callback ==
    /\ Authenticating(TRUE) /\ Built.login /\ request.callback
    /\ Respond("callback")

LookForSession ==
    /\ Authenticating(TRUE) /\ Built.login /\ ~request.callback
    /\ Goto("session")

(* The validators of TokenValidation accept a token as one of issuer i, or  *)
(* of none that was named.  A JWT that is verified with the keys is refused *)
(* if it names another issuer than the expected one, not if it names none;  *)
(* an introspection endpoint has to name it, whatever is in the token; and  *)
(* UserInfo is asked for no issuer.                                         *)
Acceptable(i) ==
    \/ /\ Built.chain.first = "keys" /\ Token.jwt
       /\ i = Token.issuer /\ (i # None => Matches(Built.issuer, i))
    \/ /\ Built.chain.first = "introspection" \/ Built.chain.fallback
       /\ Matches(Built.issuer, i)
    \/ Built.chain.first = "userinfo" /\ i = None

AcceptToken ==
    /\ stage = "validating"
    /\ \E i \in Addresses \cup {None}, roles \in SUBSET Roles :
         /\ Acceptable(i)
         /\ Admit([tenant |-> tenant, by |-> "token", issuer |-> i, roles |-> roles])

RejectToken == stage = "validating" /\ Respond("unauthorized")

UseSession ==
    /\ stage = "session" /\ request.cookie = tenant
    /\ \E roles \in SUBSET Roles :
         Admit([tenant |-> tenant, by |-> "session", issuer |-> None, roles |-> roles])

(* Without a session that is still good, or can be refreshed. *)
SendToLogin == stage = "session" /\ Respond("login")

SessionFails == stage = "session" /\ Respond("server error")

-----------------------------------------------------------------------------
(* The guard of the route, a layer or a macro of the handler. *)

RolesSuffice(guard, roles) ==
    CASE guard.kind = "any" -> guard.roles \cap roles # {}
      [] guard.kind = "all" -> guard.roles \subseteq roles
      [] guard.kind = "macro" -> guard.anyone \/ guard.roles \cap roles # {}
      [] OTHER -> TRUE

GuardAllows(guard, p) ==
    guard.kind = "open" \/ (p # None /\ RolesSuffice(guard, p.roles))

Serve ==
    /\ stage = "admitted" /\ GuardAllows(app.guard, principal)
    /\ Respond("page")

(* An extractor does not distinguish a stranger from a lack of roles. *)
TurnAway ==
    /\ stage = "admitted" /\ ~GuardAllows(app.guard, principal)
    /\ Respond(IF principal = None /\ app.guard.kind # "macro"
               THEN "unauthorized" ELSE "forbidden")

Next ==
    \/ Start \/ StartFails
    \/ \E r \in Requests : Receive(r)
    \/ PassThrough \/ HideTenant
    \/ RejectHeader \/ Validate \/ AcceptToken \/ RejectToken
    \/ NoLogin \/ Callback \/ LookForSession
    \/ UseSession \/ SendToLogin \/ SessionFails
    \/ Serve \/ TurnAway

Spec == Init /\ [][Next]_vars

-----------------------------------------------------------------------------
(* Who reaches the handler: a request without a principal only where nobody *)
(* authenticates and the route is open, and otherwise a principal that the  *)
(* selected tenant has from the token in its own header or from the session *)
(* sealed with its own key, with the roles that the route asks for.  It     *)
(* relates the first thing read of a request to the last, over every        *)
(* application type, flag, guard and order of layers.                       *)
Stranger ==
    /\ app.guard.kind = "open"
    /\ tenant = None \/ ~app.config[tenant].enabled

Known ==
    /\ principal # None /\ tenant # None
    /\ principal.tenant = tenant
    /\ app.config[tenant].enabled /\ app.config[tenant].tenantEnabled
    /\ principal.by = "token" =>
         /\ request.headers[app.config[tenant].header] \in Tokens
         /\ app.config[tenant].type # "web-app"
    /\ principal.by = "session" =>
         /\ request.cookie = tenant /\ built[tenant].login
         /\ app.config[tenant].type # "service"
    /\ app.guard.kind = "any" => \E role \in app.guard.roles : role \in principal.roles
    /\ app.guard.kind = "all" => \A role \in app.guard.roles : role \in principal.roles
    /\ app.guard.kind = "macro" /\ ~app.guard.anyone =>
         \E role \in app.guard.roles : role \in principal.roles

HandlerKnowsTheCaller == answer = "page" => IF principal = None THEN Stranger ELSE Known

(* A hybrid application takes a request with a well-formed token for an API *)
(* call and any other for a browser's.  A rejected token is never made up   *)
(* for by a session or a trip to the login, and a browser without a token   *)
(* is never asked for one.                                                  *)
TokenDecidesAlone ==
    /\ stage = "answered" /\ tenant # None
    /\ app.config[tenant].enabled /\ app.config[tenant].tenantEnabled
    /\ app.config[tenant].type = "hybrid" /\ built[tenant].login /\ ~request.callback
    =>
    IF request.headers[app.config[tenant].header] \in Tokens
    THEN /\ answer \in {"page", "unauthorized", "forbidden"}
         /\ principal # None => principal.by = "token"
    ELSE answer # "unauthorized" /\ (principal # None => principal.by = "session")

(* A token is accepted only as one of the issuer that the tenant's          *)
(* configuration names: the header, path or issuer that selected the tenant *)
(* does not decide it, and neither does a document that was fetched at the  *)
(* start.  The exception is a JWT that names no issuer and is verified with *)
(* the keys of the tenant.  Without an issuer in the configuration, with    *)
(* "any" and behind UserInfo nothing is compared.                           *)
NamesNoIssuer ==
    /\ Built.chain.first = "keys"
    /\ Token.jwt /\ Token.issuer = None /\ principal.issuer = None

TokenIsOfTenantsIssuer ==
    principal # None /\ principal.by = "token"
        /\ built[tenant].chain.first # "userinfo" /\ ExpectedIssuer(app.config[tenant]) # None
    => principal.issuer = ExpectedIssuer(app.config[tenant]) \/ NamesNoIssuer

(* With nothing else to go by, a path belongs to the tenant with the most   *)
(* specific pattern: no other tenant has a pattern that fits only paths     *)
(* that this one fits and names more of their segments, and without any     *)
(* named tenant it is the default tenant's.                                 *)
Literals(p) == {i \in DOMAIN p.segments : p.segments[i] # Star}

FittingPaths(p) == {path \in Paths : Fits(p, path)}

MoreSpecific(p, q) ==
    /\ Cardinality(Literals(q)) < Cardinality(Literals(p))
    /\ FittingPaths(p) \subseteq FittingPaths(q)

PathTenantIsMostSpecific ==
    stage = "selected" /\ ByHeader(app, request) = {} /\ ByIssuer(app, request) = {} =>
        \A t \in Range(app.order) : \A p \in PathsOf(app, t) :
            Fits(p, request.path) =>
                /\ tenant \in Range(app.order)
                /\ \E q \in PathsOf(app, tenant) : Fits(q, request.path) /\ ~MoreSpecific(p, q)

(* An application that sends browsers to the login can verify the ID tokens *)
(* they come back with, whatever validates its access tokens: otherwise it  *)
(* starts without complaint and every sign-in fails.                        *)
SignInHasVerifier ==
    stage \notin {"starting", "failed"} =>
        \A t \in DOMAIN built : built[t].login => built[t].idKeys # "none"
=============================================================================
