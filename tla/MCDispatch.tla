------------------------------- MODULE MCDispatch -------------------------------
(* One tenant with every combination of the settings that Setup looks at,  *)
(* and two named tenants and a default one with some plain settings, every *)
(* way of selection and overlapping paths.                                 *)
EXTENDS Dispatch

CONSTANTS A, B, Api, Admin, Own, Foreign, Reader, Writer, WellKnown

MCLength == [s \in {A, B, Api, Admin} |-> IF s = Admin THEN 5 ELSE 3]

Path(segments, slash) == [segments |-> segments, slash |-> slash]

MCPaths ==
    [segments : UNION {[1 .. n -> DOMAIN MCLength] : n \in 0 .. 3}, slash : BOOLEAN]

AllUsable == [e \in {"login", "introspection", "userinfo", "jwks"} |-> "usable"]

PlainConfig ==
    [type |-> "service", enabled |-> TRUE, tenantEnabled |-> TRUE, unsupported |-> FALSE,
     refresh |-> FALSE, publicKey |-> FALSE, issuer |-> None, authServer |-> Own,
     wellKnown |-> None, clientId |-> TRUE, discovery |-> TRUE, introspectionOnly |-> FALSE,
     userInfoOnly |-> FALSE, rolesSource |-> "accesstoken", paths |-> AllUsable,
     header |-> "authorization", tenantPaths |-> {}, id |-> None]

SomePaths ==
    {AllUsable} \cup
    {[AllUsable EXCEPT ![e] = v] : e \in DOMAIN AllUsable, v \in {"missing", "bad"}}

Answer(reachable, issuer, document) ==
    [reachable |-> reachable, issuer |-> issuer, document |-> document]

GoodAnswer == Answer(TRUE, Own, AllUsable)

ProviderAnswers ==
    {Answer(TRUE, Own, d) : d \in SomePaths} \cup
    {Answer(r, i, AllUsable) : r \in BOOLEAN, i \in {Own, Foreign, WellKnown}}

(* What decides about tokens, roles and keys. *)
Policies ==
    {[PlainConfig EXCEPT !.type = type, !.introspectionOnly = i, !.userInfoOnly = u,
                         !.rolesSource = source, !.publicKey = key] :
        type \in Types, i \in BOOLEAN, u \in BOOLEAN, key \in BOOLEAN,
        source \in {"accesstoken", "idtoken", "userinfo"}}

(* Issuers, switches and refusals. *)
Others ==
    {[PlainConfig EXCEPT !.type = type, !.issuer = i, !.authServer = server,
                         !.wellKnown = known, !.publicKey = key, !.discovery = d,
                         !.introspectionOnly = only] :
        type \in Types, i \in {None, AnyIssuer, Foreign}, server \in {None, Own},
        known \in {None, WellKnown}, key \in BOOLEAN, d \in BOOLEAN, only \in BOOLEAN} \cup
    {[PlainConfig EXCEPT !.type = type, !.enabled = e, !.tenantEnabled = t,
                         !.unsupported = u, !.refresh = r, !.clientId = id] :
        type \in Types, e \in BOOLEAN, t \in BOOLEAN, u \in BOOLEAN, r \in BOOLEAN,
        id \in BOOLEAN}

Guards ==
    {[kind |-> k, roles |-> {}, anyone |-> FALSE] : k \in {"open", "authenticated", "all"}} \cup
    {[kind |-> k, roles |-> {Reader, Writer}, anyone |-> FALSE] : k \in {"any", "all", "macro"}} \cup
    {[kind |-> "macro", roles |-> {}, anyone |-> TRUE]}

Application(order, default, byHeader, byIssuer, config, discover, guard) ==
    [order |-> order, hasDefault |-> default, byHeader |-> byHeader, byIssuer |-> byIssuer,
     config |-> config, discover |-> discover, guard |-> guard]

Authenticated == [kind |-> "authenticated", roles |-> {}, anyone |-> FALSE]

Single(c, discover, guard) ==
    Application(<<>>, TRUE, FALSE, FALSE, [t \in {Default} |-> c], discover, guard)

Env(a, p) == [app |-> a, provider |-> p]

SingleEnvironments ==
    {Env(Single(c, TRUE, Authenticated), p) : c \in Policies, p \in ProviderAnswers} \cup
    {Env(Single([c EXCEPT !.discovery = FALSE, !.paths = paths], TRUE, Authenticated),
         Answer(r, Own, AllUsable)) : c \in Policies, paths \in SomePaths, r \in BOOLEAN} \cup
    {Env(Single(c, discover, Authenticated), Answer(TRUE, i, AllUsable)) :
        c \in Others, discover \in BOOLEAN, i \in {Own, Foreign, WellKnown}} \cup
    {Env(Single([PlainConfig EXCEPT !.type = type, !.enabled = e, !.tenantEnabled = t], TRUE, g),
         GoodAnswer) : type \in Types, e \in BOOLEAN, t \in BOOLEAN, g \in Guards}

Patterns ==
    {{}, {Path(<<Api, Star>>, FALSE)}, {Path(<<Api, Admin>>, FALSE)},
     {Path(<<Star>>, FALSE), Path(<<A, Star>>, FALSE)}, {Path(<<Api, Star, Admin>>, FALSE)},
     {Path(<<Api, Admin, Star>>, FALSE)}}

TenantsOf(a, b, default, header) ==
    [t \in {A, B, Default} |->
        CASE t = A -> [PlainConfig EXCEPT !.tenantPaths = a, !.header = header]
          [] t = B -> [PlainConfig EXCEPT !.tenantPaths = b, !.type = "hybrid", !.issuer = Foreign,
                                          !.id = A]
          [] OTHER -> default]

MultiEnvironments ==
    {Env(Application(order, default, byHeader, byIssuer,
                     TenantsOf(a, b, [PlainConfig EXCEPT !.enabled = enabled, !.type = "web-app"], header),
                     TRUE, [kind |-> "open", roles |-> {}, anyone |-> FALSE]), GoodAnswer) :
        order \in {<<A, B>>, <<B, A>>}, default \in BOOLEAN, byHeader \in BOOLEAN,
        byIssuer \in BOOLEAN, a \in Patterns, b \in Patterns, enabled \in BOOLEAN,
        header \in {"authorization", "other"}}

MCEnvironments ==
    {e \in SingleEnvironments : e.app.config[Default].wellKnown = None} \cup MultiEnvironments

WellKnownEnvironments ==
    {e \in SingleEnvironments : e.app.config[Default].wellKnown # None}

MCTokens ==
    [jwt : {TRUE}, issuer : {Own, Foreign, None}] \cup [jwt : {FALSE}, issuer : {None}]

Request(selector, path, value, cookie, callback) ==
    [selector |-> selector, path |-> path, cookie |-> cookie, callback |-> callback,
     headers |-> [h \in {"authorization", "other"} |-> IF h = "other" THEN None ELSE value]]

Somewhere == Path(<<Api, Admin>>, FALSE)

MCRequests ==
    {Request(None, Somewhere, value, cookie, callback) :
        value \in MCTokens \cup {None, Malformed}, cookie \in {None, Default, B},
        callback \in BOOLEAN} \cup
    {Request(A, Somewhere, value, None, FALSE) : value \in MCTokens \cup {None}} \cup
    {Request(None, path, None, None, FALSE) :
        path \in {Path(<<>>, TRUE), Path(<<A>>, FALSE), Path(<<B, Api>>, FALSE),
                  Path(<<Api>>, TRUE), Path(<<Api, Admin>>, TRUE),
                  Path(<<Api, Api, Admin>>, FALSE), Path(<<Api, Admin, Admin>>, FALSE)}}
=============================================================================
