--------------------------- MODULE MCTokenValidation ---------------------------
(* A plain configuration, token and response, and those that differ from it *)
(* in one or two respects.  Every chain is combined with every other        *)
(* configuration.                                                           *)
EXTENDS TokenValidation

CONSTANTS Issuer, Audience, Other, Alice, Bob, Scope, Role1, Role2

Plain == [sub |-> Alice, iss |-> Issuer, aud |-> {Audience}, typ |-> None,
          iat |-> 1, name |-> None, own |-> None, scope |-> {Scope}, roles |-> {Role1}]

(* A user whose name is not the subject, another user, and flaws. *)
MCClaims ==
    {Plain, [Plain EXCEPT !.name = Bob], [Plain EXCEPT !.sub = Bob, !.roles = {Role2}],
     [Plain EXCEPT !.sub = None], [Plain EXCEPT !.iss = None], [Plain EXCEPT !.iss = Other],
     [Plain EXCEPT !.aud = {}], [Plain EXCEPT !.aud = {Other}], [Plain EXCEPT !.iat = None],
     [Plain EXCEPT !.iat = 3], [Plain EXCEPT !.typ = "at", !.own = Bob],
     [Plain EXCEPT !.scope = None, !.sub = None, !.own = Alice, !.roles = {Role2}]}

PlainToken == [shape |-> "jwt", header |-> None, genuine |-> TRUE, exp |-> 2, claims |-> Plain]

MCTokens ==
    {[PlainToken EXCEPT !.claims = k] : k \in MCClaims} \cup
    {[PlainToken EXCEPT !.header = h] : h \in {"JWT", "id_token", "at"}} \cup
    {[PlainToken EXCEPT !.genuine = FALSE], [PlainToken EXCEPT !.exp = None],
     [PlainToken EXCEPT !.exp = 1], [PlainToken EXCEPT !.shape = "opaque"],
     [PlainToken EXCEPT !.shape = "opaque", !.header = "id_token"]}

MCIntrospections == [active : BOOLEAN, claims : MCClaims]

PlainConfig ==
    [chain |-> [first |-> "keys", fallback |-> FALSE, roles |-> FALSE],
     issuer |-> None, authServer |-> Issuer, anyAudience |-> FALSE, audiences |-> {Audience},
     tokenType |-> None, subjectRequired |-> FALSE, issuedAtRequired |-> FALSE,
     required |-> [n \in {} |-> {}], principalClaim |-> FALSE, age |-> None, grace |-> 0,
     rolesSource |-> "accesstoken", allowJwtIntrospection |-> TRUE,
     allowOpaqueTokenIntrospection |-> TRUE,
     fixed |-> [subject |-> Bob, groups |-> {Role2}]]

Variants ==
    {PlainConfig,
     [PlainConfig EXCEPT !.issuer = AnyIssuer], [PlainConfig EXCEPT !.issuer = Other],
     [PlainConfig EXCEPT !.anyAudience = TRUE], [PlainConfig EXCEPT !.tokenType = "at"],
     [PlainConfig EXCEPT !.subjectRequired = TRUE, !.principalClaim = TRUE],
     [PlainConfig EXCEPT !.issuedAtRequired = TRUE, !.grace = 1],
     [PlainConfig EXCEPT !.required = [n \in {"aud", "scope"} |-> IF n = "aud" THEN {Audience} ELSE {Scope}]],
     [PlainConfig EXCEPT !.age = 1], [PlainConfig EXCEPT !.age = 0, !.grace = 1],
     [PlainConfig EXCEPT !.allowJwtIntrospection = FALSE],
     [PlainConfig EXCEPT !.allowOpaqueTokenIntrospection = FALSE],
     [PlainConfig EXCEPT !.rolesSource = "userinfo"], [PlainConfig EXCEPT !.rolesSource = "idtoken"]}

(* The builder puts a fallback only behind local validation, and loads      *)
(* roles from UserInfo only if that is their source.                        *)
MCChains == {ch \in Chains : ch.fallback => ch.first = "keys"}

MCConfigs ==
    {[c EXCEPT !.chain = ch, !.rolesSource = IF ch.roles THEN "userinfo" ELSE @] :
        c \in Variants, ch \in MCChains}
=============================================================================
