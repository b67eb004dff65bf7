--------------------------------- MODULE Setup ---------------------------------
(***************************************************************************)
(* What Oidc::discover_from_config and from_config().build() make of a     *)
(* configuration and of the provider's answers: the chain of validators    *)
(* for access tokens, the verifier of ID tokens, and whether there is a    *)
(* login.  It is decided once, when the application starts.                *)
(*                                                                         *)
(* A configuration has the fields issuer and authServer of TokenClaims,    *)
(* and wellKnown, the address of oidc.provider.  Its paths and the         *)
(* provider's document say of each endpoint whether it is missing, usable  *)
(* or bad, which means that it is no URL or no secure one.  The login      *)
(* endpoint stands for the authorization and the token endpoint.  "any" is *)
(* AnyIssuer.  The features of the crate are all on.                       *)
(***************************************************************************)
EXTENDS TokenClaims

Endpoints == {"missing", "usable", "bad"}

Types == {"service", "web-app", "hybrid"}

(* Service has no login. *)
Interactive(c) == c.type # "service"

NoChain == [first |-> "none", fallback |-> FALSE, roles |-> FALSE]

(* An OidcBuilder that nothing is installed in.  Without a validator every  *)
(* access token, and every ID token, is rejected.                           *)
Blank == [chain |-> NoChain, issuer |-> None, idKeys |-> "none", idIssuer |-> None,
          login |-> FALSE]

Chains == [first : {"none", "keys", "introspection", "userinfo"},
           fallback : BOOLEAN, roles : BOOLEAN]

-----------------------------------------------------------------------------
(* The configuration by itself. *)

(* Settings that this crate does not implement, and settings of a login     *)
(* for an application that is not a plain web application.                  *)
Refused(c) ==
    \/ c.unsupported
    \/ c.type # "web-app" /\ (c.rolesSource = "idtoken" \/ c.refresh)

(* The issuer that ID tokens are verified for.  "any" has no meaning here. *)
IdIssuer(c) == IF c.issuer # None THEN c.issuer ELSE c.authServer

PublicKeyUsable(c) == Interactive(c) => IdIssuer(c) # None /\ c.clientId

Loadable(c) == c.enabled => ~Refused(c) /\ (c.publicKey => PublicKeyUsable(c))

(* With a public key tokens are verified locally, from the start. *)
PublicKeyVerifier(c) ==
    [Blank EXCEPT !.chain.first = "keys", !.issuer = ExpectedIssuer(c),
                  !.idKeys = IF Interactive(c) THEN "fixed" ELSE "none",
                  !.idIssuer = IF Interactive(c) THEN IdIssuer(c) ELSE None]

FromConfig(c) == IF c.enabled /\ c.publicKey THEN PublicKeyVerifier(c) ELSE Blank

-----------------------------------------------------------------------------
(* Discovery. *)

ServerUrl(c) == IF c.authServer # None THEN c.authServer ELSE c.wellKnown

(* Nothing is asked of the provider: not even with discovery enabled. *)
Offline(c) == c.publicKey /\ c.type # "web-app"

UsesMetadata(c) == c.discovery /\ ~Offline(c)

Offered(c, p) == IF UsesMetadata(c) THEN p.document ELSE c.paths

(* Who decides about access tokens. *)
Policy(c) ==
    CASE c.introspectionOnly -> "introspection"
      [] ~c.introspectionOnly /\ c.userInfoOnly -> "userinfo"
      [] OTHER -> "keys"

UsesUserInfoRoles(c) == c.rolesSource = "userinfo" /\ ~c.userInfoOnly

(* A slip: the document is taken as it comes. *)
DocumentParsed(c, p) == p.reachable

(* The document is that of the issuer whose address it was fetched from,    *)
(* and all its endpoints are secure.                                        *)
DocumentValid(c, p) ==
    /\ p.reachable
    /\ p.issuer = ServerUrl(c) /\ p.document.jwks # "missing"
    /\ \A e \in DOMAIN p.document : p.document[e] # "bad"

LoginPossible(c, p) == Interactive(c) => c.clientId /\ Offered(c, p).login = "usable"

(* ID tokens need keys also where access tokens are not verified locally. *)
KeysLoad(c, p) ==
    Interactive(c) \/ Policy(c) = "keys" =>
        /\ p.reachable
        /\ Offered(c, p).jwks = "usable"
        /\ ~c.discovery /\ Policy(c) # "keys" => IdIssuer(c) # None

PolicyPossible(c, p) ==
    CASE Policy(c) = "introspection" -> Offered(c, p).introspection = "usable"
      [] Policy(c) = "userinfo" -> Offered(c, p).userinfo = "usable"
      [] OTHER -> UsesUserInfoRoles(c) => Offered(c, p).userinfo # "missing"

Discoverable(c, p) ==
    c.enabled =>
        /\ LoginPossible(c, p)
        /\ ~Offline(c) => ServerUrl(c) # None
        /\ UsesMetadata(c) => DocumentValid(c, p)
        /\ ~c.publicKey => KeysLoad(c, p) /\ PolicyPossible(c, p)

WithMetadataIssuer(c, p) == IF c.issuer = None THEN [c EXCEPT !.issuer = p.issuer] ELSE c

(* Behind local verification an introspection endpoint is a fallback, and   *)
(* UserInfo gives the roles.  Paths are resolved with auth-server-url only, *)
(* and those that cannot be are passed over.                                *)
Optional(c, p, e) ==
    Offered(c, p)[e] = "usable" /\ (c.discovery \/ c.authServer # None)

ChainOf(c, p) ==
    [first |-> Policy(c),
     fallback |-> Policy(c) = "keys" /\ Optional(c, p, "introspection"),
     roles |-> Policy(c) = "keys" /\ UsesUserInfoRoles(c) /\ Optional(c, p, "userinfo")]

(* Only validators of the chain with keys get the issuer of the document. *)
ChainIssuer(c, p) ==
    CASE Policy(c) = "userinfo" -> None
      [] Policy(c) = "keys" /\ c.discovery -> ExpectedIssuer(WithMetadataIssuer(c, p))
      [] OTHER -> ExpectedIssuer(c)

(* Keys for ID tokens are fetched again only beside keys for access tokens. *)
IdKeysOf(c) ==
    CASE ~Interactive(c) -> "none"
      [] Interactive(c) /\ Policy(c) # "keys" -> "fixed"
      [] Interactive(c) /\ Policy(c) = "keys" /\ c.discovery -> "refreshing"
      [] OTHER -> IF c.authServer # None THEN "fixed" ELSE "none"

IdIssuerOf(c, p) ==
    CASE IdKeysOf(c) = "none" -> None
      [] IdKeysOf(c) # "none" /\ c.discovery -> p.issuer
      [] IdKeysOf(c) # "none" /\ ~c.discovery /\ Policy(c) = "keys" -> c.authServer
      [] OTHER -> IdIssuer(c)

Discovered(c, p) ==
    IF ~c.enabled THEN Blank
    ELSE IF c.publicKey THEN [PublicKeyVerifier(c) EXCEPT !.login = Interactive(c)]
    ELSE [chain |-> ChainOf(c, p), issuer |-> ChainIssuer(c, p),
          idKeys |-> IdKeysOf(c), idIssuer |-> IdIssuerOf(c, p),
          login |-> Interactive(c)]
=============================================================================
