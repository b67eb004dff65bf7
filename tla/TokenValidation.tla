---------------------------- MODULE TokenValidation ----------------------------
(***************************************************************************)
(* One bearer token on its way through the validators of jwt.rs,           *)
(* introspection.rs, user_info.rs and validator.rs.                        *)
(*                                                                         *)
(* A chain of validators is first, the validator that is asked first, with *)
(* an introspection fallback behind it or not, and wrapped into a loader   *)
(* of roles from UserInfo or not.  Each asks somebody and awaits the       *)
(* answer: the key cache, the introspection endpoint, UserInfo.  Time      *)
(* passes at these awaits, and what comes back is what the provider likes  *)
(* to answer.  The validators share no state between requests.             *)
(***************************************************************************)
EXTENDS TokenClaims

CONSTANTS Configs,         \* configurations, with their chain of validators
          Tokens,          \* bearer tokens
          Claims,          \* claims in tokens and responses
          Introspections,  \* introspection responses
          MaxClock         \* bound on the clock

Chains == [first : {"keys", "introspection", "userinfo", "static", "none"},
           fallback : BOOLEAN,
           roles : BOOLEAN]

Vouchers == {"keys", "introspection", "userinfo", "static"}

ASSUME ValidationAssumption ==
    /\ MaxClock \in Nat /\ None \notin Nat /\ None \notin Vouchers /\ None # AnyIssuer
    /\ \A c \in Configs :
         /\ c.chain \in Chains /\ c.grace \in Nat
         /\ c.allowJwtIntrospection \in BOOLEAN
         /\ c.allowOpaqueTokenIntrospection \in BOOLEAN
         /\ c.rolesSource \in {"accesstoken", "idtoken", "userinfo"}
         /\ c.fixed.subject # None
    /\ \A t \in Tokens :
         /\ t.shape \in {"jwt", "opaque"} /\ t.claims \in Claims
         /\ t.genuine \in BOOLEAN /\ t.exp \in Nat \cup {None}
    /\ \A i \in Introspections : i.active \in BOOLEAN /\ i.claims \in Claims

VARIABLES
    config,     \* the configuration of this run
    token,      \* the token that is validated
    clock,      \* the time
    stage,      \* whom the validator awaits, or "done"
    principal,  \* the principal so far
    vouched,    \* who vouched for the token so far
    voucher,    \* the claims that were vouched for
    profile,    \* the UserInfo claims that roles were taken from
    since       \* when the request came, then when it was vouched for

input == <<config, token>>
vars == <<config, token, clock, stage, principal, vouched, voucher, profile, since>>

TypeOK ==
    /\ config \in Configs /\ token \in Tokens
    /\ clock \in 0 .. MaxClock
    /\ stage \in {"new", "keys", "introspection", "userinfo", "roles",
                  "accepted", "rejected"}
    /\ vouched \in Vouchers \cup {None}
    /\ voucher \in Claims \cup {None} /\ profile \in Claims \cup {None}
    /\ since \in 0 .. clock
    /\ stage \in {"roles", "accepted"} => vouched # None
    /\ vouched \notin {None, "static"} => voucher \in Claims

Init ==
    /\ config \in Configs /\ token \in Tokens
    /\ clock \in 0 .. MaxClock
    /\ stage = "new" /\ since = clock
    /\ principal = NoPrincipal /\ vouched = None
    /\ voucher = None /\ profile = None

-----------------------------------------------------------------------------
(* The header names an ID token: both spellings that the code knows.  It is *)
(* read also where the rest is no JWT.                                      *)
TypedAsIdToken(t) == t.header = "id_token"

(* A signature by a key of the provider, an expiry that has not passed by   *)
(* more than the grace, and an issuer and an audience that are not others   *)
(* than the configured ones.  The library looks only at claims it finds.    *)
Decodes(c, t, now) ==
    /\ t.shape = "jwt" /\ t.genuine
    /\ t.exp # None /\ now <= t.exp + c.grace
    /\ t.claims.iss # None => Matches(ExpectedIssuer(c), t.claims.iss)
    /\ AudienceChecked(c) /\ t.claims.aud # {} => t.claims.aud \cap c.audiences # {}

LocallyValid(c, t, now) ==
    /\ Decodes(c, t, now)
    /\ c.tokenType = None => ~TypedAsIdToken(t)
    /\ TokenTypeOk(c, t.header, t.claims)
    /\ SubjectOk(c, t.claims)
    /\ IssuedAtOk(c, t.claims, now)
    /\ RequiredClaimsOk(c, t.claims)
    /\ AgeOk(c, t.claims, now)
    /\ PrincipalName(c, t.claims) # None

RemotelyValid(c, i, now) ==
    /\ i.active
    /\ IntrospectionIssuerOk(c, i.claims)
    /\ IntrospectionAudienceOk(c, i.claims)
    /\ TokenTypeOk(c, None, i.claims)
    /\ SubjectOk(c, i.claims)
    /\ IssuedAtOk(c, i.claims, now)
    /\ RequiredClaimsOk(c, i.claims)
    /\ AgeOk(c, i.claims, now)
    /\ PrincipalName(c, i.claims) # None

UserInfoValid(c, claims, now) ==
    /\ SubjectOk(c, claims)
    /\ RequiredClaimsOk(c, claims)
    /\ claims.iat # None => AgeOk(c, claims, now)
    /\ PrincipalName(c, claims) # None

IntrospectionAllowed(c, t) ==
    IF t.shape = "jwt" THEN c.allowJwtIntrospection ELSE c.allowOpaqueTokenIntrospection

(* A slip: the type in the header only matters to the JWT validator. *)
FallsBackWheneverAllowed(c, t) == c.chain.fallback /\ IntrospectionAllowed(c, t)

(* A token that local validation turned down goes to introspection. *)
FallsBack(c, t) ==
    /\ c.chain.fallback
    /\ ~TypedAsIdToken(t)
    /\ IntrospectionAllowed(c, t)

-----------------------------------------------------------------------------
Proceed(to) == stage' = to /\ UNCHANGED <<principal, vouched, voucher, profile, since>>

Reject == Proceed("rejected")

(* Somebody vouched for the token with these claims.  If the chain loads    *)
(* roles from UserInfo, that is still to come.                              *)
Vouch(who, claims, source) ==
    /\ vouched' = who /\ voucher' = claims
    /\ principal' = PrincipalOf(config, source, claims)
    /\ since' = clock
    /\ stage' = IF config.chain.roles THEN "roles" ELSE "accepted"
    /\ UNCHANGED profile

Receive ==
    /\ stage = "new"
    /\ config.chain.first \in {"keys", "introspection", "userinfo"}
    /\ Proceed(config.chain.first)
    /\ UNCHANGED <<input, clock>>

(* A fixed token of a development setup, whose principal is fixed too. *)
ReceiveStatic ==
    /\ stage = "new" /\ config.chain.first = "static"
    /\ \/ /\ token.shape = "opaque"
          /\ vouched' = "static" /\ principal' = config.fixed
          /\ stage' = IF config.chain.roles THEN "roles" ELSE "accepted"
          /\ UNCHANGED <<voucher, profile, since>>
       \/ Reject
    /\ UNCHANGED <<input, clock>>

(* No validator was configured. *)
ReceiveWithoutValidator ==
    /\ stage = "new" /\ config.chain.first = "none"
    /\ Reject
    /\ UNCHANGED <<input, clock>>

(* A slip: the time is that before the key was fetched. *)
AcceptByTimeOfArrival ==
    /\ stage = "keys"
    /\ LocallyValid(config, token, since)
    /\ Vouch("keys", token.claims, "accesstoken")
    /\ UNCHANGED <<input, clock>>

(* The key cache has given a key, and the token is valid. *)
AcceptLocally ==
    /\ stage = "keys"
    /\ LocallyValid(config, token, clock)
    /\ Vouch("keys", token.claims, "accesstoken")
    /\ UNCHANGED <<input, clock>>

(* There is no key for the token, which can also be because the provider    *)
(* cannot be reached, or the token is not valid: the reason does not matter. *)
RejectLocally ==
    /\ stage = "keys"
    /\ IF FallsBack(config, token) THEN Proceed("introspection") ELSE Reject
    /\ UNCHANGED <<input, clock>>

Introspected ==
    /\ stage = "introspection"
    /\ \E i \in Introspections :
         IF RemotelyValid(config, i, clock)
           THEN Vouch("introspection", i.claims, "accesstoken")
           ELSE Reject
    /\ UNCHANGED <<input, clock>>

UserInfoAnswers ==
    /\ stage = "userinfo"
    /\ \E claims \in Claims :
         IF UserInfoValid(config, claims, clock)
           THEN Vouch("userinfo", claims, "userinfo")
           ELSE Reject
    /\ UNCHANGED <<input, clock>>

(* The roles of a token that was vouched for.  A subject in the answer is   *)
(* compared with the subject of the principal, which is its name.           *)
RolesAnswer ==
    /\ stage = "roles"
    /\ \E claims \in Claims :
         IF claims.sub \in {None, principal.subject}
           THEN /\ principal' = [principal EXCEPT !.groups = RolesFrom(config, "userinfo", claims)]
                /\ profile' = claims
                /\ stage' = "accepted"
                /\ UNCHANGED <<vouched, voucher, since>>
           ELSE Reject
    /\ UNCHANGED <<input, clock>>

(* A slip: a token is not turned down for an endpoint out of reach. *)
EndpointFailsOpen ==
    /\ stage \in {"introspection", "userinfo", "roles"}
    /\ Proceed("accepted")
    /\ UNCHANGED <<input, clock>>

(* An endpoint cannot be reached, or answers with an error or no JSON. *)
EndpointFails ==
    /\ stage \in {"introspection", "userinfo", "roles"}
    /\ Reject
    /\ UNCHANGED <<input, clock>>

Tick ==
    /\ clock < MaxClock
    /\ clock' = clock + 1
    /\ UNCHANGED <<input, stage, principal, vouched, voucher, profile, since>>

Next ==
    \/ Receive \/ ReceiveStatic \/ ReceiveWithoutValidator
    \/ AcceptLocally \/ RejectLocally \/ Introspected
    \/ UserInfoAnswers \/ RolesAnswer \/ EndpointFails \/ Tick

Spec == Init /\ [][Next]_vars

-----------------------------------------------------------------------------
(* Whose word the configuration takes for a token. *)
Authorities(c, t) ==
    CASE c.chain.first = "none" -> {}
      [] c.chain.first # "keys" -> {c.chain.first}
      [] OTHER -> {"keys"} \cup
                  IF c.chain.fallback /\ IntrospectionAllowed(c, t) /\ ~TypedAsIdToken(t)
                    THEN {"introspection"} ELSE {}

(* A token is accepted on the word of somebody whom the configuration takes *)
(* it from, whatever failed before, and by the time of that word: neither   *)
(* the expiry of a JWT nor a configured age has passed while the validator  *)
(* waited for a key or an answer (jwt.rs:171, introspection.rs:83).         *)
AcceptedWasVouched ==
    stage \in {"roles", "accepted"} =>
        /\ vouched \in Authorities(config, token)
        /\ vouched = "keys" => token.genuine /\ since <= token.exp + config.grace
        /\ vouched \in {"keys", "introspection"} /\ config.age # None =>
             since <= voucher.iat + config.age + config.grace

(* Where JWTs are validated locally and no token type is configured, a JWT  *)
(* that says it is an ID token is never taken for an access token: neither  *)
(* by the JWT validator nor, after it refused, by introspection             *)
(* (jwt.rs:178, introspection.rs:69).                                       *)
IdTokenIsNoAccessToken ==
    config.chain.first = "keys" /\ config.tokenType = None /\ TypedAsIdToken(token)
        => stage # "accepted"

(* The roles of a principal all come from one answer, and from the source   *)
(* that is configured: not from UserInfo and the token together, and not    *)
(* from a token that was turned down before introspection accepted it       *)
(* (config.rs:1037, user_info.rs:251).                                      *)
RolesFromOneSource ==
    stage = "accepted" /\ vouched # "static" =>
        principal.groups =
            CASE config.rolesSource = "accesstoken" ->
                   IF vouched = "userinfo" \/ config.chain.roles THEN {} ELSE voucher.roles
              [] config.rolesSource = "userinfo" ->
                   IF config.chain.roles THEN profile.roles
                   ELSE IF vouched = "userinfo" THEN voucher.roles ELSE {}
              [] OTHER -> {}

(* "The UserInfo `sub`, when present, must match the already-validated      *)
(* token subject to prevent mixing identities." (user_info.rs:180)          *)
IdentitiesAreNotMixed ==
    stage = "accepted" /\ vouched = "keys" /\ profile # None =>
        profile.sub \in {None, voucher.sub}
=============================================================================
