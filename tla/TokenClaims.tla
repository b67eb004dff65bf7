------------------------------ MODULE TokenClaims ------------------------------
(***************************************************************************)
(* The checks that validation_claims.rs applies to the claims of a token,  *)
(* wherever these come from: a JWT, an introspection response or a         *)
(* UserInfo response are brought into one form before.                     *)
(*                                                                         *)
(* Claims are a record of sub, iss, typ and iat, which may be missing, the *)
(* set aud, the name that upn or preferred_username gives, own, the claim  *)
(* that oidc.token.principal-claim names, scope, which stands for the      *)
(* claims that can be required, and roles, what is at the role claim paths *)
(* after it was split.  Strings are model values.                          *)
(*                                                                         *)
(* The numbers are u64 and far from its end in this module; TokenLifetime  *)
(* has the saturation.                                                     *)
(***************************************************************************)
EXTENDS Naturals

CONSTANTS None,  \* a claim or an option that is missing
          AnyIssuer  \* "any" as the value of oidc.token.issuer

Matches(expected, actual) == expected = None \/ actual = expected

(* The issuer that is compared: that of the token configuration before the  *)
(* address of the provider, and none if it is "any".                        *)
ExpectedIssuer(c) ==
    LET issuer == IF c.issuer # None THEN c.issuer ELSE c.authServer
    IN IF issuer = AnyIssuer THEN None ELSE issuer

AudienceChecked(c) == ~c.anyAudience /\ c.audiences # {}

IntrospectionIssuerOk(c, claims) == Matches(ExpectedIssuer(c), claims.iss)

IntrospectionAudienceOk(c, claims) ==
    AudienceChecked(c) => claims.aud \cap c.audiences # {}

(* "JWT" as the type in the header says nothing and leaves it to the claim. *)
TokenTypeOk(c, header, claims) ==
    Matches(c.tokenType, IF header \in {None, "JWT"} THEN claims.typ ELSE header)

SubjectOk(c, claims) == c.subjectRequired => claims.sub # None

NotFromTheFuture(c, claims, now) == claims.iat <= now + c.grace

IssuedAtOk(c, claims, now) ==
    IF claims.iat = None THEN ~c.issuedAtRequired ELSE NotFromTheFuture(c, claims, now)

AgeOk(c, claims, now) ==
    c.age # None =>
        /\ claims.iat # None
        /\ NotFromTheFuture(c, claims, now)
        /\ now <= claims.iat + c.age + c.grace

(* The values of a claim, or None.  The audience is a list that is never    *)
(* missing.                                                                 *)
ClaimValues(claims, name) ==
    CASE name = "aud" -> claims.aud
      [] name = "scope" -> claims.scope
      [] name = "iat" -> IF claims.iat = None THEN None ELSE {claims.iat}
      [] OTHER -> IF claims[name] = None THEN None ELSE {claims[name]}

RequiredClaimsOk(c, claims) ==
    \A name \in DOMAIN c.required :
        LET values == ClaimValues(claims, name)
        IN values # None /\ c.required[name] \subseteq values

(* A configured principal claim has no substitute; without one the name     *)
(* falls back to the subject.                                               *)
PrincipalName(c, claims) ==
    IF c.principalClaim THEN claims.own
    ELSE IF claims.name # None THEN claims.name ELSE claims.sub

(* A slip: the paths are compiled for every source. *)
RolesFromAnySource(c, source, claims) == claims.roles

(* Role claim paths are compiled per source, and the paths of a source that *)
(* is not the configured one are empty.                                     *)
RolesFrom(c, source, claims) == IF c.rolesSource = source THEN claims.roles ELSE {}

NoPrincipal == [subject |-> None, groups |-> {}]

(* The principal of the claims, or none if they name nobody. *)
PrincipalOf(c, source, claims) ==
    IF PrincipalName(c, claims) = None THEN NoPrincipal
    ELSE [subject |-> PrincipalName(c, claims), groups |-> RolesFrom(c, source, claims)]
=============================================================================
