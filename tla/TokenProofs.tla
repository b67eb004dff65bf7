----------------------------- MODULE TokenProofs -------------------------
(* Proofs about TokenValidation, for all tokens, claims, configurations and  *)
(* answers, and for clocks that run as far as one likes; and, in the second  *)
(* part, about SessionTokens, for all ID tokens and any number of refreshes. *)
EXTENDS TokenValidation, SessionTokens, TLAPS

(* Whose answer is awaited follows from the chain and from the token. *)
AwaitsItsChain ==
    /\ stage = "keys" => config.chain.first = "keys"
    /\ stage = "userinfo" => config.chain.first = "userinfo"
    /\ stage = "introspection" =>
         \/ config.chain.first = "introspection"
         \/ config.chain.first = "keys" /\ FallsBack(config, token)
    /\ stage = "roles" => config.chain.roles

(* The claims that a principal was made from, and what it looks like before *)
(* roles are loaded.                                                        *)
Source == IF vouched = "userinfo" THEN "userinfo" ELSE "accesstoken"

AsVouched ==
    principal = [subject |-> PrincipalName(config, voucher),
                 groups |-> RolesFrom(config, Source, voucher)]

PrincipalHasItsRoles ==
    vouched # "static" =>
        /\ stage = "roles" => AsVouched
        /\ stage = "accepted" =>
             IF config.chain.roles
               THEN principal.groups = RolesFrom(config, "userinfo", profile)
               ELSE AsVouched

IInv == TypeOK /\ AwaitsItsChain /\ AcceptedWasVouched /\ PrincipalHasItsRoles

-----------------------------------------------------------------------------
LEMMA Initially == Init => IInv
  BY ValidationAssumption
  DEF Init, IInv, TypeOK, AwaitsItsChain, AcceptedWasVouched, PrincipalHasItsRoles

(* A token that somebody vouches for at a time when the chain asked for it. *)
LEMMA VouchLemma ==
  ASSUME IInv, NEW who \in Vouchers \ {"static"}, NEW claims \in Claims,
         NEW source \in {"accesstoken", "userinfo"},
         source = IF who = "userinfo" THEN "userinfo" ELSE "accesstoken",
         Vouch(who, claims, source), UNCHANGED <<input, clock>>,
         who \in Authorities(config, token),
         who = "keys" => token.genuine /\ clock <= token.exp + config.grace,
         who # "userinfo" => AgeOk(config, claims, clock),
         PrincipalName(config, claims) # None
  PROVE  IInv'
<1> USE DEF IInv, input
<1>1. /\ vouched' = who /\ voucher' = claims /\ since' = clock /\ profile' = profile
      /\ config' = config /\ token' = token /\ clock' = clock
      /\ principal' = PrincipalOf(config, source, claims)
      /\ stage' = IF config.chain.roles THEN "roles" ELSE "accepted"
  BY DEF Vouch
<1>2. TypeOK'
  <2>1. clock \in Nat /\ clock' \in 0 .. clock'
    BY <1>1, ValidationAssumption DEF TypeOK
  <2>2. QED
    BY <1>1, <2>1, ValidationAssumption DEF TypeOK, Vouchers
<1>3. AwaitsItsChain'
  BY <1>1 DEF AwaitsItsChain
<1>4. AcceptedWasVouched'
  <2>1. vouched' \in Authorities(config', token')
    BY <1>1
  <2>2. vouched' = "keys" => token'.genuine /\ since' <= token'.exp + config'.grace
    BY <1>1
  <2>3. vouched' \in {"keys", "introspection"} /\ config'.age # None =>
           since' <= voucher'.iat + config'.age + config'.grace
    BY <1>1 DEF AgeOk
  <2>4. QED
    BY <2>1, <2>2, <2>3 DEF AcceptedWasVouched
<1>5. PrincipalHasItsRoles'
  BY <1>1 DEF PrincipalHasItsRoles, AsVouched, Source, PrincipalOf, PrincipalName, RolesFrom
<1>6. QED
  BY <1>2, <1>3, <1>4, <1>5

(* A step that goes on to another validator, or gives the token up. *)
LEMMA ProceedLemma ==
  ASSUME IInv, NEW to \in {"keys", "introspection", "userinfo", "rejected"},
         Proceed(to), UNCHANGED <<input, clock>>,
         to = "keys" => config.chain.first = "keys",
         to = "userinfo" => config.chain.first = "userinfo",
         to = "introspection" =>
            \/ config.chain.first = "introspection"
            \/ config.chain.first = "keys" /\ FallsBack(config, token)
  PROVE  IInv'
  BY DEF IInv, TypeOK, AwaitsItsChain, AcceptedWasVouched, PrincipalHasItsRoles, Proceed, input

LEMMA Invariance == IInv /\ [Next]_vars => IInv'
<1> SUFFICES ASSUME IInv, [Next]_vars PROVE IInv'
  OBVIOUS
<1> USE DEF IInv
<1>0. config \in Configs /\ token \in Tokens /\ clock \in Nat
  BY ValidationAssumption DEF TypeOK
<1>1. CASE Receive
  BY <1>1, ProceedLemma DEF Receive
<1>2. CASE ReceiveStatic
  <2>1. CASE Reject
    BY <1>2, <2>1, ProceedLemma DEF ReceiveStatic, Reject
  <2>2. CASE ~Reject
    <3>1. /\ config.chain.first = "static" /\ vouched' = "static"
          /\ stage' = IF config.chain.roles THEN "roles" ELSE "accepted"
          /\ UNCHANGED <<config, token, clock, voucher, profile, since>>
      BY <1>2, <2>2 DEF ReceiveStatic, input
    <3>2. TypeOK' /\ AwaitsItsChain' /\ PrincipalHasItsRoles'
      BY <3>1, ValidationAssumption DEF TypeOK, AwaitsItsChain, PrincipalHasItsRoles, Vouchers
    <3>3. Authorities(config, token) = {"static"}
      BY <3>1 DEF Authorities
    <3>4. AcceptedWasVouched'
      <4>1. vouched' \in Authorities(config', token')
        BY <3>1, <3>3
      <4>2. QED
        BY <3>1, <4>1 DEF AcceptedWasVouched
    <3>5. QED
      BY <3>2, <3>4
  <2>3. QED
    BY <2>1, <2>2
<1>3. CASE ReceiveWithoutValidator
  BY <1>3, ProceedLemma DEF ReceiveWithoutValidator, Reject
<1>4. CASE AcceptLocally
  <2>1. config.chain.first = "keys"
    BY <1>4 DEF AcceptLocally, AwaitsItsChain
  <2>2. "keys" \in Authorities(config, token)
    BY <2>1 DEF Authorities
  <2>3. /\ token.genuine /\ clock <= token.exp + config.grace
        /\ AgeOk(config, token.claims, clock)
        /\ PrincipalName(config, token.claims) # None
    BY <1>4 DEF AcceptLocally, LocallyValid, Decodes
  <2>4. token.claims \in Claims
    BY <1>0, ValidationAssumption
  <2>5. QED
    BY <1>4, <2>2, <2>3, <2>4, VouchLemma DEF AcceptLocally, Vouchers
<1>5. CASE RejectLocally
  BY <1>5, ProceedLemma DEF RejectLocally, Reject, AwaitsItsChain
<1>6. CASE Introspected
  <2>1. PICK i \in Introspections :
           IF RemotelyValid(config, i, clock)
             THEN Vouch("introspection", i.claims, "accesstoken")
             ELSE Reject
    BY <1>6 DEF Introspected
  <2>2. CASE ~RemotelyValid(config, i, clock)
    BY <1>6, <2>1, <2>2, ProceedLemma DEF Introspected, Reject
  <2>3. CASE RemotelyValid(config, i, clock)
    <3>1. "introspection" \in Authorities(config, token)
      BY <1>6 DEF Introspected, AwaitsItsChain, Authorities, FallsBack
    <3>2. AgeOk(config, i.claims, clock) /\ PrincipalName(config, i.claims) # None
      BY <2>3 DEF RemotelyValid
    <3>3. i.claims \in Claims
      BY ValidationAssumption
    <3>4. QED
      BY <1>6, <2>1, <2>3, <3>1, <3>2, <3>3, VouchLemma DEF Introspected, Vouchers
  <2>4. QED
    BY <2>2, <2>3
<1>7. CASE UserInfoAnswers
  <2>1. PICK claims \in Claims :
           IF UserInfoValid(config, claims, clock)
             THEN Vouch("userinfo", claims, "userinfo")
             ELSE Reject
    BY <1>7 DEF UserInfoAnswers
  <2>2. CASE ~UserInfoValid(config, claims, clock)
    BY <1>7, <2>1, <2>2, ProceedLemma DEF UserInfoAnswers, Reject
  <2>3. CASE UserInfoValid(config, claims, clock)
    <3>1. "userinfo" \in Authorities(config, token)
      BY <1>7 DEF UserInfoAnswers, AwaitsItsChain, Authorities
    <3>2. PrincipalName(config, claims) # None
      BY <2>3 DEF UserInfoValid
    <3>3. QED
      BY <1>7, <2>1, <2>3, <3>1, <3>2, VouchLemma DEF UserInfoAnswers, Vouchers
  <2>4. QED
    BY <2>2, <2>3
<1>8. CASE RolesAnswer
  <2>1. PICK claims \in Claims :
           IF claims.sub \in {None, principal.subject}
             THEN /\ principal' = [principal EXCEPT !.groups = RolesFrom(config, "userinfo", claims)]
                  /\ profile' = claims
                  /\ stage' = "accepted"
                  /\ UNCHANGED <<vouched, voucher, since>>
             ELSE Reject
    BY <1>8 DEF RolesAnswer
  <2>2. CASE claims.sub \notin {None, principal.subject}
    BY <1>8, <2>1, <2>2, ProceedLemma DEF RolesAnswer, Reject
  <2>3. CASE claims.sub \in {None, principal.subject}
    <3>1. /\ principal' = [principal EXCEPT !.groups = RolesFrom(config, "userinfo", claims)]
          /\ profile' = claims /\ stage = "roles" /\ stage' = "accepted"
          /\ UNCHANGED <<vouched, voucher, since, config, token, clock>>
      BY <1>8, <2>1, <2>3 DEF RolesAnswer, input
    <3>2. TypeOK' /\ AwaitsItsChain' /\ AcceptedWasVouched'
      BY <3>1 DEF TypeOK, AwaitsItsChain, AcceptedWasVouched
    <3>3. PrincipalHasItsRoles'
      <4>1. vouched # "static" => principal'.groups = RolesFrom(config, "userinfo", claims)
        BY <3>1 DEF PrincipalHasItsRoles, AsVouched
      <4>2. RolesFrom(config, "userinfo", claims) = RolesFrom(config, "userinfo", profile)'
        BY <3>1 DEF RolesFrom
      <4>3. config.chain.roles
        BY <3>1 DEF AwaitsItsChain
      <4>4. QED
        BY <3>1, <4>1, <4>2, <4>3 DEF PrincipalHasItsRoles
    <3>4. QED
      BY <3>2, <3>3
  <2>4. QED
    BY <2>2, <2>3
<1>9. CASE EndpointFails
  BY <1>9, ProceedLemma DEF EndpointFails, Reject
<1>10. CASE Tick
  <2>1. clock' \in 0 .. MaxClock /\ since \in 0 .. clock'
    BY <1>0, <1>10, ValidationAssumption DEF Tick, TypeOK
  <2>2. QED
    BY <1>10, <2>1
    DEF Tick, TypeOK, AwaitsItsChain, AcceptedWasVouched, PrincipalHasItsRoles, AsVouched,
        Source, input
<1>11. CASE UNCHANGED vars
  BY <1>11
  DEF vars, input, TypeOK, AwaitsItsChain, AcceptedWasVouched, PrincipalHasItsRoles, AsVouched,
      Source
<1>12. QED
  BY <1>1, <1>2, <1>3, <1>4, <1>5, <1>6, <1>7, <1>8, <1>9, <1>10, <1>11 DEF Next

THEOREM Inductive == Spec => []IInv
  BY Initially, Invariance, PTL DEF Spec

-----------------------------------------------------------------------------
(* The validators never get into a state that is none of theirs. *)
THEOREM TypeCorrect == Spec => []TypeOK
  BY Inductive, PTL DEF IInv

(* Nobody but an authority of the configuration vouches for a token, and    *)
(* expiry and age are judged when it does.                                  *)
THEOREM AcceptanceIsVouched == Spec => []AcceptedWasVouched
  BY Inductive, PTL DEF IInv
(* An ID token is not an access token: no validator of the chain with keys  *)
(* vouches for it, and only one that does lets it pass.                     *)
LEMMA KeysRefuseIdTokens ==
  ASSUME IInv, config.chain.first = "keys", config.tokenType = None, TypedAsIdToken(token),
         [Next]_vars, stage \notin {"roles", "accepted"}
  PROVE  stage' \notin {"roles", "accepted"}
<1>1. ~FallsBack(config, token)
  BY DEF FallsBack
<1>2. stage \notin {"introspection", "userinfo"}
  BY <1>1 DEF IInv, AwaitsItsChain
<1>3. ~LocallyValid(config, token, clock)
  BY DEF LocallyValid
<1>4. QED
  BY <1>1, <1>2, <1>3
  DEF Next, Receive, ReceiveStatic, ReceiveWithoutValidator, AcceptLocally, RejectLocally,
      Introspected, UserInfoAnswers, RolesAnswer, EndpointFails, Tick, Reject, Proceed, vars

IdTokenIsNotTaken ==
    config.chain.first = "keys" /\ config.tokenType = None /\ TypedAsIdToken(token)
        => stage \notin {"roles", "accepted"}

(* With local validation and no configured token type a JWT that says it is *)
(* an ID token is never accepted, whatever the endpoints answer.            *)
THEOREM IdTokensAreRefused == Spec => []IdTokenIsNoAccessToken
<1>1. Init => IdTokenIsNotTaken
  BY DEF Init, IdTokenIsNotTaken
<1>2. IInv /\ IdTokenIsNotTaken /\ [Next]_vars => IdTokenIsNotTaken'
  <2>1. [Next]_vars => config' = config /\ token' = token
    BY DEF Next, Receive, ReceiveStatic, ReceiveWithoutValidator, AcceptLocally, RejectLocally,
           Introspected, UserInfoAnswers, RolesAnswer, EndpointFails, Tick, vars, input
  <2>2. [Next]_vars => (TypedAsIdToken(token)' <=> TypedAsIdToken(token))
    BY <2>1 DEF TypedAsIdToken
  <2>3. QED
    BY <2>1, <2>2, KeysRefuseIdTokens DEF IdTokenIsNotTaken
<1>3. IdTokenIsNotTaken => IdTokenIsNoAccessToken
  BY DEF IdTokenIsNotTaken, IdTokenIsNoAccessToken
<1>4. QED
  BY <1>1, <1>2, <1>3, Inductive, PTL DEF Spec

(* A profile is loaded last, and for the name of the principal. *)
ProfileInv ==
    /\ stage # "accepted" => profile = None
    /\ stage = "accepted" /\ profile # None /\ vouched # "static" =>
         profile.sub \in {None, PrincipalName(config, voucher)}

LEMMA ProfileSteps == IInv /\ ProfileInv /\ [Next]_vars => ProfileInv'
<1> SUFFICES ASSUME IInv, ProfileInv, [Next]_vars PROVE ProfileInv'
  OBVIOUS
<1>1. CASE RolesAnswer
  <2>1. config' = config
    BY <1>1 DEF RolesAnswer, input
  <2>2. vouched # "static" /\ stage = "roles" => principal.subject = PrincipalName(config, voucher)
    BY DEF IInv, PrincipalHasItsRoles, AsVouched
  <2>3. QED
    BY <1>1, <2>1, <2>2 DEF RolesAnswer, ProfileInv, Reject, Proceed, PrincipalName
<1>2. CASE Tick \/ UNCHANGED vars
  BY <1>2 DEF Tick, vars, input, ProfileInv, PrincipalName
<1>3. CASE ~RolesAnswer /\ ~Tick /\ ~UNCHANGED vars
  <2>1. profile' = profile /\ stage # "accepted"
    BY <1>3
    DEF Next, Receive, ReceiveStatic, ReceiveWithoutValidator, AcceptLocally, RejectLocally,
        Introspected, UserInfoAnswers, EndpointFails, Reject, Proceed, Vouch
  <2>2. QED
    BY <2>1 DEF ProfileInv
<1>4. QED
  BY <1>1, <1>2, <1>3

(* Where the run userinfo_subject mixes identities, another claim than the  *)
(* subject gives the principal its name.  Where the name is the subject,    *)
(* roles are never taken from the profile of somebody else.                 *)
THEOREM SubjectsAreNotMixed ==
  (\A c \in Configs : \A claims \in Claims : PrincipalName(c, claims) \in {None, claims.sub})
    => (Spec => []IdentitiesAreNotMixed)
<1> SUFFICES ASSUME \A c \in Configs : \A claims \in Claims :
                       PrincipalName(c, claims) \in {None, claims.sub}
             PROVE  Spec => []IdentitiesAreNotMixed
  OBVIOUS
<1>1. Init => ProfileInv
  BY DEF Init, ProfileInv
<1>2. IInv /\ ProfileInv => IdentitiesAreNotMixed
  <2>1. SUFFICES ASSUME IInv, ProfileInv, stage = "accepted", vouched = "keys", profile # None
                 PROVE  profile.sub \in {None, voucher.sub}
    BY DEF IdentitiesAreNotMixed
  <2>2. config \in Configs /\ voucher \in Claims
    BY <2>1, ValidationAssumption DEF IInv, TypeOK
  <2>3. QED
    BY <2>1, <2>2 DEF ProfileInv
<1>3. QED
  BY <1>1, <1>2, ProfileSteps, Inductive, PTL DEF Spec

(* All roles of a principal come from one answer and from the configured    *)
(* source, however the token came to be accepted.                           *)
THEOREM RolesHaveOneSource == Spec => []RolesFromOneSource
<1>1. IInv => RolesFromOneSource
  <2>1. SUFFICES ASSUME IInv, stage = "accepted", vouched # "static"
                 PROVE  RolesFromOneSource
    BY DEF RolesFromOneSource
  <2>2. /\ vouched \in {"keys", "introspection", "userinfo"}
        /\ config.rolesSource \in {"accesstoken", "idtoken", "userinfo"}
    BY <2>1, ValidationAssumption DEF IInv, TypeOK, Vouchers
  <2>3. CASE config.chain.roles
    BY <2>1, <2>2, <2>3 DEF IInv, PrincipalHasItsRoles, RolesFrom, RolesFromOneSource
  <2>4. CASE ~config.chain.roles
    <3>1. principal.groups = RolesFrom(config, Source, voucher)
      BY <2>1, <2>4 DEF IInv, PrincipalHasItsRoles, AsVouched
    <3>2. QED
      BY <2>1, <2>2, <2>4, <3>1 DEF Source, RolesFrom, RolesFromOneSource
  <2>5. QED
    BY <2>3, <2>4
<1>2. QED
  BY <1>1, Inductive, PTL
-----------------------------------------------------------------------------
(* The other tokens of a response: SessionTokens, which judges ID tokens    *)
(* and keeps the session that they make.                                    *)

(* The session of the cookie is that of its sign-in: identity and roles are *)
(* inductive together with the types, which say that a session has an ID    *)
(* token to compare the next one with.                                      *)
SessionInv == SessionTypeOK /\ IdentityIsKept /\ RolesFollowIdToken

(* What a response makes of a session: it has the newest ID token, and with *)
(* roles from ID tokens those of that token.                                *)
LEMMA SessionIsNamed ==
  ASSUME settings \in Settings,
         NEW t \in IdTokens \cup {None}, NEW p \in Principals \cup {NoPrincipal},
         NEW previous \in IdTokens \cup {None},
         t # None \/ (previous # None /\ p # NoPrincipal)
  PROVE  /\ SessionOf(p, t, previous).idToken = RefreshedOrPrevious(t, previous)
         /\ RefreshedOrPrevious(t, previous) \in IdTokens
         /\ SessionOf(p, t, previous) # NoSession
         /\ settings.rolesInIdToken =>
              SessionOf(p, t, previous).principal.groups
                = RefreshedOrPrevious(t, previous).roles
         /\ SessionOf(p, t, previous).principal.subject
              = IF p # NoPrincipal THEN p.subject ELSE t.sub
<1> DEFINE idToken == RefreshedOrPrevious(t, previous)
           user == IF p # NoPrincipal THEN p ELSE [subject |-> t.sub, groups |-> {}]
<1>1. idToken \in IdTokens /\ idToken # None
  BY SessionTokensAssumption DEF RefreshedOrPrevious
<1>2. /\ user = [subject |-> user.subject, groups |-> {}]
      /\ user.subject = IF p # NoPrincipal THEN p.subject ELSE t.sub
  BY SessionTokensAssumption
<1>3. SessionOf(p, t, previous)
        = [principal |-> WithRoles(user, idToken), idToken |-> idToken]
  BY DEF SessionOf
<1> HIDE DEF idToken, user
<1>4. settings.rolesInIdToken => WithRoles(user, idToken).groups = idToken.roles
  BY <1>2 DEF WithRoles
<1>5. WithRoles(user, idToken).subject = user.subject
  BY <1>2 DEF WithRoles
<1>6. SessionOf(p, t, previous) # NoSession
  BY <1>1, <1>3 DEF NoSession
<1> QED
  BY <1>1, <1>2, <1>3, <1>4, <1>5, <1>6 DEF idToken

(* Nobody is signed in at first. *)
LEMMA SessionInitially == SessionInit => SessionInv
  BY DEF SessionInit, SessionInv, SessionTypeOK, IdentityIsKept,
         RolesFollowIdToken, NoSession

(* A refresh: the new ID token continues the last one, so it continues the  *)
(* first.                                                                   *)
LEMMA RefreshKeeps ==
  ASSUME SessionInv, NEW t \in IdTokens \cup {None},
         NEW p \in Principals \cup {NoPrincipal}, Refresh(t, p)
  PROVE  SessionInv'
<1> USE DEF SessionInv
<1> DEFINE previous == session.idToken
           next == RefreshedOrPrevious(t, previous)
<1>1. /\ pc = "in" /\ session' = SessionOf(p, t, previous)
      /\ p # NoPrincipal \/ t # None
      /\ t # None => Continues(t, previous)
      /\ named' = p.subject
      /\ UNCHANGED <<settings, pc, sent, original>>
  BY DEF Refresh
<1>2. /\ settings \in Settings
      /\ previous \in IdTokens /\ previous # None /\ original \in IdTokens
  BY <1>1 DEF SessionTypeOK
<1>3. /\ session'.idToken = next /\ next \in IdTokens /\ session' # NoSession
      /\ settings.rolesInIdToken => session'.principal.groups = next.roles
      /\ session'.principal.subject = IF p # NoPrincipal THEN p.subject ELSE t.sub
  <2>1. t # None \/ (previous # None /\ p # NoPrincipal)
    BY <1>1, <1>2
  <2> HIDE DEF previous, next
  <2>2. /\ SessionOf(p, t, previous).idToken = RefreshedOrPrevious(t, previous)
        /\ RefreshedOrPrevious(t, previous) \in IdTokens
        /\ SessionOf(p, t, previous) # NoSession
        /\ settings.rolesInIdToken =>
             SessionOf(p, t, previous).principal.groups
               = RefreshedOrPrevious(t, previous).roles
        /\ SessionOf(p, t, previous).principal.subject
             = IF p # NoPrincipal THEN p.subject ELSE t.sub
    BY <1>2, <2>1, SessionIsNamed
  <2> QED
    BY <1>1, <2>2 DEF next
<1>4. next # None
  BY <1>3, SessionTokensAssumption
<1>5. next = previous \/ Continues(next, previous)
  BY <1>1 DEF RefreshedOrPrevious
<1> HIDE DEF next
<1>6. /\ p # NoPrincipal => p.subject # None
      /\ named' = (IF p # NoPrincipal THEN p.subject ELSE None)
      /\ named' \in Subjects \cup {None}
  BY <1>1, SessionTokensAssumption DEF NoPrincipal, Subjects
<1>7. SessionTypeOK'
  BY <1>1, <1>2, <1>3, <1>4, <1>6 DEF SessionTypeOK
<1>8. RolesFollowIdToken'
  BY <1>1, <1>3 DEF RolesFollowIdToken
<1>9. IdentityIsKept'
  <2>1. /\ previous.sub = original.sub /\ previous.iss = original.iss
        /\ \A i \in DOMAIN previous.aud : Contains(original.aud, previous.aud[i])
        /\ original.authTime # None => previous.authTime = original.authTime
        /\ previous.nonce \in {None, original.nonce}
        /\ settings.nonceRequired => original.nonce = Nonce
    BY <1>1 DEF IdentityIsKept, IdTokenIsKept
  <2>2. ASSUME Continues(next, previous)
        PROVE  \A i \in DOMAIN next.aud : Contains(original.aud, next.aud[i])
    <3> SUFFICES ASSUME NEW i \in DOMAIN next.aud
                 PROVE  Contains(original.aud, next.aud[i])
      OBVIOUS
    <3>1. Contains(previous.aud, next.aud[i])
      BY <2>2 DEF Continues
    <3>2. PICK j \in DOMAIN previous.aud : previous.aud[j] = next.aud[i]
      BY <3>1, <1>2, SessionTokensAssumption DEF Contains
    <3> QED
      BY <2>1, <3>2
  <2>3. /\ next.sub = original.sub /\ next.iss = original.iss
        /\ original.authTime # None => next.authTime = original.authTime
        /\ next.nonce \in {None, original.nonce}
    BY <1>5, <2>1 DEF Continues
  <2>4. \A i \in DOMAIN next.aud : Contains(original.aud, next.aud[i])
    BY <1>5, <2>1, <2>2
  <2>5. session'.principal.subject = IF named' # None THEN named' ELSE original.sub
    <3>1. CASE p # NoPrincipal
      BY <1>3, <1>6, <3>1
    <3>2. CASE p = NoPrincipal
      BY <1>1, <1>3, <1>6, <2>1, <3>2 DEF Continues
    <3> QED
      BY <3>1, <3>2
  <2>6. IdTokenIsKept(session.idToken)'
    BY <1>1, <1>3, <2>1, <2>3, <2>4 DEF IdTokenIsKept
  <2> QED
    BY <1>1, <1>3, <1>4, <2>5, <2>6 DEF IdentityIsKept
<1> QED
  BY <1>7, <1>8, <1>9

(* A sign-in: the ID token is the first, and has the nonce that was sent.   *)
LEMMA SignInKeeps ==
  ASSUME SessionInv, SignIn
  PROVE  SessionInv'
<1> USE DEF SessionInv
<1>1. PICK t \in IdTokens, p \in Principals \cup {NoPrincipal} :
        /\ NonceOk(t, sent) /\ session' = SessionOf(p, t, None) /\ original' = t
        /\ named' = p.subject
  BY DEF SignIn
<1>2. /\ pc' = "in" /\ (settings.nonceRequired => sent # None)
      /\ UNCHANGED <<settings, sent>>
  BY DEF SignIn
<1>3. settings \in Settings /\ t # None
  BY SessionTokensAssumption DEF SessionTypeOK
<1>4. RefreshedOrPrevious(t, None) = t
  BY <1>3 DEF RefreshedOrPrevious
<1>5. /\ session'.idToken = t /\ session' # NoSession
      /\ settings.rolesInIdToken => session'.principal.groups = t.roles
      /\ session'.principal.subject = IF p # NoPrincipal THEN p.subject ELSE t.sub
  BY <1>1, <1>3, <1>4, SessionIsNamed
<1>6. settings.nonceRequired => t.nonce = Nonce
  BY <1>1, <1>2, SessionTokensAssumption DEF SessionTypeOK, NonceOk, Matches
<1>7. \A i \in DOMAIN t.aud : Contains(t.aud, t.aud[i])
  BY SessionTokensAssumption DEF Contains
<1>8. /\ p # NoPrincipal => p.subject # None
      /\ named' = (IF p # NoPrincipal THEN p.subject ELSE None)
      /\ named' \in Subjects \cup {None}
  BY <1>1, SessionTokensAssumption DEF NoPrincipal, Subjects
<1>9. session'.principal.subject = IF named' # None THEN named' ELSE t.sub
  BY <1>5, <1>8
<1> QED
  BY <1>1, <1>2, <1>3, <1>5, <1>6, <1>7, <1>8, <1>9
     DEF SessionTypeOK, IdentityIsKept, IdTokenIsKept, RolesFollowIdToken

(* Every step keeps the session what it was signed in as. *)
LEMMA SessionStep == SessionInv /\ [SessionNext]_sessionVars => SessionInv'
<1> SUFFICES ASSUME SessionInv, [SessionNext]_sessionVars
             PROVE  SessionInv'
  OBVIOUS
<1> USE DEF SessionInv, SessionTypeOK, IdentityIsKept, IdTokenIsKept, RolesFollowIdToken
<1>1. CASE Authorize
  BY <1>1 DEF Authorize
<1>2. CASE SignInFails
  BY <1>2 DEF SignInFails
<1>3. CASE SignIn
  BY <1>3, SignInKeeps
<1>4. ASSUME NEW t \in IdTokens \cup {None}, NEW p \in Principals \cup {NoPrincipal},
             Refresh(t, p)
      PROVE  SessionInv'
  BY <1>4, RefreshKeeps
<1>5. ASSUME NEW t \in IdTokens \cup {None}, NEW p \in Principals \cup {NoPrincipal},
             End(t, p)
      PROVE  SessionInv'
  BY <1>5 DEF End, NoSession
<1>6. CASE UNCHANGED sessionVars
  BY <1>6 DEF sessionVars
<1> QED
  BY <1>1, <1>2, <1>3, <1>4, <1>5, <1>6 DEF SessionNext

LEMMA SessionInvariance == SessionSpec => []SessionInv
  BY SessionInitially, SessionStep, PTL DEF SessionSpec

(* Type correctness: whoever is signed in has a session with an ID token,   *)
(* and nobody else has one.                                                 *)
THEOREM SessionTypeCorrect == SessionSpec => []SessionTypeOK
<1>1. SessionInv => SessionTypeOK
  BY DEF SessionInv
<1> QED
  BY <1>1, SessionInvariance, PTL

(* The ID token of a session stays one of the user, the provider and the    *)
(* authentication of the sign-in, however often it is refreshed, and the    *)
(* principal is that user whenever the last access token names nobody       *)
(* (validate_refreshed_id_token, web_app.rs:1106; validated_tokens, 656).   *)
THEOREM RefreshesKeepIdentity == SessionSpec => []IdentityIsKept
<1>1. SessionInv => IdentityIsKept
  BY DEF SessionInv
<1> QED
  BY <1>1, SessionInvariance, PTL

(* Where ID tokens are the source of roles, the roles are those of the ID   *)
(* token in the same session, also after a refresh without one              *)
(* (validated_tokens, web_app.rs:675).                                      *)
THEOREM RolesStayWithIdToken == SessionSpec => []RolesFollowIdToken
<1>1. SessionInv => RolesFollowIdToken
  BY DEF SessionInv
<1> QED
  BY <1>1, SessionInvariance, PTL
=============================================================================
