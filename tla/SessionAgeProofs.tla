--------------------------- MODULE SessionAgeProofs ---------------------------
(***************************************************************************)
(* The ages of sessions for every u64::MAX and i64::MAX, every             *)
(* configuration and every token response: the invariants of SessionAge    *)
(* follow from the types and from what the stored expiry is.               *)
(***************************************************************************)
EXTENDS SessionAge, TLAPS

(* The stored expiry is that of the response the session came with. *)
StoredExpiry ==
    \A s \in session : s.exp = ExpiresAt(s.idToken, s.accessToken, s.granted, s.storedAt)

IInv == TypeOK /\ StoredExpiry

-----------------------------------------------------------------------------
(* Saturating arithmetic stays in u64. *)
LEMMA Saturation ==
    ASSUME NEW a \in U64, NEW b \in U64
    PROVE  /\ Plus(a, b) \in U64
           /\ a <= Plus(a, b)
           /\ Plus(a, b) <= a + b
           /\ Minus(a, b) \in U64
BY LifetimeAssumption DEF U64, Plus, Minus

(* The stored expiry is a time, and none of the stated ones is before it. *)
LEMMA ExpiresAtIsEarliest ==
    ASSUME NEW i \in U64 \cup {Never}, NEW a \in U64 \cup {Never},
           NEW g \in U64 \cup {Never}, NEW n \in U64
    PROVE  /\ ExpiresAt(i, a, g, n) \in U64 \cup {Never}
           /\ i # Never => ExpiresAt(i, a, g, n) # Never /\ ExpiresAt(i, a, g, n) <= i
           /\ a # Never => ExpiresAt(i, a, g, n) # Never /\ ExpiresAt(i, a, g, n) <= a
           /\ g # Never => ExpiresAt(i, a, g, n) # Never /\ ExpiresAt(i, a, g, n) <= n + g
<1> DEFINE stated == ({i, a} \cup (IF g = Never THEN {} ELSE {Plus(n, g)})) \ {Never}
<1>1. stated \subseteq U64
  BY Saturation
<1>2. ASSUME stated # {}
      PROVE  Min(stated) \in stated /\ \A e \in stated : Min(stated) <= e
  <2>1. \E x \in stated : \A y \in stated : x <= y
    <3>1. \A x, y \in U64 : x <= y \/ y <= x
      BY LifetimeAssumption DEF U64
    <3>2. \A x, y, z \in U64 : x <= y /\ y <= z => x <= z
      BY LifetimeAssumption DEF U64
    <3>3. PICK p, q, r : stated \subseteq {p, q, r} /\ {p, q, r} \subseteq stated
      <4>1. \A x \in stated : x \in {i, a, Plus(n, g)}
        OBVIOUS
      <4>2. PICK x \in stated : TRUE
        BY <1>2
      <4> QED
        <5> DEFINE o(y) == IF y \in stated THEN y ELSE x
        <5>1. stated \subseteq {o(i), o(a), o(Plus(n, g))}
          BY <4>1
        <5>2. {o(i), o(a), o(Plus(n, g))} \subseteq stated
          BY <4>2
        <5> QED
          BY <5>1, <5>2
    <3>4. p \in U64 /\ q \in U64 /\ r \in U64
      BY <1>1, <3>3
    <3> HIDE DEF stated
    <3> QED
      BY <3>1, <3>2, <3>3, <3>4
  <2> QED
    BY <2>1 DEF Min
<1>3. (Plus(n, g) <= n + g /\ Plus(n, g) \in U64) \/ g = Never
  BY Saturation
<1>4. ExpiresAt(i, a, g, n) = IF stated = {} THEN Never ELSE Min(stated)
  BY DEF ExpiresAt
<1>5. \A e \in {i, a} \ {Never} : e \in stated
  OBVIOUS
<1>6. g # Never => Plus(n, g) \in stated
  BY <1>3, LifetimeAssumption DEF U64
<1>7. n \in Nat /\ (g # Never => g \in Nat)
  BY DEF U64
<1>8. Never \notin U64 /\ U64 \subseteq Nat
  BY LifetimeAssumption DEF U64
<1> HIDE DEF stated
<1>9. stated # {} => ExpiresAt(i, a, g, n) \in U64 /\ \A e \in stated : ExpiresAt(i, a, g, n) <= e
  BY <1>1, <1>2, <1>4
<1>10. ASSUME g # Never
       PROVE  ExpiresAt(i, a, g, n) # Never /\ ExpiresAt(i, a, g, n) <= n + g
  <2>1. ExpiresAt(i, a, g, n) \in Nat /\ ExpiresAt(i, a, g, n) <= Plus(n, g) /\ Plus(n, g) \in Nat
    BY <1>6, <1>8, <1>9, <1>10, <1>3
  <2> QED
    BY <2>1, <1>3, <1>7, <1>10, <1>8, LifetimeAssumption
<1> QED
  BY <1>4, <1>5, <1>8, <1>9, <1>10

-----------------------------------------------------------------------------
(* Every reachable session has its types and the expiry of its response. *)
LEMMA Invariance == Spec => []IInv
<1>1. Init => IInv
  BY DEF Init, IInv, TypeOK, StoredExpiry
<1>2. IInv /\ [Next]_vars => IInv'
  <2> SUFFICES ASSUME IInv, [Next]_vars
               PROVE  IInv'
    OBVIOUS
  <2> USE LifetimeAssumption, ExpiriesAssumption DEF IInv, TypeOK, StoredExpiry
  <2>1. ASSUME NEW i \in Expiries, NEW a \in Expiries, NEW g \in Expiries,
               NEW t \in BOOLEAN, Store(i, a, g, t)
        PROVE  IInv'
    <3>1. ExpiresAt(i, a, g, now) \in U64 \cup {Never}
      BY ExpiresAtIsEarliest
    <3>2. [idToken |-> i, accessToken |-> a, granted |-> g, refreshToken |-> t,
           exp |-> ExpiresAt(i, a, g, now), storedAt |-> now] \in SessionsOf(Expiries)
      BY <3>1 DEF SessionsOf
    <3> QED
      BY <2>1, <3>2 DEF Store, U64
  <2>2. ASSUME Tick
        PROVE  IInv'
    <3>1. now' \in U64 /\ now <= now'
      BY <2>2 DEF Tick, U64
    <3>2. \A s \in session : s.storedAt \in U64 /\ s.storedAt <= now'
      BY <3>1 DEF SessionsOf, U64
    <3> QED
      BY <2>2, <3>1, <3>2 DEF Tick
  <2>3. CASE UNCHANGED vars
    BY <2>3 DEF vars
  <2> QED
    BY <2>1, <2>2, <2>3 DEF Next
<1> QED
  BY <1>1, <1>2, PTL DEF Spec

(* Type correctness. *)
THEOREM TypeCorrect == Spec => []TypeOK
<1>1. IInv => TypeOK
  BY DEF IInv
<1> QED
  BY <1>1, Invariance, PTL

(* What the invariants are about: a session and a configuration of the      *)
(* state, and the two ends of the session's life in it.                     *)
LEMMA Session ==
    ASSUME TypeOK, NEW s \in session
    PROVE  /\ s.exp \in U64 \cup {Never} /\ s.storedAt \in U64 /\ s.storedAt <= now
           /\ s.refreshToken \in BOOLEAN
           /\ now \in U64 /\ U64 \subseteq Nat /\ Never \notin U64
           /\ config.grace \in U64 /\ config.extension \in U64
           /\ config.skew \in U64 \cup {Never}
           /\ s.exp # Never =>
                /\ ExpiresWithGrace(config, s.exp) \in U64
                /\ s.exp <= ExpiresWithGrace(config, s.exp)
                /\ ExpiresWithGrace(config, s.exp) <= s.exp + config.grace
                /\ RefreshableUntil(config, s.exp) \in U64
                /\ ExpiresWithGrace(config, s.exp) <= RefreshableUntil(config, s.exp)
<1> USE LifetimeAssumption
<1>1. /\ s.exp \in U64 \cup {Never} /\ s.storedAt \in U64 /\ s.storedAt <= now
      /\ s.refreshToken \in BOOLEAN
  BY DEF TypeOK, SessionsOf
<1>2. /\ now \in U64 /\ U64 \subseteq Nat /\ Never \notin U64
      /\ config.grace \in U64 /\ config.extension \in U64
      /\ config.skew \in U64 \cup {Never}
  BY DEF TypeOK, Lifetimes, U64
<1>3. ASSUME s.exp # Never
      PROVE  /\ ExpiresWithGrace(config, s.exp) \in U64
             /\ s.exp <= ExpiresWithGrace(config, s.exp)
             /\ ExpiresWithGrace(config, s.exp) <= s.exp + config.grace
             /\ RefreshableUntil(config, s.exp) \in U64
             /\ ExpiresWithGrace(config, s.exp) <= RefreshableUntil(config, s.exp)
  BY <1>1, <1>2, <1>3, Saturation DEF ExpiresWithGrace, RefreshableUntil
<1> QED
  BY <1>1, <1>2, <1>3

(* The browser keeps the cookie until the end of the session and no longer, *)
(* if that fits into a Max-Age.                                             *)
LEMMA CookieEnd ==
    ASSUME TypeOK, NEW s \in session, s.exp # Never
    PROVE  LET end == IF RefreshEnabled(config) THEN RefreshableUntil(config, s.exp)
                                                ELSE ExpiresWithGrace(config, s.exp)
           IN  /\ CookieSent(s) => now < end
               /\ now < end => CookieSent(s) \/ Capped(s)
<1> DEFINE end == IF RefreshEnabled(config) THEN RefreshableUntil(config, s.exp)
                                            ELSE ExpiresWithGrace(config, s.exp)
<1>1. end \in Nat /\ s.storedAt \in Nat /\ now \in Nat /\ s.storedAt <= now
  BY Session
<1>2. MaxAge(config, s.exp, s.storedAt) = Least(Minus(end, s.storedAt), MaxI64)
  BY DEF MaxAge
<1> HIDE DEF end
<1>3. /\ now - s.storedAt < Least(Minus(end, s.storedAt), MaxI64) => now < end
      /\ now < end => \/ now - s.storedAt < Least(Minus(end, s.storedAt), MaxI64)
                      \/ Least(Minus(end, s.storedAt), MaxI64) = MaxI64
  BY <1>1, LifetimeAssumption DEF Least, Minus
<1>4. /\ CookieSent(s) => now < end
      /\ now < end => CookieSent(s) \/ Capped(s)
  BY <1>2, <1>3 DEF CookieSent, Capped
<1> QED
  BY <1>4 DEF end

(* What session_context does with a session, by the two ends of its life.   *)
LEMMA TreatmentOf ==
    ASSUME TypeOK, NEW s \in session, NEW later \in now .. MaxU64
    PROVE  /\ TreatedAs(s, later) = "serve" => s.exp = Never \/ now < ExpiresWithGrace(config, s.exp)
           /\ TreatedAs(s, later) # "clear" /\ s.exp # Never =>
                now < IF RefreshEnabled(config) THEN RefreshableUntil(config, s.exp)
                                                ELSE ExpiresWithGrace(config, s.exp)
           /\ s.exp = Never => TreatedAs(s, later) = "serve"
           /\ s.exp # Never /\ now < ExpiresWithGrace(config, s.exp) =>
                \/ TreatedAs(s, now) = "serve"
                \/ (TreatedAs(s, now) = "refresh" /\ s.refreshToken)
           /\ s.exp # Never /\ later < ExpiresWithGrace(config, s.exp) =>
                \/ TreatedAs(s, later) = "serve"
                \/ (TreatedAs(s, later) = "refresh" /\ s.refreshToken)
           /\ /\ s.exp # Never /\ now < RefreshableUntil(config, s.exp)
              /\ RefreshEnabled(config) /\ s.refreshToken
              => TreatedAs(s, now) # "clear"
<1> USE DEF TreatedAs, Treatment, Freshness, Over, Due, IsExpired
<1>1. CASE s.exp = Never
  BY <1>1
<1>2. CASE s.exp # Never
  <2> DEFINE g == ExpiresWithGrace(config, s.exp)
             u == RefreshableUntil(config, s.exp)
             skewed == config.skew # Never /\ Plus(now, config.skew) > s.exp
  <2>1. now \in Nat /\ later \in Nat /\ now <= later /\ g \in Nat /\ u \in Nat /\ g <= u
    BY Session, <1>2 DEF U64
  <2>2. skewed => RefreshEnabled(config)
    BY DEF RefreshEnabled
  <2> HIDE DEF g, u, skewed
  <2>3. Freshness(config, s.exp, now) = IF now >= u THEN "expired"
                                        ELSE IF now >= g \/ skewed THEN "refresh-needed"
                                        ELSE "current"
    BY <1>2 DEF g, u, skewed
  <2>4. \A t \in {now, later} : IsExpired(config, s.exp, t) <=> t >= g
    BY <1>2 DEF g
  <2> HIDE DEF Freshness, IsExpired
  <2>5. s.refreshToken \in BOOLEAN
    BY Session
  <2>6. /\ TreatedAs(s, later) = "serve" => now < g
        /\ TreatedAs(s, later) # "clear" => now < IF RefreshEnabled(config) THEN u ELSE g
    BY <2>1, <2>2, <2>3, <2>4, <2>5
  <2>7. /\ now < g => \/ TreatedAs(s, now) = "serve"
                      \/ (TreatedAs(s, now) = "refresh" /\ s.refreshToken)
        /\ now < u /\ RefreshEnabled(config) /\ s.refreshToken => TreatedAs(s, now) # "clear"
    BY <2>1, <2>2, <2>3, <2>4, <2>5
  <2>8. later < g => \/ TreatedAs(s, later) = "serve"
                     \/ (TreatedAs(s, later) = "refresh" /\ s.refreshToken)
    BY <2>1, <2>2, <2>3, <2>4, <2>5
  <2> QED
    BY <1>2, <2>6, <2>7, <2>8 DEF g, u
<1> QED
  BY <1>1, <1>2

(* The browser keeps sending every session that the server could use.       *)
THEOREM UsableIsSent == Spec => []UsableSessionIsSent
<1>1. TypeOK => UsableSessionIsSent
  <2> SUFFICES ASSUME TypeOK, NEW s \in session, NEW later \in now .. MaxU64,
                      TreatedAs(s, later) # "clear"
               PROVE  CookieSent(s) \/ Capped(s)
    BY DEF UsableSessionIsSent
  <2>1. CASE s.exp = Never
    BY <2>1 DEF CookieSent
  <2>2. CASE s.exp # Never
    BY <2>2, TreatmentOf, CookieEnd
  <2> QED
    BY <2>1, <2>2
<1> QED
  BY <1>1, TypeCorrect, PTL

(* The server can use every session that the browser sends, but those       *)
(* without a refresh token in their extension.                              *)
THEOREM SentIsUsable == Spec => []SentSessionIsUsable
<1>1. TypeOK => SentSessionIsUsable
  <2> SUFFICES ASSUME TypeOK, NEW s \in session, CookieSent(s),
                      s.refreshToken \/ ~RefreshEnabled(config)
               PROVE  TreatedAs(s, now) # "clear"
    BY DEF SentSessionIsUsable
  <2>1. now \in now .. MaxU64
    BY Session DEF U64
  <2>2. CASE s.exp = Never
    BY <2>1, <2>2, TreatmentOf
  <2>3. CASE s.exp # Never
    BY <2>1, <2>3, TreatmentOf, CookieEnd
  <2> QED
    BY <2>2, <2>3
<1> QED
  BY <1>1, TypeCorrect, PTL

(* No page is served from a stored session with expired tokens. *)
THEOREM ServedIsValid == Spec => []ServedTokensAreValid
<1>1. IInv => ServedTokensAreValid
  <2> SUFFICES ASSUME IInv, NEW s \in session, TreatedAs(s, now) = "serve"
               PROVE  /\ \A e \in {s.idToken, s.accessToken} \ {Never} : now < e + config.grace
                      /\ s.granted # Never => now < s.storedAt + s.granted + config.grace
    BY DEF ServedTokensAreValid
  <2>0. TypeOK
    BY DEF IInv
  <2>1. s.exp = Never \/ (/\ now < ExpiresWithGrace(config, s.exp)
                          /\ ExpiresWithGrace(config, s.exp) <= s.exp + config.grace)
    <3>1. now \in now .. MaxU64
      BY <2>0, Session DEF U64
    <3> QED
      BY <2>0, <3>1, TreatmentOf, Session
  <2>2. /\ s.idToken \in U64 \cup {Never}
        /\ s.accessToken \in U64 \cup {Never}
        /\ s.granted \in U64 \cup {Never}
    BY <2>0, ExpiriesAssumption DEF TypeOK, SessionsOf
  <2>3. /\ s.idToken # Never => s.exp # Never /\ s.exp <= s.idToken
        /\ s.accessToken # Never => s.exp # Never /\ s.exp <= s.accessToken
        /\ s.granted # Never => s.exp # Never /\ s.exp <= s.storedAt + s.granted
    <3>1. s.exp = ExpiresAt(s.idToken, s.accessToken, s.granted, s.storedAt)
      BY DEF IInv, StoredExpiry
    <3>2. s.storedAt \in U64
      BY <2>0, Session
    <3> HIDE DEF IInv
    <3> QED
      <4>1. \A i, a, g \in U64 \cup {Never}, n \in U64 :
              /\ i # Never => ExpiresAt(i, a, g, n) # Never /\ ExpiresAt(i, a, g, n) <= i
              /\ a # Never => ExpiresAt(i, a, g, n) # Never /\ ExpiresAt(i, a, g, n) <= a
              /\ g # Never => ExpiresAt(i, a, g, n) # Never /\ ExpiresAt(i, a, g, n) <= n + g
        BY ExpiresAtIsEarliest
      <4> QED
        BY <2>2, <3>1, <3>2, <4>1
  <2>4. /\ now \in Nat /\ config.grace \in Nat /\ s.storedAt \in Nat
        /\ s.exp # Never => s.exp \in Nat /\ ExpiresWithGrace(config, s.exp) \in Nat
        /\ s.granted # Never => s.granted \in Nat
        /\ \A e \in {s.idToken, s.accessToken} \ {Never} : e \in Nat
    BY <2>0, <2>2, Session
  <2> QED
    BY <2>1, <2>3, <2>4
<1> QED
  BY <1>1, Invariance, PTL

(* The proactive skew shortens no session without a refresh token, also if  *)
(* time passes between the two readings of the clock.                       *)
THEOREM SkewIsHarmless == Spec => []SkewEndsNoSession
<1>1. TypeOK => SkewEndsNoSession
  <2> SUFFICES ASSUME TypeOK, NEW s \in session, NEW later \in now .. MaxU64, ~s.refreshToken
               PROVE  /\ ~IsExpired(config, s.exp, later) => TreatedAs(s, later) = "serve"
                      /\ TreatedAs(s, later) = "serve" => ~IsExpired(config, s.exp, now)
    BY DEF SkewEndsNoSession
  <2>1. CASE s.exp = Never
    BY <2>1, TreatmentOf DEF IsExpired
  <2>2. CASE s.exp # Never
    <3>1. now \in Nat /\ later \in Nat /\ ExpiresWithGrace(config, s.exp) \in Nat
      BY <2>2, Session DEF U64
    <3> QED
      BY <2>2, <3>1, TreatmentOf DEF IsExpired
  <2> QED
    BY <2>1, <2>2
<1> QED
  BY <1>1, TypeCorrect, PTL

(* Freshness never improves with time. *)
THEOREM FreshnessDecays == Spec => FreshnessOnlyDecays
<1> DEFINE Rank(s, t) == Worse[Freshness(config, s.exp, t)]
<1>1. TypeOK /\ TypeOK' /\ [Next]_vars => [\A s \in session : Rank(s, now) <= Rank(s, now')]_vars
  <2> SUFFICES ASSUME TypeOK, TypeOK', Next, NEW s \in session
               PROVE  Rank(s, now) <= Rank(s, now')
    BY DEF vars
  <2>1. now' \in U64 /\ now <= now'
    BY DEF Next, Store, Tick, TypeOK, U64
  <2>2. CASE s.exp = Never
    BY <2>2 DEF Freshness, Over, Due, Worse
  <2>3. CASE s.exp # Never
    <3> DEFINE g == ExpiresWithGrace(config, s.exp)
               u == RefreshableUntil(config, s.exp)
               skewed(t) == config.skew # Never /\ Plus(t, config.skew) > s.exp
    <3>1. now \in Nat /\ now' \in Nat /\ g \in Nat /\ u \in Nat
      BY <2>1, <2>3, Session
    <3>2. skewed(now) => skewed(now')
      <4> SUFFICES ASSUME config.skew # Never
                   PROVE  Plus(now, config.skew) > s.exp => Plus(now', config.skew) > s.exp
        OBVIOUS
      <4>1. config.skew \in Nat /\ s.exp \in Nat
        BY <2>3, Session
      <4> QED
        BY <4>1, <3>1, <2>1, LifetimeAssumption DEF Plus
    <3>3. \A t \in {now, now'} :
            Freshness(config, s.exp, t) = IF t >= u THEN "expired"
                                          ELSE IF t >= g \/ skewed(t) THEN "refresh-needed"
                                          ELSE "current"
      BY <2>3 DEF Freshness, Over, Due
    <3> HIDE DEF g, u, skewed
    <3>4. /\ Worse["current"] = 0 /\ Worse["refresh-needed"] = 1 /\ Worse["expired"] = 2
      BY DEF Worse
    <3> QED
      BY <2>1, <3>1, <3>2, <3>3, <3>4
  <2> QED
    BY <2>2, <2>3
<1> QED
  BY <1>1, TypeCorrect, PTL DEF Spec, FreshnessOnlyDecays
=============================================================================
