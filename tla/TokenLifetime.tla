---------------------------- MODULE TokenLifetime ----------------------------
(***************************************************************************)
(* The clock arithmetic of the web-app token state in web_app.rs: when a   *)
(* stored session is current, when it must be refreshed, when it is over,  *)
(* and how long the browser is told to keep its cookie.  The server and    *)
(* the browser decide from two different computations whose ends must      *)
(* meet.  Times are u64 seconds, and every addition saturates.             *)
(*                                                                         *)
(* Operators marked "Slip" are forms that the operator after them could    *)
(* have by mistake.  No specification uses them; they show that the        *)
(* properties can fail.                                                    *)
(***************************************************************************)
EXTENDS Integers, FiniteSetsExt

CONSTANTS MaxU64,    \* u64::MAX
          MaxI64,    \* i64::MAX, the largest Max-Age of a cookie
          Never      \* a session without a known expiry, an unset skew

ASSUME LifetimeAssumption ==
    /\ MaxI64 \in Nat \ {0}
    /\ MaxU64 \in Nat \ {0}
    /\ Never \notin Nat

U64 == 0 .. MaxU64

(* A configuration: refresh-expired, the proactive skew if one is set, the  *)
(* grace period and the session age extension.                              *)
Lifetimes == [refreshExpired : BOOLEAN, skew : U64 \cup {Never}, grace : U64, extension : U64]

(* saturating_add, saturating_sub, min *)
Plus(a, b) == IF a + b > MaxU64 THEN MaxU64 ELSE a + b
Minus(a, b) == IF a < b THEN 0 ELSE a - b
Least(a, b) == IF a < b THEN a ELSE b

(* WebApp::refresh_enabled: a skew alone enables refreshing. *)
RefreshEnabled(c) == c.refreshExpired \/ c.skew # Never

(* Slip: expires_in is added without saturation. *)
ExpiresAtOverflowing(idTokenExp, accessTokenExp, expiresIn, now) ==
    LET stated == ({idTokenExp, accessTokenExp} \cup
                     (IF expiresIn = Never THEN {} ELSE {now + expiresIn})) \ {Never}
    IN  IF stated = {} THEN Never ELSE Min(stated)

(* Slip: the ID token decides, if it states an expiry. *)
ExpiresAtOfIdToken(idTokenExp, accessTokenExp, expiresIn, now) ==
    IF idTokenExp # Never THEN idTokenExp
    ELSE IF expiresIn = Never THEN accessTokenExp ELSE Plus(now, expiresIn)

(* StoredTokenState::from_response: the earliest of the expiries that the   *)
(* response states: of its ID token, of its access token if that is a JWT,  *)
(* and of expires_in counted from now.                                      *)
ExpiresAt(idTokenExp, accessTokenExp, expiresIn, now) ==
    LET stated == ({idTokenExp, accessTokenExp} \cup
                     (IF expiresIn = Never THEN {} ELSE {Plus(now, expiresIn)})) \ {Never}
    IN  IF stated = {} THEN Never ELSE Min(stated)

ExpiresWithGrace(c, exp) == Plus(exp, c.grace)
RefreshableUntil(c, exp) == Plus(ExpiresWithGrace(c, exp), c.extension)

(* The session is over: it is not even refreshed any more. *)
Over(c, exp, now) == exp # Never /\ now >= RefreshableUntil(c, exp)

(* Slip: the skewed clock wraps around. *)
DueWithWrappingSkew(c, exp, now) ==
    /\ exp # Never
    /\ \/ now >= ExpiresWithGrace(c, exp)
       \/ c.skew # Never /\ (now + c.skew) % (MaxU64 + 1) > exp

(* The session should be refreshed: its tokens are expired, or about to.    *)
Due(c, exp, now) ==
    /\ exp # Never
    /\ \/ now >= ExpiresWithGrace(c, exp)
       \/ c.skew # Never /\ Plus(now, c.skew) > exp

(* StoredTokenState::freshness *)
Freshness(c, exp, now) ==
    IF Over(c, exp, now) THEN "expired"
    ELSE IF Due(c, exp, now) THEN "refresh-needed"
    ELSE "current"

(* StoredTokenState::is_expired *)
IsExpired(c, exp, now) == exp # Never /\ now >= ExpiresWithGrace(c, exp)

(* Slip: the extension is given to sessions that cannot be refreshed. *)
MaxAgeAlwaysExtended(c, exp, now) == Least(Minus(RefreshableUntil(c, exp), now), MaxI64)

(* Slip: the cookie ends with the tokens. *)
MaxAgeOfTokens(c, exp, now) == Least(Minus(ExpiresWithGrace(c, exp), now), MaxI64)

(* CookieTokenStateManager::max_age, for a session with an expiry; one      *)
(* without gets a cookie without Max-Age.                                   *)
MaxAge(c, exp, now) ==
    LET validUntil == IF RefreshEnabled(c) THEN RefreshableUntil(c, exp)
                                           ELSE ExpiresWithGrace(c, exp)
    IN  Least(Minus(validUntil, now), MaxI64)

(* Slip: a session without a refresh token is cleared when it would be      *)
(* refreshed.                                                               *)
TreatmentWithoutSecondLook(c, exp, hasRefreshToken, now, later) ==
    LET freshness == Freshness(c, exp, now)
    IN  CASE freshness = "current" -> "serve"
          [] freshness = "refresh-needed" /\ RefreshEnabled(c) /\ hasRefreshToken -> "refresh"
          [] OTHER -> "clear"

(* What session_context does with a session: serve it as it is, refresh it, *)
(* or clear its cookie.  A session without a refresh token is served until  *)
(* its tokens have expired, which a second reading of the clock decides.    *)
Treatment(c, exp, hasRefreshToken, now, later) ==
    LET freshness == Freshness(c, exp, now)
        refreshable == freshness = "refresh-needed" /\ RefreshEnabled(c)
    IN  CASE refreshable /\ hasRefreshToken -> "refresh"
          [] freshness = "current" -> "serve"
          [] refreshable /\ ~hasRefreshToken /\ ~IsExpired(c, exp, later) -> "serve"
          [] OTHER -> "clear"
=============================================================================
