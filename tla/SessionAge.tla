------------------------------ MODULE SessionAge ------------------------------
(***************************************************************************)
(* A stored session growing old.  The server decides by the stored expiry  *)
(* when the session is refreshed and when it is over (session_context),    *)
(* the browser by the Max-Age of the cookie when it stops sending it.  The *)
(* configuration is any, the clock runs to the end of u64, where the       *)
(* saturating additions of TokenLifetime bite.                             *)
(***************************************************************************)
EXTENDS TokenLifetime

CONSTANT Expiries    \* the expiries and lifetimes a token response can state

ASSUME ExpiriesAssumption == Expiries \subseteq U64 \cup {Never}

VARIABLES now,       \* unix_timestamp()
          config,    \* the OidcRefreshConfig and the validator's grace
          session    \* the stored session; a set, empty before the sign-in

vars == <<now, config, session>>

(* A session: what the token response stated about its tokens, whether it   *)
(* came with a refresh token, the expiry stored for it, and the time at     *)
(* which its cookie was made.                                               *)
SessionsOf(states) ==
    [idToken : states, accessToken : states, granted : states,
     refreshToken : BOOLEAN, exp : U64 \cup {Never}, storedAt : U64]

TypeOK ==
    /\ now \in U64
    /\ config \in Lifetimes
    /\ \A s \in session : s \in SessionsOf(Expiries) /\ s.storedAt <= now

Init ==
    /\ now \in U64
    /\ config \in Lifetimes
    /\ session = {}

(* store_authentication after the code exchange or a refresh. *)
Store(idToken, accessToken, granted, refreshToken) ==
    /\ session = {}
    /\ session' = {[idToken |-> idToken, accessToken |-> accessToken, granted |-> granted,
                    refreshToken |-> refreshToken,
                    exp |-> ExpiresAt(idToken, accessToken, granted, now),
                    storedAt |-> now]}
    /\ UNCHANGED <<now, config>>

Tick ==
    /\ now < MaxU64
    /\ now' = now + 1
    /\ UNCHANGED <<config, session>>

Next ==
    \/ \E i, a, g \in Expiries, t \in BOOLEAN : Store(i, a, g, t)
    \/ Tick

Spec == Init /\ [][Next]_vars

-----------------------------------------------------------------------------
(* The browser still sends the cookie; one without Max-Age it keeps. *)
CookieSent(s) == s.exp = Never \/ now - s.storedAt < MaxAge(config, s.exp, s.storedAt)

(* What session_context does with the session now, with a second reading of *)
(* the clock at `later`.                                                    *)
TreatedAs(s, later) == Treatment(config, s.exp, s.refreshToken, now, later)

(* A lifetime too long for a Max-Age. *)
Capped(s) == s.exp # Never /\ MaxAge(config, s.exp, s.storedAt) = MaxI64

(* The browser does not lose a session that the server would still serve or *)
(* refresh, unless its lifetime does not fit into a Max-Age                 *)
(* (CookieTokenStateManager::max_age against StoredTokenState::freshness).  *)
UsableSessionIsSent ==
    \A s \in session : \A later \in now .. MaxU64 :
        TreatedAs(s, later) # "clear" => CookieSent(s) \/ Capped(s)

(* The browser does not send a session that is over: where refreshing is    *)
(* off or the session has a refresh token, the server never has to clear a  *)
(* cookie because of its age.  A session without a refresh token is kept by *)
(* the browser for the extension that only a refresh could use.             *)
SentSessionIsUsable ==
    \A s \in session :
        CookieSent(s) /\ (s.refreshToken \/ ~RefreshEnabled(config))
            => TreatedAs(s, now) # "clear"

(* No page is served from a stored session of which any token has expired,  *)
(* by its own statement or by that of the response, for longer than the     *)
(* grace period (StoredTokenState::from_response, ::freshness,              *)
(* session_context).  The outcome of a refresh, fresh or retained, is       *)
(* served without a look at its age (web_app.rs:301, 2348).                 *)
ServedTokensAreValid ==
    \A s \in session : TreatedAs(s, now) = "serve" =>
        /\ \A e \in {s.idToken, s.accessToken} \ {Never} : now < e + config.grace
        /\ s.granted # Never => now < s.storedAt + s.granted + config.grace

(* The proactive skew only makes refreshes earlier: a session that cannot   *)
(* be refreshed is served as long as its tokens have not expired, skew or   *)
(* not.  Time may pass between the two readings of the clock, and then the  *)
(* second one counts.                                                       *)
SkewEndsNoSession ==
    \A s \in session : \A later \in now .. MaxU64 :
        ~s.refreshToken =>
            /\ ~IsExpired(config, s.exp, later) => TreatedAs(s, later) = "serve"
            /\ TreatedAs(s, later) = "serve" => ~IsExpired(config, s.exp, now)

(* A session does not get better by getting older: once it must be          *)
(* refreshed it is not current again, and once it is over it stays over.    *)
Worse == [state \in {"current", "refresh-needed", "expired"} |->
            CASE state = "current" -> 0 [] state = "refresh-needed" -> 1 [] OTHER -> 2]

FreshnessOnlyDecays ==
    [][\A s \in session :
         Worse[Freshness(config, s.exp, now)] <= Worse[Freshness(config, s.exp, now')]]_vars
=============================================================================
