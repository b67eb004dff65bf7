------------------------------ MODULE JwksCache ------------------------------
(***************************************************************************)
(* The refreshing key set of jwks.rs (JwtKeys::decoding_key with           *)
(* RefreshingJwks) below the JWT validator of jwt.rs.                      *)
(*                                                                         *)
(* A token names the key it is signed with.  A name that the cached set    *)
(* does not know makes the request fetch the provider's set, at most once  *)
(* per interval for all requests together; everybody else with an unknown  *)
(* name is turned away meanwhile.  The mutexes are not held over the       *)
(* fetch: the throttle is set before it, the cache after it, and fetches   *)
(* that outlast the interval overlap.                                      *)
(*                                                                         *)
(* The provider's key sets are numbered in the order it publishes them,    *)
(* and a set is known by its number.  A name stands for one key.           *)
(***************************************************************************)
EXTENDS Integers, Sequences

CONSTANTS Requests,          \* the validations
          Keys,              \* the provider's keys, by their kid
          Schedule,          \* the key sets the provider publishes in turn
          Algorithm,         \* Algorithm[k]: what key k signs with
          Stating,           \* the keys whose JWK states its `alg`
          DefaultAlgorithm,  \* RS256
          NoKid,             \* a JWT header without `kid`
          Tokens,            \* the tokens presented
          NoToken, Never,
          Interval,          \* forced_refresh_interval, in ticks
          MaxTime            \* bound on the clock

ASSUME JwksAssumption ==
    /\ Schedule \in Seq(SUBSET Keys) /\ Schedule # <<>>
    /\ Tokens \subseteq [kid : Keys \cup {NoKid}, signer : Keys]
    /\ Stating \subseteq Keys
    /\ NoKid \notin Keys /\ NoToken \notin Tokens /\ Never \notin Nat
    /\ Interval \in Nat /\ MaxTime \in Nat

VARIABLES
    now,          \* SystemTime::now(), a clock that is not set back
    published,    \* the number of the set the provider publishes now
    current,      \* RefreshingJwks.current
    lastForced,   \* RefreshingJwks.last_forced_refresh
    pc,           \* where each request is in decoding_key
    token,        \* the token a request presented
    startedAt,    \* when a request began its fetch, if it did
    respondedAt,  \* when the provider answered it, if it did
    response      \* the set it answered with, 0 for none

vars == <<now, published, current, lastForced, pc, token, startedAt, respondedAt, response>>

Time == 0 .. MaxTime
Sets == DOMAIN Schedule
Points == {"start", "unknown", "fetching", "responded", "accepted", "rejected", "dropped"}

TypeOK ==
    /\ now \in Time
    /\ published \in Sets
    /\ current \in Sets
    /\ lastForced \in Time \cup {Never}
    /\ pc \in [Requests -> Points]
    /\ token \in [Requests -> Tokens \cup {NoToken}]
    /\ startedAt \in [Requests -> Time \cup {Never}]
    /\ respondedAt \in [Requests -> Time \cup {Never}]
    /\ response \in [Requests -> Sets \cup {0}]

(* The validator is built with the set that discovery fetched. *)
Init ==
    /\ now = 0
    /\ published = 1
    /\ current = 1
    /\ lastForced = Never
    /\ pc = [r \in Requests |-> "start"]
    /\ token = [r \in Requests |-> NoToken]
    /\ startedAt = [r \in Requests |-> Never]
    /\ respondedAt = [r \in Requests |-> Never]
    /\ response = [r \in Requests |-> 0]

-----------------------------------------------------------------------------
(* decoding_key_from_jwks on set n: the keys selected for a token, at most  *)
(* one; without a kid the only key of the set.                              *)
Selected(n, t) ==
    {k \in Schedule[n] : t.kid = k \/ (t.kid = NoKid /\ Schedule[n] = {k})}

(* The UnknownKid error, which alone is worth a fetch. *)
UnknownKid(n, t) == t.kid # NoKid /\ Selected(n, t) = {}

(* apply_jwks_algorithm_config: what the first set states, for good. *)
Algorithms ==
    LET stated == {Algorithm[k] : k \in Schedule[1] \cap Stating}
    IN  IF stated = {} THEN {DefaultAlgorithm} ELSE stated

(* decode: the selected key verifies the signature, and the algorithm is    *)
(* one the validator accepts.                                               *)
Verifies(n, t) == t.signer \in Selected(n, t) /\ Algorithm[t.signer] \in Algorithms

Verdict(n, t) == IF Verifies(n, t) THEN "accepted" ELSE "rejected"

-----------------------------------------------------------------------------
(* Slips: forms that some of the operators below could have by mistake.  No *)
(* specification uses them; they show that the properties can fail.         *)

(* Only a fetch that has succeeded counts: nothing is throttled meanwhile. *)
StartFetchUncounted(r) ==
    /\ pc[r] = "unknown"
    /\ ~(lastForced # Never /\ now - lastForced < Interval)
    /\ pc' = [pc EXCEPT ![r] = "fetching"]
    /\ startedAt' = [startedAt EXCEPT ![r] = now]
    /\ UNCHANGED <<now, published, current, lastForced, token, respondedAt, response>>

(* The throttle remembers when the fetch may be repeated. *)
StartFetchWithDeadline(r) ==
    /\ pc[r] = "unknown"
    /\ ~(lastForced # Never /\ now - lastForced < Interval)
    /\ lastForced' = now + Interval
    /\ pc' = [pc EXCEPT ![r] = "fetching"]
    /\ startedAt' = [startedAt EXCEPT ![r] = now]
    /\ UNCHANGED <<now, published, current, token, respondedAt, response>>

(* A request that is turned away renews the throttle. *)
RejectThrottledAnew(r) ==
    /\ pc[r] = "unknown"
    /\ lastForced # Never /\ now - lastForced < Interval
    /\ lastForced' = now
    /\ pc' = [pc EXCEPT ![r] = "rejected"]
    /\ UNCHANGED <<now, published, current, token, startedAt, respondedAt, response>>

(* A failed fetch may be repeated at once. *)
FetchFailsForgotten(r) ==
    /\ pc[r] = "fetching"
    /\ lastForced' = Never
    /\ pc' = [pc EXCEPT ![r] = "rejected"]
    /\ UNCHANGED <<now, published, current, token, startedAt, respondedAt, response>>

-----------------------------------------------------------------------------
(* should_force_refresh says no. *)
Throttled == lastForced # Never /\ now - lastForced < Interval

(* The cached set decides about a token, with a key of its own or because   *)
(* the token names none.                                                    *)
UseCached(r, t) ==
    /\ pc[r] = "start"
    /\ ~UnknownKid(current, t)
    /\ pc' = [pc EXCEPT ![r] = Verdict(current, t)]
    /\ token' = [token EXCEPT ![r] = t]
    /\ UNCHANGED <<now, published, current, lastForced, startedAt, respondedAt, response>>

(* The cached set does not know the key.  It is unlocked before the        *)
(* throttle is asked, so another request may replace it in between.         *)
MissKey(r, t) ==
    /\ pc[r] = "start"
    /\ UnknownKid(current, t)
    /\ pc' = [pc EXCEPT ![r] = "unknown"]
    /\ token' = [token EXCEPT ![r] = t]
    /\ UNCHANGED <<now, published, current, lastForced, startedAt, respondedAt, response>>

(* An unknown key within the interval of the last forced refresh. *)
RejectThrottled(r) ==
    /\ pc[r] = "unknown"
    /\ Throttled
    /\ pc' = [pc EXCEPT ![r] = "rejected"]
    /\ UNCHANGED <<now, published, current, lastForced, token, startedAt, respondedAt, response>>

(* An unknown key after it: the throttle is set before the fetch begins,    *)
(* whatever becomes of the fetch.                                           *)
StartFetch(r) ==
    /\ pc[r] = "unknown"
    /\ ~Throttled
    /\ lastForced' = now
    /\ pc' = [pc EXCEPT ![r] = "fetching"]
    /\ startedAt' = [startedAt EXCEPT ![r] = now]
    /\ UNCHANGED <<now, published, current, token, respondedAt, response>>

(* The provider answers with the set it publishes. *)
Respond(r) ==
    /\ pc[r] = "fetching"
    /\ pc' = [pc EXCEPT ![r] = "responded"]
    /\ respondedAt' = [respondedAt EXCEPT ![r] = now]
    /\ response' = [response EXCEPT ![r] = published]
    /\ UNCHANGED <<now, published, current, lastForced, token, startedAt>>

(* The fetch fails: no answer, an error status or a malformed document. *)
FetchFails(r) ==
    /\ pc[r] = "fetching"
    /\ pc' = [pc EXCEPT ![r] = "rejected"]
    /\ UNCHANGED <<now, published, current, lastForced, token, startedAt, respondedAt, response>>

(* The answer arrives.  If it has the key, it replaces the cached set,      *)
(* whatever that is by now, and decides about the token.                    *)
UseResponse(r) ==
    /\ pc[r] = "responded"
    /\ ~UnknownKid(response[r], token[r])
    /\ current' = response[r]
    /\ pc' = [pc EXCEPT ![r] = Verdict(response[r], token[r])]
    /\ UNCHANGED <<now, published, lastForced, token, startedAt, respondedAt, response>>

(* If it does not, the token is rejected before the set is replaced. *)
RejectResponse(r) ==
    /\ pc[r] = "responded"
    /\ UnknownKid(response[r], token[r])
    /\ pc' = [pc EXCEPT ![r] = "rejected"]
    /\ UNCHANGED <<now, published, current, lastForced, token, startedAt, respondedAt, response>>

(* The connection of the request ends while it fetches. *)
Drop(r) ==
    /\ pc[r] \in {"fetching", "responded"}
    /\ pc' = [pc EXCEPT ![r] = "dropped"]
    /\ UNCHANGED <<now, published, current, lastForced, token, startedAt, respondedAt, response>>

(* The provider rotates its keys. *)
Rotate ==
    /\ published + 1 \in Sets
    /\ published' = published + 1
    /\ UNCHANGED <<now, current, lastForced, pc, token, startedAt, respondedAt, response>>

Tick ==
    /\ now < MaxTime
    /\ now' = now + 1
    /\ UNCHANGED <<published, current, lastForced, pc, token, startedAt, respondedAt, response>>

Next ==
    \/ \E r \in Requests :
         \/ \E t \in Tokens : UseCached(r, t) \/ MissKey(r, t)
         \/ RejectThrottled(r)
         \/ StartFetch(r)
         \/ Respond(r)
         \/ FetchFails(r)
         \/ UseResponse(r)
         \/ RejectResponse(r)
         \/ Drop(r)
    \/ Rotate
    \/ Tick

Spec == Init /\ [][Next]_vars

-----------------------------------------------------------------------------
(* Fetches start at least an interval apart, whichever requests make them   *)
(* and whether they succeed, fail or are dropped: presenting unknown key    *)
(* names does not make the server flood its provider                        *)
(* (should_force_refresh).                                                  *)
FetchesAreSpaced ==
    \A r, s \in Requests :
        r # s /\ startedAt[r] # Never /\ startedAt[s] # Never =>
            \/ startedAt[r] - startedAt[s] >= Interval
            \/ startedAt[s] - startedAt[r] >= Interval

(* The reverse: a token is turned away without asking the provider only if  *)
(* the provider was asked less than an interval ago.  Tokens with unknown   *)
(* keys cannot postpone the next refresh by coming often.                   *)
TurnedAwayBriefly ==
    [][\A r \in Requests :
         (pc[r] = "unknown" /\ pc'[r] = "rejected") =>
             \E s \in Requests : startedAt[s] # Never /\ now - startedAt[s] < Interval]_vars

(* A set is replaced by an older one only if a fetch has taken longer than  *)
(* the interval: that of the request that replaces it, or the one that      *)
(* brought the newer set.  Fetches are not ordered otherwise                *)
(* (`*current = refreshed` in decoding_key).                                *)
Slow(r) == now - startedAt[r] >= Interval
SlowAnswer(s) == respondedAt[s] - startedAt[s] >= Interval

OlderSetOnlyAfterSlowFetch ==
    [][current' < current =>
         \E r \in Requests :
             /\ pc[r] = "responded" /\ pc'[r] \in {"accepted", "rejected"}
             /\ \/ Slow(r)
                \/ \E s \in Requests : response[s] = current /\ SlowAnswer(s)]_vars

=============================================================================
