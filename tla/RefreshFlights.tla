---------------------------- MODULE RefreshFlights ----------------------------
(***************************************************************************)
(* The table of refresh flights of web_app.rs and the requests that use it *)
(* (RefreshFlights, RefreshLeaderGuard, WebApp::coordinated_refresh).      *)
(*                                                                         *)
(* Requests that present one refresh token share a flight.  The one that   *)
(* finds no flight becomes its leader and calls the token endpoint; the    *)
(* others wait for its outcome.  A finished flight stays in the table for  *)
(* a retention period and answers late requests.  A leader that is dropped *)
(* publishes a failure and then takes its flight out of the table: two     *)
(* steps, because the two are under different locks.                       *)
(*                                                                         *)
(* A flight is named by the request that created it; a request refreshes   *)
(* at most once.  Waiting on a flight is module RefreshFlight; here it is  *)
(* reading the outcome once there is one.                                  *)
(***************************************************************************)
EXTENDS Integers

CONSTANTS Requests,   \* requests whose token state needs a refresh
          Tokens,     \* refresh tokens, by their SHA-256 digest
          NoToken,    \* of a request that has not joined
          NoFlight,   \* no entry in the table, no flight joined
          Retention,  \* REFRESH_FLIGHT_RETENTION, in ticks
          MaxTime     \* bound on the clock

ASSUME FlightsAssumption ==
    /\ NoFlight \notin Requests
    /\ NoToken \notin Tokens
    /\ Retention \in Nat \ {0}
    /\ MaxTime \in Nat

VARIABLES
    now,          \* Instant::now()
    flights,      \* RefreshFlights: the flight of each token, if any
    outcome,      \* outcome[f]: of flight f, "none" until published
    completedAt,  \* completedAt[f]: meaningful once f has an outcome
    pc,           \* where each request is in coordinated_refresh
    token,        \* the token a request joined with
    joined,       \* the flight a request waits on
    result        \* what coordinated_refresh returned to a request

vars == <<now, flights, outcome, completedAt, pc, token, joined, result>>

Outcomes == {"Success", "Failed"}
Time == 0 .. MaxTime

(* The control points.  "gone" is a request that was dropped while it       *)
(* waited, "removing" and "abandoned" are a leader that was dropped while   *)
(* it called, before and after its entry is taken out of the table.         *)
Points == {"start", "leading", "waiting", "done", "gone", "removing", "abandoned"}

TypeOK ==
    /\ now \in Time
    /\ flights \in [Tokens -> Requests \cup {NoFlight}]
    /\ outcome \in [Requests -> Outcomes \cup {"none"}]
    /\ completedAt \in [Requests -> Time]
    /\ pc \in [Requests -> Points]
    /\ token \in [Requests -> Tokens \cup {NoToken}]
    /\ joined \in [Requests -> Requests \cup {NoFlight}]
    /\ result \in [Requests -> Outcomes \cup {"none"}]

Init ==
    /\ now = 0
    /\ flights = [k \in Tokens |-> NoFlight]
    /\ outcome = [f \in Requests |-> "none"]
    /\ completedAt = [f \in Requests |-> 0]
    /\ pc = [r \in Requests |-> "start"]
    /\ token = [r \in Requests |-> NoToken]
    /\ joined = [r \in Requests |-> NoFlight]
    /\ result = [r \in Requests |-> "none"]

-----------------------------------------------------------------------------
(* Slips: forms that some of the operators below could have by mistake.  No *)
(* specification uses them; they show that the properties can fail.         *)

(* The age of a flight is counted from no completion: one in progress is    *)
(* stale as soon as the clock has run for the retention period.             *)
StaleWhileInProgress(f) == now - completedAt[f] >= Retention

(* A request follows whatever flight there is. *)
JoinAnyFlight(r, k) ==
    /\ pc[r] = "start"
    /\ \E j \in Tokens :
         /\ flights[j] # NoFlight
         /\ joined' = [joined EXCEPT ![r] = flights[j]]
    /\ token' = [token EXCEPT ![r] = k]
    /\ pc' = [pc EXCEPT ![r] = "waiting"]
    /\ UNCHANGED <<now, flights, outcome, completedAt, result>>

(* The flight remembers when it expires, and not when it completed. *)
CompleteWithExpiry(r, o) ==
    /\ pc[r] = "leading"
    /\ outcome' = [outcome EXCEPT ![r] = o]
    /\ completedAt' = [completedAt EXCEPT ![r] = now + Retention]
    /\ pc' = [pc EXCEPT ![r] = "waiting"]
    /\ UNCHANGED <<now, flights, token, joined, result>>

(* A finished flight is taken out of the table at once. *)
CompleteAndRemove(r, o) ==
    /\ pc[r] = "leading"
    /\ outcome' = [outcome EXCEPT ![r] = o]
    /\ completedAt' = [completedAt EXCEPT ![r] = now]
    /\ flights' = [flights EXCEPT ![token[r]] = NoFlight]
    /\ pc' = [pc EXCEPT ![r] = "waiting"]
    /\ UNCHANGED <<now, token, joined, result>>

(* The drop of the guard takes the flight out and publishes nothing. *)
DropLeaderSilently(r) ==
    /\ pc[r] = "leading"
    /\ pc' = [pc EXCEPT ![r] = "removing"]
    /\ UNCHANGED <<now, flights, outcome, completedAt, token, joined, result>>

(* The drop of the guard publishes and leaves the flight in the table. *)
DropLeaderKeepingFlight(r) ==
    /\ pc[r] = "leading"
    /\ outcome' = [outcome EXCEPT ![r] = "Failed"]
    /\ completedAt' = [completedAt EXCEPT ![r] = now]
    /\ pc' = [pc EXCEPT ![r] = "abandoned"]
    /\ UNCHANGED <<now, flights, token, joined, result>>

(* The entry of the token is removed whichever flight it is. *)
RemoveAnyFlight(r) ==
    /\ pc[r] = "removing"
    /\ flights' = [flights EXCEPT ![token[r]] = NoFlight]
    /\ pc' = [pc EXCEPT ![r] = "abandoned"]
    /\ UNCHANGED <<now, outcome, completedAt, token, joined, result>>

-----------------------------------------------------------------------------
(* RefreshFlight::is_stale; a flight in progress is never stale. *)
Stale(f) == outcome[f] # "none" /\ now - completedAt[f] >= Retention

(* The table after `retain`: every join prunes the stale flights of all     *)
(* tokens first.                                                            *)
Retained ==
    [k \in Tokens |->
        IF flights[k] # NoFlight /\ Stale(flights[k]) THEN NoFlight ELSE flights[k]]

-----------------------------------------------------------------------------
(* join finds a flight: the request follows it. *)
JoinAsFollower(r, k) ==
    /\ pc[r] = "start"
    /\ Retained[k] # NoFlight
    /\ flights' = Retained
    /\ token' = [token EXCEPT ![r] = k]
    /\ joined' = [joined EXCEPT ![r] = Retained[k]]
    /\ pc' = [pc EXCEPT ![r] = "waiting"]
    /\ UNCHANGED <<now, outcome, completedAt, result>>

(* join finds none: the request inserts its own flight, holds the guard and *)
(* calls the token endpoint.                                                *)
JoinAsLeader(r, k) ==
    /\ pc[r] = "start"
    /\ Retained[k] = NoFlight
    /\ flights' = [Retained EXCEPT ![k] = r]
    /\ token' = [token EXCEPT ![r] = k]
    /\ joined' = [joined EXCEPT ![r] = r]
    /\ pc' = [pc EXCEPT ![r] = "leading"]
    /\ UNCHANGED <<now, outcome, completedAt, result>>

(* The response was read and validated, or either failed: the leader        *)
(* publishes, keeps the flight in the table and waits like the others.      *)
Complete(r, o) ==
    /\ pc[r] = "leading"
    /\ outcome' = [outcome EXCEPT ![r] = o]
    /\ completedAt' = [completedAt EXCEPT ![r] = now]
    /\ pc' = [pc EXCEPT ![r] = "waiting"]
    /\ UNCHANGED <<now, flights, token, joined, result>>

(* The future of the leader is dropped at an await: the guard is armed and  *)
(* its drop publishes a failure ...                                         *)
DropLeader(r) ==
    /\ pc[r] = "leading"
    /\ outcome' = [outcome EXCEPT ![r] = "Failed"]
    /\ completedAt' = [completedAt EXCEPT ![r] = now]
    /\ pc' = [pc EXCEPT ![r] = "removing"]
    /\ UNCHANGED <<now, flights, token, joined, result>>

(* ... and then removes the entry if it is still this flight (ptr_eq). *)
RemoveFlight(r) ==
    /\ pc[r] = "removing"
    /\ flights' = [flights EXCEPT ![token[r]] = IF @ = r THEN NoFlight ELSE @]
    /\ pc' = [pc EXCEPT ![r] = "abandoned"]
    /\ UNCHANGED <<now, outcome, completedAt, token, joined, result>>

(* wait() returns the outcome of the flight. *)
ReturnOutcome(r) ==
    /\ pc[r] = "waiting"
    /\ outcome[joined[r]] # "none"
    /\ result' = [result EXCEPT ![r] = outcome[joined[r]]]
    /\ pc' = [pc EXCEPT ![r] = "done"]
    /\ UNCHANGED <<now, flights, outcome, completedAt, token, joined>>

(* A follower is dropped while it waits.  A leader does not suspend between *)
(* complete and the poll of wait that finds its own outcome.                *)
DropWaiter(r) ==
    /\ pc[r] = "waiting"
    /\ joined[r] # r
    /\ pc' = [pc EXCEPT ![r] = "gone"]
    /\ UNCHANGED <<now, flights, outcome, completedAt, token, joined, result>>

Tick ==
    /\ now < MaxTime
    /\ now' = now + 1
    /\ UNCHANGED <<flights, outcome, completedAt, pc, token, joined, result>>

RequestNext(r) ==
    \/ \E k \in Tokens : JoinAsFollower(r, k) \/ JoinAsLeader(r, k)
    \/ \E o \in Outcomes : Complete(r, o)
    \/ DropLeader(r)
    \/ RemoveFlight(r)
    \/ ReturnOutcome(r)
    \/ DropWaiter(r)

Next == Tick \/ \E r \in Requests : RequestNext(r)

(* A request that is woken is polled again and returns.  Nothing is assumed  *)
(* of the call of a leader: the HTTP client bounds the time to connect and   *)
(* nothing else, so a call may never end.                                    *)
Fairness == \A r \in Requests : WF_vars(ReturnOutcome(r))

Spec == Init /\ [][Next]_vars /\ Fairness

-----------------------------------------------------------------------------
Leaders == {r \in Requests : pc[r] = "leading"}

(* No two requests are at the token endpoint with one refresh token: a      *)
(* provider that rotates refresh tokens never sees one presented by two     *)
(* concurrent calls (coordinated_refresh, RefreshFlights::join, ::remove).  *)
OneLeaderPerToken ==
    \A r, s \in Leaders : token[r] = token[s] => r = s

(* A request is answered with the outcome of a call made with its own       *)
(* refresh token, so that the session it continues is its own.              *)
AnswerIsForOwnToken ==
    \A r \in Requests : pc[r] = "done" =>
        /\ token[joined[r]] = token[r]
        /\ result[r] = outcome[joined[r]]

(* After a call with a token has ended, no other call is made with it for   *)
(* the retention period, unless the leader of the first was dropped: a late *)
(* request with the token that the first call may have rotated out gets the *)
(* outcome of that call and does not replay the token.                      *)
OneCallPerRetention ==
    [][\A f, g \in Requests :
         (/\ pc[g] = "start" /\ pc'[g] = "leading"
          /\ joined[f] = f /\ token[f] = token'[g]
          /\ pc[f] \in {"waiting", "done"})
         => now - completedAt[f] >= Retention]_vars

(* A dropped leader leaves nothing behind: its failure can be found in the  *)
(* table only while its guard is being dropped, so that the next request    *)
(* tries again.  The test cancelled_leader_fails_followers_and_allows_retry *)
(* has one token and no request between the two steps of the drop.          *)
AbandonedFlightIsForgotten ==
    \A k \in Tokens :
        flights[k] # NoFlight => pc[flights[k]] # "abandoned"

(* Once the call of a flight has ended, by an answer, by an error or by the *)
(* drop of its leader at any await, every request that waits on the flight  *)
(* is answered or dropped: no end of a call leaves its waiters behind       *)
(* (complete, Drop of RefreshLeaderGuard, wait, which has no timeout).      *)
WaitersAnswered ==
    \A r \in Requests :
        (pc[r] = "waiting" /\ pc[joined[r]] # "leading") ~> pc[r] \in {"done", "gone"}

-----------------------------------------------------------------------------
(* The table implements SingleFlight: a dropped leader is gone as soon as   *)
(* its future is, and the calls finished with a token are the flights of    *)
(* that token that have an outcome.                                         *)
AbstractPhase ==
    [r \in Requests |->
        CASE pc[r] = "start" -> "idle"
          [] pc[r] \in {"leading", "waiting"} -> "asking"
          [] pc[r] = "done" -> "answered"
          [] OTHER -> "gone"]

FinishedCalls ==
    [k \in Tokens |->
        {outcome[f] : f \in {f \in Requests : token[f] = k /\ outcome[f] # "none"}}]

Abstract == INSTANCE SingleFlight
                WITH phase <- AbstractPhase, token <- token, answer <- result,
                     callers <- Leaders, finished <- FinishedCalls

ImplementsSingleFlight == Abstract!ASpec
=============================================================================
