------------------------- MODULE WebAppSessionProofs -------------------------
(***************************************************************************)
(* Sessions of any number of browsers and requests: nobody gets the        *)
(* session of another browser, and a refresh token is replayed to the      *)
(* provider only late or after a lost response.  The invariant of the      *)
(* table of flights (RefreshFlightsProofs) is used as it is: every step    *)
(* of the sessions is a step of the table or leaves it alone.              *)
(***************************************************************************)
EXTENDS WebAppSession, TLAPS

Table == INSTANCE RefreshFlightsProofs

(* A session continues the one its refresh token was issued for. *)
Owned(s) == s \in Sessions /\ owner[s.token] = s.user

(* What a browser stores and sends is its own. *)
BrowserInv ==
    /\ \A b \in Browsers : jar[b].session # NoSession =>
         Owned(jar[b].session) /\ jar[b].session.user = b
    /\ \A r \in Requests : cookie[r] # NoSession =>
         Owned(cookie[r]) /\ cookie[r].user = from[r]

(* A request in a flight has joined it with the token of its cookie, and    *)
(* the session issued to a flight continues the one of its token.           *)
FlightInv ==
    \A r \in Requests :
        /\ pc[r] # "start" => cookie[r] # NoSession /\ token[r] = cookie[r].token
        /\ issued[r] # NoSession =>
             /\ pc[r] # "start" /\ joined[r] = r
             /\ Owned(issued[r]) /\ issued[r].user = owner[token[r]]
        /\ outcome[r] = "Success" => issued[r] # NoSession
        /\ pc[r] \in {"removing", "abandoned"} => outcome[r] = "Failed"
        /\ r \in refused => pc[r] # "start" /\ issued[r] = NoSession /\ token[r] \in spent

ReplyInv ==
    \A m \in replies : \A s \in {m.page} \cup {c.session : c \in m.set} :
        s # NoSession => Owned(s) /\ s.user = from[m.to]

IInv ==
    /\ TypeOK /\ Table!IInv
    /\ BrowserInv /\ FlightInv /\ ReplyInv
    /\ RotatedTokenIsReplayedLate

-----------------------------------------------------------------------------
(* Every step is one of the table or leaves the table alone. *)
LEMMA TableSteps == TypeOK /\ BrowserInv /\ [Next]_vars => [Table!Next]_flightVars
<1> SUFFICES ASSUME TypeOK, BrowserInv, [Next]_vars
             PROVE  Table!Next \/ UNCHANGED flightVars
  BY DEF flightVars
<1> USE DEF flightVars, Table!Next, Table!RequestNext
<1>1. ASSUME NEW r \in Requests, StartRefresh(r)
      PROVE  Table!Next
  <2>1. cookie[r].token \in Tokens
    BY <1>1 DEF StartRefresh, TypeOK, Sessions
  <2>2. \/ Flights!JoinAsFollower(r, cookie[r].token)
        \/ Flights!JoinAsLeader(r, cookie[r].token)
    BY <1>1 DEF StartRefresh
  <2>3. \/ Table!JoinAsFollower(r, cookie[r].token)
        \/ Table!JoinAsLeader(r, cookie[r].token)
    BY <2>2 DEF Flights!JoinAsFollower, Flights!JoinAsLeader, Flights!Retained, Flights!Stale,
                Table!JoinAsFollower, Table!JoinAsLeader, Table!Retained, Table!Stale
  <2> QED
    BY <2>1, <2>3
<1>2. ASSUME NEW r \in Requests, RefreshSucceeds(r) \/ RefreshFails(r)
      PROVE  Table!Next
  BY <1>2 DEF RefreshSucceeds, RefreshFails, Flights!Complete, Table!Complete, Table!Outcomes
<1>3. ASSUME NEW r \in Requests, AnswerRefreshed(r)
      PROVE  Table!Next
  BY <1>3 DEF AnswerRefreshed, Flights!ReturnOutcome, Table!ReturnOutcome
<1>4. ASSUME NEW r \in Requests, Disconnect(r) \/ FinishDrop(r)
      PROVE  Table!Next
  BY <1>4 DEF Disconnect, FinishDrop, Flights!DropLeader, Flights!DropWaiter,
              Flights!RemoveFlight, Table!DropLeader, Table!DropWaiter, Table!RemoveFlight
<1>5. ASSUME Tick
      PROVE  Table!Next
  BY <1>5 DEF Tick, Flights!Tick, Table!Tick
<1>6. ASSUME NEW r \in Requests,
             \/ \E b \in Browsers : Send(r, b)
             \/ RedirectToLogin(r) \/ UseStored(r) \/ ProviderAccepts(r)
             \/ ProviderRefuses(r) \/ Logout(r) \/ Deliver(r)
      PROVE  UNCHANGED flightVars
  BY <1>6 DEF Send, RedirectToLogin, UseStored, ProviderAccepts, ProviderRefuses, Logout, Deliver
<1>7. CASE UNCHANGED vars
  BY <1>7 DEF vars
<1> QED
  BY <1>1, <1>2, <1>3, <1>4, <1>5, <1>6, <1>7 DEF Next

LEMMA TableInvariance == TypeOK /\ BrowserInv /\ Table!IInv /\ [Next]_vars => Table!IInv'
<1>1. Table!FlightsAssumption
  BY SessionAssumption DEF Table!FlightsAssumption
<1> QED
  BY <1>1, TableSteps, Table!NextIInv DEF Table!vars, flightVars

-----------------------------------------------------------------------------
(* The provider never gives an issued refresh token to another browser, so  *)
(* a session that is owned stays owned.                                     *)
LEMMA OwnedStays ==
    ASSUME TypeOK, [Next]_vars, NEW s, Owned(s)
    PROVE  Owned(s)'
<1>1. owner[s.token] \in Browsers /\ s.token \in Tokens
  BY DEF Owned, Sessions
<1>2. owner[s.token] # "unissued"
  BY <1>1, SessionAssumption
<1>3. ASSUME NEW r \in Requests, ProviderAccepts(r)
      PROVE  owner'[s.token] = owner[s.token]
  BY <1>1, <1>2, <1>3 DEF ProviderAccepts, TypeOK
<1>4. CASE UNCHANGED owner
  BY <1>4 DEF Owned
<1>5. (\E r \in Requests : ProviderAccepts(r)) \/ UNCHANGED owner
  BY DEF Next, vars, providerVars, Tick, Send, RedirectToLogin, UseStored, StartRefresh,
         ProviderRefuses, RefreshSucceeds, RefreshFails, AnswerRefreshed, Logout, Disconnect,
         FinishDrop, Deliver
<1> QED
  BY <1>3, <1>4, <1>5 DEF Owned

LEMMA MaxAgeIsNat ==
    ASSUME NEW exp \in Nat, NEW t \in Nat
    PROVE  MaxAge(Config, exp, t) \in Nat
<1>1. Config.grace \in Nat /\ Config.extension \in Nat
  BY SessionAssumption DEF Lifetimes, U64
<1>2. ExpiresWithGrace(Config, exp) \in Nat
  BY <1>1, LifetimeAssumption DEF ExpiresWithGrace, Plus
<1>3. RefreshableUntil(Config, exp) \in Nat
  BY <1>1, <1>2, LifetimeAssumption DEF RefreshableUntil, Plus
<1> QED
  BY <1>2, <1>3, LifetimeAssumption DEF MaxAge, Least, Minus

(* An answer whose sessions are those of the requesting browser. *)
LEMMA Answered ==
    ASSUME TypeOK, ReplyInv, NEW r \in Requests, NEW page \in Sessions \cup {NoSession},
           NEW set \in {Keep, Clear} \cup {Store(s) : s \in {page} \cap Sessions},
           page # NoSession => Owned(page) /\ page.user = from[r],
           Answer(r, page, set), UNCHANGED <<from, owner, now>>
    PROVE  /\ answered' \subseteq Requests
           /\ \A m \in replies' :
                /\ m.to \in answered'
                /\ m.page \in Sessions \cup {NoSession}
                /\ \A c \in m.set : c \in SetCookies
           /\ ReplyInv'
<1> DEFINE new == [to |-> r, page |-> page, set |-> set]
<1>1. replies' = replies \cup {new} /\ answered' = answered \cup {r}
  BY DEF Answer
<1>2. now \in Nat
  BY DEF TypeOK, Flights!TypeOK, Flights!Time
<1>3. \A c \in set : c \in SetCookies /\ c.session \in {NoSession, page}
  <2>1. CASE set = Keep
    BY <2>1 DEF Keep
  <2>2. CASE set = Clear
    BY <2>2 DEF Clear, SetCookies
  <2>3. ASSUME page \in Sessions, set = Store(page)
        PROVE  \A c \in set : c \in SetCookies /\ c.session \in {NoSession, page}
    <3>1. MaxAge(Config, page.exp, now) \in Nat
      BY <1>2, <2>3, MaxAgeIsNat DEF Sessions
    <3> QED
      BY <2>3, <3>1 DEF Store, SetCookies
  <2> QED
    BY <2>1, <2>2, <2>3
<1>4. \A s \in {new.page} \cup {c.session : c \in new.set} :
        s # NoSession => Owned(s) /\ s.user = from[r]
  BY <1>3
<1>5. ReplyInv'
  <2> SUFFICES ASSUME NEW m \in replies', NEW s \in {m.page} \cup {c.session : c \in m.set},
                      s # NoSession
               PROVE  Owned(s)' /\ s.user = from'[m.to]
    BY DEF ReplyInv
  <2>1. Owned(s) /\ s.user = from[m.to]
    <3>1. CASE m = new
      BY <3>1, <1>4
    <3>2. CASE m \in replies
      BY <3>2 DEF ReplyInv
    <3> QED
      BY <1>1, <3>1, <3>2
  <2> QED
    BY <2>1 DEF Owned
<1> QED
  BY <1>1, <1>3, <1>5 DEF TypeOK

-----------------------------------------------------------------------------
(* The types of this module's own variables. *)
OwnTypes ==
    /\ jar \in [Browsers -> [session : Sessions \cup {NoSession}, until : Nat]]
    /\ from \in [Requests -> Browsers \cup {"unsent"}]
    /\ cookie \in [Requests -> Sessions \cup {NoSession}]
    /\ answered \subseteq Requests
    /\ \A m \in replies :
         /\ m.to \in answered
         /\ m.page \in Sessions \cup {NoSession}
         /\ \A c \in m.set : c \in SetCookies
    /\ issued \in [Requests -> Sessions \cup {NoSession}]
    /\ refused \subseteq Requests
    /\ owner \in [Tokens -> Browsers \cup {"unissued"}]
    /\ spent \subseteq Tokens

OwnInv == OwnTypes /\ BrowserInv /\ FlightInv /\ ReplyInv /\ RotatedTokenIsReplayedLate

(* With the table, the own types are all of TypeOK. *)
LEMMA TypesTogether == OwnTypes /\ Table!IInv <=> TypeOK /\ Table!IInv
  BY DEF OwnTypes, TypeOK, Table!IInv, Flights!TypeOK, Table!TypeOK, Flights!Time, Table!Time,
         Flights!Points, Table!Points, Flights!Outcomes, Table!Outcomes

(* What the invariant of the table says of a request and its flight. *)
LEMMA TableFacts ==
    ASSUME Table!IInv, NEW r \in Requests
    PROVE  /\ now \in Nat /\ completedAt[r] \in Nat /\ completedAt[r] <= now
           /\ token \in [Requests -> Tokens \cup {NoToken}]
           /\ pc[r] \in {"start", "leading", "waiting", "done", "gone", "removing", "abandoned"}
           /\ outcome[r] \in {"Success", "Failed", "none"}
           /\ pc[r] # "start" => joined[r] \in Requests /\ token[r] \in Tokens
           /\ pc[r] # "start" => token[joined[r]] = token[r]
           /\ pc[r] = "leading" => joined[r] = r /\ outcome[r] = "none" /\ flights[token[r]] = r
           /\ pc[r] \in {"removing", "abandoned"} => joined[r] = r
           /\ joined[r] = r /\ outcome[r] = "none" => pc[r] = "leading"
           /\ outcome[r] # "none" => pc[r] \in {"waiting", "done", "removing", "abandoned"}
           /\ joined[r] = r /\ pc[r] \in {"waiting", "done"} /\ now - completedAt[r] < Retention
                => flights[token[r]] = r
<1>1. NoFlight \notin Requests
  BY SessionAssumption
<1> QED
  BY <1>1 DEF Table!IInv, Table!TypeOK, Table!OutcomeInv, Table!TableInv, Table!RetentionInv,
     Table!AnswerInv, Table!IsFlight, Table!Time, Table!Points, Table!Outcomes

(* A step that leaves the flights and the provider alone. *)
LEMMA FlightsAlone ==
    ASSUME FlightInv, RotatedTokenIsReplayedLate, UNCHANGED <<flightVars, providerVars>>,
           \A r \in Requests : pc[r] # "start" => cookie'[r] = cookie[r]
    PROVE  FlightInv' /\ RotatedTokenIsReplayedLate'
<1>1. FlightInv'
  BY DEF FlightInv, flightVars, providerVars, Owned
<1>2. RotatedTokenIsReplayedLate'
  BY DEF RotatedTokenIsReplayedLate, Rotated, flightVars, providerVars
<1> QED
  BY <1>1, <1>2

(* The steps of browsers and of requests outside flights. *)
LEMMA BrowserSteps ==
    ASSUME TypeOK, Table!IInv, OwnInv, NEW r \in Requests,
           \/ \E b \in Browsers : Send(r, b)
           \/ RedirectToLogin(r) \/ UseStored(r) \/ Logout(r) \/ Deliver(r)
    PROVE  OwnInv'
<1> USE DEF OwnInv
<1>1. ASSUME NEW b \in Browsers, Send(r, b)
      PROVE  OwnInv'
  <2>1. from[r] = "unsent" /\ from' = [from EXCEPT ![r] = b]
        /\ cookie' = [cookie EXCEPT ![r] = IF now < jar[b].until THEN jar[b].session ELSE NoSession]
        /\ UNCHANGED <<flightVars, jar, answerVars, providerVars>>
    BY <1>1 DEF Send
  <2>2. cookie[r] = NoSession
    BY <2>1, SessionAssumption DEF BrowserInv, Owned, Sessions
  <2>3. pc[r] = "start"
    BY <2>2 DEF FlightInv
  <2>4. cookie'[r] # NoSession => cookie'[r] = jar[b].session
    BY <2>1 DEF OwnTypes
  <2>5. OwnTypes'
    BY <2>1 DEF OwnTypes, answerVars, providerVars
  <2>6. BrowserInv'
    BY <2>1, <2>4 DEF BrowserInv, Owned, OwnTypes, providerVars
  <2>7. FlightInv' /\ RotatedTokenIsReplayedLate'
    BY <2>1, <2>3, FlightsAlone DEF OwnTypes
  <2>8. ReplyInv'
    <3> SUFFICES ASSUME NEW m \in replies, NEW s \in {m.page} \cup {c.session : c \in m.set},
                        s # NoSession
                 PROVE  Owned(s)' /\ s.user = from'[m.to]
      BY <2>1 DEF ReplyInv, answerVars
    <3>1. Owned(s) /\ s.user = from[m.to] /\ m.to \in Requests
      BY DEF ReplyInv, OwnTypes
    <3>2. m.to # r
      BY <2>1, <3>1, SessionAssumption DEF Owned, Sessions
    <3> QED
      BY <2>1, <3>1, <3>2 DEF Owned, providerVars, OwnTypes
  <2> QED
    BY <2>5, <2>6, <2>7, <2>8
<1>2. ASSUME NEW page \in {NoSession, cookie[r]}, NEW set \in {Keep, Clear},
             Answer(r, page, set), UNCHANGED <<flightVars, jar, from, cookie, providerVars>>
      PROVE  OwnInv'
  <2>1. page \in Sessions \cup {NoSession}
    BY DEF OwnTypes
  <2>2. page # NoSession => Owned(page) /\ page.user = from[r]
    BY DEF BrowserInv
  <2>3. UNCHANGED <<from, owner, now>>
    BY <1>2 DEF providerVars, flightVars
  <2>4. /\ answered' \subseteq Requests
        /\ \A m \in replies' :
             /\ m.to \in answered'
             /\ m.page \in Sessions \cup {NoSession}
             /\ \A c \in m.set : c \in SetCookies
        /\ ReplyInv'
    BY <1>2, <2>1, <2>2, <2>3, Answered
  <2>5. OwnTypes'
    BY <1>2, <2>4 DEF OwnTypes, providerVars
  <2>6. BrowserInv'
    BY <1>2 DEF BrowserInv, Owned, providerVars
  <2>7. FlightInv' /\ RotatedTokenIsReplayedLate'
    BY <1>2, FlightsAlone
  <2> QED
    BY <2>4, <2>5, <2>6, <2>7
<1>3. CASE RedirectToLogin(r)
  BY <1>2, <1>3 DEF RedirectToLogin
<1>4. CASE UseStored(r)
  BY <1>2, <1>4 DEF UseStored
<1>5. CASE Logout(r)
  BY <1>2, <1>5 DEF Logout
<1>6. CASE Deliver(r)
  <2>1. PICK m \in replies :
          /\ m.to = r
          /\ replies' = replies \ {m}
          /\ jar' = [jar EXCEPT ![from[r]] =
                       IF m.set = Keep THEN @
                       ELSE LET c == CHOOSE c \in m.set : TRUE
                            IN  [session |-> c.session, until |-> now + c.maxAge]]
    BY <1>6 DEF Deliver
  <2>2. UNCHANGED <<flightVars, from, cookie, answered, providerVars>>
    BY <1>6 DEF Deliver
  <2>3. PICK c : m.set # Keep => c \in m.set /\ c = CHOOSE d \in m.set : TRUE
    BY DEF Keep
  <2>4. m.set # Keep => /\ c \in SetCookies
                        /\ c.session # NoSession => Owned(c.session) /\ c.session.user = from[r]
    BY <2>1, <2>3 DEF OwnTypes, ReplyInv
  <2>5. jar' = [jar EXCEPT ![from[r]] =
                  IF m.set = Keep THEN @
                  ELSE [session |-> c.session, until |-> now + c.maxAge]]
    BY <2>1, <2>3
  <2>6. now \in Nat
    BY TableFacts
  <2>7. m.set # Keep => [session |-> c.session, until |-> now + c.maxAge]
                          \in [session : Sessions \cup {NoSession}, until : Nat]
    BY <2>4, <2>6 DEF SetCookies
  <2>8. jar' \in [Browsers -> [session : Sessions \cup {NoSession}, until : Nat]]
    BY <2>5, <2>7 DEF OwnTypes
  <2>9. OwnTypes'
    BY <2>1, <2>2, <2>8 DEF OwnTypes, providerVars
  <2>10. BrowserInv'
    BY <2>2, <2>4, <2>5 DEF BrowserInv, OwnTypes, Owned, providerVars
  <2>11. FlightInv' /\ RotatedTokenIsReplayedLate'
    BY <2>2, FlightsAlone
  <2>12. ReplyInv'
    BY <2>1, <2>2 DEF ReplyInv, Owned, providerVars
  <2> QED
    BY <2>9, <2>10, <2>11, <2>12
<1> QED
  BY <1>1, <1>3, <1>4, <1>5, <1>6

(* The provider answers the call of a flight. *)
LEMMA ProviderSteps ==
    ASSUME TypeOK, Table!IInv, OwnInv, NEW r \in Requests,
           ProviderAccepts(r) \/ ProviderRefuses(r), [Next]_vars
    PROVE  OwnInv'
<1> USE DEF OwnInv
<1>1. /\ pc[r] \in {"leading", "removing", "abandoned"}
      /\ issued[r] = NoSession /\ r \notin refused
      /\ UNCHANGED <<flightVars, jar, from, cookie, answerVars>>
  BY DEF ProviderAccepts, ProviderRefuses, Calling
<1>2. joined[r] = r /\ token[r] \in Tokens
  BY <1>1, TableFacts
<1>3. \A s : Owned(s) => Owned(s)'
  BY OwnedStays
<1>4. BrowserInv' /\ ReplyInv'
  BY <1>1, <1>3 DEF BrowserInv, ReplyInv, answerVars
<1>5. cookie[r] # NoSession /\ token[r] = cookie[r].token /\ owner[token[r]] \in Browsers
  BY <1>1 DEF FlightInv, BrowserInv, Owned, Sessions
<1>6. CASE ProviderAccepts(r)
  <2>1. PICK k \in Tokens :
          /\ \/ k = token[r] /\ UNCHANGED <<owner, spent>>
             \/ /\ owner[k] = "unissued"
                /\ owner' = [owner EXCEPT ![k] = owner[token[r]]]
                /\ spent' = spent \cup {token[r]}
          /\ issued' = [issued EXCEPT
                          ![r] = [user |-> owner[token[r]], token |-> k, exp |-> now + Lifespan]]
    BY <1>6 DEF ProviderAccepts
  <2>2. refused' = refused /\ token[r] \notin spent
    BY <1>6 DEF ProviderAccepts
  <2>3. now + Lifespan \in Nat
    BY TableFacts, SessionAssumption
  <2>4. issued'[r] \in Sessions /\ issued'[r] # NoSession
        /\ issued'[r].user = owner[token[r]] /\ issued'[r].token = k
    BY <2>1, <2>3, <1>5, SessionAssumption DEF Sessions, OwnTypes
  <2>5. owner'[k] = owner[token[r]] /\ owner'[token[r]] = owner[token[r]]
    BY <2>1, <1>2, <1>5, SessionAssumption DEF OwnTypes
  <2>6. OwnTypes'
    BY <1>1, <1>2, <1>5, <2>1, <2>2, <2>4 DEF OwnTypes, answerVars
  <2>7. FlightInv'
    <3> SUFFICES ASSUME NEW f \in Requests
                 PROVE  /\ pc'[f] # "start" => cookie'[f] # NoSession /\ token'[f] = cookie'[f].token
                        /\ issued'[f] # NoSession =>
                             /\ pc'[f] # "start" /\ joined'[f] = f
                             /\ Owned(issued[f])' /\ issued'[f].user = owner'[token'[f]]
                        /\ outcome'[f] = "Success" => issued'[f] # NoSession
                        /\ pc'[f] \in {"removing", "abandoned"} => outcome'[f] = "Failed"
                        /\ f \in refused' => /\ pc'[f] # "start" /\ issued'[f] = NoSession
                                             /\ token'[f] \in spent'
      BY DEF FlightInv
    <3>1. CASE f = r
      BY <3>1, <1>1, <1>2, <2>2, <2>4, <2>5 DEF FlightInv, flightVars, Owned
    <3>2. CASE f # r
      <4>1. issued'[f] = issued[f]
        BY <3>2, <2>1 DEF OwnTypes
      <4>2. issued[f] # NoSession => /\ pc[f] # "start" /\ joined[f] = f
                                     /\ Owned(issued[f]) /\ issued[f].user = owner[token[f]]
        BY DEF FlightInv
      <4>3. issued[f] # NoSession => issued[f].user \in Browsers /\ token[f] \in Tokens
        BY <4>2, TableFacts DEF Owned, Sessions
      <4>4. issued[f] # NoSession => Owned(issued[f])'
        BY <1>3, <4>1, <4>2 DEF Owned
      <4>5. issued[f] # NoSession => owner'[token[f]] = owner[token[f]]
        BY <4>2, <4>3, <2>1, SessionAssumption DEF OwnTypes
      <4> QED
        BY <3>2, <1>1, <2>1, <2>2, <4>1, <4>2, <4>4, <4>5 DEF FlightInv, flightVars
    <3> QED
      BY <3>1, <3>2
  <2>8. RotatedTokenIsReplayedLate'
    <3> SUFFICES ASSUME NEW f \in refused', NEW g \in Requests, Rotated(g, token[f])'
                 PROVE  outcome'[g] = "Failed"
                        \/ (outcome'[g] = "Success" /\ now' - completedAt'[g] >= Retention)
      BY DEF RotatedTokenIsReplayedLate
    <3>1. g # r
      BY <1>1, <2>2 DEF FlightInv, OwnTypes, Rotated, flightVars
    <3>2. Rotated(g, token[f])
      BY <3>1, <1>1, <2>1 DEF Rotated, OwnTypes, flightVars
    <3> QED
      BY <3>2, <1>1, <2>2 DEF RotatedTokenIsReplayedLate, flightVars
  <2> QED
    BY <1>4, <2>6, <2>7, <2>8
<1>7. CASE ProviderRefuses(r)
  <2>1. /\ refused' = refused \cup {r} /\ token[r] \in spent /\ pc[r] = "leading"
        /\ UNCHANGED <<issued, owner, spent>>
    BY <1>7 DEF ProviderRefuses
  <2>2. OwnTypes'
    BY <1>1, <2>1 DEF OwnTypes, answerVars
  <2>3. FlightInv'
    BY <1>1, <2>1 DEF FlightInv, flightVars, Owned
  <2>4. RotatedTokenIsReplayedLate'
    <3> SUFFICES ASSUME NEW g \in Requests, Rotated(g, token[r])
                 PROVE  \/ outcome[g] = "Failed"
                        \/ outcome[g] = "Success" /\ now - completedAt[g] >= Retention
      BY <1>1, <2>1 DEF RotatedTokenIsReplayedLate, Rotated, flightVars
    <3>1. g # r /\ pc[g] # "start" /\ joined[g] = g /\ token[g] = token[r]
      BY <1>1 DEF Rotated, FlightInv
    <3>2. flights[token[r]] = r
      BY <2>1, TableFacts
    <3>3. pc[g] # "leading"
      BY <3>1, <3>2, TableFacts
    <3>4. outcome[g] \in {"Success", "Failed"}
      BY <3>1, <3>3, TableFacts
    <3>5. pc[g] \in {"waiting", "done", "removing", "abandoned"}
      BY <3>4, TableFacts
    <3>6. CASE pc[g] \in {"removing", "abandoned"}
      BY <3>6 DEF FlightInv
    <3>7. CASE pc[g] \in {"waiting", "done"}
      <4>1. ~(now - completedAt[g] < Retention)
        BY <3>1, <3>2, <3>7, TableFacts
      <4>2. now \in Nat /\ completedAt[g] \in Nat /\ Retention \in Nat
        BY TableFacts, SessionAssumption
      <4> QED
        BY <3>4, <4>1, <4>2
    <3> QED
      BY <3>5, <3>6, <3>7
  <2> QED
    BY <1>4, <2>2, <2>3, <2>4
<1> QED
  BY <1>6, <1>7

(* A request joins a flight. *)
LEMMA JoinStep ==
    ASSUME TypeOK, Table!IInv, Table!IInv', OwnInv, NEW r \in Requests, StartRefresh(r)
    PROVE  OwnInv'
<1> USE DEF OwnInv
<1>1. /\ pc[r] = "start" /\ cookie[r] # NoSession
      /\ token' = [token EXCEPT ![r] = cookie[r].token]
      /\ \E j \in Requests : joined' = [joined EXCEPT ![r] = j]
      /\ \E p \in {"waiting", "leading"} : pc' = [pc EXCEPT ![r] = p]
      /\ UNCHANGED <<now, outcome, completedAt>>
      /\ UNCHANGED <<jar, from, cookie, answerVars, providerVars>>
  <2>1. joined'[r] \in Requests
    BY TableFacts DEF StartRefresh, Arrived, Flights!JoinAsFollower, Flights!JoinAsLeader,
       Flights!Retained, Table!IInv, Table!TypeOK
  <2> QED
    BY <2>1 DEF StartRefresh, Arrived, Flights!JoinAsFollower, Flights!JoinAsLeader,
                Table!IInv, Table!TypeOK
<1>2. issued[r] = NoSession /\ r \notin refused /\ outcome[r] # "Success"
  BY <1>1 DEF FlightInv
<1>3. OwnTypes'
  BY <1>1 DEF OwnTypes, answerVars, providerVars
<1>4. BrowserInv' /\ ReplyInv'
  BY <1>1 DEF BrowserInv, ReplyInv, answerVars, providerVars, Owned
<1>5. /\ pc \in [Requests -> Table!Points] /\ token \in [Requests -> Tokens \cup {NoToken}]
      /\ joined \in [Requests -> Requests \cup {NoFlight}]
  BY DEF Table!IInv, Table!TypeOK
<1>6. FlightInv'
  <2> SUFFICES ASSUME NEW f \in Requests
               PROVE  /\ pc'[f] # "start" => cookie'[f] # NoSession /\ token'[f] = cookie'[f].token
                      /\ issued'[f] # NoSession =>
                           /\ pc'[f] # "start" /\ joined'[f] = f
                           /\ Owned(issued[f])' /\ issued'[f].user = owner'[token'[f]]
                      /\ outcome'[f] = "Success" => issued'[f] # NoSession
                      /\ pc'[f] \in {"removing", "abandoned"} => outcome'[f] = "Failed"
                      /\ f \in refused' => /\ pc'[f] # "start" /\ issued'[f] = NoSession
                                           /\ token'[f] \in spent'
    BY DEF FlightInv
  <2>1. CASE f = r
    BY <2>1, <1>1, <1>2, <1>5 DEF providerVars
  <2>2. CASE f # r
    BY <2>2, <1>1, <1>5 DEF FlightInv, providerVars, Owned
  <2> QED
    BY <2>1, <2>2
<1>7. RotatedTokenIsReplayedLate'
  <2> SUFFICES ASSUME NEW f \in refused', NEW g \in Requests, Rotated(g, token[f])'
               PROVE  outcome'[g] = "Failed"
                      \/ (outcome'[g] = "Success" /\ now' - completedAt'[g] >= Retention)
    BY DEF RotatedTokenIsReplayedLate
  <2>1. f # r /\ g # r /\ f \in refused /\ f \in Requests
    BY <1>1, <1>2 DEF Rotated, providerVars, OwnTypes
  <2>2. Rotated(g, token[f])
    BY <2>1, <1>1, <1>5 DEF Rotated, providerVars
  <2> QED
    BY <2>1, <2>2, <1>1 DEF RotatedTokenIsReplayedLate
<1> QED
  BY <1>3, <1>4, <1>6, <1>7

(* A flight ends, by its leader or by the drop of its leader, or a follower *)
(* leaves: at most the outcome of r and its place change.                   *)
LEMMA EndSteps ==
    ASSUME TypeOK, Table!IInv, OwnInv, NEW r \in Requests,
           RefreshSucceeds(r) \/ RefreshFails(r) \/ Disconnect(r) \/ FinishDrop(r)
    PROVE  OwnInv'
<1> USE DEF OwnInv
<1>1. UNCHANGED <<now, token, joined, jar, from, cookie, answerVars, providerVars>>
  BY DEF RefreshSucceeds, RefreshFails, Disconnect, FinishDrop, Flights!Complete,
         Flights!DropLeader, Flights!DropWaiter, Flights!RemoveFlight
<1>2. OwnTypes' /\ BrowserInv' /\ ReplyInv'
  BY <1>1 DEF OwnTypes, BrowserInv, ReplyInv, Owned, answerVars, providerVars
<1>3. pc \in [Requests -> Table!Points] /\ outcome \in [Requests -> Table!Outcomes \cup {"none"}]
  BY DEF Table!IInv, Table!TypeOK
<1>4. /\ pc[r] # "start" /\ \E p \in {"waiting", "removing", "abandoned", "gone"} : pc' = [pc EXCEPT ![r] = p]
      /\ \/ /\ UNCHANGED outcome
            /\ pc'[r] \in {"removing", "abandoned"} => pc[r] = "removing"
         \/ /\ outcome[r] = "none" /\ issued[r] # NoSession /\ pc'[r] = "waiting"
            /\ outcome' = [outcome EXCEPT ![r] = "Success"]
         \/ /\ outcome[r] = "none"
            /\ outcome' = [outcome EXCEPT ![r] = "Failed"]
      /\ \A f \in Requests : f # r => completedAt'[f] = completedAt[f]
      /\ completedAt'[r] = completedAt[r] \/ outcome[r] = "none"
  <2>1. pc[r] = "leading" => outcome[r] = "none"
    BY TableFacts
  <2>2. completedAt \in [Requests -> Table!Time]
    BY DEF Table!IInv, Table!TypeOK
  <2>3. CASE RefreshSucceeds(r)
    BY <2>1, <2>2, <2>3, <1>3 DEF RefreshSucceeds, Flights!Complete
  <2>4. CASE RefreshFails(r)
    BY <2>1, <2>2, <2>4, <1>3 DEF RefreshFails, Flights!Complete
  <2>5. CASE Disconnect(r)
    BY <2>1, <2>2, <2>5, <1>3 DEF Disconnect, Flights!DropLeader, Flights!DropWaiter
  <2>6. CASE FinishDrop(r)
    BY <2>1, <2>2, <2>6, <1>3 DEF FinishDrop, Flights!RemoveFlight
  <2> QED
    BY <2>3, <2>4, <2>5, <2>6
<1>5. FlightInv'
  BY <1>1, <1>3, <1>4 DEF FlightInv, Owned, providerVars
<1>6. RotatedTokenIsReplayedLate'
  <2> SUFFICES ASSUME NEW f \in refused, NEW g \in Requests, Rotated(g, token[f])
               PROVE  outcome'[g] = "Failed"
                      \/ (outcome'[g] = "Success" /\ now - completedAt'[g] >= Retention)
    BY <1>1 DEF RotatedTokenIsReplayedLate, Rotated, providerVars
  <2>1. outcome[g] = "Failed" \/ (outcome[g] = "Success" /\ now - completedAt[g] >= Retention)
    BY DEF RotatedTokenIsReplayedLate
  <2>2. outcome'[g] = outcome[g] /\ completedAt'[g] = completedAt[g]
    BY <1>3, <1>4, <2>1
  <2> QED
    BY <2>1, <2>2
<1> QED
  BY <1>2, <1>5, <1>6

(* A request is answered with the session issued to its flight. *)
LEMMA AnswerStep ==
    ASSUME TypeOK, Table!IInv, OwnInv, NEW r \in Requests, AnswerRefreshed(r)
    PROVE  OwnInv'
<1> USE DEF OwnInv
<1> DEFINE s == issued[joined[r]]
<1>1. /\ pc[r] = "waiting" /\ pc' = [pc EXCEPT ![r] = "done"]
      /\ UNCHANGED <<now, flights, outcome, completedAt, token, joined, jar, from, cookie, providerVars>>
  BY DEF AnswerRefreshed, Flights!ReturnOutcome
<1>2. joined[r] \in Requests /\ token[joined[r]] = token[r] /\ token[r] \in Tokens
  BY <1>1, TableFacts
<1>3. outcome[joined[r]] = "Success" =>
        s \in Sessions /\ s # NoSession /\ Owned(s) /\ s.user = from[r]
  <2>1. outcome[joined[r]] = "Success" =>
          s # NoSession /\ Owned(s) /\ s.user = owner[token[r]]
    BY <1>2 DEF FlightInv
  <2>2. Owned(cookie[r]) /\ cookie[r].user = from[r] /\ token[r] = cookie[r].token
    BY <1>1 DEF FlightInv, BrowserInv
  <2> QED
    BY <2>1, <2>2 DEF Owned
<1>4. PICK page, set :
        /\ Answer(r, page, set)
        /\ page \in Sessions \cup {NoSession}
        /\ set \in {Keep, Clear} \cup {Store(t) : t \in {page} \cap Sessions}
        /\ page # NoSession => Owned(page) /\ page.user = from[r]
  <2>1. \/ outcome[joined[r]] = "Success" /\ Answer(r, s, IF Tenanted THEN Keep ELSE Store(s))
        \/ outcome[joined[r]] = "Success" /\ Answer(r, NoSession, Keep)
        \/ outcome[joined[r]] = "Failed" /\ Answer(r, NoSession, Clear)
    BY DEF AnswerRefreshed
  <2> HIDE DEF s
  <2>2. CASE outcome[joined[r]] = "Success" /\ Answer(r, s, IF Tenanted THEN Keep ELSE Store(s))
    <3>1. (IF Tenanted THEN Keep ELSE Store(s)) \in {Keep, Clear} \cup {Store(t) : t \in {s} \cap Sessions}
      BY <1>3, <2>2
    <3> QED
      BY <1>3, <2>2, <3>1
  <2>3. CASE \E set \in {Keep, Clear} : Answer(r, NoSession, set)
    BY <2>3
  <2> QED
    BY <2>1, <2>2, <2>3
<1>5. /\ answered' \subseteq Requests
      /\ \A m \in replies' :
           /\ m.to \in answered'
           /\ m.page \in Sessions \cup {NoSession}
           /\ \A c \in m.set : c \in SetCookies
      /\ ReplyInv'
  <2>1. UNCHANGED <<from, owner, now>>
    BY <1>1 DEF providerVars
  <2> HIDE DEF s
  <2> QED
    BY <1>4, <2>1, Answered
<1>6. OwnTypes' /\ BrowserInv'
  BY <1>1, <1>5 DEF OwnTypes, BrowserInv, Owned, providerVars
<1>7. pc \in [Requests -> Table!Points]
  BY DEF Table!IInv, Table!TypeOK
<1>8. FlightInv'
  BY <1>1, <1>7 DEF FlightInv, Owned, providerVars
<1>9. RotatedTokenIsReplayedLate'
  BY <1>1 DEF RotatedTokenIsReplayedLate, Rotated, providerVars
<1> QED
  BY <1>5, <1>6, <1>8, <1>9

(* The clock. *)
LEMMA TickStep ==
    ASSUME TypeOK, Table!IInv, OwnInv, Tick
    PROVE  OwnInv'
<1> USE DEF OwnInv
<1>1. /\ now' = now + 1
      /\ UNCHANGED <<outcome, completedAt, pc, token, joined, jar, from, cookie, answerVars, providerVars>>
  BY DEF Tick, Flights!Tick
<1>2. OwnTypes' /\ BrowserInv' /\ ReplyInv' /\ FlightInv'
  BY <1>1 DEF OwnTypes, BrowserInv, ReplyInv, FlightInv, Owned, answerVars, providerVars
<1>3. \A g \in Requests : now - completedAt[g] >= Retention => now' - completedAt'[g] >= Retention
  <2>1. \A g \in Requests : now \in Nat /\ completedAt[g] \in Nat
    BY TableFacts
  <2> QED
    BY <1>1, <2>1, SessionAssumption
<1>4. RotatedTokenIsReplayedLate'
  BY <1>1, <1>3 DEF RotatedTokenIsReplayedLate, Rotated, providerVars
<1> QED
  BY <1>2, <1>4

-----------------------------------------------------------------------------
LEMMA Invariance == Spec => []IInv
<1>0. IInv <=> OwnInv /\ Table!IInv
  BY TypesTogether DEF IInv, OwnInv
<1>9. IInv' <=> OwnInv' /\ Table!IInv'
  BY <1>0, PTL
<1>1. Init => IInv
  <2> SUFFICES ASSUME Init
               PROVE  IInv
    OBVIOUS
  <2> USE SessionAssumption
  <2>1. Table!IInv
    <3>1. Table!FlightsAssumption
      BY DEF Table!FlightsAssumption
    <3>2. Table!Init
      BY DEF Init, Flights!Init, Table!Init
    <3> QED
      BY <3>1, <3>2, Table!InitIInv
  <2>2. \A b \in Browsers : FirstSession(b) \in Sessions
    BY DEF FirstSession, Sessions
  <2>3. MaxAge(Config, Lifespan, 0) \in Nat
    BY MaxAgeIsNat
  <2>4. \A b \in Browsers : owner[FirstToken[b]] = b
    <3>1. \A b \in Browsers : owner[FirstToken[b]] = CHOOSE d \in Browsers : FirstToken[d] = FirstToken[b]
      BY DEF Init
    <3> QED
      BY <3>1
  <2>5. owner \in [Tokens -> Browsers \cup {"unissued"}]
    BY DEF Init
  <2>6. OwnTypes
    BY <2>2, <2>3, <2>5 DEF Init, OwnTypes
  <2>7. BrowserInv
    BY <2>2, <2>4 DEF Init, BrowserInv, Owned, FirstSession
  <2>8. FlightInv /\ ReplyInv /\ RotatedTokenIsReplayedLate
    BY DEF Init, Flights!Init, FlightInv, ReplyInv, RotatedTokenIsReplayedLate
  <2> QED
    BY <1>0, <2>1, <2>6, <2>7, <2>8 DEF OwnInv
<1>2. IInv /\ [Next]_vars => IInv'
  <2> SUFFICES ASSUME IInv, [Next]_vars
               PROVE  IInv'
    OBVIOUS
  <2>1. TypeOK /\ Table!IInv /\ OwnInv
    BY <1>0 DEF IInv
  <2>2. Table!IInv'
    BY <2>1, TableInvariance DEF OwnInv
  <2>3. ASSUME NEW r \in Requests,
               \/ \E b \in Browsers : Send(r, b)
               \/ RedirectToLogin(r) \/ UseStored(r) \/ Logout(r) \/ Deliver(r)
        PROVE  OwnInv'
    BY <2>1, <2>3, BrowserSteps
  <2>4. ASSUME NEW r \in Requests, ProviderAccepts(r) \/ ProviderRefuses(r)
        PROVE  OwnInv'
    BY <2>1, <2>4, ProviderSteps
  <2>5. ASSUME NEW r \in Requests, StartRefresh(r)
        PROVE  OwnInv'
    BY <2>1, <2>2, <2>5, JoinStep
  <2>6. ASSUME NEW r \in Requests,
               RefreshSucceeds(r) \/ RefreshFails(r) \/ Disconnect(r) \/ FinishDrop(r)
        PROVE  OwnInv'
    BY <2>1, <2>6, EndSteps
  <2>7. ASSUME NEW r \in Requests, AnswerRefreshed(r)
        PROVE  OwnInv'
    BY <2>1, <2>7, AnswerStep
  <2>8. ASSUME Tick
        PROVE  OwnInv'
    BY <2>1, <2>8, TickStep
  <2>9. ASSUME UNCHANGED vars
        PROVE  OwnInv'
    BY <2>1, <2>9 DEF vars, flightVars, answerVars, providerVars, OwnInv, OwnTypes, BrowserInv,
       FlightInv, ReplyInv, RotatedTokenIsReplayedLate, Rotated, Owned
  <2>10. OwnInv'
    BY <2>3, <2>4, <2>5, <2>6, <2>7, <2>8, <2>9 DEF Next
  <2> QED
    BY <1>9, <2>2, <2>10
<1> QED
  BY <1>1, <1>2, PTL DEF Spec

(* Type correctness. *)
THEOREM TypeCorrect == Spec => []TypeOK
<1>1. IInv => TypeOK
  BY DEF IInv
<1> QED
  BY <1>1, Invariance, PTL

(* Nobody is served or given the session of another browser. *)
THEOREM SessionsAreOwn == Spec => []OwnSession
<1>1. IInv => OwnSession
  BY DEF IInv, ReplyInv, OwnSession
<1> QED
  BY <1>1, Invariance, PTL

(* A refresh token that was rotated out is shown to the provider only late, *)
(* or after a response was lost.                                            *)
THEOREM ReplayIsLate == Spec => []RotatedTokenIsReplayedLate
<1>1. IInv => RotatedTokenIsReplayedLate
  BY DEF IInv
<1> QED
  BY <1>1, Invariance, PTL

-----------------------------------------------------------------------------
(* The sessions use the table of flights as RefreshFlights has it: a step   *)
(* of a browser, of the provider or of an answer is a step of the table or  *)
(* leaves it alone, so that all that is proved of the table holds here.     *)
THEOREM TableIsUsed == Spec => Table!Init /\ [][Table!Next]_flightVars
<1>1. Init => Table!Init
  BY DEF Init, Table!Init, Flights!Init
<1>2. IInv => TypeOK /\ BrowserInv
  BY DEF IInv
<1>3. QED
  BY <1>1, <1>2, Invariance, TableSteps, PTL DEF Spec
=============================================================================
