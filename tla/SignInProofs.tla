---------------------------- MODULE SignInProofs ----------------------------
(* Proofs about SignIn, for any number of browsers, tabs and restarts: a    *)
(* browser is signed in only by a sign-in of its own, and a sign-in fails   *)
(* only for one of the causes that SignIn names.                            *)
EXTENDS SignIn, TLAPS

(* What a request is about does not change once it is sent. *)
Sent == \A r \in Requests :
    /\ pc[r] = "new" <=> kind[r] = "none"
    /\ pc[r] \in {"exchanging", "validating"} => kind[r] = "callback"
    /\ pc[r] = "new" => setState[r] = "keep" /\ setSession[r] = "keep"
    /\ setState[r] = "set" <=> kind[r] = "page"
    /\ setSession[r] = "set" => kind[r] = "callback"
    /\ grant[r] # "none" => kind[r] = "page" /\ pc[r] = "done"
    /\ kind[r] # "none" => from[r] \in Browsers
    /\ kind[r] # "callback" => link[r] = NoRequest

(* A callback that was correlated is for a sign-in of its browser. *)
CallbacksAreOwn == \A r \in Requests :
    (\/ pc[r] \in {"exchanging", "validating"}
     \/ setSession[r] = "set"
     \/ kind[r] = "callback" /\ setState[r] = "clear") =>
        /\ link[r] \in Requests
        /\ kind[link[r]] = "page"
        /\ from[link[r]] = from[r]

StatesAreOwn == \A b \in Browsers :
    stateJar[b] # NoRequest => kind[stateJar[b]] = "page" /\ from[stateJar[b]] = b

SessionsAreMade == \A b \in Browsers :
    sessionJar[b] # NoRequest =>
        /\ pc[sessionJar[b]] = "done"
        /\ setSession[sessionJar[b]] = "set"
        /\ from[sessionJar[b]] = b

(* Nothing else that the browser of sign-in a sent can touch its state, and *)
(* then the browser keeps it.                                               *)
Alone(a) == \A r \in Requests :
    /\ from[r] = from[a] /\ kind[r] = "page" => r = a
    /\ ~(from[r] = from[a] /\ link[r] = a)
    /\ ~(from[r] = from[a] /\ kind[r] = "logout")

StateIsKept == \A a \in Requests :
    kind[a] = "page" /\ pc[a] = "done" /\ Alone(a) /\ a \notin expired => stateJar[from[a]] = a

(* A code was exchanged for a callback of the browser that began the        *)
(* sign-in.                                                                 *)
ExchangesAreOwn == \A a \in spent :
    /\ kind[a] = "page"
    /\ \E q \in Requests :
         link[q] = a /\ from[q] = from[a] /\ pc[q] \notin {"new", "exchanging"}

Inv == /\ TypeOK /\ Sent /\ CallbacksAreOwn /\ StatesAreOwn /\ SessionsAreMade
       /\ StateIsKept /\ ExchangesAreOwn

-----------------------------------------------------------------------------
LEMMA Initially == Init => Inv
  BY SignInAssumption
  DEF Init, Inv, TypeOK, Instructions, Sent, CallbacksAreOwn, StatesAreOwn, SessionsAreMade,
      StateIsKept, ExchangesAreOwn

(* A request that is received and answered or accepted. *)
LEMMA Reception ==
  ASSUME Inv, NEW r \in Requests, NEW b \in Browsers, NEW k \in {"page", "callback", "logout"},
         NEW a \in Requests \cup {NoRequest}, Receive(r, k, b, a),
         k # "callback" => a = NoRequest,
         pc' \in [Requests -> {"new", "exchanging", "validating", "answered", "done", "lost"}],
         \A q \in Requests \ {r} : pc'[q] = pc[q] /\ setState'[q] = setState[q]
                                   /\ setSession'[q] = setSession[q],
         setState' \in [Requests -> Instructions], setSession' \in [Requests -> Instructions],
         sealedAt' \in [Requests -> 0 .. MaxRestarts],
         setState'[r] = "set" <=> k = "page",
         setState'[r] = "clear" => k = "logout" \/ (k = "callback" /\ stateJar[b] = a /\ a \in Requests),
         setSession'[r] # "set",
         \/ pc'[r] = "answered"
         \/ pc'[r] = "exchanging" /\ k = "callback" /\ stateJar[b] = a /\ a \in Requests,
         UNCHANGED <<restarts, jars, outsideVars>>
  PROVE  Inv'
<1> USE DEF Inv, jars, outsideVars
<1>1. /\ pc[r] = "new" /\ kind[r] = "none"
      /\ kind' = [kind EXCEPT ![r] = k] /\ from' = [from EXCEPT ![r] = b]
      /\ link' = [link EXCEPT ![r] = a]
  BY DEF Receive, Sent
<1>2. TypeOK'
  BY <1>1 DEF TypeOK
<1>3. Sent'
  BY <1>1 DEF Sent, TypeOK
<1>4. CallbacksAreOwn'
  <2>1. ASSUME NEW q \in Requests, q # r,
               \/ pc'[q] \in {"exchanging", "validating"}
               \/ setSession'[q] = "set"
               \/ kind'[q] = "callback" /\ setState'[q] = "clear"
        PROVE  /\ link'[q] \in Requests
               /\ kind'[link'[q]] = "page"
               /\ from'[link'[q]] = from'[q]
    <3>1. link[q] \in Requests /\ kind[link[q]] = "page" /\ from[link[q]] = from[q]
      BY <1>1, <2>1 DEF CallbacksAreOwn, TypeOK
    <3>2. link[q] # r
      BY <1>1, <3>1
    <3>3. QED
      BY <1>1, <2>1, <3>1, <3>2 DEF TypeOK
  <2>2. ASSUME \/ pc'[r] \in {"exchanging", "validating"}
               \/ kind'[r] = "callback" /\ setState'[r] = "clear"
        PROVE  /\ link'[r] \in Requests
               /\ kind'[link'[r]] = "page"
               /\ from'[link'[r]] = from'[r]
    <3>1. a \in Requests /\ stateJar[b] = a /\ a # NoRequest
      BY <1>1, <2>2, SignInAssumption DEF TypeOK
    <3>2. kind[a] = "page" /\ from[a] = b /\ a # r
      BY <1>1, <3>1 DEF StatesAreOwn
    <3>3. QED
      BY <1>1, <3>1, <3>2 DEF TypeOK
  <2>3. QED
    BY <2>1, <2>2 DEF CallbacksAreOwn
<1>5. StatesAreOwn' /\ SessionsAreMade'
  BY <1>1 DEF StatesAreOwn, SessionsAreMade, Sent, TypeOK
<1>6. StateIsKept'
  <2>1. ASSUME NEW c \in Requests, kind'[c] = "page", pc'[c] = "done", Alone(c)',
               c \notin expired'
        PROVE  stateJar'[from'[c]] = c
    <3>1. c # r
      BY <2>1
    <3>2. kind[c] = "page" /\ pc[c] = "done" /\ from'[c] = from[c]
      BY <1>1, <2>1, <3>1 DEF TypeOK
    <3>3. ASSUME NEW q \in Requests, q # r
          PROVE  kind'[q] = kind[q] /\ from'[q] = from[q] /\ link'[q] = link[q]
      BY <1>1, <3>3 DEF TypeOK
    <3>4. from[r] = from[c] => kind[r] # "page" /\ kind[r] # "logout"
      BY <1>1
    <3>5. link[r] # c
      BY <1>1, SignInAssumption DEF Sent
    <3>6. Alone(c)
      BY <1>1, <2>1, <3>2, <3>3, <3>4, <3>5 DEF Alone
    <3>7. QED
      BY <2>1, <3>2, <3>6 DEF StateIsKept
  <2>2. QED
    BY <2>1 DEF StateIsKept
<1>7. ExchangesAreOwn'
  <2>1. ASSUME NEW c \in spent
        PROVE  /\ kind'[c] = "page"
               /\ \E q \in Requests :
                    link'[q] = c /\ from'[q] = from'[c] /\ pc'[q] \notin {"new", "exchanging"}
    <3>1. kind[c] = "page" /\ c \in Requests /\ c # r
      BY <1>1 DEF ExchangesAreOwn, TypeOK
    <3>2. PICK q \in Requests :
            link[q] = c /\ from[q] = from[c] /\ pc[q] \notin {"new", "exchanging"}
      BY DEF ExchangesAreOwn
    <3>3. q # r
      BY <1>1, <3>2
    <3>4. QED
      BY <1>1, <3>1, <3>2, <3>3 DEF TypeOK
  <2>2. QED
    BY <2>1 DEF ExchangesAreOwn
<1>8. QED
  BY <1>2, <1>3, <1>4, <1>5, <1>6, <1>7

(* What cannot disturb a state, or an exchange that was made. *)
LEMMA KeptWithoutDelivery ==
  ASSUME StateIsKept, UNCHANGED <<kind, from, link, stateJar, expired>>,
         \A a \in Requests : pc'[a] = "done" => pc[a] = "done"
  PROVE  StateIsKept'
  BY DEF StateIsKept, Alone

LEMMA ExchangesStay ==
  ASSUME ExchangesAreOwn, UNCHANGED <<kind, from, link, spent>>,
         \A q \in Requests :
            pc[q] \notin {"new", "exchanging"} => pc'[q] \notin {"new", "exchanging"}
  PROVE  ExchangesAreOwn'
  BY DEF ExchangesAreOwn

(* A step of a request that was sent. *)
LEMMA Progress ==
  ASSUME Inv, NEW r \in Requests,
         \/ Authorize(r) \/ Exchange(r) \/ FailCallback(r) \/ FinishCallback(r)
         \/ StateExpires(r) \/ Deliver(r) \/ Disconnect(r)
  PROVE  Inv'
<1> USE DEF Inv, jars, requestVars, outsideVars
<1>1. CASE Authorize(r)
  <2>1. StateIsKept' /\ ExchangesAreOwn'
    BY <1>1, KeptWithoutDelivery, ExchangesStay DEF Authorize
  <2>2. QED
    BY <1>1, <2>1 DEF Authorize, TypeOK, Sent, CallbacksAreOwn, StatesAreOwn, SessionsAreMade
<1>2. CASE Exchange(r)
  <2>1. StateIsKept'
    BY <1>2, KeptWithoutDelivery DEF Exchange, TypeOK
  <2>2. /\ link[r] \in Requests /\ kind[link[r]] = "page" /\ from[link[r]] = from[r]
        /\ pc' = [pc EXCEPT ![r] = "validating"] /\ spent' = spent \cup {link[r]}
        /\ UNCHANGED <<kind, from, link>>
    BY <1>2 DEF Exchange, CallbacksAreOwn
  <2>3. ASSUME NEW c \in spent'
        PROVE  /\ kind'[c] = "page"
               /\ \E q \in Requests :
                    link'[q] = c /\ from'[q] = from'[c] /\ pc'[q] \notin {"new", "exchanging"}
    <3>1. CASE c = link[r]
      BY <2>2, <3>1 DEF TypeOK
    <3>2. CASE c \in spent
      <4>1. PICK q \in Requests :
              link[q] = c /\ from[q] = from[c] /\ pc[q] \notin {"new", "exchanging"}
        BY <3>2 DEF ExchangesAreOwn
      <4>2. kind[c] = "page" /\ pc'[q] \notin {"new", "exchanging"}
        BY <2>2, <3>2, <4>1 DEF ExchangesAreOwn, TypeOK
      <4>3. QED
        BY <2>2, <4>1, <4>2
    <3>3. QED
      BY <2>2, <2>3, <3>1, <3>2
  <2>4. ExchangesAreOwn'
    BY <2>3 DEF ExchangesAreOwn
  <2>5. QED
    BY <1>2, <2>1, <2>4 DEF Exchange, TypeOK, Sent, CallbacksAreOwn, StatesAreOwn, SessionsAreMade
<1>3. CASE FailCallback(r)
  <2>1. kind[r] = "callback" /\ setSession[r] \in Instructions
    BY <1>3 DEF FailCallback, Sent, TypeOK
  <2>2. \A b \in Browsers : sessionJar[b] # r
    BY <1>3, SignInAssumption DEF FailCallback, SessionsAreMade
  <2>3. TypeOK' /\ Sent'
    BY <1>3, <2>1 DEF FailCallback, Answer, TypeOK, Instructions, Sent
  <2>4. CallbacksAreOwn' /\ StatesAreOwn'
    BY <1>3 DEF FailCallback, Answer, TypeOK, CallbacksAreOwn, StatesAreOwn
  <2>5. SessionsAreMade'
    BY <1>3, <2>2 DEF FailCallback, Answer, TypeOK, SessionsAreMade
  <2>6. StateIsKept' /\ ExchangesAreOwn'
    BY <1>3, KeptWithoutDelivery, ExchangesStay DEF FailCallback, Answer, TypeOK
  <2>7. QED
    BY <2>3, <2>4, <2>5, <2>6
<1>4. CASE FinishCallback(r)
  <2>1. StateIsKept' /\ ExchangesAreOwn'
    BY <1>4, KeptWithoutDelivery, ExchangesStay DEF FinishCallback, Answer, TypeOK
  <2>2. TypeOK' /\ Sent'
    BY <1>4 DEF FinishCallback, Answer, TypeOK, Instructions, Sent
  <2>3. CallbacksAreOwn' /\ StatesAreOwn' /\ SessionsAreMade'
    BY <1>4
    DEF FinishCallback, Answer, TypeOK, CallbacksAreOwn, StatesAreOwn, SessionsAreMade
  <2>4. QED
    BY <2>1, <2>2, <2>3
<1>5. CASE Deliver(r)
  <2>1. from[r] \in Browsers /\ kind[r] # "none"
    BY <1>5 DEF Deliver, Sent
  <2>2. /\ stateJar' = [stateJar EXCEPT ![from[r]] =
                          CASE setState[r] = "set" -> r [] setState[r] = "clear" -> NoRequest
                            [] OTHER -> stateJar[from[r]]]
        /\ sessionJar' = [sessionJar EXCEPT ![from[r]] =
                          CASE setSession[r] = "set" -> r [] setSession[r] = "clear" -> NoRequest
                            [] OTHER -> sessionJar[from[r]]]
    BY <1>5 DEF Deliver, Obey
  <2>3. TypeOK' /\ Sent' /\ CallbacksAreOwn'
    BY <1>5, <2>1, <2>2 DEF Deliver, TypeOK, Sent, CallbacksAreOwn
  <2>4. StatesAreOwn' /\ SessionsAreMade'
    BY <1>5, <2>1, <2>2 DEF Deliver, TypeOK, Sent, StatesAreOwn, SessionsAreMade
  <2>5. ASSUME NEW a \in Requests, kind'[a] = "page", pc'[a] = "done", Alone(a)',
               a \notin expired'
        PROVE  stateJar'[from'[a]] = a
    <3>1. kind[a] = "page" /\ from'[a] = from[a] /\ from[a] \in Browsers /\ Alone(a)
          /\ a \notin expired
      BY <1>5, <2>5 DEF Deliver, Alone, Sent
    <3>2. CASE a = r
      BY <1>5, <2>1, <2>2, <3>1, <3>2 DEF Deliver, Sent, TypeOK
    <3>3. CASE a # r /\ from[r] # from[a]
      BY <1>5, <2>1, <2>2, <2>5, <3>1, <3>3 DEF Deliver, StateIsKept, TypeOK
    <3>4. CASE a # r /\ from[r] = from[a]
      <4>1. kind[r] = "callback"
        BY <2>1, <3>1, <3>4 DEF Alone, TypeOK
      <4>2. setState[r] # "clear"
        BY <3>1, <3>4, <4>1 DEF Alone, CallbacksAreOwn
      <4>3. setState[r] # "set"
        BY <4>1 DEF Sent
      <4>4. QED
        BY <1>5, <2>1, <2>2, <2>5, <3>1, <3>4, <4>2, <4>3 DEF Deliver, StateIsKept, TypeOK
    <3>5. QED
      BY <3>2, <3>3, <3>4
  <2>6. StateIsKept' /\ ExchangesAreOwn'
    BY <1>5, <2>5, ExchangesStay DEF StateIsKept, Deliver, TypeOK
  <2>7. QED
    BY <2>3, <2>4, <2>6
<1>6. CASE Disconnect(r)
  <2>1. StateIsKept'
    BY <1>6, KeptWithoutDelivery DEF Disconnect, TypeOK
  <2>2. ExchangesAreOwn'
    BY <1>6, ExchangesStay DEF Disconnect, TypeOK
  <2>3. QED
    BY <1>6, <2>1, <2>2
    DEF Disconnect, TypeOK, Sent, CallbacksAreOwn, StatesAreOwn, SessionsAreMade
<1>7. CASE StateExpires(r)
  <2>1. from[r] \in Browsers /\ stateJar[from[r]] = r
    BY <1>7 DEF StateExpires, Sent
  <2>2. ExchangesAreOwn'
    BY <1>7, ExchangesStay DEF StateExpires
  <2>3. ASSUME NEW a \in Requests, kind[a] = "page", pc[a] = "done", Alone(a)', a \notin expired'
        PROVE  stateJar'[from[a]] = a
    <3>1. Alone(a) /\ a \notin expired /\ a # r /\ from[a] \in Browsers
      BY <1>7, <2>3 DEF StateExpires, Alone, Sent
    <3>2. stateJar[from[a]] = a
      BY <2>3, <3>1 DEF StateIsKept
    <3>3. from[a] # from[r]
      BY <2>1, <3>1, <3>2
    <3>4. QED
      BY <1>7, <2>1, <3>1, <3>2, <3>3 DEF StateExpires, TypeOK
  <2>4. StateIsKept'
    BY <1>7, <2>3 DEF StateExpires, StateIsKept
  <2>5. QED
    BY <1>7, <2>1, <2>2, <2>4
    DEF StateExpires, TypeOK, Sent, CallbacksAreOwn, StatesAreOwn, SessionsAreMade
<1>8. QED
  BY <1>1, <1>2, <1>3, <1>4, <1>5, <1>6, <1>7

LEMMA Invariance == Inv /\ [Next]_vars => Inv'
<1> SUFFICES ASSUME Inv, [Next]_vars PROVE Inv'
  OBVIOUS
<1>1. ASSUME NEW r \in Requests, NEW b \in Browsers, RedirectToLogin(r, b) \/ Logout(r, b)
      PROVE  Inv'
  <2>1. PICK k \in {"page", "logout"}, x \in Instructions, y \in {"keep", "clear"} :
          /\ Receive(r, k, b, NoRequest) /\ Answer(r, x, y)
          /\ x = "set" <=> k = "page"
          /\ x = "clear" => k = "logout"
          /\ UNCHANGED <<restarts, jars, outsideVars>>
    BY <1>1 DEF RedirectToLogin, Logout, Instructions
  <2>2. /\ pc' = [pc EXCEPT ![r] = "answered"]
        /\ setState' = [setState EXCEPT ![r] = x]
        /\ setSession' = [setSession EXCEPT ![r] = y]
        /\ sealedAt' = [sealedAt EXCEPT ![r] = restarts]
    BY <2>1 DEF Answer
  <2>3. /\ pc' \in [Requests -> {"new", "exchanging", "validating", "answered", "done", "lost"}]
        /\ setState' \in [Requests -> Instructions]
        /\ setSession' \in [Requests -> Instructions]
        /\ sealedAt' \in [Requests -> 0 .. MaxRestarts]
        /\ pc'[r] = "answered" /\ setState'[r] = x /\ setSession'[r] # "set"
        /\ \A q \in Requests \ {r} : pc'[q] = pc[q] /\ setState'[q] = setState[q]
                                      /\ setSession'[q] = setSession[q]
    BY <2>2 DEF Inv, TypeOK, Instructions
  <2>4. CASE k = "page"
    BY <2>1, <2>3, <2>4, Reception
  <2>5. CASE k = "logout"
    BY <2>1, <2>3, <2>5, Reception
  <2>6. QED
    BY <2>4, <2>5
<1>2. ASSUME NEW r \in Requests, NEW b \in Browsers, NEW a \in Requests \cup {NoRequest},
             \/ a \in Requests /\ (RejectCallback(r, b, a) \/ ReportError(r, b, a))
             \/ a = NoRequest /\ RejectMalformed(r, b)
      PROVE  Inv'
  <2>1. PICK x \in {"keep", "clear"} :
          /\ Receive(r, "callback", b, a) /\ Answer(r, x, "keep")
          /\ UNCHANGED <<restarts, jars, outsideVars>>
    BY <1>2 DEF RejectCallback, ReportError, RejectMalformed, OpensCallback
  <2>2. x = "clear" => stateJar[b] = a /\ a \in Requests
    BY <1>2, <2>1
    DEF RejectCallback, ReportError, RejectMalformed, Correlated, Answer, Inv, TypeOK
  <2>3. /\ pc' \in [Requests -> {"new", "exchanging", "validating", "answered", "done", "lost"}]
        /\ setState' \in [Requests -> Instructions]
        /\ setSession' \in [Requests -> Instructions]
        /\ sealedAt' \in [Requests -> 0 .. MaxRestarts]
        /\ pc'[r] = "answered" /\ setState'[r] = x /\ setSession'[r] = "keep"
        /\ \A q \in Requests \ {r} : pc'[q] = pc[q] /\ setState'[q] = setState[q]
                                      /\ setSession'[q] = setSession[q]
    BY <2>1 DEF Answer, Inv, TypeOK, Instructions
  <2>4. QED
    BY <2>1, <2>2, <2>3, Reception
<1>3. ASSUME NEW r \in Requests, NEW b \in Browsers, NEW a \in Requests, AcceptCallback(r, b, a)
      PROVE  Inv'
  <2>1. pc[r] = "new" /\ setSession[r] = "keep" /\ setState[r] = "keep"
    BY <1>3 DEF AcceptCallback, OpensCallback, Receive, Inv, Sent
  <2>2. QED
    BY <1>3, <2>1, Reception
    DEF AcceptCallback, OpensCallback, Correlated, Inv, TypeOK
<1>4. CASE Restart
  <2>1. /\ pc' \in [Requests -> {"new", "exchanging", "validating", "answered", "done", "lost"}]
        /\ \A r \in Requests :
             pc'[r] = pc[r] \/ (pc[r] \in {"exchanging", "validating"} /\ pc'[r] = "lost")
    BY <1>4 DEF Restart, Inv, TypeOK
  <2>2. TypeOK'
    BY <1>4, <2>1, SignInAssumption DEF Restart, jars, outsideVars, Inv, TypeOK
  <2>3. Sent' /\ CallbacksAreOwn'
    BY <1>4, <2>1 DEF Restart, jars, outsideVars, Inv, Sent, CallbacksAreOwn
  <2>4. StatesAreOwn' /\ SessionsAreMade'
    BY <1>4, <2>1 DEF Restart, jars, outsideVars, Inv, TypeOK, StatesAreOwn, SessionsAreMade
  <2>5. StateIsKept'
    BY <1>4, <2>1, KeptWithoutDelivery DEF Restart, jars, outsideVars, Inv
  <2>6. ExchangesAreOwn'
    BY <1>4, <2>1, ExchangesStay DEF Restart, outsideVars, Inv
  <2>7. QED
    BY <2>2, <2>3, <2>4, <2>5, <2>6 DEF Inv
<1>5. CASE UNCHANGED vars
  BY <1>5
  DEF vars, jars, requestVars, outsideVars, Inv, TypeOK, Sent, CallbacksAreOwn, StatesAreOwn,
      SessionsAreMade, StateIsKept, Alone, ExchangesAreOwn
<1>6. QED
  BY <1>1, <1>2, <1>3, <1>4, <1>5, Progress DEF Next

LEMMA AlwaysInv == Spec => []Inv
  BY Initially, Invariance, PTL DEF Spec

-----------------------------------------------------------------------------
(* Every variable keeps its type. *)
THEOREM TypeCorrect == Spec => []TypeOK
<1>1. Inv => TypeOK
  BY DEF Inv
<1>2. QED
  BY <1>1, AlwaysInv, PTL

(* The session of a browser was made by a callback of its own sign-in       *)
(* (callback compares the state of the link with that of the cookie).       *)
THEOREM SignInsAreOwn == Spec => []OwnSignIn
<1>1. Inv => OwnSignIn
  BY DEF Inv, TypeOK, SessionsAreMade, CallbacksAreOwn, OwnSignIn
<1>2. QED
  BY <1>1, AlwaysInv, PTL

(* A callback with a state and a code is answered with an error only from a *)
(* browser that did not begin the sign-in, after a disturbance that is      *)
(* named, or because the provider refuses (callback consumes the state only *)
(* after the comparison, and sends a code only with the state).             *)
THEOREM SignInsFailForCause == Spec => SignInFailsForCause
<1> DEFINE Failed(r) == /\ pc[r] # "answered" /\ pc'[r] = "answered" /\ link'[r] # NoRequest
                        /\ grant[link'[r]] = "code" /\ setSession'[r] # "set"
           ForCause(r) == \/ from'[r] # from[link'[r]] \/ Disturbed(link'[r], r)
                          \/ RefusedByProvider(link'[r], r)
<1>1. ASSUME Inv, [Next]_vars, NEW r \in Requests, Failed(r)
      PROVE  ForCause(r)
  <2>1. \/ \E b \in Browsers, a \in Requests : RejectCallback(r, b, a) \/ ReportError(r, b, a)
        \/ FailCallback(r)
    <3>1. pc' # pc
      BY <1>1
    <3>2. ~Restart /\ ~ \E q \in Requests : Deliver(q) \/ Disconnect(q) \/ Authorize(q)
                                          \/ Exchange(q) \/ StateExpires(q)
      BY <1>1
      DEF Restart, Deliver, Disconnect, Authorize, Exchange, StateExpires, requestVars, Inv, TypeOK
    <3>3. ~ \E q \in Requests : FinishCallback(q)
      BY <1>1 DEF FinishCallback, Answer, Inv, TypeOK
    <3>4. ~ \E q \in Requests, b \in Browsers :
             RedirectToLogin(q, b) \/ Logout(q, b) \/ RejectMalformed(q, b)
      <4>1. ASSUME NEW q \in Requests, NEW b \in Browsers, NEW k, Receive(q, k, b, NoRequest),
                   pc' = [pc EXCEPT ![q] = "answered"]
            PROVE  FALSE
        BY <1>1, <4>1 DEF Receive, Inv, TypeOK
      <4>2. QED
        BY <4>1 DEF RedirectToLogin, Logout, RejectMalformed, Answer
    <3>5. ~ \E q \in Requests, b \in Browsers, a \in Requests : AcceptCallback(q, b, a)
      BY <1>1 DEF AcceptCallback, Inv, TypeOK
    <3>6. PICK q \in Requests :
            \/ \E b \in Browsers, a \in Requests :
                 RejectCallback(q, b, a) \/ ReportError(q, b, a)
            \/ FailCallback(q)
      BY <1>1, <3>1, <3>2, <3>3, <3>4, <3>5 DEF Next, vars, requestVars
    <3>7. q = r
      BY <1>1, <3>6 DEF RejectCallback, ReportError, FailCallback, Answer, Inv, TypeOK
    <3>8. QED
      BY <3>6, <3>7
  <2>2. ASSUME NEW b \in Browsers, NEW a \in Requests,
               RejectCallback(r, b, a) \/ ReportError(r, b, a)
        PROVE  ForCause(r)
    <3>1. link'[r] = a /\ from'[r] = b /\ pc[r] = "new"
      BY <1>1, <2>2 DEF RejectCallback, ReportError, OpensCallback, Receive, Inv, TypeOK
    <3>2. ~Correlated(b, a) /\ kind[a] = "page" /\ pc[a] = "done"
      BY <1>1, <2>2, <3>1 DEF RejectCallback, ReportError, Inv, Sent
    <3>3. ASSUME b = from[a], ~Disturbed(a, r) PROVE FALSE
      <4>1. Readable(a) /\ a \notin expired
        BY <3>3 DEF Disturbed
      <4>2. Alone(a)
        BY <1>1, <3>1, <3>3, SignInAssumption DEF Disturbed, Alone, Inv, Sent
      <4>3. stateJar[b] = a
        BY <1>1, <3>2, <3>3, <4>1, <4>2 DEF Inv, StateIsKept
      <4>4. QED
        BY <3>2, <4>1, <4>3 DEF Correlated
    <3>4. QED
      BY <3>1, <3>3
  <2>3. CASE FailCallback(r)
    <3>1. /\ pc[r] \in {"exchanging", "validating"}
          /\ link'[r] = link[r] /\ from'[r] = from[r]
      BY <2>3 DEF FailCallback
    <3>2. ASSUME pc[r] = "exchanging", link[r] \in spent
          PROVE  Disturbed(link[r], r)
      <4>1. PICK q \in Requests : /\ link[q] = link[r] /\ from[q] = from[link[r]]
                                  /\ pc[q] \notin {"new", "exchanging"}
        BY <1>1, <3>2 DEF Inv, ExchangesAreOwn
      <4>2. q # r
        BY <3>2, <4>1
      <4>3. QED
        BY <4>1, <4>2 DEF Disturbed
    <3>3. QED
      BY <3>1, <3>2 DEF RefusedByProvider
  <2>4. QED
    BY <2>1, <2>2, <2>3
<1>2. Inv /\ [Next]_vars => [\A r \in Requests : FailsForCause(r)]_vars
  BY <1>1 DEF FailsForCause
<1>3. QED
  BY <1>2, AlwaysInv, PTL DEF Spec, SignInFailsForCause
=============================================================================
