------------------------- MODULE RefreshFlightsProofs -------------------------
(***************************************************************************)
(* The table of refresh flights, for every number of requests and tokens   *)
(* and every retention period: one call at a time with a refresh token, no *)
(* second call within the retention period, and the implementation of      *)
(* SingleFlight.                                                           *)
(***************************************************************************)
EXTENDS RefreshFlights, TLAPS

(* The request f created a flight. *)
IsFlight(f) == joined[f] = f

(* What a flight's outcome says of its leader, and where a leader is. *)
OutcomeInv ==
    \A f \in Requests :
        /\ pc[f] = "start" => joined[f] = NoFlight /\ token[f] = NoToken
        /\ pc[f] # "start" => joined[f] \in Requests /\ token[f] \in Tokens
        /\ pc[f] = "leading" => IsFlight(f) /\ outcome[f] = "none"
        /\ pc[f] \in {"removing", "abandoned"} => IsFlight(f)
        /\ outcome[f] # "none" =>
             IsFlight(f) /\ pc[f] \in {"waiting", "done", "removing", "abandoned"}
        /\ IsFlight(f) /\ outcome[f] = "none" => pc[f] = "leading"
        /\ completedAt[f] <= now

(* An entry of the table is a flight of its token that was not given up,    *)
(* and the calls in progress are all in the table.                          *)
TableInv ==
    /\ \A k \in Tokens : flights[k] # NoFlight =>
         /\ IsFlight(flights[k])
         /\ token[flights[k]] = k
         /\ pc[flights[k]] # "abandoned"
    /\ \A f \in Requests : pc[f] = "leading" => flights[token[f]] = f

(* A flight that completed normally stays in the table for the retention    *)
(* period.                                                                  *)
RetentionInv ==
    \A f \in Requests :
        IsFlight(f) /\ pc[f] \in {"waiting", "done"} /\ now - completedAt[f] < Retention
        => flights[token[f]] = f

(* A request waits on a flight of its own token and returns its outcome. *)
AnswerInv ==
    \A r \in Requests :
        /\ joined[r] # NoFlight => IsFlight(joined[r]) /\ token[joined[r]] = token[r]
        /\ pc[r] = "done" => result[r] = outcome[joined[r]] /\ result[r] # "none"
        /\ pc[r] # "done" => result[r] = "none"

IInv == TypeOK /\ OutcomeInv /\ TableInv /\ RetentionInv /\ AnswerInv

-----------------------------------------------------------------------------
(* Pruning keeps an entry or removes it; what it removes was completed at   *)
(* least a retention period ago, so a call in progress stays.               *)
LEMMA RetainedFacts ==
  ASSUME TypeOK, NEW k \in Tokens
  PROVE  /\ Retained \in [Tokens -> Requests \cup {NoFlight}]
         /\ Retained[k] # NoFlight => Retained[k] = flights[k]
         /\ (flights[k] # NoFlight /\ Retained[k] = NoFlight) =>
              /\ outcome[flights[k]] # "none"
              /\ now - completedAt[flights[k]] >= Retention
  BY FlightsAssumption DEF TypeOK, Retained, Stale

LEMMA InitIInv == Init => IInv
  BY FlightsAssumption
     DEF Init, IInv, TypeOK, OutcomeInv, TableInv, RetentionInv, AnswerInv, IsFlight,
         Time, Points

(* The invariant is kept by every step of a request and of the clock. *)
LEMMA NextIInv == IInv /\ [Next]_vars => IInv'
<1> SUFFICES ASSUME IInv, [Next]_vars
             PROVE  IInv'
  OBVIOUS
<1> USE FlightsAssumption
    DEF IInv, TypeOK, OutcomeInv, TableInv, RetentionInv, AnswerInv, IsFlight,
        Points, Outcomes
<1>1. ASSUME NEW r \in Requests, NEW k \in Tokens, JoinAsFollower(r, k)
      PROVE  IInv'
  <2>1. \A j \in Tokens :
          /\ Retained \in [Tokens -> Requests \cup {NoFlight}]
          /\ Retained[j] # NoFlight => Retained[j] = flights[j]
          /\ (flights[j] # NoFlight /\ Retained[j] = NoFlight) =>
               /\ outcome[flights[j]] # "none"
               /\ now - completedAt[flights[j]] >= Retention
    BY RetainedFacts
  <2> DEFINE f == flights[k]
  <2>2. /\ f \in Requests /\ f # r /\ Retained[k] = f
        /\ IsFlight(f) /\ token[f] = k
    BY <1>1, <2>1 DEF JoinAsFollower
  <2>3. TypeOK'
    BY <1>1, <2>1, <2>2 DEF JoinAsFollower
  <2>4. OutcomeInv'
    BY <1>1, <2>2 DEF JoinAsFollower
  <2>5. TableInv'
    BY <1>1, <2>1 DEF JoinAsFollower
  <2>6. RetentionInv'
    BY <1>1, <2>1, <2>2 DEF JoinAsFollower, Time
  <2>7. AnswerInv'
    BY <1>1, <2>2 DEF JoinAsFollower
  <2>8. QED
    BY <2>3, <2>4, <2>5, <2>6, <2>7
<1>2. ASSUME NEW r \in Requests, NEW k \in Tokens, JoinAsLeader(r, k)
      PROVE  IInv'
  <2>1. \A j \in Tokens :
          /\ Retained \in [Tokens -> Requests \cup {NoFlight}]
          /\ Retained[j] # NoFlight => Retained[j] = flights[j]
          /\ (flights[j] # NoFlight /\ Retained[j] = NoFlight) =>
               /\ outcome[flights[j]] # "none"
               /\ now - completedAt[flights[j]] >= Retention
    BY RetainedFacts
  <2>2. TypeOK'
    BY <1>2, <2>1 DEF JoinAsLeader
  <2>3. OutcomeInv'
    BY <1>2 DEF JoinAsLeader
  <2>4. TableInv'
    BY <1>2, <2>1 DEF JoinAsLeader
  <2>5. RetentionInv'
    BY <1>2, <2>1 DEF JoinAsLeader, Time
  <2>6. AnswerInv'
    BY <1>2 DEF JoinAsLeader
  <2>7. QED
    BY <2>2, <2>3, <2>4, <2>5, <2>6
<1>3. ASSUME NEW r \in Requests, NEW o \in Outcomes, Complete(r, o)
      PROVE  IInv'
  BY <1>3 DEF Complete, Time
<1>4. ASSUME NEW r \in Requests, DropLeader(r)
      PROVE  IInv'
  BY <1>4 DEF DropLeader, Time
<1>5. ASSUME NEW r \in Requests, RemoveFlight(r)
      PROVE  IInv'
  BY <1>5 DEF RemoveFlight, Time
<1>6. ASSUME NEW r \in Requests, ReturnOutcome(r)
      PROVE  IInv'
  BY <1>6 DEF ReturnOutcome, Time
<1>7. ASSUME NEW r \in Requests, DropWaiter(r)
      PROVE  IInv'
  BY <1>7 DEF DropWaiter, Time
<1>8. CASE Tick
  BY <1>8 DEF Tick, Time
<1>9. CASE UNCHANGED vars
  BY <1>9 DEF vars
<1>10. QED
  BY <1>1, <1>2, <1>3, <1>4, <1>5, <1>6, <1>7, <1>8, <1>9 DEF Next, RequestNext

LEMMA SpecIInv == Spec => []IInv
  BY InitIInv, NextIInv, PTL DEF Spec

-----------------------------------------------------------------------------
(* Type correctness of the table and of the requests. *)
THEOREM TypeCorrect == Spec => []TypeOK
<1>1. IInv => TypeOK
  BY DEF IInv
<1>2. QED
  BY <1>1, SpecIInv, PTL

(* Two calls with one refresh token never overlap: each is in the table     *)
(* under its token, which has room for one.                                 *)
THEOREM CallsNeverOverlap == Spec => []OneLeaderPerToken
<1>1. IInv => OneLeaderPerToken
  BY DEF IInv, TableInv, OneLeaderPerToken, Leaders
<1>2. QED
  BY <1>1, SpecIInv, PTL

(* A request is answered by a call made with its own refresh token. *)
THEOREM AnswersAreOwn == Spec => []AnswerIsForOwnToken
<1>1. IInv => AnswerIsForOwnToken
  BY FlightsAssumption DEF IInv, TypeOK, OutcomeInv, AnswerInv, AnswerIsForOwnToken
<1>2. QED
  BY <1>1, SpecIInv, PTL

(* A dropped leader leaves no failure behind. *)
THEOREM AbandonedFlightsLeave == Spec => []AbandonedFlightIsForgotten
<1>1. IInv => AbandonedFlightIsForgotten
  BY DEF IInv, TableInv, AbandonedFlightIsForgotten
<1>2. QED
  BY <1>1, SpecIInv, PTL

(* No token is presented again within the retention period of a call that   *)
(* completed: the flight of that call would still be in the table.          *)
THEOREM OneCallInRetention == Spec => OneCallPerRetention
<1> DEFINE Obligation ==
      \A f, g \in Requests :
         (/\ pc[g] = "start" /\ pc'[g] = "leading"
          /\ joined[f] = f /\ token[f] = token'[g]
          /\ pc[f] \in {"waiting", "done"})
         => now - completedAt[f] >= Retention
<1>1. IInv /\ [Next]_vars => [Obligation]_vars
  <2> SUFFICES ASSUME IInv, Next,
                      NEW f \in Requests, NEW g \in Requests,
                      pc[g] = "start", pc'[g] = "leading",
                      joined[f] = f, token[f] = token'[g],
                      pc[f] \in {"waiting", "done"}
               PROVE  now - completedAt[f] >= Retention
    OBVIOUS
  <2> USE FlightsAssumption DEF IInv, TypeOK, Points
  <2>1. PICK k \in Tokens : JoinAsLeader(g, k)
    <3>1. PICK r \in Requests : RequestNext(r)
      BY DEF Next, Tick
    <3>2. r = g
      BY <3>1 DEF RequestNext, JoinAsFollower, JoinAsLeader, Complete, DropLeader,
                  RemoveFlight, ReturnOutcome, DropWaiter
    <3>3. QED
      BY <3>1, <3>2 DEF RequestNext, JoinAsFollower, Complete, DropLeader,
                        RemoveFlight, ReturnOutcome, DropWaiter
  <2>2. token[f] = k
    BY <2>1 DEF JoinAsLeader
  <2>3. CASE flights[k] = f
    BY <2>1, <2>3, RetainedFacts DEF JoinAsLeader
  <2>4. CASE flights[k] # f
    BY <2>2, <2>4 DEF RetentionInv, IsFlight, Time
  <2>5. QED
    BY <2>3, <2>4
<1>2. QED
  BY <1>1, SpecIInv, PTL DEF Spec, OneCallPerRetention

-----------------------------------------------------------------------------
(* Publishing an outcome of r adds it to the finished calls of its token    *)
(* and to no other.                                                         *)
LEMMA PublishAddsFinished ==
  ASSUME IInv, NEW r \in Requests, NEW o \in Outcomes, pc[r] = "leading",
         outcome' = [outcome EXCEPT ![r] = o], UNCHANGED token
  PROVE  FinishedCalls' = [FinishedCalls EXCEPT ![token[r]] = @ \cup {o}]
<1> USE DEF IInv, TypeOK, OutcomeInv, Outcomes
<1>1. outcome[r] = "none" /\ token[r] \in Tokens
  OBVIOUS
<1> DEFINE Calls(k) == {outcome[f] : f \in {f \in Requests : token[f] = k /\ outcome[f] # "none"}}
<1>2. ASSUME NEW k \in Tokens
      PROVE  Calls(k)' = IF k = token[r] THEN Calls(k) \cup {o} ELSE Calls(k)
  <2>1. \A f \in Requests : f # r => outcome'[f] = outcome[f]
    OBVIOUS
  <2>2. outcome'[r] = o /\ o # "none"
    OBVIOUS
  <2>3. ASSUME NEW x \in Calls(k)'
        PROVE  x \in IF k = token[r] THEN Calls(k) \cup {o} ELSE Calls(k)
    BY <2>1, <2>2
  <2>4. ASSUME NEW x \in IF k = token[r] THEN Calls(k) \cup {o} ELSE Calls(k)
        PROVE  x \in Calls(k)'
    BY <2>1, <2>2, <1>1
  <2>5. QED
    BY <2>3, <2>4
<1>3. FinishedCalls = [k \in Tokens |-> Calls(k)] /\ FinishedCalls' = [k \in Tokens |-> Calls(k)']
  BY DEF FinishedCalls
<1> HIDE DEF Calls
<1>4. QED
  BY <1>1, <1>2, <1>3

(* A step that publishes nothing leaves the finished calls as they are. *)
LEMMA NothingPublished ==
  ASSUME UNCHANGED outcome,
         \A f \in Requests : outcome[f] # "none" => token'[f] = token[f],
         \A f \in Requests : outcome[f] = "none" => outcome'[f] = "none"
  PROVE  FinishedCalls' = FinishedCalls
<1>1. \A k : {f \in Requests : token'[f] = k /\ outcome'[f] # "none"}
              = {f \in Requests : token[f] = k /\ outcome[f] # "none"}
  OBVIOUS
<1>2. QED
  BY <1>1 DEF FinishedCalls

(* Each step of the table is a step of SingleFlight or changes nothing that *)
(* SingleFlight sees.                                                       *)
LEMMA NextImplements ==
  IInv /\ [Next]_vars => [Abstract!ANext]_(Abstract!avars)
<1> SUFFICES ASSUME IInv, [Next]_vars
             PROVE  Abstract!ANext \/ UNCHANGED Abstract!avars
  OBVIOUS
<1> USE FlightsAssumption DEF IInv, TypeOK, Points
<1>1. ASSUME NEW r \in Requests, NEW k \in Tokens, JoinAsFollower(r, k)
      PROVE  Abstract!Ask(r, k)
  <2>1. FinishedCalls' = FinishedCalls
    BY <1>1, NothingPublished DEF JoinAsFollower, OutcomeInv, IsFlight
  <2>2. AbstractPhase' = [AbstractPhase EXCEPT ![r] = "asking"] /\ AbstractPhase[r] = "idle"
    BY <1>1 DEF JoinAsFollower, AbstractPhase
  <2>3. Leaders' = Leaders
    BY <1>1 DEF JoinAsFollower, Leaders
  <2>4. QED
    BY <1>1, <2>1, <2>2, <2>3 DEF JoinAsFollower, Abstract!Ask
<1>2. ASSUME NEW r \in Requests, NEW k \in Tokens, JoinAsLeader(r, k)
      PROVE  Abstract!Ask(r, k)
  <2>1. FinishedCalls' = FinishedCalls
    BY <1>2, NothingPublished DEF JoinAsLeader, OutcomeInv, IsFlight
  <2>2. AbstractPhase' = [AbstractPhase EXCEPT ![r] = "asking"] /\ AbstractPhase[r] = "idle"
    BY <1>2 DEF JoinAsLeader, AbstractPhase
  <2>3. Leaders' = Leaders \cup {r}
    BY <1>2 DEF JoinAsLeader, Leaders
  <2>4. \A s \in Leaders : token[s] # k
    BY <1>2, RetainedFacts DEF JoinAsLeader, Leaders, TableInv, OutcomeInv
  <2>5. QED
    BY <1>2, <2>1, <2>2, <2>3, <2>4 DEF JoinAsLeader, Abstract!Ask
<1>3. ASSUME NEW r \in Requests, NEW o \in Outcomes, Complete(r, o)
      PROVE  Abstract!Finish(r, o)
  <2>1. FinishedCalls' = [FinishedCalls EXCEPT ![token[r]] = @ \cup {o}]
    BY <1>3, PublishAddsFinished DEF Complete
  <2>2. AbstractPhase' = AbstractPhase
    BY <1>3 DEF Complete, AbstractPhase
  <2>3. Leaders' = Leaders \ {r} /\ r \in Leaders
    BY <1>3 DEF Complete, Leaders
  <2>4. QED
    BY <1>3, <2>1, <2>2, <2>3 DEF Complete, Abstract!Finish
<1>4. ASSUME NEW r \in Requests, DropLeader(r)
      PROVE  Abstract!Abandon(r)
  <2>1. FinishedCalls' = [FinishedCalls EXCEPT ![token[r]] = @ \cup {"Failed"}]
    BY <1>4, PublishAddsFinished DEF DropLeader, Outcomes
  <2>2. AbstractPhase' = [AbstractPhase EXCEPT ![r] = "gone"]
    BY <1>4 DEF DropLeader, AbstractPhase
  <2>3. Leaders' = Leaders \ {r} /\ r \in Leaders
    BY <1>4 DEF DropLeader, Leaders
  <2>4. QED
    BY <1>4, <2>1, <2>2, <2>3 DEF DropLeader, Abstract!Abandon
<1>5. ASSUME NEW r \in Requests, RemoveFlight(r)
      PROVE  UNCHANGED Abstract!avars
  <2>1. FinishedCalls' = FinishedCalls
    BY <1>5, NothingPublished DEF RemoveFlight
  <2>2. AbstractPhase' = AbstractPhase /\ Leaders' = Leaders
    BY <1>5 DEF RemoveFlight, AbstractPhase, Leaders
  <2>3. QED
    BY <1>5, <2>1, <2>2 DEF RemoveFlight, Abstract!avars
<1>6. ASSUME NEW r \in Requests, ReturnOutcome(r)
      PROVE  Abstract!Answer(r, outcome[joined[r]])
  <2>1. FinishedCalls' = FinishedCalls
    BY <1>6, NothingPublished DEF ReturnOutcome
  <2>2. /\ AbstractPhase' = [AbstractPhase EXCEPT ![r] = "answered"]
        /\ AbstractPhase[r] = "asking"
        /\ Leaders' = Leaders /\ r \notin Leaders
    BY <1>6 DEF ReturnOutcome, AbstractPhase, Leaders
  <2>3. outcome[joined[r]] \in FinishedCalls[token[r]]
    BY <1>6 DEF ReturnOutcome, FinishedCalls, OutcomeInv, AnswerInv
  <2>4. QED
    BY <1>6, <2>1, <2>2, <2>3 DEF ReturnOutcome, Abstract!Answer
<1>7. ASSUME NEW r \in Requests, DropWaiter(r)
      PROVE  Abstract!Leave(r)
  <2>1. FinishedCalls' = FinishedCalls
    BY <1>7, NothingPublished DEF DropWaiter
  <2>2. /\ AbstractPhase' = [AbstractPhase EXCEPT ![r] = "gone"]
        /\ AbstractPhase[r] = "asking"
        /\ Leaders' = Leaders /\ r \notin Leaders
    BY <1>7 DEF DropWaiter, AbstractPhase, Leaders
  <2>3. QED
    BY <1>7, <2>1, <2>2 DEF DropWaiter, Abstract!Leave
<1>8. ASSUME Tick \/ UNCHANGED vars
      PROVE  UNCHANGED Abstract!avars
  BY <1>8 DEF Tick, vars, Abstract!avars, AbstractPhase, Leaders, FinishedCalls
<1>9. \A r \in Requests : ReturnOutcome(r) => outcome[joined[r]] \in Outcomes
  BY DEF ReturnOutcome, OutcomeInv
<1>10. QED
  BY <1>1, <1>2, <1>3, <1>4, <1>5, <1>6, <1>7, <1>8, <1>9
     DEF Next, RequestNext, Abstract!ANext, Abstract!Answers, Outcomes

(* The table and its requests implement SingleFlight: calls with a token    *)
(* never overlap and every answer is that of a finished call with it.       *)
THEOREM Implementation == Spec => ImplementsSingleFlight
<1>1. Init => Abstract!AInit
  BY DEF Init, Abstract!AInit, AbstractPhase, Leaders, FinishedCalls
<1>2. QED
  BY <1>1, NextImplements, SpecIInv, PTL DEF Spec, ImplementsSingleFlight, Abstract!ASpec
=============================================================================
