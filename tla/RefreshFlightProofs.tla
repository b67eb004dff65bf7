------------------------- MODULE RefreshFlightProofs -------------------------
(***************************************************************************)
(* The safety properties of a refresh flight hold for every number of      *)
(* futures and tasks.                                                      *)
(***************************************************************************)
EXTENDS RefreshFlight, TLAPS

(* The guard is armed exactly while nothing is published; only published    *)
(* outcomes are woken for; a task is polled only for a future that waits;   *)
(* and what a future returned is what was published.                        *)
GuardInv ==
    /\ leader = "armed" <=> outcome = NoOutcome
    /\ outcome = NoOutcome => taken = {}
    /\ \A r \in runnable : future[r] = "polling"
    /\ \A r \in Requests : future[r] = "ready" => result[r] = outcome

IInv == TypeOK /\ GuardInv /\ NoLostWakeup

(* The futures and the flight start as the invariant describes them. *)
LEMMA InitIInv == Init => IInv
  BY DEF Init, IInv, TypeOK, GuardInv, NoLostWakeup

(* Every step of a future, of the leader and of the wake loop keeps it. *)
LEMMA NextIInv == IInv /\ [Next]_vars => IInv'
<1> SUFFICES ASSUME IInv, [Next]_vars
             PROVE  IInv'
  OBVIOUS
<1> USE WakersAssumption DEF IInv, TypeOK, GuardInv, NoLostWakeup, Outcomes
<1>1. ASSUME NEW r \in Requests, StartWait(r)
      PROVE  IInv'
  BY <1>1 DEF StartWait
<1>2. ASSUME NEW r \in Requests, PollReady(r)
      PROVE  IInv'
  BY <1>2 DEF PollReady
<1>3. ASSUME NEW r \in Requests, NEW w \in Wakers, PollPending(r, w)
      PROVE  IInv'
  BY <1>3 DEF PollPending
<1>4. ASSUME NEW r \in Requests, SpuriousPoll(r)
      PROVE  IInv'
  BY <1>4 DEF SpuriousPoll
<1>5. ASSUME NEW r \in Requests, DropWait(r)
      PROVE  IInv'
  BY <1>5 DEF DropWait
<1>6. ASSUME NEW o \in Outcomes, Publish(o)
      PROVE  IInv'
  BY <1>6 DEF Publish
<1>7. ASSUME NEW w \in Wakers, Wake(w)
      PROVE  IInv'
  BY <1>7 DEF Wake
<1>8. CASE ReleaseGuard
  BY <1>8 DEF ReleaseGuard
<1>9. CASE UNCHANGED vars
  BY <1>9 DEF vars
<1>10. QED
  BY <1>1, <1>2, <1>3, <1>4, <1>5, <1>6, <1>7, <1>8, <1>9
     DEF Next, Complete, DropArmedGuard

(* The strengthened invariant holds in every reachable state. *)
LEMMA SpecIInv == Spec => []IInv
  BY InitIInv, NextIInv, PTL DEF Spec

(* Type correctness: every variable keeps its shape, and a future has a     *)
(* result exactly when it has returned.                                     *)
THEOREM TypeCorrect == Spec => []TypeOK
<1>1. IInv => TypeOK
  BY DEF IInv
<1>2. QED
  BY <1>1, SpecIInv, PTL

(* A suspended future is always reachable by a wake, for any number of      *)
(* futures, of tasks, of spurious polls and of migrations between tasks.    *)
THEOREM NoWakeupIsLost == Spec => []NoLostWakeup
<1>1. IInv => NoLostWakeup
  BY DEF IInv
<1>2. QED
  BY <1>1, SpecIInv, PTL

(* Any two requests that return from a flight return the same outcome. *)
THEOREM FuturesAgree == Spec => []Agreement
<1>1. IInv => Agreement
  BY DEF IInv, GuardInv, Agreement
<1>2. QED
  BY <1>1, SpecIInv, PTL

-----------------------------------------------------------------------------
(* The flight in the table.  RefreshFlights has the wait of a request in    *)
(* one step, ReturnOutcome, and no wakers.  Here is its table with the one  *)
(* flight that the futures await, and the leader of it, who is none of them. *)

Leader == CHOOSE l : l \notin Requests

Everybody == Requests \cup {Leader}

Nobody == CHOOSE n : n \notin Everybody

LEMMA Distinct == Leader \notin Requests /\ Nobody \notin Everybody
  BY NoSetContainsEverything DEF Leader, Nobody

Waits(r) == r = Leader \/ future[r] # "idle"

PointOf(r) ==
    CASE r = Leader /\ outcome = NoOutcome -> "leading"
      [] r = Leader /\ outcome # NoOutcome -> "waiting"
      [] r # Leader /\ future[r] = "idle" -> "start"
      [] r # Leader /\ future[r] = "polling" -> "waiting"
      [] r # Leader /\ future[r] = "ready" -> "done"
      [] OTHER -> "gone"

Table == INSTANCE RefreshFlights
             WITH Requests <- Everybody,
                  Tokens <- {"token"}, NoToken <- "none", NoFlight <- Nobody,
                  Retention <- 1, MaxTime <- 0,
                  now <- 0,
                  flights <- [k \in {"token"} |-> Leader],
                  outcome <- [f \in Everybody |->
                                 IF f = Leader /\ outcome # NoOutcome THEN outcome ELSE "none"],
                  completedAt <- [f \in Everybody |-> 0],
                  pc <- [r \in Everybody |-> PointOf(r)],
                  token <- [r \in Everybody |-> IF Waits(r) THEN "token" ELSE "none"],
                  joined <- [r \in Everybody |-> IF Waits(r) THEN Leader ELSE Nobody],
                  result <- [r \in Everybody |->
                                IF r # Leader /\ future[r] = "ready" THEN result[r] ELSE "none"]

(* The leader has joined and nobody else has. *)
Led ==
    \A r \in Everybody : PointOf(r) = IF r = Leader THEN "leading" ELSE "start"

(* A poll that suspends, a wake and the release of the guard change nothing *)
(* of the table.                                                            *)
LEMMA Unseen ==
  ASSUME IInv, UNCHANGED <<outcome, future, result>>
  PROVE  UNCHANGED Table!vars
<1>1. \A r : PointOf(r)' = PointOf(r) /\ (Waits(r)' <=> Waits(r))
  BY DEF PointOf, Waits
<1>2. QED
  BY <1>1 DEF Table!vars

LEMMA TableStep == IInv /\ [Next]_vars => [Table!Next]_(Table!vars)
<1> SUFFICES ASSUME IInv, [Next]_vars PROVE [Table!Next]_(Table!vars)
  OBVIOUS
<1>1. ASSUME NEW r \in Requests, StartWait(r) PROVE Table!JoinAsFollower(r, "token")
  <2>1. /\ r # Leader /\ Leader # Nobody /\ r \in Everybody /\ Leader \in Everybody
        /\ future[r] = "idle" /\ future' = [future EXCEPT ![r] = "polling"]
        /\ outcome' = outcome /\ result' = result
    BY <1>1, Distinct DEF StartWait, Everybody
  <2>2. /\ PointOf(r) = "start" /\ PointOf(r)' = "waiting" /\ Waits(r)'
        /\ \A s \in Everybody : s # r =>
              /\ PointOf(s)' = PointOf(s) /\ (Waits(s)' <=> Waits(s))
              /\ s # Leader => future'[s] = future[s]
    BY <2>1, Distinct DEF PointOf, Waits, IInv, TypeOK, Everybody
  <2>3. Table!Retained = [k \in {"token"} |-> Leader]
    BY <2>1 DEF Table!Retained, Table!Stale
  <2> DEFINE pc == [s \in Everybody |-> PointOf(s)]
             token == [s \in Everybody |-> IF Waits(s) THEN "token" ELSE "none"]
             joined == [s \in Everybody |-> IF Waits(s) THEN Leader ELSE Nobody]
             answers == [s \in Everybody |->
                            IF s # Leader /\ future[s] = "ready" THEN result[s] ELSE "none"]
  <2>4. pc' = [pc EXCEPT ![r] = "waiting"]
    BY <2>1, <2>2
  <2>5. token' = [token EXCEPT ![r] = "token"] /\ joined' = [joined EXCEPT ![r] = Leader]
    BY <2>1, <2>2
  <2>6. answers' = answers
    <3>1. future'[r] = "polling"
      BY <2>1 DEF IInv, TypeOK
    <3>2. QED
      BY <2>1, <2>2, <3>1
  <2>7. QED
    BY <2>1, <2>2, <2>3, <2>4, <2>5, <2>6 DEF Table!JoinAsFollower
<1>2. ASSUME NEW r \in Requests, PollReady(r) PROVE Table!ReturnOutcome(r)
  <2>1. /\ r # Leader /\ r \in Everybody /\ Leader \in Everybody
        /\ future[r] = "polling" /\ future' = [future EXCEPT ![r] = "ready"]
        /\ outcome # NoOutcome /\ outcome' = outcome
        /\ outcome # "none"
        /\ result' = [result EXCEPT ![r] = outcome]
    BY <1>2, Distinct, WakersAssumption
    DEF PollReady, IInv, TypeOK, GuardInv, Everybody, Outcomes
  <2>2. /\ PointOf(r) = "waiting" /\ PointOf(r)' = "done" /\ Waits(r) /\ Waits(r)'
        /\ future'[r] = "ready" /\ result'[r] = outcome
        /\ \A s \in Everybody : s # r =>
              /\ PointOf(s)' = PointOf(s) /\ (Waits(s)' <=> Waits(s))
              /\ s # Leader => future'[s] = future[s] /\ result'[s] = result[s]
    BY <2>1, Distinct DEF PointOf, Waits, IInv, TypeOK, Everybody
  <2> DEFINE pc == [s \in Everybody |-> PointOf(s)]
             token == [s \in Everybody |-> IF Waits(s) THEN "token" ELSE "none"]
             joined == [s \in Everybody |-> IF Waits(s) THEN Leader ELSE Nobody]
             answers == [s \in Everybody |->
                            IF s # Leader /\ future[s] = "ready" THEN result[s] ELSE "none"]
  <2>3. pc' = [pc EXCEPT ![r] = "done"]
    BY <2>1, <2>2
  <2>4. token' = token /\ joined' = joined /\ joined[r] = Leader
    BY <2>1, <2>2
  <2>5. answers' = [answers EXCEPT ![r] = outcome]
    BY <2>1, <2>2
  <2>6. QED
    BY <2>1, <2>2, <2>3, <2>4, <2>5 DEF Table!ReturnOutcome
<1>3. ASSUME NEW r \in Requests, DropWait(r) PROVE Table!DropWaiter(r)
  <2>1. /\ r # Leader /\ r \in Everybody /\ Leader \in Everybody
        /\ future[r] = "polling" /\ future' = [future EXCEPT ![r] = "dropped"]
        /\ outcome' = outcome /\ result' = result
    BY <1>3, Distinct DEF DropWait, Everybody
  <2>2. /\ PointOf(r) = "waiting" /\ PointOf(r)' = "gone" /\ Waits(r) /\ Waits(r)'
        /\ future'[r] = "dropped"
        /\ \A s \in Everybody : s # r =>
              /\ PointOf(s)' = PointOf(s) /\ (Waits(s)' <=> Waits(s))
              /\ s # Leader => future'[s] = future[s]
    BY <2>1, Distinct DEF PointOf, Waits, IInv, TypeOK, Everybody
  <2>3. QED
    BY <2>1, <2>2 DEF Table!DropWaiter
<1>4. ASSUME NEW o \in Outcomes, Publish(o) PROVE Table!Complete(Leader, o)
  <2>1. /\ outcome = NoOutcome /\ outcome' = o /\ o # NoOutcome
        /\ future' = future /\ result' = result /\ Leader \in Everybody
    BY <1>4, WakersAssumption DEF Publish, IInv, GuardInv, Outcomes, Everybody
  <2>2. /\ PointOf(Leader) = "leading" /\ PointOf(Leader)' = "waiting"
        /\ \A s \in Everybody :
              /\ s # Leader => PointOf(s)' = PointOf(s)
              /\ Waits(s)' <=> Waits(s)
    BY <2>1 DEF PointOf, Waits
  <2>3. QED
    BY <2>1, <2>2 DEF Table!Complete
<1>5. CASE \/ \E r \in Requests : SpuriousPoll(r) \/ \E w \in Wakers : PollPending(r, w)
           \/ \E w \in Wakers : Wake(w)
           \/ ReleaseGuard
           \/ UNCHANGED vars
  <2>1. UNCHANGED <<outcome, future, result>>
    BY <1>5 DEF SpuriousPoll, PollPending, Wake, ReleaseGuard, vars
  <2>2. QED
    BY <2>1, Unseen
<1>6. QED
  <2>1. \A r \in Everybody : Table!RequestNext(r) => Table!Next
    BY DEF Table!Next
  <2>2. Leader \in Everybody /\ \A r \in Requests : r \in Everybody
    BY DEF Everybody
  <2>3. /\ \A r \in Everybody :
             Table!JoinAsFollower(r, "token") \/ Table!ReturnOutcome(r) \/ Table!DropWaiter(r)
               => Table!RequestNext(r)
        /\ \A o \in Outcomes : Table!Complete(Leader, o) => Table!RequestNext(Leader)
    BY DEF Table!RequestNext, Outcomes, Table!Outcomes
  <2>4. CASE \E r \in Requests : StartWait(r) \/ PollReady(r) \/ DropWait(r)
    BY <1>1, <1>2, <1>3, <2>1, <2>2, <2>3, <2>4
  <2>5. CASE Complete \/ DropArmedGuard
    BY <1>4, <2>1, <2>2, <2>3, <2>5 DEF Complete, DropArmedGuard, Outcomes
  <2>6. QED
    BY <1>5, <2>4, <2>5 DEF Next

(* The wait of RefreshFlights is the wait of RefreshFlight: whatever is     *)
(* polled, woken and migrated, the requests of a flight do what its table   *)
(* lets them do, and nothing happens in the table by a poll that suspends   *)
(* or by a wake (RefreshFlight::wait, ::complete).                          *)
THEOREM WaitIsOneStep == Spec => Led /\ [][Table!Next]_(Table!vars)
<1>1. Init => Led
  BY Distinct DEF Init, Led, PointOf, Everybody
<1>2. QED
  BY <1>1, TableStep, SpecIInv, PTL DEF Spec
=============================================================================
