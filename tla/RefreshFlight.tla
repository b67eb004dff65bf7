---------------------------- MODULE RefreshFlight ----------------------------
(***************************************************************************)
(* One refresh flight of web_app.rs: a write-once outcome that one leader  *)
(* publishes and any number of request futures await.                      *)
(*                                                                         *)
(* Waiting is a poll function: under the flight's mutex a poll either      *)
(* takes the outcome or leaves the waker of the polling task in `waiters`. *)
(* The leader publishes under the same mutex, takes the list, and wakes    *)
(* the tasks after it has released the mutex.  What can go wrong is the    *)
(* usual trouble of such code: a waker that is lost between the check and  *)
(* the registration, a waker that is stale because the future moved to     *)
(* another task, a second publication that changes what others have read.  *)
(*                                                                         *)
(* A waker stands for a task.  Two futures of one task have one waker, and *)
(* a future that migrates is polled with another one.                      *)
(***************************************************************************)
CONSTANTS Requests,  \* the futures that await this flight
          Wakers,    \* the tasks they are polled from
          NoWaker,   \* the waker of a future that was never polled
          NoOutcome  \* the outcome before the leader publishes one

ASSUME WakersAssumption == /\ NoWaker \notin Wakers
                           /\ NoOutcome \notin {"Success", "Failed"}

Outcomes == {"Success", "Failed"}

VARIABLES
    outcome,   \* RefreshFlightState.outcome
    waiters,   \* RefreshFlightState.waiters, without duplicates
    leader,    \* the guard: "armed", "waking" (list taken), "released"
    taken,     \* wakers taken from the list and not woken yet
    future,    \* the state of each awaiting future
    waker,     \* the waker each future was polled with last
    runnable,  \* the futures whose task the executor will poll
    result     \* what each future returned

vars == <<outcome, waiters, leader, taken, future, waker, runnable, result>>

TypeOK ==
    /\ outcome \in Outcomes \cup {NoOutcome}
    /\ waiters \subseteq Wakers
    /\ leader \in {"armed", "waking", "released"}
    /\ taken \subseteq Wakers
    /\ future \in [Requests -> {"idle", "polling", "ready", "dropped"}]
    /\ waker \in [Requests -> Wakers \cup {NoWaker}]
    /\ runnable \subseteq Requests
    /\ result \in [Requests -> Outcomes \cup {NoOutcome}]
    /\ \A r \in Requests : future[r] = "ready" <=> result[r] # NoOutcome

Init ==
    /\ outcome = NoOutcome
    /\ waiters = {}
    /\ leader = "armed"
    /\ taken = {}
    /\ future = [r \in Requests |-> "idle"]
    /\ waker = [r \in Requests |-> NoWaker]
    /\ runnable = {}
    /\ result = [r \in Requests |-> NoOutcome]

-----------------------------------------------------------------------------
(* Slips: forms that some of the operators below could have by mistake.  No *)
(* specification uses them; they show that the properties can fail.         *)

(* The poll returns without looking at the outcome. *)
PollReadyUnchecked(r) ==
    /\ r \in runnable
    /\ future' = [future EXCEPT ![r] = "ready"]
    /\ result' = [result EXCEPT ![r] = outcome]
    /\ runnable' = runnable \ {r}
    /\ UNCHANGED <<outcome, waiters, leader, taken, waker>>

(* Only the first poll of a future registers its waker. *)
PollPendingFirstWakerOnly(r, w) ==
    /\ r \in runnable
    /\ outcome = NoOutcome
    /\ waiters' = IF waker[r] = NoWaker THEN waiters \cup {w} ELSE waiters
    /\ waker' = [waker EXCEPT ![r] = w]
    /\ runnable' = runnable \ {r}
    /\ UNCHANGED <<outcome, leader, taken, future, result>>

(* The list is cleared and nobody is woken. *)
PublishWithoutWaking(o) ==
    /\ leader = "armed"
    /\ outcome' = o
    /\ taken' = {}
    /\ waiters' = {}
    /\ leader' = "waking"
    /\ UNCHANGED <<future, waker, runnable, result>>

(* complete(self) forgets `armed = false`. *)
ReleaseGuardArmed ==
    /\ leader = "waking"
    /\ taken = {}
    /\ leader' = "armed"
    /\ UNCHANGED <<outcome, waiters, taken, future, waker, runnable, result>>

-----------------------------------------------------------------------------
(* The future of `flight.wait()` is created and its task is about to poll it. *)
StartWait(r) ==
    /\ future[r] = "idle"
    /\ future' = [future EXCEPT ![r] = "polling"]
    /\ runnable' = runnable \cup {r}
    /\ UNCHANGED <<outcome, waiters, leader, taken, waker, result>>

(* The poll that finds an outcome returns it. *)
PollReady(r) ==
    /\ r \in runnable
    /\ outcome # NoOutcome
    /\ future' = [future EXCEPT ![r] = "ready"]
    /\ result' = [result EXCEPT ![r] = outcome]
    /\ runnable' = runnable \ {r}
    /\ UNCHANGED <<outcome, waiters, leader, taken, waker>>

(* The poll that finds none registers the waker of this poll, unless an     *)
(* equal one is registered already (`will_wake`), and suspends.             *)
PollPending(r, w) ==
    /\ r \in runnable
    /\ outcome = NoOutcome
    /\ waiters' = waiters \cup {w}
    /\ waker' = [waker EXCEPT ![r] = w]
    /\ runnable' = runnable \ {r}
    /\ UNCHANGED <<outcome, leader, taken, future, result>>

(* Executors may poll a future that nobody woke. *)
SpuriousPoll(r) ==
    /\ future[r] = "polling"
    /\ runnable' = runnable \cup {r}
    /\ UNCHANGED <<outcome, waiters, leader, taken, future, waker, result>>

(* The request is dropped: its waker stays in the list. *)
DropWait(r) ==
    /\ future[r] = "polling"
    /\ future' = [future EXCEPT ![r] = "dropped"]
    /\ runnable' = runnable \ {r}
    /\ UNCHANGED <<outcome, waiters, leader, taken, waker, result>>

(* RefreshFlight::complete, under the mutex: publish and take the list.  The *)
(* leader calls it with its outcome, and the drop of an armed guard calls it *)
(* with Failed.                                                              *)
Publish(o) ==
    /\ leader = "armed"
    /\ outcome' = o
    /\ taken' = waiters
    /\ waiters' = {}
    /\ leader' = "waking"
    /\ UNCHANGED <<future, waker, runnable, result>>

Complete == \E o \in Outcomes : Publish(o)
DropArmedGuard == Publish("Failed")

(* One turn of the loop `waiter.wake()`, after the mutex is released.  The   *)
(* wake reaches the futures that this task owns at that moment.              *)
Wake(w) ==
    /\ w \in taken
    /\ taken' = taken \ {w}
    /\ runnable' = runnable \cup
                     {r \in Requests : future[r] = "polling" /\ waker[r] = w}
    /\ UNCHANGED <<outcome, waiters, leader, future, waker, result>>

(* complete(self) disarms the guard, whose drop then does nothing. *)
ReleaseGuard ==
    /\ leader = "waking"
    /\ taken = {}
    /\ leader' = "released"
    /\ UNCHANGED <<outcome, waiters, taken, future, waker, runnable, result>>

Next ==
    \/ \E r \in Requests :
         \/ StartWait(r)
         \/ PollReady(r)
         \/ SpuriousPoll(r)
         \/ DropWait(r)
         \/ \E w \in Wakers : PollPending(r, w)
    \/ Complete
    \/ DropArmedGuard
    \/ \E w \in Wakers : Wake(w)
    \/ ReleaseGuard

(* The executor polls a task that was woken, and the loop that wakes the     *)
(* tasks runs to its end.  Nothing is assumed about the leader: it may take  *)
(* for ever to publish.                                                      *)
Fairness ==
    /\ \A r \in Requests :
         /\ WF_vars(PollReady(r))
         /\ WF_vars(\E w \in Wakers : PollPending(r, w))
    /\ \A w \in Wakers : WF_vars(Wake(w))

Spec == Init /\ [][Next]_vars /\ Fairness

-----------------------------------------------------------------------------
(* A future that is suspended, so that only a wake can move it, has the      *)
(* waker of its last poll in the list while there is no outcome, and in the  *)
(* wakes still due once there is one: no wakeup is lost between the check    *)
(* and the registration (RefreshFlight::wait, ::complete).                   *)
NoLostWakeup ==
    \A r \in Requests :
        future[r] = "polling" /\ r \notin runnable =>
            \/ outcome = NoOutcome /\ waker[r] \in waiters
            \/ waker[r] \in taken

(* All requests that share a flight act on one outcome: no two of them read  *)
(* different ones, whenever they joined, polled or were woken.  The guard's  *)
(* drop must therefore not publish after complete did.                       *)
Agreement ==
    \A r, s \in Requests :
        future[r] = "ready" /\ future[s] = "ready" => result[r] = result[s]

(* Once the leader has published, every future that still waits returns or   *)
(* is dropped, whatever the executor polls spuriously meanwhile.             *)
WaitersReturn ==
    \A r \in Requests :
        (outcome # NoOutcome /\ future[r] = "polling") ~>
            future[r] \in {"ready", "dropped"}
=============================================================================
