--------------------------- MODULE JwksCacheProofs ---------------------------
(* Proofs about JwksCache: fetches are an interval apart for any number of  *)
(* requests and any interval, and an older set replaces a newer one only    *)
(* after a fetch that was slower than the interval.                         *)
EXTENDS JwksCache, SequenceTheorems, TLAPS

LEMMA Numbering == Sets \subseteq Nat \ {0} /\ 1 \in Sets
  BY JwksAssumption DEF Sets

(* What a request knows of its fetch at each point. *)
FetchState(r) ==
    /\ pc[r] \in {"start", "unknown"} => startedAt[r] = Never
    /\ pc[r] \in {"start", "unknown", "fetching"} => response[r] = 0
    /\ pc[r] \in {"fetching", "responded"} => startedAt[r] # Never
    /\ pc[r] = "responded" => response[r] # 0
    /\ startedAt[r] # Never => lastForced # Never /\ startedAt[r] <= lastForced
    /\ response[r] # 0 =>
         /\ response[r] <= published
         /\ startedAt[r] # Never /\ respondedAt[r] # Never
         /\ startedAt[r] <= respondedAt[r] /\ respondedAt[r] <= now

(* The throttle remembers the last fetch. *)
LastFetch ==
    lastForced # Never =>
        lastForced <= now /\ \E s \in Requests : startedAt[s] = lastForced

(* The provider answers with its sets in order. *)
AnswersInOrder ==
    \A r, s \in Requests :
        response[r] # 0 /\ response[r] < response[s] => respondedAt[r] <= respondedAt[s]

CurrentWasAnswered == current = 1 \/ \E s \in Requests : response[s] = current

Inv ==
    /\ TypeOK
    /\ \A r \in Requests : FetchState(r)
    /\ LastFetch
    /\ FetchesAreSpaced
    /\ AnswersInOrder
    /\ CurrentWasAnswered

-----------------------------------------------------------------------------
LEMMA Initially == Init => Inv
  BY Numbering, JwksAssumption
  DEF Init, Inv, TypeOK, Time, Points, FetchState, LastFetch, FetchesAreSpaced,
      AnswersInOrder, CurrentWasAnswered

LEMMA Verdicts == \A n, t : Verdict(n, t) \in {"accepted", "rejected"}
  BY DEF Verdict

LEMMA Invariance == Inv /\ [Next]_vars => Inv'
<1> SUFFICES ASSUME Inv, [Next]_vars PROVE Inv'
  OBVIOUS
<1> USE DEF Inv, TypeOK, Time, Points
<1>0. response \in [Requests -> Nat]
  <2>1. Sets \cup {0} \subseteq Nat
    BY Numbering
  <2>2. response \in [Requests -> Sets \cup {0}]
    OBVIOUS
  <2>3. QED
    BY <2>1, <2>2
(* Steps that end or begin a request without touching a fetch. *)
<1>1. ASSUME pc' \in [Requests -> Points], token' \in [Requests -> Tokens \cup {NoToken}],
             \A q \in Requests :
                 \/ pc'[q] = pc[q]
                 \/ pc[q] = "start" /\ pc'[q] = "unknown"
                 \/ pc'[q] \in {"accepted", "rejected", "dropped"},
             UNCHANGED <<now, published, lastForced, startedAt, respondedAt, response>>,
             \/ current' = current
             \/ \E q \in Requests : current' = response[q] /\ response[q] # 0
      PROVE  Inv'
  <2>1. TypeOK'
    BY <1>1
  <2>2. ASSUME NEW q \in Requests PROVE FetchState(q)'
    BY <1>1, <2>2 DEF FetchState
  <2>3. LastFetch' /\ FetchesAreSpaced' /\ AnswersInOrder' /\ CurrentWasAnswered'
    BY <1>1 DEF LastFetch, FetchesAreSpaced, AnswersInOrder, CurrentWasAnswered
  <2>4. QED
    BY <2>1, <2>2, <2>3
<1>2. ASSUME NEW r \in Requests, StartFetch(r) PROVE Inv'
  BY <1>2, JwksAssumption
  DEF StartFetch, Throttled, FetchState, LastFetch, FetchesAreSpaced, AnswersInOrder,
      CurrentWasAnswered
<1>3. ASSUME NEW r \in Requests, Respond(r) PROVE Inv'
  <2>1. TypeOK'
    BY <1>3 DEF Respond
  <2>2. published \in Nat \ {0} /\ now \in Nat
    BY Numbering
  <2>3. ASSUME NEW q \in Requests PROVE FetchState(q)'
    BY <1>3, <2>2, <2>3, JwksAssumption DEF Respond, FetchState, LastFetch
  <2>4. LastFetch' /\ FetchesAreSpaced'
    BY <1>3 DEF Respond, LastFetch, FetchesAreSpaced
  <2>5. AnswersInOrder'
    <3>1. \A q \in Requests : response[q] # 0 =>
             response[q] <= published /\ respondedAt[q] \in Nat /\ respondedAt[q] <= now
      BY DEF FetchState
    <3>2. \A q \in Requests : response[q] \in Nat
      BY <1>0
    <3>3. ASSUME NEW p \in Requests, NEW q \in Requests,
                 response'[p] # 0, response'[p] < response'[q]
          PROVE  respondedAt'[p] <= respondedAt'[q]
      <4>1. CASE p = r
        BY <1>3, <2>2, <3>1, <3>2, <3>3, <4>1 DEF Respond
      <4>2. CASE p # r /\ q = r
        BY <1>3, <2>2, <3>1, <3>3, <4>2 DEF Respond
      <4>3. CASE p # r /\ q # r
        BY <1>3, <3>3, <4>3 DEF Respond, AnswersInOrder
      <4>4. QED
        BY <4>1, <4>2, <4>3
    <3>4. QED
      BY <3>3 DEF AnswersInOrder
  <2>6. CurrentWasAnswered'
    BY <1>3, Numbering DEF Respond, CurrentWasAnswered, FetchState
  <2>7. QED
    BY <2>1, <2>3, <2>4, <2>5, <2>6
<1>4. CASE Rotate
  <2>1. TypeOK'
    BY <1>4 DEF Rotate
  <2>2. published \in Nat
    BY Numbering
  <2>3. ASSUME NEW q \in Requests PROVE FetchState(q)'
    <3>1. response[q] \in Nat
      BY <1>0
    <3>2. QED
      BY <1>4, <2>2, <2>3, <3>1 DEF Rotate, FetchState
  <2>4. LastFetch' /\ FetchesAreSpaced' /\ AnswersInOrder' /\ CurrentWasAnswered'
    BY <1>4 DEF Rotate, LastFetch, FetchesAreSpaced, AnswersInOrder, CurrentWasAnswered
  <2>5. QED
    BY <2>1, <2>3, <2>4
<1>5. CASE Tick
  BY <1>5, JwksAssumption
  DEF Tick, FetchState, LastFetch, FetchesAreSpaced, AnswersInOrder, CurrentWasAnswered
<1>6. CASE UNCHANGED vars
  BY <1>6
  DEF vars, FetchState, LastFetch, FetchesAreSpaced, AnswersInOrder, CurrentWasAnswered
<1>7. ASSUME NEW r \in Requests, NEW t \in Tokens, UseCached(r, t) \/ MissKey(r, t) PROVE Inv'
  BY <1>1, <1>7, Verdicts DEF UseCached, MissKey
<1>8. ASSUME NEW r \in Requests,
             \/ RejectThrottled(r) \/ FetchFails(r) \/ RejectResponse(r) \/ Drop(r)
             \/ UseResponse(r)
      PROVE  Inv'
  <2>1. CASE UseResponse(r)
    BY <1>1, <2>1, Verdicts DEF UseResponse, FetchState
  <2>2. CASE RejectThrottled(r) \/ FetchFails(r) \/ RejectResponse(r) \/ Drop(r)
    BY <1>1, <2>2 DEF RejectThrottled, FetchFails, RejectResponse, Drop
  <2>3. QED
    BY <1>8, <2>1, <2>2
<1>9. QED
  BY <1>2, <1>3, <1>4, <1>5, <1>6, <1>7, <1>8 DEF Next

LEMMA AlwaysInv == Spec => []Inv
  BY Initially, Invariance, PTL DEF Spec

-----------------------------------------------------------------------------
(* Every variable keeps its type. *)
THEOREM TypeCorrect == Spec => []TypeOK
<1>1. Inv => TypeOK
  BY DEF Inv
<1>2. QED
  BY <1>1, AlwaysInv, PTL

(* Fetches start at least an interval apart (should_force_refresh sets the  *)
(* throttle under one lock, before the fetch).                              *)
THEOREM FetchesSpaced == Spec => []FetchesAreSpaced
<1>1. Inv => FetchesAreSpaced
  BY DEF Inv
<1>2. QED
  BY <1>1, AlwaysInv, PTL

(* A token with an unknown key is turned away only within an interval of a  *)
(* fetch.                                                                   *)
THEOREM UnknownKeysWaitBriefly == Spec => TurnedAwayBriefly
<1>1. ASSUME Inv, [Next]_vars, NEW r \in Requests, pc[r] = "unknown", pc'[r] = "rejected"
      PROVE  \E s \in Requests : startedAt[s] # Never /\ now - startedAt[s] < Interval
  <2>1. pc # pc'
    BY <1>1
  <2>2. RejectThrottled(r)
    <3>1. PICK q \in Requests :
            \/ \E t \in Tokens : UseCached(q, t) \/ MissKey(q, t)
            \/ RejectThrottled(q) \/ StartFetch(q) \/ Respond(q) \/ FetchFails(q)
            \/ UseResponse(q) \/ RejectResponse(q) \/ Drop(q)
      BY <1>1, <2>1 DEF Next, vars, Rotate, Tick
    <3>2. q = r
      BY <1>1, <3>1
      DEF Inv, TypeOK, UseCached, MissKey, RejectThrottled, StartFetch, Respond, FetchFails,
          UseResponse, RejectResponse, Drop
    <3>3. QED
      BY <1>1, <3>1, <3>2
      DEF Inv, TypeOK, UseCached, MissKey, RejectThrottled, StartFetch, Respond, FetchFails,
          UseResponse, RejectResponse, Drop
  <2>3. QED
    BY <1>1, <2>2 DEF RejectThrottled, Throttled, Inv, LastFetch
<1>2. Inv /\ [Next]_vars =>
        [\A r \in Requests :
           (pc[r] = "unknown" /\ pc'[r] = "rejected") =>
               \E s \in Requests : startedAt[s] # Never /\ now - startedAt[s] < Interval]_vars
  BY <1>1
<1>3. QED
  BY <1>2, AlwaysInv, PTL DEF Spec, TurnedAwayBriefly

(* An older set replaces a newer one only after a fetch that outlasted the  *)
(* interval.                                                                *)
THEOREM OlderSetIsRare == Spec => OlderSetOnlyAfterSlowFetch
<1>1. ASSUME Inv, [Next]_vars, current' < current
      PROVE  \E r \in Requests :
               /\ pc[r] = "responded" /\ pc'[r] \in {"accepted", "rejected"}
               /\ \/ Slow(r)
                  \/ \E s \in Requests : response[s] = current /\ SlowAnswer(s)
  <2>1. current \in Nat \ {0}
    BY <1>1, Numbering DEF Inv, TypeOK
  <2>2. PICK r \in Requests : UseResponse(r)
    BY <1>1, <2>1
    DEF Next, vars, UseCached, MissKey, RejectThrottled, StartFetch, Respond, FetchFails,
        RejectResponse, Drop, Rotate, Tick
  <2>3. /\ response[r] \in Nat \ {0}
        /\ response[r] < current
        /\ pc[r] = "responded" /\ pc'[r] \in {"accepted", "rejected"}
    BY <1>1, <2>2, Verdicts, Numbering DEF UseResponse, Inv, TypeOK, Points, FetchState
  <2>4. PICK s \in Requests : response[s] = current
    BY <1>1, <2>1, <2>3 DEF Inv, CurrentWasAnswered
  <2>5. /\ s # r
        /\ startedAt[r] \in Time /\ startedAt[s] \in Time
        /\ respondedAt[r] \in Time /\ respondedAt[s] \in Time
        /\ startedAt[r] <= respondedAt[r] /\ startedAt[s] <= respondedAt[s]
        /\ respondedAt[s] <= now
        /\ respondedAt[r] <= respondedAt[s]
    BY <1>1, <2>1, <2>3, <2>4 DEF Inv, TypeOK, FetchState, AnswersInOrder
  <2>6. \/ startedAt[r] - startedAt[s] >= Interval
        \/ startedAt[s] - startedAt[r] >= Interval
    BY <1>1, <2>5, JwksAssumption DEF Inv, FetchesAreSpaced, Time
  <2>7. /\ now \in Int /\ Interval \in Int
        /\ startedAt[r] \in Int /\ startedAt[s] \in Int
        /\ respondedAt[r] \in Int /\ respondedAt[s] \in Int
    BY <1>1, <2>5, JwksAssumption DEF Inv, TypeOK, Time
  <2>8. Slow(r) \/ SlowAnswer(s)
    BY <2>5, <2>6, <2>7 DEF Slow, SlowAnswer
  <2>9. QED
    BY <2>3, <2>4, <2>8
<1>2. Inv /\ [Next]_vars =>
        [current' < current =>
           \E r \in Requests :
               /\ pc[r] = "responded" /\ pc'[r] \in {"accepted", "rejected"}
               /\ \/ Slow(r)
                  \/ \E s \in Requests : response[s] = current /\ SlowAnswer(s)]_vars
  BY <1>1
<1>3. QED
  BY <1>2, AlwaysInv, PTL DEF Spec, OlderSetOnlyAfterSlowFetch
=============================================================================
