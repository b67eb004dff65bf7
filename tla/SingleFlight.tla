----------------------------- MODULE SingleFlight -----------------------------
(***************************************************************************)
(* What coordinated_refresh promises a request, without flights, clocks or *)
(* locks: calls to the token endpoint with one refresh token never overlap,*)
(* and a request is answered with the outcome of a finished call that was  *)
(* made with the token the request presented.                              *)
(***************************************************************************)
CONSTANTS Requests, Tokens, NoToken

VARIABLES phase,     \* "idle", "asking", "answered", "gone"
          token,     \* the refresh token a request presented
          answer,    \* the outcome a request was answered with
          callers,   \* the requests that are at the token endpoint now
          finished   \* finished[k]: the outcomes of the calls made with k

avars == <<phase, token, answer, callers, finished>>

Answers == {"Success", "Failed"}

AInit ==
    /\ phase = [r \in Requests |-> "idle"]
    /\ token = [r \in Requests |-> NoToken]
    /\ answer = [r \in Requests |-> "none"]
    /\ callers = {}
    /\ finished = [k \in Tokens |-> {}]

(* A request presents a token; only if nobody is calling with it may the    *)
(* request make the call itself.                                            *)
Ask(r, k) ==
    /\ phase[r] = "idle"
    /\ phase' = [phase EXCEPT ![r] = "asking"]
    /\ token' = [token EXCEPT ![r] = k]
    /\ \/ UNCHANGED callers
       \/ /\ \A s \in callers : token[s] # k
          /\ callers' = callers \cup {r}
    /\ UNCHANGED <<answer, finished>>

(* The call ends. *)
Finish(r, o) ==
    /\ r \in callers
    /\ callers' = callers \ {r}
    /\ finished' = [finished EXCEPT ![token[r]] = @ \cup {o}]
    /\ UNCHANGED <<phase, token, answer>>

(* The caller disappears: the call counts as failed. *)
Abandon(r) ==
    /\ r \in callers
    /\ callers' = callers \ {r}
    /\ finished' = [finished EXCEPT ![token[r]] = @ \cup {"Failed"}]
    /\ phase' = [phase EXCEPT ![r] = "gone"]
    /\ UNCHANGED <<token, answer>>

Answer(r, o) ==
    /\ phase[r] = "asking"
    /\ r \notin callers
    /\ o \in finished[token[r]]
    /\ phase' = [phase EXCEPT ![r] = "answered"]
    /\ answer' = [answer EXCEPT ![r] = o]
    /\ UNCHANGED <<token, callers, finished>>

Leave(r) ==
    /\ phase[r] = "asking"
    /\ r \notin callers
    /\ phase' = [phase EXCEPT ![r] = "gone"]
    /\ UNCHANGED <<token, answer, callers, finished>>

ANext ==
    \E r \in Requests :
        \/ \E k \in Tokens : Ask(r, k)
        \/ \E o \in Answers : Finish(r, o) \/ Answer(r, o)
        \/ Abandon(r)
        \/ Leave(r)

ASpec == AInit /\ [][ANext]_avars
=============================================================================
