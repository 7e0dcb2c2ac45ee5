-------------------------- MODULE StatementService --------------------------
(***************************************************************************)
(* What the server promises about the statements of its clients, without   *)
(* locks, pools, connections or the number of queries a call makes: calls  *)
(* are served one at a time; a call that is turned away is never served;   *)
(* a statement takes effect at most once, while its call is served or      *)
(* after the call was told of a timeout; and the answer Ok implies that it *)
(* has taken effect.                                                       *)
(***************************************************************************)
EXTENDS Naturals

CONSTANTS
    Requests,
    Outcomes,           \* every answer
    TurnedAway,         \* the answers of calls that were not served
    NotStarted,         \* answers of served calls whose statement never ran
    Nobody              \* not a request

VARIABLES
    serving,            \* the request that is served, or Nobody
    statements,         \* the requests that carry a statement
    answer,             \* the answer of each request, "none" before
    effects             \* how often its statement took effect

svars == <<serving, statements, answer, effects>>

Init ==
    /\ serving = Nobody
    /\ statements = {}
    /\ answer = [r \in Requests |-> "none"]
    /\ effects = [r \in Requests |-> 0]

Submit(r) ==
    /\ answer[r] = "none" /\ serving # r /\ r \notin statements
    /\ statements' = statements \cup {r}
    /\ UNCHANGED <<serving, answer, effects>>

TurnAway(r) ==
    /\ answer[r] = "none" /\ serving # r
    /\ \E o \in TurnedAway : answer' = [answer EXCEPT ![r] = o]
    /\ UNCHANGED <<serving, statements, effects>>

\* A call without a statement may be answered without being served.
AnswerLocally(r) ==
    /\ answer[r] = "none" /\ serving # r /\ r \notin statements
    /\ answer' = [answer EXCEPT ![r] = "Ok"]
    /\ UNCHANGED <<serving, statements, effects>>

Begin(r) ==
    /\ serving = Nobody /\ answer[r] = "none"
    /\ serving' = r
    /\ UNCHANGED <<statements, answer, effects>>

TakeEffect(r) ==
    /\ serving = r \/ answer[r] = "QueryTimeout"
    /\ r \in statements /\ effects[r] = 0
    /\ effects' = [effects EXCEPT ![r] = 1]
    /\ UNCHANGED <<serving, statements, answer>>

End(r) ==
    /\ serving = r
    /\ serving' = Nobody
    /\ \E o \in Outcomes \ TurnedAway :
          /\ o = "Ok" /\ r \in statements => effects[r] = 1
          /\ o \in NotStarted => effects[r] = 0
          /\ answer' = [answer EXCEPT ![r] = o]
    /\ UNCHANGED <<statements, effects>>

Next == \E r \in Requests :
    Submit(r) \/ TurnAway(r) \/ AnswerLocally(r) \/ Begin(r) \/ TakeEffect(r) \/ End(r)

Spec == Init /\ [][Next]_svars
=============================================================================
