--------------------------- MODULE SerialService ---------------------------
(***************************************************************************)
(* What the request path of ndsim promises to its clients, without event   *)
(* loops, timers or backends: requests are served one at a time, each is   *)
(* taken up at most once, and the first answer a request gets is final.    *)
(* A request may be answered while it is being served (the timeout reply)  *)
(* or by the step that ends its service (the reply of the handler).        *)
(***************************************************************************)
CONSTANTS
  Requests,   \* the requests clients send
  Statuses,   \* the HTTP statuses an answer can carry
  Unanswered  \* stands for "no answer yet", and is no status

VARIABLES
  serving,    \* the set of requests being served
  answer      \* the first answer each request got

vars == <<serving, answer>>

TypeOK ==
  /\ serving \subseteq Requests
  /\ answer \in [Requests -> Statuses \cup {Unanswered}]

Init ==
  /\ serving = {}
  /\ answer = [r \in Requests |-> Unanswered]

\* Only a request that was never answered is taken up, and only alone.
Begin(r) ==
  /\ serving = {}
  /\ answer[r] = Unanswered
  /\ serving' = {r}
  /\ UNCHANGED answer

\* A request is answered while its service goes on.
AnswerEarly(r, s) ==
  /\ serving = {r}
  /\ answer[r] = Unanswered
  /\ answer' = [answer EXCEPT ![r] = s]
  /\ UNCHANGED serving

\* The service of an answered request ends.
End(r) ==
  /\ serving = {r}
  /\ answer[r] # Unanswered
  /\ serving' = {}
  /\ UNCHANGED answer

\* A request is answered by the step that ends its service, or by the only
\* step of a service too short to be seen.
AnswerAndEnd(r, s) ==
  /\ serving \subseteq {r}
  /\ answer[r] = Unanswered
  /\ answer' = [answer EXCEPT ![r] = s]
  /\ serving' = {}

Next ==
  \E r \in Requests :
    \/ Begin(r)
    \/ End(r)
    \/ \E s \in Statuses : AnswerEarly(r, s) \/ AnswerAndEnd(r, s)

Spec == Init /\ [][Next]_vars
=============================================================================
