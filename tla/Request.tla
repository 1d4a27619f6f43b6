------------------------------ MODULE Request ------------------------------
(***************************************************************************)
(* The request path of ndsim.  server_run dispatches one libevent base on  *)
(* one thread.  For each request evhttp calls http_handler, which builds a *)
(* req_t with an event base and a timer of its own, reads the POST body    *)
(* into the one global buffer post_data, and runs a command.  The commands *)
(* that ask a backend start an outgoing HTTP request and dispatch a SECOND *)
(* base inside the handler: the server loop stands still until that nested *)
(* loop ends.  In it three things race: the answer of the backend (with    *)
(* its redirects), the request timer, and the end of the loop that either  *)
(* of them asked for.                                                      *)
(*                                                                         *)
(* libevent is not part of the repository.  What is assumed of it: a base  *)
(* runs the callbacks of its own events only, and only while dispatched;   *)
(* event_base_loopexit lets events that are already due run before the     *)
(* loop ends; event_base_dispatch also returns when its base has no event  *)
(* left; a reply is queued on the client connection; the completion        *)
(* callback of an outgoing request is given NULL when the peer times out.  *)
(***************************************************************************)
EXTENDS Integers, Sequences

CONSTANTS
  Requests,   \* the HTTP requests clients send
  Cmds,       \* the values of cmdno they carry
  MaxPost,    \* MAX_POST_DATA_SIZE
  Conns,      \* identities of outgoing connections, recycled once freed
  None        \* NULL

ASSUME RequestAssumption ==
  /\ Cmds \subseteq Int
  /\ MaxPost \in Nat \ {0}
  /\ None \notin Requests \cup Conns \cup Int

VARIABLES
  up,           \* the process has not crashed
  pc,           \* where each request is: "unsent", "queued" in evhttp,
                \* "dispatch" (its handler is in the nested loop) or "done"
  cmd,          \* r->command_no
  body,         \* the length of the POST body
  post_data,    \* the request whose body the global buffer holds
  readbuf_len,  \* r->readbuf_len
  err_no,       \* r->err_no
  timer,        \* r->timeout_event: "none", "armed", "fired", or "deleted"
                \* with its base before it could fire
  bases,        \* the event bases made for the request and not freed
  exiting,      \* event_base_loopexit was called on the nested base
  cn,           \* http_req->cn
  live,         \* the evhttp_connections that are allocated
  flight,       \* the outgoing request: "none", "waiting" for its answer,
                \* answered with the connection kept "idle" or "closed"
  replies       \* the statuses passed to evhttp_send_reply, in order

netvars == <<cn, live, flight>>
handlervars == <<post_data, readbuf_len, err_no, timer, bases>>
vars == <<up, pc, cmd, body, post_data, readbuf_len, err_no, timer, bases,
          exiting, cn, live, flight, replies>>

-----------------------------------------------------------------------------
(* Numbers of the protocol.                                                *)

ERRNO_SUCCESS == 0
ERRNO_ILLEGAL_CMDNO == -10
ERRNO_POST_DATA_TOO_LARGE == -12
ERRNO_POST_DATA_EMPTY == -13

CMDNO_UNKNOWN == 0
CMDNO_SEARCH == 1
CMDNO_SAMPLE_AND_SIGN == 2
CMDNO_WORDSEG == 6
CMDNO_CLASS == 7
CMDNO_TEST_BACKEND == 12

HTTP_OK == 200
HTTP_MOVEPERM == 301
HTTP_BADREQUEST == 400
HTTP_NOTFOUND == 404
HTTP_TIMEOUT == 504
Statuses == {HTTP_OK, HTTP_BADREQUEST, HTTP_NOTFOUND, HTTP_TIMEOUT}

\* The commands whose backend request runs on req_base, with the timer.
ReqBaseCmds == {CMDNO_SEARCH, CMDNO_TEST_BACKEND}
BackendCmds == ReqBaseCmds \cup {CMDNO_SAMPLE_AND_SIGN}
PostCmds == {CMDNO_SEARCH, CMDNO_SAMPLE_AND_SIGN, CMDNO_WORDSEG, CMDNO_CLASS}
\* The numbers the switch names without a command behind them.
NotSupportedCmds == 3..CMDNO_CLASS

-----------------------------------------------------------------------------
(* State formulae.                                                         *)

\* server_run dispatches server_base on the only thread: it calls a handler
\* when no other handler is inside its nested loop.
LoopIsFreeThreaded == TRUE
LoopIsFree == \A q \in Requests : pc[q] # "dispatch"

\* The nested loop of r is running.
InLoop(r) == up /\ pc[r] = "dispatch"

\* The base the handler dispatches is the one req_new armed the timer on.
TimerOnWrongBase(r) == up
TimerOnNestedBase(r) == InLoop(r) /\ cmd[r] \in ReqBaseCmds

\* event_base_dispatch finds no event left on the nested base.
NoEventsLeft(r) ==
  /\ flight[r] = "closed"
  /\ ~ (cmd[r] \in ReqBaseCmds /\ timer[r] = "armed")

\* event_base_dispatch returns: the loop was told to end, or is empty.
LoopReturnsOnExit(r) == exiting[r]
LoopReturns(r) == exiting[r] \/ NoEventsLeft(r)

\* What get_post_data returns for a body of n bytes.
PostResultUnbounded(n) == IF n <= 0 THEN ERRNO_POST_DATA_EMPTY ELSE n
PostResult(n) ==
  IF n <= 0 THEN ERRNO_POST_DATA_EMPTY
  ELSE IF n > MaxPost THEN ERRNO_POST_DATA_TOO_LARGE
  ELSE n

-----------------------------------------------------------------------------
(* Parts of actions.                                                       *)

\* get_post_data: the body is copied to the shared buffer when it fits.
GetPostData(r) ==
  IF cmd[r] \in PostCmds
  THEN /\ readbuf_len' = [readbuf_len EXCEPT ![r] = PostResult(body[r])]
       /\ post_data' = IF PostResult(body[r]) > 0 THEN r ELSE post_data
  ELSE UNCHANGED <<readbuf_len, post_data>>

\* req_new: the request timer is armed on a new base, among the bases bs
\* made for the request.
ReqNew(r, bs) ==
  /\ timer' = [timer EXCEPT ![r] = "armed"]
  /\ bases' = [bases EXCEPT ![r] = bs]

\* start_url_request: the old connection is freed, a new one carries the
\* next outgoing request.
StartUrlRequestLeaky(r) ==
  \E c \in Conns \ live :
    /\ cn' = [cn EXCEPT ![r] = c]
    /\ live' = live \cup {c}
    /\ flight' = [flight EXCEPT ![r] = "waiting"]
StartUrlRequest(r) ==
  \E c \in Conns \ (live \ {cn[r]}) :
    /\ cn' = [cn EXCEPT ![r] = c]
    /\ live' = (live \ {cn[r]}) \cup {c}
    /\ flight' = [flight EXCEPT ![r] = "waiting"]

\* http_request_free: the connection goes with the request.
HttpRequestFree(r) ==
  /\ live' = live \ {cn[r]}
  /\ cn' = [cn EXCEPT ![r] = None]
  /\ flight' = [flight EXCEPT ![r] = "none"]

\* event_base_loopexit on the nested base.
LoopExit(r) == exiting' = [exiting EXCEPT ![r] = TRUE]

\* evhttp_send_reply.
SendReply(r, status) == replies' = [replies EXCEPT ![r] = Append(@, status)]

-----------------------------------------------------------------------------
(* Clients and the server loop.                                            *)

\* A client sends a request: some command, some length of body.
Send(r) ==
  /\ up
  /\ pc[r] = "unsent"
  /\ \E c \in Cmds, n \in 0..(MaxPost + 1) :
       /\ cmd' = [cmd EXCEPT ![r] = c]
       /\ body' = [body EXCEPT ![r] = n]
  /\ pc' = [pc EXCEPT ![r] = "queued"]
  /\ UNCHANGED <<up, handlervars, exiting, netvars, replies>>

\* http_handler of a command that asks a backend, up to its nested loop.
\* The result of get_post_data is kept but not looked at.
HandleBackend(r) ==
  /\ up /\ pc[r] = "queued" /\ LoopIsFree
  /\ cmd[r] \in BackendCmds
  /\ GetPostData(r)
  /\ ReqNew(r, IF cmd[r] \in ReqBaseCmds THEN {"req_base"}
                ELSE {"req_base", "client_base"})
  /\ StartUrlRequest(r)
  /\ pc' = [pc EXCEPT ![r] = "dispatch"]
  /\ UNCHANGED <<up, cmd, body, err_no, exiting, replies>>

\* http_handler of any other command: failure_process replies at once; the
\* base and the timer of req_new stay behind, never dispatched.
HandleUnsupported(r) ==
  /\ up /\ pc[r] = "queued" /\ LoopIsFree
  /\ cmd[r] \notin BackendCmds
  /\ GetPostData(r)
  /\ ReqNew(r, {"req_base"})
  /\ err_no' = [err_no EXCEPT ![r] = ERRNO_ILLEGAL_CMDNO]
  /\ SendReply(r, IF cmd[r] \in NotSupportedCmds THEN HTTP_NOTFOUND
                  ELSE HTTP_BADREQUEST)
  /\ pc' = [pc EXCEPT ![r] = "done"]
  /\ UNCHANGED <<up, cmd, body, exiting, netvars>>

\* Without memory req_new ends the process: exit(-1) for the reply buffer, a
\* NULL pointer for all else.
ReqNewFails(r) ==
  /\ up /\ pc[r] = "queued" /\ LoopIsFree
  /\ up' = FALSE
  /\ UNCHANGED <<pc, cmd, body, handlervars, exiting, netvars, replies>>

-----------------------------------------------------------------------------
(* Events of the nested loop.                                              *)

\* http_request_get_cb with a status other than 302: 301 is ignored, every
\* other one (0 stands for a refused connection and for all the rest) ends
\* the loop.  libevent keeps the connection open or closes it.
BackendAnswers(r) ==
  /\ InLoop(r) /\ flight[r] = "waiting"
  /\ \E f \in {"idle", "closed"} : flight' = [flight EXCEPT ![r] = f]
  /\ \E status \in {HTTP_OK, HTTP_MOVEPERM, 0} :
       IF status = HTTP_MOVEPERM THEN UNCHANGED exiting ELSE LoopExit(r)
  /\ UNCHANGED <<up, pc, cmd, body, handlervars, cn, live, replies>>

\* http_request_get_cb with 302 and a usable Location.
BackendRedirects(r) ==
  /\ InLoop(r) /\ flight[r] = "waiting"
  /\ StartUrlRequest(r)
  /\ UNCHANGED <<up, pc, cmd, body, handlervars, exiting, replies>>

\* http_request_get_cb is called with no request (the backend timed out or
\* hung up), or with a 302 whose Location is missing or has no host: both
\* dereference NULL and the process is gone.
BackendFails(r) ==
  /\ InLoop(r) /\ flight[r] = "waiting"
  /\ up' = FALSE
  /\ UNCHANGED <<pc, cmd, body, handlervars, exiting, netvars, replies>>

\* The kept-alive connection of an answered request is closed by its peer,
\* or by the six-second timeout start_url_request sets on it.
ConnectionCloses(r) ==
  /\ InLoop(r) /\ flight[r] = "idle"
  /\ flight' = [flight EXCEPT ![r] = "closed"]
  /\ UNCHANGED <<up, pc, cmd, body, handlervars, exiting, cn, live, replies>>

\* timeout_handler: reply 504 and end the loop.  It may still run after the
\* backend's answer asked for the end of the loop, and before it.
TimerFiresNoExit(r) ==
  /\ TimerOnNestedBase(r) /\ timer[r] = "armed"
  /\ timer' = [timer EXCEPT ![r] = "fired"]
  /\ SendReply(r, HTTP_TIMEOUT)
  /\ UNCHANGED <<up, pc, cmd, body, post_data, readbuf_len, err_no, bases,
                 exiting, netvars>>
TimerFiresRepeating(r) ==
  /\ TimerOnNestedBase(r) /\ timer[r] \in {"armed", "fired"}
  /\ Len(replies[r]) < 2
  /\ timer' = [timer EXCEPT ![r] = "fired"]
  /\ SendReply(r, HTTP_TIMEOUT)
  /\ LoopExit(r)
  /\ UNCHANGED <<up, pc, cmd, body, post_data, readbuf_len, err_no, bases,
                 netvars>>
TimerFiresFreesBase(r) ==
  /\ TimerOnNestedBase(r) /\ timer[r] = "armed"
  /\ timer' = [timer EXCEPT ![r] = "fired"]
  /\ SendReply(r, HTTP_TIMEOUT)
  /\ LoopExit(r)
  /\ bases' = [bases EXCEPT ![r] = @ \ {"req_base"}]
  /\ UNCHANGED <<up, pc, cmd, body, post_data, readbuf_len, err_no, netvars>>
TimerFires(r) ==
  /\ TimerOnNestedBase(r) /\ timer[r] = "armed"
  /\ timer' = [timer EXCEPT ![r] = "fired"]
  /\ SendReply(r, HTTP_TIMEOUT)
  /\ LoopExit(r)
  /\ UNCHANGED <<up, pc, cmd, body, post_data, readbuf_len, err_no, bases,
                 netvars>>

\* The nested event_base_dispatch returns and the handler runs to its end:
\* http_request_free, event_base_free of the dispatched base (a timer still
\* armed on it goes with it), the 200 reply whether or not the timer has
\* already replied, req_free.
LoopEnds(r) ==
  /\ InLoop(r)
  /\ LoopReturns(r)
  /\ HttpRequestFree(r)
  /\ bases' = [bases EXCEPT ![r] =
                 @ \ {IF cmd[r] \in ReqBaseCmds THEN "req_base"
                      ELSE "client_base"}]
  /\ timer' = [timer EXCEPT ![r] =
                 IF cmd[r] \in ReqBaseCmds /\ @ = "armed" THEN "deleted"
                 ELSE @]
  /\ SendReply(r, HTTP_OK)
  /\ err_no' = [err_no EXCEPT ![r] = ERRNO_SUCCESS]
  /\ pc' = [pc EXCEPT ![r] = "done"]
  /\ UNCHANGED <<up, cmd, body, post_data, readbuf_len, exiting>>

-----------------------------------------------------------------------------
(* The specification.                                                      *)

Init ==
  /\ up = TRUE
  /\ pc = [r \in Requests |-> "unsent"]
  /\ cmd = [r \in Requests |-> CMDNO_UNKNOWN]
  /\ body = [r \in Requests |-> 0]
  /\ post_data = None
  /\ readbuf_len = [r \in Requests |-> 0]
  /\ err_no = [r \in Requests |-> ERRNO_SUCCESS]
  /\ timer = [r \in Requests |-> "none"]
  /\ bases = [r \in Requests |-> {}]
  /\ exiting = [r \in Requests |-> FALSE]
  /\ cn = [r \in Requests |-> None]
  /\ live = {}
  /\ flight = [r \in Requests |-> "none"]
  /\ replies = [r \in Requests |-> <<>>]

Next ==
  \E r \in Requests :
    \/ Send(r)
    \/ HandleBackend(r)
    \/ HandleUnsupported(r)
    \/ ReqNewFails(r)
    \/ BackendAnswers(r)
    \/ BackendRedirects(r)
    \/ BackendFails(r)
    \/ ConnectionCloses(r)
    \/ TimerFires(r)
    \/ LoopEnds(r)

Spec == Init /\ [][Next]_vars

\* The server loop takes up every queued request in the end, timers expire,
\* and a loop told to end, or left without events, ends.  Clients need not
\* send anything, and backends need not answer.
Fairness ==
  \A r \in Requests :
    /\ WF_vars(HandleBackend(r) \/ HandleUnsupported(r))
    /\ WF_vars(TimerFires(r))
    /\ WF_vars(LoopEnds(r))

\* Every outgoing request has some outcome and every idle connection is
\* closed: start_url_request bounds the silence of a peer by six seconds.
BackendFairness ==
  \A r \in Requests :
    /\ WF_vars(BackendAnswers(r) \/ BackendRedirects(r) \/ BackendFails(r))
    /\ WF_vars(ConnectionCloses(r))

FairSpec == Spec /\ Fairness
BackendFairSpec == FairSpec /\ BackendFairness

-----------------------------------------------------------------------------
(* Properties that hold.                                                   *)

PostLens == {ERRNO_POST_DATA_TOO_LARGE, ERRNO_POST_DATA_EMPTY} \cup 0..MaxPost

\* Type invariant; it bounds what is ever copied into post_data by the size
\* req_init allocates.
TypeOK ==
  /\ up \in BOOLEAN
  /\ pc \in [Requests -> {"unsent", "queued", "dispatch", "done"}]
  /\ cmd \in [Requests -> Int]
  /\ body \in [Requests -> Nat]
  /\ post_data \in Requests \cup {None}
  /\ readbuf_len \in [Requests -> PostLens]
  /\ err_no \in [Requests -> {ERRNO_SUCCESS, ERRNO_ILLEGAL_CMDNO}]
  /\ timer \in [Requests -> {"none", "armed", "fired", "deleted"}]
  /\ bases \in [Requests -> SUBSET {"req_base", "client_base"}]
  /\ exiting \in [Requests -> BOOLEAN]
  /\ cn \in [Requests -> Conns \cup {None}]
  /\ live \subseteq Conns
  /\ flight \in [Requests -> {"none", "waiting", "idle", "closed"}]
  /\ replies \in [Requests -> Seq(Statuses)]

\* post_data is one buffer for all requests and r->readbuf points into it
\* for the whole life of r, across the nested loop.  A handler that read its
\* body still finds its own body there: no other handler ran in between.
PostDataOwned ==
  \A r \in Requests :
    pc[r] = "dispatch" /\ readbuf_len[r] > 0 => post_data = r

\* The connections that are allocated are exactly the ones the requests in
\* a nested loop point to, one each: redirects and the end of the loop free
\* every connection once, and nobody keeps a pointer to a freed one.
ConnectionsAccounted ==
  /\ live = {cn[r] : r \in {q \in Requests : pc[q] = "dispatch"}}
  /\ \A r \in Requests : pc[r] # "dispatch" => cn[r] = None
  /\ \A q, r \in Requests :
       pc[q] = "dispatch" /\ pc[r] = "dispatch" /\ cn[q] = cn[r] => q = r

\* A base is there for as long as its loop runs, with all that may happen in
\* it, and is freed after; what the req_base of a request that no loop ran on
\* leaks is that one base, whatever became of the request.
BasesAccounted ==
  \A r \in Requests :
    /\ pc[r] = "dispatch" =>
         bases[r] = IF cmd[r] \in ReqBaseCmds THEN {"req_base"}
                    ELSE {"req_base", "client_base"}
    /\ pc[r] = "done" =>
         bases[r] = IF cmd[r] \in ReqBaseCmds THEN {} ELSE {"req_base"}
    /\ pc[r] \in {"unsent", "queued"} => bases[r] = {}

\* What a request was sent, at every moment of its life: nothing before its
\* handler runs; 504 in the nested loop once its timer fired; in the end one
\* error reply from failure_process, or 200, after 504 if the timer fired.
RepliesExplained ==
  \A r \in Requests :
    LET early == IF timer[r] = "fired" THEN <<HTTP_TIMEOUT>> ELSE <<>> IN
    /\ pc[r] \in {"unsent", "queued"} => replies[r] = <<>>
    /\ pc[r] = "dispatch" => replies[r] = early
    /\ pc[r] = "done" /\ err_no[r] = ERRNO_SUCCESS =>
         replies[r] = Append(early, HTTP_OK)
    /\ pc[r] = "done" /\ err_no[r] # ERRNO_SUCCESS =>
         replies[r] \in {<<HTTP_NOTFOUND>>, <<HTTP_BADREQUEST>>}

\* Once the handler of a request has returned, nobody replies to it any
\* more: its reply buffer is freed while its timer may still be armed, and
\* that timer never fires.
DoneIsFinal ==
  [][\A r \in Requests :
       pc[r] = "done" => /\ pc'[r] = "done"
                         /\ replies'[r] = replies[r]
                         /\ timer'[r] = timer[r]]_vars

\* With the nested loops, the timers and the backends hidden, the server
\* serves one request at a time and never takes back a first answer.
Service == INSTANCE SerialService WITH
  serving <- {r \in Requests : pc[r] = "dispatch"},
  answer <- [r \in Requests |->
               IF replies[r] = <<>> THEN None ELSE Head(replies[r])],
  Unanswered <- None

ServiceSpec == Service!Spec

Answered(r) == pc[r] = "done" \/ ~up

\* As long as no request asks for search2, which has no timer, each request
\* is answered whatever the backends do: silence, redirects without end.
AnsweredByTimer ==
  [](\A r \in Requests : cmd[r] # CMDNO_SAMPLE_AND_SIGN)
    => \A r \in Requests : pc[r] = "queued" ~> Answered(r)

\* With search2 too, each request is answered provided that every backend has
\* some outcome and that none redirects for ever.
AnsweredIfRedirectsEnd ==
  BackendFairness /\ (\A r \in Requests : <>[][~ BackendRedirects(r)]_vars)
    => \A r \in Requests : pc[r] = "queued" ~> Answered(r)

-----------------------------------------------------------------------------
(* What comments of the source say and the code does not do.               *)

\* "process request timeout": a request whose timer expired has had its
\* reply and is halted; the handler sends no other.
TimeoutHalts ==
  \A r \in Requests : Len(replies[r]) <= 1

\* "process request timeout": a request taken up by its handler is answered,
\* by the timer if by nothing else.
TimeoutProcessed ==
  \A r \in Requests :
    pc[r] = "dispatch" ~> (replies[r] # <<>> \/ ~up)
=============================================================================
