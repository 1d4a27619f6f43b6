--------------------------- MODULE RequestProofs ---------------------------
(***************************************************************************)
(* Proofs about Request, for every set of requests, commands, connections  *)
(* and every size of the POST buffer.                                      *)
(***************************************************************************)
EXTENDS Request, TLAPS

USE DEF ReqNew, HttpRequestFree

\* At most one handler is in its nested loop: what the shared buffer, the
\* connections and the refinement all rest on.
Serialised ==
  \A q, r \in Requests : pc[q] = "dispatch" /\ pc[r] = "dispatch" => q = r

\* What the fields of a request hold before its handler runs, and inside
\* the nested loop.
Progress ==
  \A r \in Requests :
    /\ pc[r] \in {"unsent", "queued"} => timer[r] = "none" /\ readbuf_len[r] = 0
    /\ pc[r] = "dispatch" => timer[r] \in {"armed", "fired"}
    /\ pc[r] # "done" => err_no[r] = ERRNO_SUCCESS
    /\ pc[r] = "dispatch" => cn[r] \in Conns

IInv ==
  /\ TypeOK
  /\ Serialised
  /\ Progress
  /\ PostDataOwned
  /\ ConnectionsAccounted
  /\ BasesAccounted
  /\ RepliesExplained

-----------------------------------------------------------------------------
\* get_post_data never returns more than the buffer holds.
LEMMA PostResultType ==
  ASSUME NEW n \in Nat
  PROVE  PostResult(n) \in PostLens
<1> USE RequestAssumption DEF PostLens, ERRNO_POST_DATA_EMPTY,
        ERRNO_POST_DATA_TOO_LARGE
<1> QED BY DEF PostResult

\* Appending a status to the replies of a request keeps them well typed.
LEMMA SendReplyType ==
  ASSUME replies \in [Requests -> Seq(Statuses)],
         NEW r \in Requests, NEW s \in Statuses, SendReply(r, s)
  PROVE  replies' \in [Requests -> Seq(Statuses)]
BY DEF SendReply

\* get_post_data keeps the length and the owner of the buffer well typed.
LEMMA GetPostDataType ==
  ASSUME TypeOK, NEW r \in Requests, GetPostData(r)
  PROVE  /\ readbuf_len' \in [Requests -> PostLens]
         /\ post_data' \in Requests \cup {None}
<1>1. PostResult(body[r]) \in PostLens
  BY PostResultType DEF TypeOK
<1>2. CASE cmd[r] \in PostCmds
  <2>1. readbuf_len' = [readbuf_len EXCEPT ![r] = PostResult(body[r])]
    BY <1>2 DEF GetPostData
  <2>2. post_data' = r \/ post_data' = post_data
    BY <1>2 DEF GetPostData
  <2> QED BY <1>1, <2>1, <2>2 DEF TypeOK
<1>3. CASE cmd[r] \notin PostCmds
  BY <1>3 DEF GetPostData, TypeOK
<1> QED BY <1>2, <1>3

\* The invariant holds at first.
LEMMA InitIInv == Init => IInv
<1> SUFFICES ASSUME Init PROVE IInv
  OBVIOUS
<1>1. TypeOK
  BY RequestAssumption
  DEF Init, TypeOK, PostLens, CMDNO_UNKNOWN, ERRNO_SUCCESS
<1>2. Serialised /\ Progress /\ PostDataOwned
  BY DEF Init, Serialised, Progress, PostDataOwned
<1>3. ConnectionsAccounted /\ BasesAccounted
  BY DEF Init, ConnectionsAccounted, BasesAccounted
<1>4. RepliesExplained
  BY DEF Init, RepliesExplained
<1> QED BY <1>1, <1>2, <1>3, <1>4 DEF IInv

-----------------------------------------------------------------------------
\* Type correctness is inductive by itself.
LEMMA TypeStep == TypeOK /\ [Next]_vars => TypeOK'
<1> SUFFICES ASSUME TypeOK, [Next]_vars PROVE TypeOK'
  OBVIOUS
<1> USE DEF TypeOK
<1>1. ASSUME NEW r \in Requests, Send(r) PROVE TypeOK'
  BY <1>1, RequestAssumption DEF Send, handlervars, netvars
<1>2. ASSUME NEW r \in Requests, HandleBackend(r) PROVE TypeOK'
  <2>1. readbuf_len' \in [Requests -> PostLens] /\ post_data' \in Requests \cup {None}
    BY <1>2, GetPostDataType DEF HandleBackend
  <2>2. /\ cn' \in [Requests -> Conns \cup {None}]
        /\ live' \subseteq Conns
        /\ flight' \in [Requests -> {"none", "waiting", "idle", "closed"}]
    BY <1>2 DEF HandleBackend, StartUrlRequest
  <2> QED BY <1>2, <2>1, <2>2 DEF HandleBackend
<1>3. ASSUME NEW r \in Requests, HandleUnsupported(r) PROVE TypeOK'
  <2>1. readbuf_len' \in [Requests -> PostLens] /\ post_data' \in Requests \cup {None}
    BY <1>3, GetPostDataType DEF HandleUnsupported
  <2>2. replies' \in [Requests -> Seq(Statuses)]
    BY <1>3, SendReplyType DEF HandleUnsupported, Statuses
  <2> QED BY <1>3, <2>1, <2>2 DEF HandleUnsupported, netvars
<1>4. ASSUME NEW r \in Requests, BackendAnswers(r) PROVE TypeOK'
  <2>1. exiting' \in [Requests -> BOOLEAN]
    BY <1>4 DEF BackendAnswers, LoopExit
  <2>2. flight' \in [Requests -> {"none", "waiting", "idle", "closed"}]
    BY <1>4 DEF BackendAnswers
  <2> QED BY <1>4, <2>1, <2>2 DEF BackendAnswers, handlervars
<1>5. ASSUME NEW r \in Requests, BackendRedirects(r) PROVE TypeOK'
  BY <1>5 DEF BackendRedirects, StartUrlRequest, handlervars
<1>6. ASSUME NEW r \in Requests, BackendFails(r) \/ ReqNewFails(r) PROVE TypeOK'
  BY <1>6 DEF BackendFails, ReqNewFails, handlervars, netvars
<1>7. ASSUME NEW r \in Requests, ConnectionCloses(r) PROVE TypeOK'
  BY <1>7 DEF ConnectionCloses, handlervars
<1>8. ASSUME NEW r \in Requests, TimerFires(r) PROVE TypeOK'
  <2>1. replies' \in [Requests -> Seq(Statuses)]
    BY <1>8, SendReplyType DEF TimerFires, Statuses
  <2> QED BY <1>8, <2>1 DEF TimerFires, LoopExit, netvars
<1>9. ASSUME NEW r \in Requests, LoopEnds(r) PROVE TypeOK'
  <2>1. replies' \in [Requests -> Seq(Statuses)]
    BY <1>9, SendReplyType DEF LoopEnds, Statuses
  <2> QED BY <1>9, <2>1 DEF LoopEnds
<1>10. CASE UNCHANGED vars
  BY <1>10 DEF vars
<1> QED
  BY <1>1, <1>2, <1>3, <1>4, <1>5, <1>6, <1>7, <1>8, <1>9, <1>10 DEF Next

\* Type invariant: every variable keeps its type, and get_post_data never
\* copies more than MAX_POST_DATA_SIZE bytes into post_data.
THEOREM TypeCorrect == Spec => []TypeOK
<1>1. Init => TypeOK
  BY InitIInv DEF IInv
<1> QED BY <1>1, TypeStep, PTL DEF Spec

-----------------------------------------------------------------------------
\* A step of request r, and what it leaves alone.
Step(r) ==
  \/ Send(r) \/ HandleBackend(r) \/ HandleUnsupported(r)
  \/ ReqNewFails(r)
  \/ BackendAnswers(r) \/ BackendRedirects(r) \/ BackendFails(r)
  \/ ConnectionCloses(r) \/ TimerFires(r) \/ LoopEnds(r)

\* Every step is one of some request.
LEMMA NextIsStep == Next => \E r \in Requests : Step(r)
BY DEF Next, Step

\* Only the step's own request moves.
LEMMA OthersUntouched ==
  ASSUME TypeOK, NEW r \in Requests, Step(r), NEW q \in Requests, q # r
  PROVE  /\ pc'[q] = pc[q] /\ cmd'[q] = cmd[q] /\ timer'[q] = timer[q]
         /\ err_no'[q] = err_no[q] /\ readbuf_len'[q] = readbuf_len[q]
         /\ cn'[q] = cn[q] /\ replies'[q] = replies[q]
         /\ bases'[q] = bases[q]
<1> USE DEF TypeOK
<1>1. CASE Send(r)
  BY <1>1 DEF Send, handlervars, netvars
<1>2. CASE HandleBackend(r)
  <2>1. readbuf_len'[q] = readbuf_len[q]
    BY <1>2 DEF HandleBackend, GetPostData
  <2> QED BY <1>2, <2>1 DEF HandleBackend, StartUrlRequest
<1>3. CASE HandleUnsupported(r)
  <2>1. readbuf_len'[q] = readbuf_len[q]
    BY <1>3 DEF HandleUnsupported, GetPostData
  <2> QED BY <1>3, <2>1 DEF HandleUnsupported, netvars, SendReply
<1>4. CASE BackendAnswers(r)
  BY <1>4 DEF BackendAnswers, handlervars
<1>5. CASE BackendRedirects(r)
  BY <1>5 DEF BackendRedirects, StartUrlRequest, handlervars
<1>6. CASE BackendFails(r) \/ ReqNewFails(r)
  BY <1>6 DEF BackendFails, ReqNewFails, handlervars, netvars
<1>7. CASE ConnectionCloses(r)
  BY <1>7 DEF ConnectionCloses, handlervars
<1>8. CASE TimerFires(r)
  BY <1>8 DEF TimerFires, SendReply, netvars
<1>9. CASE LoopEnds(r)
  BY <1>9 DEF LoopEnds, SendReply
<1> QED
  BY <1>1, <1>2, <1>3, <1>4, <1>5, <1>6, <1>7, <1>8, <1>9 DEF Step

\* A nested loop is entered only by HandleBackend, which finds the server
\* loop free.
LEMMA LoopEntered ==
  ASSUME TypeOK, NEW r \in Requests, Step(r), pc'[r] = "dispatch"
  PROVE  pc[r] = "dispatch" \/ (HandleBackend(r) /\ LoopIsFree)
<1> USE DEF TypeOK
<1> QED
  BY DEF Step, Send, HandleBackend, HandleUnsupported, BackendAnswers,
         BackendRedirects, BackendFails, ReqNewFails, ConnectionCloses, TimerFires,
         LoopEnds, InLoop, TimerOnNestedBase

\* At most one handler is in a nested loop.
LEMMA SerialisedStep ==
  ASSUME TypeOK, Serialised, NEW r \in Requests, Step(r)
  PROVE  Serialised'
<1> SUFFICES ASSUME NEW p \in Requests, NEW q \in Requests,
                    pc'[p] = "dispatch", pc'[q] = "dispatch", p # q
             PROVE  FALSE
  BY DEF Serialised
<1>1. CASE p # r /\ q # r
  BY <1>1, OthersUntouched DEF Serialised
<1>2. CASE p = r
  <2>1. pc[q] = "dispatch"
    BY <1>2, OthersUntouched
  <2> QED BY <1>2, <2>1, LoopEntered DEF Serialised, LoopIsFree
<1>3. CASE q = r
  <2>1. pc[p] = "dispatch"
    BY <1>3, OthersUntouched
  <2> QED BY <1>3, <2>1, LoopEntered DEF Serialised, LoopIsFree
<1> QED BY <1>1, <1>2, <1>3

\* What is known of a request at each stage stays so.
LEMMA ProgressStep ==
  ASSUME TypeOK, Progress, NEW r \in Requests, Step(r)
  PROVE  Progress'
<1> DEFINE P(q) ==
      /\ pc[q] \in {"unsent", "queued"} => timer[q] = "none" /\ readbuf_len[q] = 0
      /\ pc[q] = "dispatch" => timer[q] \in {"armed", "fired"}
      /\ pc[q] # "done" => err_no[q] = ERRNO_SUCCESS
      /\ pc[q] = "dispatch" => cn[q] \in Conns
<1>1. ASSUME NEW q \in Requests, q # r PROVE P(q)'
  BY <1>1, OthersUntouched DEF Progress
<1>2. P(r)'
  <2> USE DEF TypeOK, Progress
  <2>1. CASE Send(r)
    BY <2>1 DEF Send, handlervars, netvars
  <2>2. CASE HandleBackend(r)
    BY <2>2 DEF HandleBackend, StartUrlRequest
  <2>3. CASE HandleUnsupported(r)
    BY <2>3 DEF HandleUnsupported
  <2>4. CASE BackendAnswers(r)
    BY <2>4 DEF BackendAnswers, handlervars
  <2>5. CASE BackendRedirects(r)
    BY <2>5 DEF BackendRedirects, StartUrlRequest, handlervars
  <2>6. CASE BackendFails(r) \/ ReqNewFails(r)
    BY <2>6 DEF BackendFails, ReqNewFails, handlervars, netvars
  <2>7. CASE ConnectionCloses(r)
    BY <2>7 DEF ConnectionCloses, handlervars
  <2>8. CASE TimerFires(r)
    BY <2>8 DEF TimerFires, netvars, TimerOnNestedBase, InLoop
  <2>9. CASE LoopEnds(r)
    BY <2>9 DEF LoopEnds
  <2> QED
    BY <2>1, <2>2, <2>3, <2>4, <2>5, <2>6, <2>7, <2>8, <2>9 DEF Step
<1> QED BY <1>1, <1>2 DEF Progress

\* The buffer changes hands only in HandleBackend and HandleUnsupported,
\* when no other handler is in its nested loop.
LEMMA PostDataStep ==
  ASSUME TypeOK, Progress, PostDataOwned, NEW r \in Requests, Step(r)
  PROVE  PostDataOwned'
<1> SUFFICES ASSUME NEW q \in Requests,
                    pc'[q] = "dispatch", readbuf_len'[q] > 0
             PROVE  post_data' = q
  BY DEF PostDataOwned
<1>1. CASE HandleBackend(r) \/ HandleUnsupported(r)
  <2>1. q = r /\ HandleBackend(r)
    <3>1. q = r
      BY <1>1, OthersUntouched DEF HandleBackend, HandleUnsupported, LoopIsFree
    <3> QED BY <1>1, <3>1 DEF HandleUnsupported, TypeOK
  <2>2. GetPostData(r)
    BY <2>1 DEF HandleBackend
  <2>3. CASE cmd[r] \in PostCmds
    BY <2>1, <2>2, <2>3 DEF GetPostData, TypeOK
  <2>4. CASE cmd[r] \notin PostCmds
    <3>1. readbuf_len'[r] = 0
      BY <2>1, <2>2, <2>4 DEF GetPostData, HandleBackend, Progress
    <3> QED BY <2>1, <3>1
  <2> QED BY <2>3, <2>4
<1>2. CASE ~ (HandleBackend(r) \/ HandleUnsupported(r))
  <2>1. UNCHANGED <<post_data, readbuf_len>>
    BY <1>2 DEF Step, Send, BackendAnswers, BackendRedirects, BackendFails, ReqNewFails,
         ConnectionCloses, TimerFires, LoopEnds, handlervars
  <2>2. pc[q] = "dispatch"
    BY <1>2, LoopEntered, OthersUntouched
  <2> QED BY <2>1, <2>2 DEF PostDataOwned
<1> QED BY <1>1, <1>2

\* The allocated connections when a handler is in its nested loop, and when
\* none is.
LEMMA LiveInLoop ==
  ASSUME Serialised, ConnectionsAccounted,
         NEW r \in Requests, pc[r] = "dispatch"
  PROVE  live = {cn[r]}
<1>1. {q \in Requests : pc[q] = "dispatch"} = {r}
  BY DEF Serialised
<1> QED BY <1>1 DEF ConnectionsAccounted

\* No connection is left when no loop runs.
LEMMA LiveOutside ==
  ASSUME ConnectionsAccounted, LoopIsFree
  PROVE  live = {}
BY DEF ConnectionsAccounted, LoopIsFree

\* Each connection is freed once.
LEMMA ConnectionsStep ==
  ASSUME TypeOK, Serialised, Progress, ConnectionsAccounted,
         NEW r \in Requests, Step(r)
  PROVE  ConnectionsAccounted'
<1> USE DEF TypeOK
<1>0. Serialised'
  BY SerialisedStep
<1>1. \A q \in Requests : q # r => pc'[q] = pc[q] /\ cn'[q] = cn[q]
  BY OthersUntouched
<1>2. CASE HandleBackend(r)
  <2>1. live = {} /\ cn[r] = None
    BY <1>2, LiveOutside DEF HandleBackend, ConnectionsAccounted
  <2>0. PICK c \in Conns : /\ cn' = [cn EXCEPT ![r] = c]
                          /\ live' = (live \ {cn[r]}) \cup {c}
    BY <1>2 DEF HandleBackend, StartUrlRequest
  <2>2. cn' = [cn EXCEPT ![r] = c] /\ live' = {c}
    BY <2>0, <2>1
  <2>3. {q \in Requests : pc'[q] = "dispatch"} = {r}
    BY <1>2, <1>1 DEF HandleBackend, LoopIsFree
  <2>4. live' = {cn'[q] : q \in {p \in Requests : pc'[p] = "dispatch"}}
    BY <2>2, <2>3
  <2>5. \A q \in Requests : pc'[q] # "dispatch" => cn'[q] = None
    BY <2>3, <1>1 DEF ConnectionsAccounted
  <2> QED BY <1>0, <2>4, <2>5 DEF ConnectionsAccounted, Serialised
<1>3. CASE BackendRedirects(r)
  <2>1. pc[r] = "dispatch" /\ UNCHANGED pc
    BY <1>3 DEF BackendRedirects, InLoop
  <2>2. live = {cn[r]}
    BY <2>1, LiveInLoop
  <2>0. PICK c \in Conns : /\ cn' = [cn EXCEPT ![r] = c]
                          /\ live' = (live \ {cn[r]}) \cup {c}
    BY <1>3 DEF BackendRedirects, StartUrlRequest
  <2>3. cn' = [cn EXCEPT ![r] = c] /\ live' = {c}
    BY <2>0, <2>2
  <2>4. {q \in Requests : pc'[q] = "dispatch"} = {r}
    BY <2>1 DEF Serialised
  <2>5. live' = {cn'[q] : q \in {p \in Requests : pc'[p] = "dispatch"}}
    BY <2>3, <2>4
  <2>6. \A q \in Requests : pc'[q] # "dispatch" => cn'[q] = None
    BY <2>4, <1>1 DEF ConnectionsAccounted
  <2> QED BY <1>0, <2>5, <2>6 DEF ConnectionsAccounted, Serialised
<1>4. CASE LoopEnds(r)
  <2>1. pc[r] = "dispatch" /\ pc' = [pc EXCEPT ![r] = "done"]
    BY <1>4 DEF LoopEnds, InLoop
  <2>2. live' = {} /\ cn' = [cn EXCEPT ![r] = None]
    BY <1>4, <2>1, LiveInLoop DEF LoopEnds
  <2>3. {q \in Requests : pc'[q] = "dispatch"} = {}
    BY <2>1 DEF Serialised
  <2>4. live' = {cn'[q] : q \in {p \in Requests : pc'[p] = "dispatch"}}
    BY <2>2, <2>3
  <2>5. \A q \in Requests : pc'[q] # "dispatch" => cn'[q] = None
    BY <2>1, <2>2, <1>1 DEF ConnectionsAccounted
  <2> QED BY <1>0, <2>4, <2>5 DEF ConnectionsAccounted, Serialised
<1>5. CASE ~ (HandleBackend(r) \/ BackendRedirects(r) \/ LoopEnds(r))
  <2>1. UNCHANGED <<cn, live>>
    BY <1>5 DEF Step, Send, HandleUnsupported, BackendAnswers, BackendFails, ReqNewFails,
         ConnectionCloses, TimerFires, netvars
  <2>2. pc'[r] = "dispatch" <=> pc[r] = "dispatch"
    BY <1>5 DEF Step, Send, HandleUnsupported, BackendAnswers, BackendFails, ReqNewFails,
         ConnectionCloses, TimerFires
  <2>3. {q \in Requests : pc'[q] = "dispatch"}
          = {q \in Requests : pc[q] = "dispatch"}
    BY <2>2, <1>1
  <2>4. live' = {cn'[q] : q \in {p \in Requests : pc'[p] = "dispatch"}}
    BY <2>1, <2>3 DEF ConnectionsAccounted
  <2>5. \A q \in Requests : pc'[q] # "dispatch" => cn'[q] = None
    BY <2>1, <2>2, <1>1 DEF ConnectionsAccounted
  <2> QED BY <1>0, <2>4, <2>5 DEF ConnectionsAccounted, Serialised
<1> QED BY <1>2, <1>3, <1>4, <1>5

\* Bases come with ReqNew and go with the end of the loop that ran on them.
LEMMA BasesStep ==
  ASSUME TypeOK, BasesAccounted, NEW r \in Requests, Step(r)
  PROVE  BasesAccounted'
<1> DEFINE B(q) ==
      /\ pc[q] = "dispatch" =>
           bases[q] = IF cmd[q] \in ReqBaseCmds THEN {"req_base"}
                      ELSE {"req_base", "client_base"}
      /\ pc[q] = "done" =>
           bases[q] = IF cmd[q] \in ReqBaseCmds THEN {} ELSE {"req_base"}
      /\ pc[q] \in {"unsent", "queued"} => bases[q] = {}
<1>0. \A q \in Requests : B(q)
  BY DEF BasesAccounted
<1>1. ASSUME NEW q \in Requests, q # r PROVE B(q)'
  BY <1>0, <1>1, OthersUntouched
<1>2. B(r)'
  <2> USE <1>0 DEF TypeOK
  <2>1. CASE Send(r)
    BY <2>1 DEF Send, handlervars
  <2>2. CASE HandleBackend(r)
    BY <2>2 DEF HandleBackend
  <2>3. CASE HandleUnsupported(r)
    BY <2>3 DEF HandleUnsupported, BackendCmds
  <2>4. CASE LoopEnds(r)
    BY <2>4 DEF LoopEnds, InLoop
  <2>5. CASE ~ (Send(r) \/ HandleBackend(r) \/ HandleUnsupported(r)
               \/ LoopEnds(r))
    <3>1. UNCHANGED <<pc, cmd, bases>>
      BY <2>5 DEF Step, BackendAnswers, BackendRedirects, BackendFails, ReqNewFails,
           ConnectionCloses, TimerFires, handlervars
    <3> QED BY <3>1
  <2> QED BY <2>1, <2>2, <2>3, <2>4, <2>5
<1> QED BY <1>1, <1>2 DEF BasesAccounted

\* No reply comes from nowhere.
LEMMA RepliesStep ==
  ASSUME TypeOK, Progress, RepliesExplained, NEW r \in Requests, Step(r)
  PROVE  RepliesExplained'
<1> DEFINE Early(q) == IF timer[q] = "fired" THEN <<HTTP_TIMEOUT>> ELSE <<>>
           R(q) ==
             /\ pc[q] \in {"unsent", "queued"} => replies[q] = <<>>
             /\ pc[q] = "dispatch" => replies[q] = Early(q)
             /\ pc[q] = "done" /\ err_no[q] = ERRNO_SUCCESS =>
                  replies[q] = Append(Early(q), HTTP_OK)
             /\ pc[q] = "done" /\ err_no[q] # ERRNO_SUCCESS =>
                  replies[q] \in {<<HTTP_NOTFOUND>>, <<HTTP_BADREQUEST>>}
<1>0. R(r)
  BY DEF RepliesExplained
<1>1. ASSUME NEW q \in Requests, q # r PROVE R(q)'
  <2>1. R(q)
    BY DEF RepliesExplained
  <2> QED BY <1>1, <2>1, OthersUntouched
<1>2. R(r)'
  <2> USE <1>0 DEF TypeOK
  <2>1. CASE Send(r)
    BY <2>1 DEF Send, handlervars, netvars
  <2>2. CASE HandleBackend(r)
    BY <2>2 DEF HandleBackend
  <2>3. CASE HandleUnsupported(r)
    <3>1. PICK s \in {HTTP_NOTFOUND, HTTP_BADREQUEST} :
            replies' = [replies EXCEPT ![r] = Append(@, s)]
      BY <2>3 DEF HandleUnsupported, SendReply
    <3>2. replies'[r] = <<s>>
      BY <2>3, <3>1 DEF HandleUnsupported
    <3>3. pc'[r] = "done" /\ err_no'[r] # ERRNO_SUCCESS
      BY <2>3 DEF HandleUnsupported, ERRNO_ILLEGAL_CMDNO, ERRNO_SUCCESS
    <3> QED BY <3>2, <3>3
  <2>4. CASE BackendAnswers(r)
    BY <2>4 DEF BackendAnswers, handlervars
  <2>5. CASE BackendRedirects(r)
    BY <2>5 DEF BackendRedirects, handlervars
  <2>6. CASE BackendFails(r) \/ ReqNewFails(r)
    BY <2>6 DEF BackendFails, ReqNewFails, handlervars, netvars
  <2>7. CASE ConnectionCloses(r)
    BY <2>7 DEF ConnectionCloses, handlervars
  <2>8. CASE TimerFires(r)
    <3>1. pc[r] = "dispatch" /\ pc' = pc /\ timer[r] = "armed"
      BY <2>8 DEF TimerFires, TimerOnNestedBase, InLoop
    <3>2. replies'[r] = Append(<<>>, HTTP_TIMEOUT) /\ timer'[r] = "fired"
      BY <2>8, <3>1 DEF TimerFires, SendReply
    <3> QED BY <3>1, <3>2
  <2>9. CASE LoopEnds(r)
    <3>1. pc[r] = "dispatch" /\ pc'[r] = "done" /\ err_no'[r] = ERRNO_SUCCESS
      BY <2>9 DEF LoopEnds, InLoop
    <3>2. replies'[r] = Append(Early(r), HTTP_OK)
      BY <2>9, <3>1 DEF LoopEnds, SendReply
    <3>3. timer'[r] = "fired" <=> timer[r] = "fired"
      BY <2>9 DEF LoopEnds
    <3> QED BY <3>1, <3>2, <3>3
  <2> QED
    BY <2>1, <2>2, <2>3, <2>4, <2>5, <2>6, <2>7, <2>8, <2>9 DEF Step
<1> QED BY <1>1, <1>2 DEF RepliesExplained

-----------------------------------------------------------------------------
\* The inductive invariant.
LEMMA IInvStep == IInv /\ [Next]_vars => IInv'
<1> SUFFICES ASSUME IInv, [Next]_vars PROVE IInv'
  OBVIOUS
<1>0. TypeOK'
  BY TypeStep DEF IInv
<1>1. ASSUME NEW r \in Requests, Step(r) PROVE IInv'
  BY <1>0, <1>1, SerialisedStep, ProgressStep, PostDataStep, ConnectionsStep,
     BasesStep, RepliesStep DEF IInv
<1>2. CASE UNCHANGED vars
  <2>1. Serialised' /\ Progress' /\ PostDataOwned'
    BY <1>2 DEF IInv, vars, Serialised, Progress, PostDataOwned
  <2>2. ConnectionsAccounted' /\ BasesAccounted'
    BY <1>2 DEF IInv, vars, ConnectionsAccounted, BasesAccounted
  <2>3. RepliesExplained'
    BY <1>2 DEF IInv, vars, RepliesExplained
  <2> QED BY <1>0, <2>1, <2>2, <2>3 DEF IInv
<1> QED BY <1>1, <1>2, NextIsStep

\* The invariant holds always.
LEMMA IInvHolds == Spec => []IInv
BY InitIInv, IInvStep, PTL DEF Spec

\* A handler that read its POST body finds its own body in the shared
\* buffer for as long as its nested loop runs.
THEOREM PostDataSafe == Spec => []PostDataOwned
<1>1. IInv => PostDataOwned
  BY DEF IInv
<1> QED BY <1>1, IInvHolds, PTL

\* Redirects and the end of the nested loop free every outgoing connection
\* exactly once.
THEOREM ConnectionsSafe == Spec => []ConnectionsAccounted
<1>1. IInv => ConnectionsAccounted
  BY DEF IInv
<1> QED BY <1>1, IInvHolds, PTL

\* The nested loop runs on a base that is there, which is freed once when
\* it ends; a base no loop ran on stays, and it is the only one that does.
THEOREM BasesSafe == Spec => []BasesAccounted
<1>1. IInv => BasesAccounted
  BY DEF IInv
<1> QED BY <1>1, IInvHolds, PTL

\* Every request gets the replies RepliesExplained lists, and no others.
THEOREM RepliesSafe == Spec => []RepliesExplained
<1>1. IInv => RepliesExplained
  BY DEF IInv
<1> QED BY <1>1, IInvHolds, PTL

-----------------------------------------------------------------------------
\* Once a handler has returned, its request gets no reply and its timer
\* does not fire.
THEOREM DoneStaysDone == Spec => DoneIsFinal
<1> DEFINE Final == \A r \in Requests :
                      pc[r] = "done" => /\ pc'[r] = "done"
                                        /\ replies'[r] = replies[r]
                                        /\ timer'[r] = timer[r]
<1>1. TypeOK /\ [Next]_vars => [Final]_vars
  <2> SUFFICES ASSUME TypeOK, NEW r \in Requests, Step(r) PROVE Final
    BY NextIsStep
  <2>1. pc[r] # "done"
    BY DEF Step, Send, HandleBackend, HandleUnsupported, BackendAnswers,
         BackendRedirects, BackendFails, ReqNewFails, ConnectionCloses, TimerFires,
         LoopEnds, InLoop, TimerOnNestedBase
  <2> QED BY <2>1, OthersUntouched
<1> QED BY <1>1, TypeCorrect, PTL DEF Spec, DoneIsFinal

-----------------------------------------------------------------------------
(* The refinement: a handler that enters its nested loop begins a service, *)
(* the timer answers early, the end of the loop answers or, after the      *)
(* timer, just ends; a command without a backend answers and ends at once. *)

Serving == {r \in Requests : pc[r] = "dispatch"}
Answer == [r \in Requests |->
             IF replies[r] = <<>> THEN None ELSE Head(replies[r])]

\* The nested loop of r is the only one.
LEMMA ServingAlone ==
  ASSUME Serialised, NEW r \in Requests, pc[r] = "dispatch"
  PROVE  Serving = {r}
BY DEF Serialised, Serving

\* A reply to a request that had none is its answer; to another, a stutter.
LEMMA FirstReply ==
  ASSUME TypeOK, NEW r \in Requests, NEW s \in Statuses, SendReply(r, s)
  PROVE  /\ replies[r] = <<>> => Answer' = [Answer EXCEPT ![r] = s]
         /\ replies[r] # <<>> => Answer' = Answer
<1>0. replies' = [replies EXCEPT ![r] = Append(replies[r], s)]
  BY DEF SendReply
<1>1. replies[r] \in Seq(Statuses)
  BY DEF TypeOK
<1>2. \A q \in Requests : q # r => replies'[q] = replies[q]
  BY <1>0 DEF TypeOK
<1>3. replies'[r] = Append(replies[r], s)
  BY <1>0 DEF TypeOK
<1>4. replies'[r] # <<>>
  BY <1>1, <1>3
<1>5. ASSUME replies[r] = <<>> PROVE Head(replies'[r]) = s
  BY <1>3, <1>5
<1>6. ASSUME replies[r] # <<>> PROVE Head(replies'[r]) = Head(replies[r])
  BY <1>1, <1>3, <1>6
<1>7. ASSUME replies[r] = <<>> PROVE Answer' = [Answer EXCEPT ![r] = s]
  BY <1>2, <1>4, <1>5, <1>7 DEF Answer
<1>8. ASSUME replies[r] # <<>> PROVE Answer' = Answer
  BY <1>2, <1>4, <1>6, <1>8 DEF Answer
<1> QED BY <1>7, <1>8

\* Nothing is served at first.
LEMMA InitRefines == Init => Service!Init
BY DEF Init, Service!Init

\* Every step is one of the service or a stutter.
LEMMA StepRefines ==
  ASSUME IInv, NEW r \in Requests, Step(r)
  PROVE  [Service!Next]_(Service!vars)
<1> USE DEF IInv, TypeOK
<1> DEFINE Same == Serving' = Serving /\ Answer' = Answer
<1>0. Same => UNCHANGED Service!vars
  BY DEF Service!vars, Serving, Answer
<1>1. CASE HandleBackend(r)
  <2>1. Serving = {} /\ Serving' = {r} /\ Answer' = Answer /\ Answer[r] = None
    BY <1>1, OthersUntouched
    DEF HandleBackend, LoopIsFree, Serving, Answer, RepliesExplained
  <2>2. Service!Begin(r)
    BY <2>1 DEF Service!Begin, Serving, Answer
  <2> QED BY <2>2 DEF Service!Next
<1>2. CASE HandleUnsupported(r)
  <2>1. PICK s \in {HTTP_NOTFOUND, HTTP_BADREQUEST} : SendReply(r, s)
    BY <1>2 DEF HandleUnsupported
  <2>2. s \in Statuses
    BY DEF Statuses
  <2>3. replies[r] = <<>> /\ Answer[r] = None
    BY <1>2 DEF HandleUnsupported, RepliesExplained, Answer
  <2>4. Answer' = [Answer EXCEPT ![r] = s]
    BY <2>1, <2>2, <2>3, FirstReply
  <2>5. Serving = {} /\ Serving' = {}
    BY <1>2 DEF HandleUnsupported, LoopIsFree, Serving
  <2>6. Service!AnswerAndEnd(r, s)
    BY <2>3, <2>4, <2>5 DEF Service!AnswerAndEnd, Serving, Answer
  <2> QED BY <2>2, <2>6 DEF Service!Next
<1>3. CASE TimerFires(r)
  <2>1. pc[r] = "dispatch" /\ pc' = pc /\ timer[r] = "armed"
    BY <1>3 DEF TimerFires, TimerOnNestedBase, InLoop
  <2>2. replies[r] = <<>> /\ Answer[r] = None
    BY <2>1 DEF RepliesExplained, Answer
  <2>3. HTTP_TIMEOUT \in Statuses
    BY DEF Statuses
  <2>4. Answer' = [Answer EXCEPT ![r] = HTTP_TIMEOUT]
    BY <1>3, <2>2, <2>3, FirstReply DEF TimerFires
  <2>5. Serving = {r} /\ Serving' = Serving
    BY <2>1, ServingAlone DEF Serving
  <2>6. Service!AnswerEarly(r, HTTP_TIMEOUT)
    BY <2>2, <2>4, <2>5 DEF Service!AnswerEarly, Serving, Answer
  <2> QED BY <2>3, <2>6 DEF Service!Next
<1>4. CASE LoopEnds(r)
  <2>1. pc[r] = "dispatch" /\ pc' = [pc EXCEPT ![r] = "done"]
    BY <1>4 DEF LoopEnds, InLoop
  <2>2. Serving = {r}
    BY <2>1, ServingAlone
  <2>3. Serving' = {}
    BY <2>1, <2>2, OthersUntouched DEF Serving
  <2>4. HTTP_OK \in Statuses /\ SendReply(r, HTTP_OK)
    BY <1>4 DEF Statuses, LoopEnds
  <2>5. CASE replies[r] = <<>>
    <3>1. Answer[r] = None /\ Answer' = [Answer EXCEPT ![r] = HTTP_OK]
      BY <2>4, <2>5, FirstReply DEF Answer
    <3>2. Service!AnswerAndEnd(r, HTTP_OK)
      BY <2>2, <2>3, <3>1 DEF Service!AnswerAndEnd, Serving, Answer
    <3> QED BY <2>4, <3>2 DEF Service!Next
  <2>6. CASE replies[r] # <<>>
    <3>1. Answer' = Answer
      BY <2>4, <2>6, FirstReply
    <3>2. Answer[r] # None
      <4>1. replies[r] = <<HTTP_TIMEOUT>>
        BY <2>1, <2>6 DEF RepliesExplained
      <4>2. Answer[r] = HTTP_TIMEOUT
        BY <4>1 DEF Answer
      <4>3. HTTP_TIMEOUT # None
        BY RequestAssumption DEF HTTP_TIMEOUT
      <4> QED BY <4>2, <4>3
    <3>3. Service!End(r)
      BY <2>2, <2>3, <3>1, <3>2 DEF Service!End, Serving, Answer
    <3> QED BY <3>3 DEF Service!Next
  <2> QED BY <2>5, <2>6
<1>5. CASE ~ (\/ HandleBackend(r) \/ HandleUnsupported(r)
              \/ TimerFires(r) \/ LoopEnds(r))
  <2>1. replies' = replies
    BY <1>5 DEF Step, Send, BackendAnswers, BackendRedirects, BackendFails, ReqNewFails,
         ConnectionCloses
  <2>2. \A q \in Requests : pc'[q] = "dispatch" <=> pc[q] = "dispatch"
    BY <1>5 DEF Step, Send, BackendAnswers, BackendRedirects, BackendFails, ReqNewFails,
         ConnectionCloses
  <2> QED BY <2>1, <2>2, <1>0 DEF Serving, Answer
<1> QED BY <1>1, <1>2, <1>3, <1>4, <1>5

\* The request path implements the serial service: whatever the nested
\* loops, timers and backends do, clients see requests served one at a time
\* and first answers that are final.
THEOREM RequestImplementsService == Spec => ServiceSpec
<1>1. IInv /\ [Next]_vars => [Service!Next]_(Service!vars)
  <2> SUFFICES ASSUME IInv, [Next]_vars
               PROVE  [Service!Next]_(Service!vars)
    OBVIOUS
  <2>1. CASE Next
    BY <2>1, NextIsStep, StepRefines
  <2>2. CASE UNCHANGED vars
    BY <2>2 DEF vars, Service!vars
  <2> QED BY <2>1, <2>2
<1> QED
  BY <1>1, InitRefines, IInvHolds, PTL DEF Spec, ServiceSpec, Service!Spec
=============================================================================
