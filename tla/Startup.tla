------------------------------ MODULE Startup ------------------------------
(***************************************************************************)
(* From main to the server loop: signal_handler_init, log_init, req_init,  *)
(* server_init with read_conf and server_run, and what the loop relies on  *)
(* afterwards: that SIGPIPE is ignored, post_data is allocated, the timer  *)
(* of a request runs for as long as the configuration says.  Every call of *)
(* the system may fail.                                                    *)
(*                                                                         *)
(* The logger is what LogRing shows of it: a record is put in a ring, and  *)
(* the log thread moves what is in the rings to the files; what is in a    *)
(* ring when the process ends is lost.  Numbers are scaled: INT_MAX and    *)
(* ULONG_MAX are those of limits.h, a second has Million microseconds.     *)
(***************************************************************************)
EXTENDS Integers, Sequences

CONSTANTS
  Levels, ThreadNums, Timeouts,          \* what the configuration may say
  THREAD_NUM_DEFAULT, TIMEOUT_S_DEFAULT,
  INT_MAX, ULONG_MAX, Million,           \* of the machine and the clock
  MaxRequests                            \* bound: requests that arrive

ASSUME StartupAssumption ==
  /\ INT_MAX \in Nat /\ ULONG_MAX \in Nat /\ ULONG_MAX >= 2 * INT_MAX + 1
  /\ Levels \cup ThreadNums \cup Timeouts \subseteq (-INT_MAX - 1)..INT_MAX
  /\ {THREAD_NUM_DEFAULT, TIMEOUT_S_DEFAULT, Million} \subseteq 1..INT_MAX
  /\ MaxRequests \in Nat

Keys == {"Name", "Dir", "Level", "Port", "Thread_Num", "Timeout_s"}

\* PROXY_LOG_FATAL and the others.
FATAL == 1
WARNING == 2
TRACE == 8
DEBUG == 16

Logs == {"log", "wf"}

\* What is logged on the way.
Texts == {"log_read_conf failed", "log init done",
          "failed to create post_data buffer", "request module init done",
          "Read conf error", "thread_num conf load done",
          "http server start OK!", "in http_handler", "init failed",
          "server init done"}

VARIABLES
  conf,       \* the keys the file has, with their values
  pc,         \* how far the main thread is
  status,     \* "running", what main returned, or the signal that ended it
  stderr,     \* whether a failure was told there
  sigpipe,    \* whether SIGPIPE is ignored
  level,      \* _log_level
  buffers,    \* whether log_init has allocated the rings
  thread,     \* whether the log thread runs
  ring, file, \* the records in each ring and in each file
  post_data,  \* whether the buffer is allocated
  thread_num, timeout_s,
  listening,  \* "yes" once the port is bound, "closed" when served no more
  armed       \* the timeouts of the timers set, <<tv_sec, tv_usec>>

logger == <<buffers, thread, file>>
settings == <<thread_num, timeout_s>>
vars == <<conf, pc, status, stderr, sigpipe, level, logger, ring, post_data,
          settings, listening, armed>>

-----------------------------------------------------------------------------
(* Steps of the main thread.                                               *)

At(p) == status = "running" /\ pc = p

Goto(p) == pc' = p /\ UNCHANGED <<status, stderr>>

\* exit(1) or return 1 after a word on stderr.
Tells == status' = "1" /\ stderr' = TRUE /\ UNCHANGED pc

Ends(how) == status' = how /\ UNCHANGED <<pc, stderr>>

\* log_base and log_printf.
Log(lvl, what) ==
  ring' = IF level < lvl THEN ring
          ELSE [ring EXCEPT ![IF lvl <= WARNING THEN "wf" ELSE "log"] = Append(@, what)]

\* The arguments: none, a path, or a directory and a name.
Main ==
  /\ At("main")
  /\ \E argc \in 1..4 : IF argc <= 3 THEN Goto("signal_handler_init") ELSE Tells
  /\ UNCHANGED <<conf, sigpipe, level, logger, ring, post_data, settings, listening, armed>>

SignalHandlerInitEmpty ==
  /\ At("signal_handler_init")
  /\ Goto("load") /\ UNCHANGED sigpipe
  /\ UNCHANGED <<conf, level, logger, ring, post_data, settings, listening, armed>>
SignalHandlerInit ==
  /\ At("signal_handler_init")
  /\ \E works \in BOOLEAN :
       IF works THEN Goto("load") /\ sigpipe' = TRUE
       ELSE Tells /\ UNCHANGED sigpipe
  /\ UNCHANGED <<conf, level, logger, ring, post_data, settings, listening, armed>>

LoadQuiet ==
  /\ At("load")
  /\ \E works \in BOOLEAN :
       IF works THEN Goto("log_read_conf") ELSE Ends("1")
  /\ UNCHANGED <<conf, sigpipe, level, logger, ring, post_data, settings, listening, armed>>
Load ==
  /\ At("load")
  /\ \E works \in BOOLEAN : IF works THEN Goto("log_read_conf") ELSE Tells
  /\ UNCHANGED <<conf, sigpipe, level, logger, ring, post_data, settings, listening, armed>>

-----------------------------------------------------------------------------
(* log_init.                                                               *)

\* The level comes last, so it is still 0 when a key is missing: the record
\* of the failure is dropped.  log_init does not look at the result.
LogReadConfLevelFirst ==
  /\ At("log_read_conf")
  /\ level' = IF "Level" \in DOMAIN conf THEN conf["Level"] ELSE level
  /\ IF {"Name", "Dir", "Level"} \subseteq DOMAIN conf THEN UNCHANGED ring
     ELSE ring' = IF level' < FATAL THEN ring
                  ELSE [ring EXCEPT !["wf"] = Append(@, "log_read_conf failed")]
  /\ Goto("log_files")
  /\ UNCHANGED <<conf, sigpipe, logger, post_data, settings, listening, armed>>
LogReadConf ==
  /\ At("log_read_conf")
  /\ IF {"Name", "Dir", "Level"} \subseteq DOMAIN conf
     THEN level' = conf["Level"] /\ UNCHANGED ring
     ELSE Log(FATAL, "log_read_conf failed") /\ UNCHANGED level
  /\ Goto("log_files")
  /\ UNCHANGED <<conf, sigpipe, logger, post_data, settings, listening, armed>>

\* The buffers are cleared before anything is looked at.
LogFiles ==
  /\ At("log_files")
  /\ \E opened, allocated \in BOOLEAN :
       IF ~allocated THEN Ends("SIGSEGV") /\ UNCHANGED buffers
       ELSE /\ buffers' = TRUE
            /\ IF opened THEN Goto("log_thread") ELSE Tells
  /\ UNCHANGED <<conf, sigpipe, level, thread, file, ring, post_data, settings, listening, armed>>

\* pipe, fcntl and pthread_create; "log init done" is logged by main.
LogThreadNone ==
  /\ At("log_thread")
  /\ Goto("req_init")
  /\ Log(TRACE, "log init done") /\ UNCHANGED thread
  /\ UNCHANGED <<conf, sigpipe, level, buffers, file, post_data, settings, listening, armed>>
LogThread ==
  /\ At("log_thread")
  /\ \E works \in BOOLEAN :
       IF works THEN /\ thread' = TRUE
                     /\ Log(TRACE, "log init done")
                     /\ Goto("req_init")
       ELSE Tells /\ UNCHANGED <<thread, ring>>
  /\ UNCHANGED <<conf, sigpipe, level, buffers, file, post_data, settings, listening, armed>>

\* log_thread_loop.
LogThreadLoop ==
  /\ status = "running" /\ thread
  /\ \E f \in Logs : ring[f] # <<>>
  /\ file' = [f \in Logs |-> file[f] \o ring[f]]
  /\ ring' = [f \in Logs |-> <<>>]
  /\ UNCHANGED <<conf, pc, status, stderr, sigpipe, level, buffers, thread,
                 post_data, settings, listening, armed>>

-----------------------------------------------------------------------------
(* req_init, server_init.                                                  *)

ReqInitUnchecked ==
  /\ At("req_init")
  /\ post_data' \in BOOLEAN
  /\ Log(TRACE, "request module init done") /\ Goto("read_conf")
  /\ UNCHANGED <<conf, sigpipe, level, logger, settings, listening, armed>>
ReqInit ==
  /\ At("req_init")
  /\ post_data' \in BOOLEAN
  /\ IF post_data' THEN Log(TRACE, "request module init done") /\ Goto("read_conf")
     ELSE Log(FATAL, "failed to create post_data buffer") /\ Goto("ensure")
  /\ UNCHANGED <<conf, sigpipe, level, logger, settings, listening, armed>>

\* What read_conf throws at a missing key, and catches.
Throws == Log(FATAL, "Read conf error") /\ Goto("ensure")

ReadPort ==
  /\ At("read_conf")
  /\ IF "Port" \notin DOMAIN conf THEN Throws /\ UNCHANGED thread_num
     ELSE /\ thread_num' = IF "Thread_Num" \in DOMAIN conf /\ conf["Thread_Num"] > 0
                           THEN conf["Thread_Num"] ELSE THREAD_NUM_DEFAULT
          /\ Log(TRACE, "thread_num conf load done")
          /\ Goto("read_timeout")
  /\ UNCHANGED <<conf, sigpipe, level, logger, post_data, timeout_s, listening, armed>>

ReadTimeoutAsIs ==
  /\ At("read_timeout")
  /\ IF "Timeout_s" \notin DOMAIN conf THEN Throws /\ UNCHANGED timeout_s
     ELSE /\ timeout_s' = conf["Timeout_s"]
          /\ UNCHANGED ring
          /\ Goto("server_run")
  /\ UNCHANGED <<conf, sigpipe, level, logger, post_data, thread_num, listening, armed>>
ReadTimeout ==
  /\ At("read_timeout")
  /\ IF "Timeout_s" \notin DOMAIN conf THEN Throws /\ UNCHANGED timeout_s
     ELSE /\ timeout_s' = IF conf["Timeout_s"] > 0 THEN conf["Timeout_s"]
                          ELSE TIMEOUT_S_DEFAULT
          /\ UNCHANGED ring
          /\ Goto("server_run")
  /\ UNCHANGED <<conf, sigpipe, level, logger, post_data, thread_num, listening, armed>>

\* evhttp_new and evhttp_bind_socket; server_init does not look at the result.
ServerRunTraceFirst ==
  /\ At("server_run")
  /\ listening' \in {"yes", "no"}
  /\ Log(TRACE, "http server start OK!")
  /\ Goto(IF listening' = "yes" THEN "dispatch" ELSE "server_done")
  /\ UNCHANGED <<conf, sigpipe, level, logger, post_data, settings, armed>>
ServerRun ==
  /\ At("server_run")
  /\ listening' \in {"yes", "no"}
  /\ IF listening' = "yes" THEN Log(TRACE, "http server start OK!") /\ Goto("dispatch")
     ELSE UNCHANGED ring /\ Goto("server_done")
  /\ UNCHANGED <<conf, sigpipe, level, logger, post_data, settings, armed>>

-----------------------------------------------------------------------------
(* In the loop.                                                            *)

Wrap(x) == ((x + INT_MAX + 1) % (2 * INT_MAX + 2)) - (INT_MAX + 1)

\* timeout_s * 1000000 is a product of ints.  When it does not fit, it is
\* undefined: it wraps, or is right when the compiler multiplies in more bits.
Products == {timeout_s * Million, Wrap(timeout_s * Million)}

ToUnsignedLong(x) == x % (ULONG_MAX + 1)

\* event_timer_new.
TimevalSwapped(usec) == <<usec % Million, usec \div Million>>
Timeval(usec) == <<usec \div Million, usec % Million>>

\* http_handler: req_new sets the timer, get_post_data writes to post_data; the
\* reply is written to a connection its client may have closed.
HttpHandler ==
  /\ At("dispatch")
  /\ Len(armed) < MaxRequests
  /\ \E p \in Products : armed' = Append(armed, Timeval(ToUnsignedLong(p)))
  /\ Log(DEBUG, "in http_handler")
  /\ \E closed \in BOOLEAN :
       IF ~post_data THEN Ends("SIGSEGV")
       ELSE IF closed /\ ~sigpipe THEN Ends("SIGPIPE")
       ELSE Goto("dispatch")
  /\ UNCHANGED <<conf, sigpipe, level, logger, post_data, settings, listening>>

\* event_base_dispatch fails; evhttp_free closes the socket.
DispatchReturnsNoFree ==
  /\ At("dispatch")
  /\ Goto("server_done")
  /\ UNCHANGED <<conf, sigpipe, level, logger, ring, post_data, settings, listening, armed>>
DispatchReturns ==
  /\ At("dispatch")
  /\ listening' = "closed"
  /\ Goto("server_done")
  /\ UNCHANGED <<conf, sigpipe, level, logger, ring, post_data, settings, armed>>

\* The ENSURE of main: it logs, and main returns.
Ensure ==
  /\ At("ensure")
  /\ Log(FATAL, "init failed") /\ Goto("return 1")
  /\ UNCHANGED <<conf, sigpipe, level, logger, post_data, settings, listening, armed>>

ServerDone ==
  /\ At("server_done")
  /\ Log(TRACE, "server init done") /\ Goto("return 0")
  /\ UNCHANGED <<conf, sigpipe, level, logger, post_data, settings, listening, armed>>

Return ==
  /\ \/ At("return 0") /\ Ends("0")
     \/ At("return 1") /\ Ends("1")
  /\ UNCHANGED <<conf, sigpipe, level, logger, ring, post_data, settings, listening, armed>>
-----------------------------------------------------------------------------
(* The specification.                                                      *)

Init ==
  /\ \E K \in SUBSET Keys, l \in Levels, n \in ThreadNums, t \in Timeouts :
       conf = [k \in K |-> CASE k = "Level" -> l [] k = "Thread_Num" -> n
                             [] k = "Timeout_s" -> t [] OTHER -> 0]
  /\ pc = "main" /\ status = "running" /\ stderr = FALSE
  /\ sigpipe = FALSE
  /\ level = 0 /\ buffers = FALSE /\ thread = FALSE
  /\ ring = [f \in Logs |-> <<>>] /\ file = [f \in Logs |-> <<>>]
  /\ post_data = FALSE /\ thread_num = 0 /\ timeout_s = 0
  /\ listening = "no"
  /\ armed = <<>>

\* What runs by itself, on the main thread.
Starts ==
  \/ Main \/ SignalHandlerInit \/ Load
  \/ LogReadConf \/ LogFiles \/ LogThread
  \/ ReqInit \/ ReadPort \/ ReadTimeout \/ ServerRun
  \/ Ensure \/ ServerDone \/ Return

Next == Starts \/ LogThreadLoop \/ HttpHandler \/ DispatchReturns

Spec == Init /\ [][Next]_vars

\* Both threads run.
FairSpec == Spec /\ WF_vars(Starts) /\ WF_vars(LogThreadLoop)

-----------------------------------------------------------------------------
(* Properties.                                                             *)

Logged(f) == file[f] \o ring[f]
Says(what) == \E f \in Logs : \E i \in 1..Len(Logged(f)) : Logged(f)[i] = what

TypeOK ==
  /\ DOMAIN conf \subseteq Keys
  /\ status \in {"running", "0", "1", "SIGSEGV", "SIGPIPE"}
  /\ {stderr, sigpipe, buffers, thread, post_data} \subseteq BOOLEAN
  /\ listening \in {"no", "yes", "closed"}
  /\ level \in Levels \cup {0}
  /\ \A f \in Logs : Logged(f) \in Seq(Texts)
  /\ thread_num \in 0..INT_MAX /\ timeout_s \in 0..INT_MAX
  /\ \A i \in 1..Len(armed) :
       armed[i] \in (0..ULONG_MAX) \X (0..(Million - 1))

\* Nothing is used before it is there: no record is copied to a ring that is
\* not allocated, no body to a post_data that is not, no reply sent to a closed
\* connection while SIGPIPE ends the process.  The one exception is log_init
\* itself, which clears its buffers before it looks whether it got them.
InitialisedBeforeUse ==
  /\ \A f \in Logs : Logged(f) # <<>> => buffers
  /\ status = "SIGSEGV" => pc = "log_files"
  /\ status # "SIGPIPE"

\* A failure that makes main return 1, or log_init exit, is told: on stderr
\* before the log thread runs, in a fatal record afterwards, unless no record is
\* that fatal: the level is 0 when any key of [Log] is missing.  Told is not
\* read: main does not wait for the log thread, and the record may be lost.
FailureIsTold ==
  status = "1" =>
    IF thread THEN level < FATAL \/ Logged("wf") # <<>> ELSE stderr

\* Of the two records that look like success, the first tells whether the port
\* was bound; the second, and the 0 main returns, only that nobody listens.
RecordsTell ==
  /\ Says("http server start OK!")
       <=> listening # "no" /\ level >= TRACE
  /\ Says("server init done") \/ status = "0"
       => listening # "yes"

\* The timer of a request runs for as long as the configuration says, for
\* TIMEOUT_S_DEFAULT when that is no time at all, unless the product of
\* seconds and microseconds does not fit an int.
ArmedAsConfigured ==
  \A i \in 1..Len(armed) :
    LET t == conf["Timeout_s"]
        seconds == IF t > 0 THEN t ELSE TIMEOUT_S_DEFAULT
    IN seconds * Million <= INT_MAX => armed[i] = <<seconds, 0>>

\* In the end the server listens and all its records are in the files, or the
\* process is gone.
Settles ==
  <>[](status # "running" \/ (pc = "dispatch" /\ \A f \in Logs : ring[f] = <<>>))
=============================================================================
