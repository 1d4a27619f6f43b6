--------------------------- MODULE StartupProofs ---------------------------
(***************************************************************************)
(* Proofs about Startup: whatever the configuration says and whichever of  *)
(* its calls fail, nothing is used before it is initialised, and every     *)
(* failure is told; the records tell whether the port was bound; and the   *)
(* timer of a request runs for as long as the configuration says.  All     *)
(* follow from what is set up at each step.                                *)
(***************************************************************************)
EXTENDS Startup, Remainders, SequenceTheorems, TLAPS

\* The steps before log_init has read the configuration, and those of main
\* after log_init.
Before == {"main", "signal_handler_init", "load", "log_read_conf"}
After == {"req_init", "read_conf", "read_timeout", "server_run", "dispatch",
          "server_done", "ensure", "return 0", "return 1"}

Types ==
  /\ pc \in Before \cup {"log_files", "log_thread"} \cup After
  /\ level \in Int
  /\ "Level" \in DOMAIN conf => conf["Level"] \in Int
  /\ ring \in [Logs -> Seq(Texts)]
  /\ file \in [Logs -> Seq(Texts)]

\* What is set up when the main thread gets to a step.
SetUp ==
  /\ pc \in Before => level = 0
  /\ pc \notin After => ~thread
  /\ pc \in After => thread
  /\ pc \in After \cup {"log_thread"} => buffers
  /\ pc \notin {"main", "signal_handler_init"} => sigpipe
  /\ pc \in {"read_conf", "read_timeout", "server_run", "dispatch"} => post_data

\* The rings and files are empty until log_init is done.
Silent ==
  pc \notin After => \A f \in Logs : ring[f] = <<>> /\ file[f] = <<>>

\* How the process has ended, and what was logged before.
Ended ==
  /\ pc = "return 1" => level < FATAL \/ ring["wf"] # <<>> \/ file["wf"] # <<>>
  /\ status = "1" => pc = "return 1" \/ (~thread /\ stderr)
  /\ status = "SIGSEGV" => pc = "log_files"
  /\ status # "SIGPIPE"

IInv == Types /\ SetUp /\ Silent /\ Ended

-----------------------------------------------------------------------------
(* Records.                                                                *)

\* Records moved to a file stay records.
LEMMA Concat ==
  ASSUME NEW s \in Seq(Texts), NEW t \in Seq(Texts)
  PROVE  /\ s \o t \in Seq(Texts)
         /\ s \o t = <<>> <=> s = <<>> /\ t = <<>>
<1>1. s \o t \in Seq(Texts)
  BY SMT
<1>2. Len(s \o t) = Len(s) + Len(t)
  BY SMT
<1>3. \A u \in Seq(Texts) : u = <<>> <=> Len(u) = 0
  BY SMT
<1>4. Len(s) \in Nat /\ Len(t) \in Nat
  BY SMT
<1>5. Len(s \o t) = 0 <=> Len(s) = 0 /\ Len(t) = 0
  BY <1>2, <1>4, SMT
<1> QED BY <1>1, <1>3, <1>5

\* A record leaves the types alone, and one that is fatal is in the ring.
LEMMA LogKeeps ==
  ASSUME NEW lvl \in {FATAL, TRACE, DEBUG}, NEW what \in Texts,
         level \in Int, ring \in [Logs -> Seq(Texts)], Log(lvl, what)
  PROVE  /\ ring' \in [Logs -> Seq(Texts)]
         /\ level < lvl => ring' = ring
         /\ ring["wf"] # <<>> => ring'["wf"] # <<>>
         /\ lvl = FATAL /\ ~(level < FATAL) => ring'["wf"] # <<>>
<1> DEFINE at == IF lvl <= WARNING THEN "wf" ELSE "log"
           longer == [ring EXCEPT ![at] = Append(@, what)]
<1>1. at \in Logs /\ "wf" \in Logs
  BY DEF Logs
<1>2. \A s \in Seq(Texts) : Append(s, what) \in Seq(Texts) /\ Append(s, what) # <<>>
  <2> TAKE s \in Seq(Texts)
  <2>1. Append(s, what) \in Seq(Texts)
    BY AppendProperties
  <2>2. Len(Append(s, what)) = Len(s) + 1 /\ Len(s) \in Nat
    BY AppendProperties, LenProperties
  <2>3. Len(<<>>) = 0 /\ Len(s) + 1 # 0
    BY <2>2
  <2>4. Append(s, what) # <<>>
    BY <2>2, <2>3
  <2> QED BY <2>1, <2>4
<1>3. longer \in [Logs -> Seq(Texts)]
  <2>1. Append(ring[at], what) \in Seq(Texts)
    BY <1>1, <1>2
  <2> QED BY <1>1, <2>1
<1>4. longer[at] # <<>> /\ (at # "wf" => longer["wf"] = ring["wf"])
  <2>1. longer[at] = Append(ring[at], what)
    BY <1>1
  <2>2. ring[at] \in Seq(Texts)
    BY <1>1
  <2>3. longer[at] # <<>>
    BY <1>2, <2>1, <2>2
  <2>4. at # "wf" => longer["wf"] = ring["wf"]
    BY <1>1
  <2> QED BY <2>3, <2>4
<1>5. ring' = IF level < lvl THEN ring ELSE longer
  BY DEF Log
<1>6. lvl = FATAL => at = "wf"
  BY DEF FATAL, WARNING
<1> HIDE DEF at, longer
<1>7. CASE level < lvl
  <2>1. ring' = ring
    BY <1>5, <1>7
  <2> QED BY <2>1, <1>7
<1>8. CASE ~(level < lvl)
  <2>1. ring' = longer
    BY <1>5, <1>8
  <2> QED BY <2>1, <1>3, <1>4, <1>6, <1>8
<1> QED BY <1>7, <1>8

\* The levels of the configuration are ints.
LEMMA LevelIsInt ==
  ASSUME NEW l \in Levels
  PROVE  l \in Int
BY StartupAssumption

-----------------------------------------------------------------------------
(* The invariant.                                                          *)

\* The invariant holds at first.
LEMMA InitHolds == Init => IInv
<1> SUFFICES ASSUME Init PROVE IInv
  OBVIOUS
<1>1. "Level" \in DOMAIN conf => conf["Level"] \in Int
  <2>1. PICK K \in SUBSET Keys, l \in Levels, n \in ThreadNums, t \in Timeouts :
          conf = [k \in K |-> CASE k = "Level" -> l [] k = "Thread_Num" -> n
                                [] k = "Timeout_s" -> t [] OTHER -> 0]
    BY DEF Init
  <2>2. "Level" \in DOMAIN conf => conf["Level"] = l
    BY <2>1
  <2> QED BY <2>2, LevelIsInt
<1>2. ring \in [Logs -> Seq(Texts)] /\ file \in [Logs -> Seq(Texts)]
  BY DEF Init
<1>3. Types
  BY <1>1, <1>2 DEF Init, Types, Before
<1>4. SetUp
  BY DEF Init, SetUp, Before, After
<1>5. Silent
  BY DEF Init, Silent
<1>6. Ended
  BY DEF Init, Ended
<1> QED BY <1>3, <1>4, <1>5, <1>6 DEF IInv

\* Up to the point where the log thread runs, the steps of the main thread.
LEMMA BeforeLog ==
  ASSUME IInv, Main \/ SignalHandlerInit \/ Load \/ LogReadConf
  PROVE  IInv'
<1> USE DEF IInv, Types, SetUp, Silent, Ended, At, Goto, Tells, Ends, logger,
           settings, Before, After
<1>1. CASE Main
  BY <1>1 DEF Main
<1>2. CASE SignalHandlerInit
  BY <1>2 DEF SignalHandlerInit
<1>3. CASE Load
  BY <1>3 DEF Load
<1>4. CASE LogReadConf
  <2>1. level = 0 /\ ring' = ring
    BY <1>4 DEF LogReadConf, Log, FATAL
  <2>2. level' \in Int
    BY <1>4 DEF LogReadConf
  <2> QED BY <1>4, <2>1, <2>2 DEF LogReadConf
<1> QED BY <1>1, <1>2, <1>3, <1>4

\* The rest of log_init, and the log thread.
LEMMA LogInit ==
  ASSUME IInv, LogFiles \/ LogThread \/ LogThreadLoop
  PROVE  IInv'
<1> USE DEF At, Goto, Tells, Ends, logger, settings, Before, After
<1>1. CASE LogFiles
  BY <1>1 DEF LogFiles, IInv, Types, SetUp, Silent, Ended
<1>2. CASE LogThread
  <2>1. CASE Tells /\ UNCHANGED <<thread, ring>>
    BY <1>2, <2>1 DEF LogThread, IInv, Types, SetUp, Silent, Ended
  <2>2. CASE thread' = TRUE /\ Log(TRACE, "log init done") /\ Goto("req_init")
    <3>1. level \in Int /\ ring \in [Logs -> Seq(Texts)]
      BY DEF IInv, Types
    <3>2. TRACE \in {FATAL, TRACE, DEBUG} /\ "log init done" \in Texts
      BY DEF Texts
    <3>3. Log(TRACE, "log init done")
      BY <2>2
    <3>4. ring' \in [Logs -> Seq(Texts)]
      BY <3>1, <3>2, <3>3, LogKeeps
    <3> QED BY <1>2, <2>2, <3>4 DEF LogThread, IInv, Types, SetUp, Silent, Ended
  <2> QED BY <1>2, <2>1, <2>2 DEF LogThread
<1>3. CASE LogThreadLoop
  <2>1. file' \in [Logs -> Seq(Texts)] /\ ring' \in [Logs -> Seq(Texts)]
    <3>1. \A f \in Logs : file[f] \in Seq(Texts) /\ ring[f] \in Seq(Texts)
      BY DEF IInv, Types
    <3>2. \A f \in Logs : file[f] \o ring[f] \in Seq(Texts)
      BY <3>1, Concat
    <3>3. <<>> \in Seq(Texts)
      OBVIOUS
    <3> QED BY <1>3, <3>2, <3>3 DEF LogThreadLoop
  <2>2. file'["wf"] = <<>> => file["wf"] = <<>> /\ ring["wf"] = <<>>
    <3>1. "wf" \in Logs
      BY DEF Logs
    <3>2. file["wf"] \in Seq(Texts) /\ ring["wf"] \in Seq(Texts)
      BY <3>1 DEF IInv, Types
    <3>3. file'["wf"] = file["wf"] \o ring["wf"]
      BY <1>3, <3>1 DEF LogThreadLoop
    <3> QED BY <3>2, <3>3, Concat
  <2>3. thread /\ pc \in After
    BY <1>3 DEF LogThreadLoop, IInv, SetUp
  <2>4. UNCHANGED <<conf, pc, status, stderr, sigpipe, level, buffers, thread, post_data>>
    BY <1>3 DEF LogThreadLoop
  <2> QED BY <2>1, <2>2, <2>3, <2>4 DEF IInv, Types, SetUp, Silent, Ended
<1> QED BY <1>1, <1>2, <1>3

\* A step of main that logs and goes on, after log_init.
LEMMA LogsAndGoesOn ==
  ASSUME IInv, status = "running", pc \in After,
         NEW lvl \in {FATAL, TRACE, DEBUG}, NEW what \in Texts,
         Log(lvl, what),
         NEW p \in After, pc' = p,
         p = "return 1" => lvl = FATAL,
         p \in {"read_conf", "read_timeout", "server_run", "dispatch"} => post_data',
         status' = status,
         UNCHANGED <<conf, stderr, sigpipe, level, logger>>
  PROVE  IInv'
<1>1. /\ ring' \in [Logs -> Seq(Texts)]
      /\ lvl = FATAL /\ ~(level < FATAL) => ring'["wf"] # <<>>
  BY LogKeeps DEF IInv, Types
<1>2. Types'
  BY <1>1 DEF IInv, Types, logger
<1>3. SetUp'
  BY DEF IInv, SetUp, After, Before, logger
<1>4. Silent'
  BY DEF Silent
<1>5. Ended'
  BY <1>1 DEF Ended
<1> QED BY <1>2, <1>3, <1>4, <1>5 DEF IInv

\* Each step of main after log_init, once for each way it goes.
LEMMA AfterLog ==
  ASSUME IInv, ReqInit \/ ReadPort \/ ReadTimeout \/ ServerRun \/ Ensure \/ ServerDone
  PROVE  IInv'
<1> USE DEF At, Goto
<1>1. CASE ReqInit
  <2>1. CASE post_data' /\ Log(TRACE, "request module init done") /\ Goto("read_conf")
    <3>1. "request module init done" \in Texts /\ "read_conf" \in After /\ pc \in After
      BY <1>1 DEF ReqInit, Texts, After
    <3>2. status = "running" /\ status' = status /\ pc' = "read_conf"
      BY <1>1, <2>1 DEF ReqInit
    <3>3. UNCHANGED <<conf, stderr, sigpipe, level, logger>>
      BY <1>1, <2>1 DEF ReqInit
    <3> QED BY <2>1, <3>1, <3>2, <3>3, LogsAndGoesOn
  <2>2. CASE Log(FATAL, "failed to create post_data buffer") /\ Goto("ensure")
    <3>1. "failed to create post_data buffer" \in Texts /\ "ensure" \in After /\ pc \in After
      BY <1>1 DEF ReqInit, Texts, After
    <3>2. status = "running" /\ status' = status /\ pc' = "ensure"
      BY <1>1, <2>2 DEF ReqInit
    <3>3. UNCHANGED <<conf, stderr, sigpipe, level, logger>>
      BY <1>1, <2>2 DEF ReqInit
    <3> QED BY <2>2, <3>1, <3>2, <3>3, LogsAndGoesOn
  <2> QED BY <1>1, <2>1, <2>2, Zenon DEF ReqInit
<1>2. CASE ReadPort
  <2>1. CASE Log(FATAL, "Read conf error") /\ Goto("ensure")
    <3>1. "Read conf error" \in Texts /\ "ensure" \in After /\ pc \in After
      BY <1>2 DEF ReadPort, Texts, After
    <3>2. status = "running" /\ status' = status /\ pc' = "ensure"
      BY <1>2, <2>1 DEF ReadPort
    <3>3. UNCHANGED <<conf, stderr, sigpipe, level, logger>>
      BY <1>2, <2>1 DEF ReadPort
    <3> QED BY <2>1, <3>1, <3>2, <3>3, LogsAndGoesOn
  <2>2. CASE Log(TRACE, "thread_num conf load done") /\ Goto("read_timeout")
    <3>1. "thread_num conf load done" \in Texts /\ "read_timeout" \in After /\ pc \in After
      BY <1>2 DEF ReadPort, Texts, After
    <3>2. status = "running" /\ status' = status /\ pc' = "read_timeout"
      BY <1>2, <2>2 DEF ReadPort
    <3>3. UNCHANGED <<conf, stderr, sigpipe, level, logger>>
      BY <1>2, <2>2 DEF ReadPort
    <3>4. post_data'
      BY <1>2, <2>2 DEF ReadPort, IInv, SetUp
    <3> QED BY <2>2, <3>1, <3>2, <3>3, <3>4, LogsAndGoesOn
  <2> QED BY <1>2, <2>1, <2>2 DEF ReadPort, Throws
<1>3. CASE ReadTimeout
  <2>1. CASE Log(FATAL, "Read conf error") /\ Goto("ensure")
    <3>1. "Read conf error" \in Texts /\ "ensure" \in After /\ pc \in After
      BY <1>3 DEF ReadTimeout, Texts, After
    <3>2. status = "running" /\ status' = status /\ pc' = "ensure"
      BY <1>3, <2>1 DEF ReadTimeout
    <3>3. UNCHANGED <<conf, stderr, sigpipe, level, logger>>
      BY <1>3, <2>1 DEF ReadTimeout
    <3> QED BY <2>1, <3>1, <3>2, <3>3, LogsAndGoesOn
  <2>2. CASE UNCHANGED ring /\ Goto("server_run")
    BY <1>3, <2>2 DEF ReadTimeout, IInv, Types, SetUp, Silent, Ended, Before, After, logger
  <2> QED BY <1>3, <2>1, <2>2 DEF ReadTimeout, Throws
<1>4. CASE ServerRun
  <2>1. CASE Log(TRACE, "http server start OK!") /\ Goto("dispatch")
    <3>1. "http server start OK!" \in Texts /\ "dispatch" \in After /\ pc \in After
      BY <1>4 DEF ServerRun, Texts, After
    <3>2. status = "running" /\ status' = status /\ pc' = "dispatch"
      BY <1>4, <2>1 DEF ServerRun
    <3>3. UNCHANGED <<conf, stderr, sigpipe, level, logger>>
      BY <1>4, <2>1 DEF ServerRun
    <3>4. post_data'
      BY <1>4, <2>1 DEF ServerRun, IInv, SetUp
    <3> QED BY <2>1, <3>1, <3>2, <3>3, <3>4, LogsAndGoesOn
  <2>2. CASE UNCHANGED ring /\ Goto("server_done")
    BY <1>4, <2>2 DEF ServerRun, IInv, Types, SetUp, Silent, Ended, Before, After, logger
  <2> QED BY <1>4, <2>1, <2>2 DEF ServerRun
<1>5. CASE Ensure
  <2>1. "init failed" \in Texts /\ "return 1" \in After /\ pc \in After
    BY <1>5 DEF Ensure, Texts, After
  <2>2. status = "running" /\ status' = status /\ pc' = "return 1"
    BY <1>5 DEF Ensure
  <2>3. UNCHANGED <<conf, stderr, sigpipe, level, logger>>
    BY <1>5 DEF Ensure
  <2>4. Log(FATAL, "init failed")
    BY <1>5 DEF Ensure
  <2> QED BY <2>1, <2>2, <2>3, <2>4, LogsAndGoesOn
<1>6. CASE ServerDone
  <2>1. "server init done" \in Texts /\ "return 0" \in After /\ pc \in After
    BY <1>6 DEF ServerDone, Texts, After
  <2>2. status = "running" /\ status' = status /\ pc' = "return 0"
    BY <1>6 DEF ServerDone
  <2>3. UNCHANGED <<conf, stderr, sigpipe, level, logger>>
    BY <1>6 DEF ServerDone
  <2>4. Log(TRACE, "server init done")
    BY <1>6 DEF ServerDone
  <2> QED BY <2>1, <2>2, <2>3, <2>4, LogsAndGoesOn
<1> QED BY <1>1, <1>2, <1>3, <1>4, <1>5, <1>6

\* The loop, and the end of main.
LEMMA InLoop ==
  ASSUME IInv, HttpHandler \/ DispatchReturns \/ Return
  PROVE  IInv'
<1> USE DEF At, Goto, Ends
<1>1. CASE HttpHandler
  <2>1. pc = "dispatch" /\ status = "running" /\ post_data /\ sigpipe
    BY <1>1 DEF HttpHandler, IInv, SetUp
  <2>2. "in http_handler" \in Texts /\ "dispatch" \in After
    BY DEF Texts, After
  <2>3. status' = status /\ pc' = "dispatch" /\ stderr' = stderr
    BY <1>1, <2>1, Zenon DEF HttpHandler
  <2>4. UNCHANGED <<conf, sigpipe, level, logger, post_data>>
    BY <1>1 DEF HttpHandler
  <2>5. Log(DEBUG, "in http_handler")
    BY <1>1 DEF HttpHandler
  <2> QED BY <2>1, <2>2, <2>3, <2>4, <2>5, LogsAndGoesOn
<1>2. CASE DispatchReturns
  BY <1>2 DEF DispatchReturns, IInv, Types, SetUp, Silent, Ended, After, Before, logger, settings
<1>3. CASE Return
  BY <1>3 DEF Return, IInv, Types, SetUp, Silent, Ended, After, Before, logger, settings
<1> QED BY <1>1, <1>2, <1>3

\* A step of nothing keeps it.
LEMMA Stutters == IInv /\ UNCHANGED vars => IInv'
<1> SUFFICES ASSUME IInv, UNCHANGED vars PROVE IInv'
  OBVIOUS
<1>1. UNCHANGED <<conf, pc, status, stderr, sigpipe, level, ring, post_data>>
  BY DEF vars
<1>2. UNCHANGED <<buffers, thread, file>>
  BY DEF vars, logger
<1>3. Types' /\ Silent' /\ Ended'
  BY <1>1, <1>2 DEF IInv, Types, Silent, Ended
<1>4. SetUp'
  BY <1>1, <1>2 DEF IInv, SetUp
<1> QED BY <1>3, <1>4 DEF IInv

\* Every step keeps the invariant.
LEMMA StepKeeps == IInv /\ [Next]_vars => IInv'
BY BeforeLog, LogInit, AfterLog, InLoop, Stutters DEF Next, Starts

\* The invariant holds always.
LEMMA Invariance == Spec => []IInv
BY InitHolds, StepKeeps, PTL DEF Spec

-----------------------------------------------------------------------------
(* The settings and the timers.                                            *)

\* The configuration, which nobody writes.
Configured ==
  /\ DOMAIN conf \subseteq Keys
  /\ "Level" \in DOMAIN conf => conf["Level"] \in Levels
  /\ "Thread_Num" \in DOMAIN conf => conf["Thread_Num"] \in ThreadNums
  /\ "Timeout_s" \in DOMAIN conf => conf["Timeout_s"] \in Timeouts

\* What is read from it, and whether it was.
Settings ==
  /\ level \in Levels \cup {0}
  /\ thread_num \in 0..INT_MAX /\ timeout_s \in 0..INT_MAX
  /\ pc \in {"server_run", "dispatch"} =>
       /\ "Timeout_s" \in DOMAIN conf
       /\ timeout_s = IF conf["Timeout_s"] > 0 THEN conf["Timeout_s"]
                      ELSE TIMEOUT_S_DEFAULT

Timevals == (0..ULONG_MAX) \X (0..(Million - 1))

Timers == armed \in Seq(Timevals) /\ ArmedAsConfigured

Switches ==
  /\ stderr \in BOOLEAN /\ sigpipe \in BOOLEAN /\ buffers \in BOOLEAN
  /\ thread \in BOOLEAN /\ post_data \in BOOLEAN
  /\ status \in {"running", "0", "1", "SIGSEGV", "SIGPIPE"}

\* What the proofs need of the constants.
LEMMA Numbers ==
  /\ INT_MAX \in Nat /\ ULONG_MAX \in Nat /\ INT_MAX <= ULONG_MAX
  /\ Million \in 1..INT_MAX /\ TIMEOUT_S_DEFAULT \in 1..INT_MAX
  /\ THREAD_NUM_DEFAULT \in 1..INT_MAX
  /\ \A t \in Levels \cup ThreadNums \cup Timeouts : t \in Int /\ t <= INT_MAX
BY StartupAssumption

\* An int that is in range is not changed by wrapping around.
LEMMA WrapSmall ==
  ASSUME NEW x \in 0..INT_MAX
  PROVE  Wrap(x) = x
<1> DEFINE n == 2 * INT_MAX + 2
           a == x + INT_MAX + 1
<1>1. /\ n \in Nat \ {0} /\ a \in 0..(n - 1) /\ a - (INT_MAX + 1) = x
      /\ Wrap(x) = (a % n) - (INT_MAX + 1)
  BY Numbers DEF Wrap
<1> HIDE DEF n, a
<1>2. a % n = a
  BY <1>1, ModSmall
<1> QED BY <1>1, <1>2

\* A conversion to int gives an integer.
LEMMA WrapInt ==
  ASSUME NEW x \in Int
  PROVE  Wrap(x) \in Int
<1> DEFINE n == 2 * INT_MAX + 2
           a == x + INT_MAX + 1
<1>1. n \in Nat \ {0} /\ a \in Int /\ Wrap(x) = (a % n) - (INT_MAX + 1)
  BY Numbers DEF Wrap
<1> HIDE DEF n, a
<1>2. a % n \in 0..(n - 1)
  BY <1>1, ModRange
<1>3. a % n \in Int /\ INT_MAX + 1 \in Int
  BY <1>1, <1>2, Numbers
<1> QED BY <1>1, <1>3

\* From seconds to a timeval.
LEMMA TimevalType ==
  ASSUME NEW x \in Int
  PROVE  Timeval(ToUnsignedLong(x)) \in Timevals
<1> DEFINE n == ULONG_MAX + 1
           u == ToUnsignedLong(x)
<1>1. n \in Nat \ {0} /\ u = x % n /\ n - 1 = ULONG_MAX /\ ULONG_MAX \in Nat
  BY Numbers DEF ToUnsignedLong
<1> HIDE DEF n, u
<1>2. u \in 0..ULONG_MAX
  BY <1>1, ModRange
<1>3. Million \in Nat \ {0}
  BY Numbers
<1>4. u \in Nat
  BY <1>1, <1>2
<1>5. u \div Million \in 0..u /\ u % Million \in 0..(Million - 1)
  BY <1>3, <1>4, DivRange, ModRange
<1>6. u \div Million \in 0..ULONG_MAX
  BY <1>1, <1>2, <1>4, <1>5
<1>7. Timeval(u) = <<u \div Million, u % Million>>
  BY DEF Timeval
<1> QED BY <1>5, <1>6, <1>7 DEF Timevals, u

\* Seconds whose microseconds fit an int are armed as they are.
LEMMA TimevalExact ==
  ASSUME NEW s \in Nat, s * Million <= INT_MAX, NEW p, 
         p \in {s * Million, Wrap(s * Million)}
  PROVE  Timeval(ToUnsignedLong(p)) = <<s, 0>>
<1>1. Million \in Nat \ {0} /\ INT_MAX \in Nat /\ ULONG_MAX \in Nat /\ INT_MAX <= ULONG_MAX
  BY Numbers
<1>2. PICK x \in Nat : x = s * Million
  BY <1>1
<1>3. x \in 0..INT_MAX
  BY <1>1, <1>2
<1>4. p = x
  BY <1>2, <1>3, WrapSmall
<1>5. ULONG_MAX + 1 \in Nat \ {0} /\ x \in 0..((ULONG_MAX + 1) - 1)
  BY <1>1, <1>3
<1>6. ToUnsignedLong(p) = x
  BY <1>4, <1>5, ModSmall DEF ToUnsignedLong
<1>7. x \div Million = s /\ x % Million = 0
  BY <1>1, <1>2, DivExact
<1> QED BY <1>6, <1>7 DEF Timeval

-----------------------------------------------------------------------------

\* The configuration is well typed.
LEMMA ConfiguredInit == Init => Configured
<1> SUFFICES ASSUME Init PROVE Configured
  OBVIOUS
<1>1. PICK K \in SUBSET Keys, l \in Levels, n \in ThreadNums, t \in Timeouts :
        conf = [k \in K |-> CASE k = "Level" -> l [] k = "Thread_Num" -> n
                              [] k = "Timeout_s" -> t [] OTHER -> 0]
  BY DEF Init
<1>2. DOMAIN conf = K
  BY <1>1
<1>3. "Level" \in K => conf["Level"] = l
  BY <1>1
<1>4. "Thread_Num" \in K => conf["Thread_Num"] = n
  BY <1>1
<1>5. "Timeout_s" \in K => conf["Timeout_s"] = t
  BY <1>1
<1> QED BY <1>2, <1>3, <1>4, <1>5 DEF Configured

\* Nothing changes the configuration.
LEMMA ConfKept ==
  ASSUME [Next]_vars
  PROVE  conf' = conf
<1>1. CASE Starts
  BY <1>1 DEF Starts, Main, SignalHandlerInit, Load, LogReadConf, LogFiles, LogThread,
              ReqInit, ReadPort, ReadTimeout, ServerRun, Ensure, ServerDone, Return
<1>2. CASE LogThreadLoop \/ HttpHandler \/ DispatchReturns
  BY <1>2 DEF LogThreadLoop, HttpHandler, DispatchReturns
<1> QED BY <1>1, <1>2 DEF Next, vars

\* What was read from it stays what it says.
LEMMA SettingsStep ==
  ASSUME Configured, Settings, [Next]_vars
  PROVE  Settings'
<1>1. conf' = conf
  BY ConfKept
<1>2. CASE LogReadConf
  <2>1. level' \in Levels \cup {0}
    BY <1>2 DEF LogReadConf, Configured, Settings
  <2>2. UNCHANGED <<thread_num, timeout_s>> /\ pc' = "log_files"
    BY <1>2 DEF LogReadConf, settings, Goto
  <2> QED BY <2>1, <2>2 DEF Settings
<1>3. CASE ReadPort
  <2>1. thread_num' \in 0..INT_MAX
    <3>1. "Thread_Num" \in DOMAIN conf =>
            conf["Thread_Num"] \in Int /\ conf["Thread_Num"] <= INT_MAX
      BY Numbers DEF Configured
    <3>2. \/ thread_num' = thread_num
          \/ thread_num' = THREAD_NUM_DEFAULT
          \/ /\ "Thread_Num" \in DOMAIN conf /\ conf["Thread_Num"] > 0
             /\ thread_num' = conf["Thread_Num"]
      BY <1>3 DEF ReadPort
    <3> QED BY <3>1, <3>2, Numbers DEF Settings
  <2>2. UNCHANGED <<level, timeout_s>> /\ pc' \in {"ensure", "read_timeout"}
    BY <1>3 DEF ReadPort, Throws, Goto
  <2> QED BY <2>1, <2>2 DEF Settings
<1>4. CASE ReadTimeout
  <2>1. CASE "Timeout_s" \notin DOMAIN conf
    <3>1. UNCHANGED <<level, thread_num, timeout_s>> /\ pc' = "ensure"
      BY <1>4, <2>1 DEF ReadTimeout, Throws, Goto
    <3> QED BY <3>1 DEF Settings
  <2>2. CASE "Timeout_s" \in DOMAIN conf
    <3>1. /\ timeout_s' = IF conf["Timeout_s"] > 0 THEN conf["Timeout_s"]
                          ELSE TIMEOUT_S_DEFAULT
          /\ UNCHANGED <<level, thread_num>>
      BY <1>4, <2>2 DEF ReadTimeout
    <3>2. conf["Timeout_s"] \in Int /\ conf["Timeout_s"] <= INT_MAX
      BY <2>2, Numbers DEF Configured
    <3>3. timeout_s' \in 0..INT_MAX
      BY <3>1, <3>2, Numbers
    <3> QED BY <1>1, <2>2, <3>1, <3>3 DEF Settings
  <2> QED BY <2>1, <2>2
<1>5. CASE ServerRun
  <2>1. UNCHANGED <<level, thread_num, timeout_s>> /\ pc = "server_run"
    BY <1>5 DEF ServerRun, settings, At
  <2> QED BY <1>1, <2>1 DEF Settings
<1>6. CASE HttpHandler
  <2>1. UNCHANGED <<level, thread_num, timeout_s>> /\ pc = "dispatch"
    BY <1>6 DEF HttpHandler, settings, At
  <2> QED BY <1>1, <2>1 DEF Settings
<1>7. CASE Main \/ SignalHandlerInit \/ Load \/ LogFiles \/ LogThread
  <2>1. /\ UNCHANGED <<level, thread_num, timeout_s>>
        /\ pc \notin {"server_run", "dispatch"}
        /\ pc' \in {pc, "signal_handler_init", "load", "log_read_conf", "log_thread", "req_init"}
    BY <1>7 DEF Main, SignalHandlerInit, Load, LogFiles, LogThread, settings, At,
                Goto, Tells, Ends
  <2> QED BY <2>1 DEF Settings
<1>8. CASE ReqInit \/ DispatchReturns \/ Ensure \/ ServerDone
  <2>1. /\ UNCHANGED <<level, thread_num, timeout_s>>
        /\ pc' \in {"read_conf", "ensure", "server_done", "return 1", "return 0"}
    BY <1>8 DEF ReqInit, DispatchReturns, Ensure, ServerDone, settings, Goto
  <2> QED BY <2>1 DEF Settings
<1>9. CASE Return \/ LogThreadLoop \/ UNCHANGED vars
  <2>1. UNCHANGED <<level, thread_num, timeout_s, pc>>
    BY <1>9 DEF Return, LogThreadLoop, vars, settings, Ends
  <2> QED BY <1>1, <2>1 DEF Settings
<1> QED BY <1>2, <1>3, <1>4, <1>5, <1>6, <1>7, <1>8, <1>9 DEF Next, Starts

\* A timer is armed with a timeval, and for as long as configured.
LEMMA TimersStep ==
  ASSUME Configured, Settings, Timers, [Next]_vars
  PROVE  Timers'
<1>0. conf' = conf
  BY ConfKept
<1>1. CASE HttpHandler
  <2>1. PICK p \in Products : armed' = Append(armed, Timeval(ToUnsignedLong(p)))
    BY <1>1 DEF HttpHandler
  <2>2. /\ "Timeout_s" \in DOMAIN conf
        /\ timeout_s = IF conf["Timeout_s"] > 0 THEN conf["Timeout_s"]
                       ELSE TIMEOUT_S_DEFAULT
        /\ timeout_s \in Nat
    <3>1. pc = "dispatch"
      BY <1>1 DEF HttpHandler, At
    <3>2. timeout_s \in Nat
      BY Numbers DEF Settings
    <3> QED BY <3>1, <3>2 DEF Settings
  <2>3. PICK v : v = Timeval(ToUnsignedLong(p))
    OBVIOUS
  <2>4. v \in Timevals
    <3>1. timeout_s * Million \in Int
      BY <2>2, Numbers
    <3>2. p \in Int
      BY <3>1, WrapInt DEF Products
    <3> QED BY <2>3, <3>2, TimevalType
  <2>5. /\ armed \in Seq(Timevals) /\ armed' \in Seq(Timevals)
        /\ Len(armed) \in Nat /\ Len(armed') = Len(armed) + 1
        /\ \A i \in 1..Len(armed) : armed'[i] = armed[i]
        /\ armed'[Len(armed) + 1] = v
    BY <2>1, <2>3, <2>4, AppendProperties DEF Timers
  <2>6. timeout_s * Million <= INT_MAX => v = <<timeout_s, 0>>
    BY <2>2, <2>3, TimevalExact DEF Products
  <2>7. ArmedAsConfigured'
    <3> SUFFICES ASSUME NEW i \in 1..Len(armed'), timeout_s * Million <= INT_MAX
                 PROVE  armed'[i] = <<timeout_s, 0>>
      BY <1>0, <2>2 DEF ArmedAsConfigured
    <3>1. CASE i = Len(armed) + 1
      BY <2>5, <2>6, <3>1
    <3>2. CASE i # Len(armed) + 1
      <4>1. i \in 1..Len(armed)
        BY <2>5, <3>2
      <4> QED BY <2>2, <2>5, <4>1 DEF Timers, ArmedAsConfigured
    <3> QED BY <3>1, <3>2
  <2> QED BY <2>5, <2>7 DEF Timers
<1>2. CASE ~ HttpHandler
  <2>1. CASE Starts
    BY <1>0, <2>1 DEF Starts, Main, SignalHandlerInit, Load, LogReadConf, LogFiles,
                LogThread, ReqInit, ReadPort, ReadTimeout, ServerRun, Ensure,
                ServerDone, Return, Timers, ArmedAsConfigured
  <2>2. CASE LogThreadLoop \/ DispatchReturns \/ UNCHANGED vars
    BY <1>0, <2>2 DEF LogThreadLoop, DispatchReturns, vars, Timers, ArmedAsConfigured
  <2> QED BY <1>2, <2>1, <2>2 DEF Next
<1> QED BY <1>1, <1>2

-----------------------------------------------------------------------------
(* What the records say.                                                   *)

Among(s, what) == \E i \in 1..Len(s) : s[i] = what

\* A record is in two parts if it is in either.
LEMMA AmongConcat ==
  ASSUME NEW s \in Seq(Texts), NEW t \in Seq(Texts), NEW what
  PROVE  Among(s \o t, what) <=> Among(s, what) \/ Among(t, what)
<1>1. PICK u : u = s \o t
  OBVIOUS
<1>2. /\ Len(s) \in Nat /\ Len(t) \in Nat /\ Len(u) = Len(s) + Len(t)
      /\ \A i \in 1..Len(u) : u[i] = IF i <= Len(s) THEN s[i] ELSE t[i - Len(s)]
  BY <1>1, ConcatProperties
<1>3. ASSUME Among(u, what) PROVE Among(s, what) \/ Among(t, what)
  <2>1. PICK i \in 1..Len(u) : u[i] = what
    BY <1>3 DEF Among
  <2>2. CASE i <= Len(s)
    <3>1. i \in 1..Len(s) /\ s[i] = what
      BY <1>2, <2>1, <2>2
    <3> QED BY <3>1 DEF Among
  <2>3. CASE ~(i <= Len(s))
    <3>1. i - Len(s) \in 1..Len(t) /\ t[i - Len(s)] = what
      BY <1>2, <2>1, <2>3
    <3> QED BY <3>1 DEF Among
  <2> QED BY <2>2, <2>3
<1>4. ASSUME Among(s, what) PROVE Among(u, what)
  <2>1. PICK i \in 1..Len(s) : s[i] = what
    BY <1>4 DEF Among
  <2>2. i \in 1..Len(u) /\ u[i] = what
    BY <1>2, <2>1
  <2> QED BY <2>2 DEF Among
<1>5. ASSUME Among(t, what) PROVE Among(u, what)
  <2>1. PICK i \in 1..Len(t) : t[i] = what
    BY <1>5 DEF Among
  <2>2. PICK j \in Int : j = Len(s) + i
    BY <1>2
  <2>3. j \in 1..Len(u) /\ ~(j <= Len(s)) /\ j - Len(s) = i
    BY <1>2, <2>2
  <2>4. u[j] = what
    BY <1>2, <2>1, <2>3
  <2> QED BY <2>3, <2>4 DEF Among
<1> QED BY <1>1, <1>3, <1>4, <1>5

\* Nothing is among nothing.
LEMMA AmongNone ==
  ASSUME NEW what
  PROVE  ~ Among(<<>>, what)
<1>1. Len(<<>>) = 0
  OBVIOUS
<1> QED BY <1>1 DEF Among

\* What is said is in a file or still in a ring.
LEMMA SaysWhere ==
  ASSUME NEW fs \in [Logs -> Seq(Texts)], NEW rs \in [Logs -> Seq(Texts)], NEW what
  PROVE  (\E f \in Logs : Among(fs[f] \o rs[f], what))
           <=> \E f \in Logs : Among(fs[f], what) \/ Among(rs[f], what)
<1>1. ASSUME NEW f \in Logs
      PROVE  Among(fs[f] \o rs[f], what) <=> Among(fs[f], what) \/ Among(rs[f], what)
  <2>1. fs[f] \in Seq(Texts) /\ rs[f] \in Seq(Texts)
    OBVIOUS
  <2> QED BY <2>1, AmongConcat
<1> QED BY <1>1

\* A call of log_base adds its record, if the level lets it, and no other.
LEMMA LogSays ==
  ASSUME Types, Types', NEW lvl \in {FATAL, TRACE, DEBUG}, NEW what \in Texts,
         Log(lvl, what), UNCHANGED file, NEW other
  PROVE  Says(other)' <=> Says(other) \/ (~(level < lvl) /\ other = what)
<1>1. CASE level < lvl
  <2>1. ring' = ring
    BY <1>1 DEF Log
  <2>2. Says(other)' <=> Says(other)
    BY <2>1 DEF Says, Logged
  <2> QED BY <1>1, <2>2
<1>2. CASE ~(level < lvl)
  <2>1. PICK at \in Logs : ring' = [ring EXCEPT ![at] = Append(@, what)]
    <3>1. (IF lvl <= WARNING THEN "wf" ELSE "log") \in Logs
      BY DEF Logs
    <3> QED BY <1>2, <3>1 DEF Log
  <2>2. ring[at] \in Seq(Texts) /\ <<what>> \in Seq(Texts)
    BY DEF Types
  <2>3. Append(ring[at], what) = ring[at] \o <<what>>
    BY <2>2, AppendIsConcat
  <2>4. Among(<<what>>, other) <=> other = what
    <3>1. Len(<<what>>) = 1 /\ <<what>>[1] = what
      OBVIOUS
    <3> QED BY <3>1 DEF Among
  <2>5. ring'[at] = ring[at] \o <<what>> /\ \A f \in Logs : f # at => ring'[f] = ring[f]
    BY <2>1, <2>3 DEF Types
  <2>6. Among(ring'[at], other) <=> Among(ring[at], other) \/ other = what
    <3>1. what \in Texts /\ Among(ring[at] \o <<what>>, other)
                              <=> Among(ring[at], other) \/ Among(<<what>>, other)
      BY <2>2, AmongConcat
    <3> QED BY <2>4, <2>5, <3>1
  <2>7. Says(other)' <=> \E f \in Logs : Among(file[f], other) \/ Among(ring'[f], other)
    <3>1. Says(other)' <=> \E f \in Logs : Among(file[f] \o ring'[f], other)
      BY DEF Says, Logged, Among
    <3> QED BY <3>1, SaysWhere DEF Types
  <2>8. Says(other) <=> \E f \in Logs : Among(file[f], other) \/ Among(ring[f], other)
    <3>1. Says(other) <=> \E f \in Logs : Among(file[f] \o ring[f], other)
      BY DEF Says, Logged, Among
    <3> QED BY <3>1, SaysWhere DEF Types
  <2> QED BY <1>2, <2>1, <2>5, <2>6, <2>7, <2>8
<1> QED BY <1>1, <1>2

\* The log thread moves records and says nothing of its own.
LEMMA LoopSays ==
  ASSUME Types, Types', LogThreadLoop, NEW what
  PROVE  Says(what)' <=> Says(what)
<1>1. \A f \in Logs : file'[f] = file[f] \o ring[f] /\ ring'[f] = <<>>
  BY DEF LogThreadLoop
<1>2. Says(what)' <=> \E f \in Logs : Among(file'[f], what) \/ Among(ring'[f], what)
  <2>1. Says(what)' <=> \E f \in Logs : Among(file'[f] \o ring'[f], what)
    BY DEF Says, Logged, Among
  <2> QED BY <2>1, SaysWhere DEF Types
<1>3. Says(what) <=> \E f \in Logs : Among(file[f] \o ring[f], what)
  BY DEF Says, Logged, Among
<1>4. ASSUME NEW f \in Logs
      PROVE  Among(file'[f], what) \/ Among(ring'[f], what)
               <=> Among(file[f] \o ring[f], what)
  BY <1>1, AmongNone
<1> QED BY <1>2, <1>3, <1>4

\* Nothing is said before log_init is done.
LEMMA SilentSays ==
  ASSUME Silent', Types', pc' \notin After, NEW what
  PROVE  ~ Says(what)'
<1>1. Says(what)' <=> \E f \in Logs : Among(file'[f], what) \/ Among(ring'[f], what)
  <2>1. Says(what)' <=> \E f \in Logs : Among(file'[f] \o ring'[f], what)
    BY DEF Says, Logged, Among
  <2> QED BY <2>1, SaysWhere DEF Types
<1> QED BY <1>1, AmongNone DEF Silent

\* The two records of RecordsTell, and where they come from.
Start == "http server start OK!"
Done == "server init done"

Told ==
  /\ listening \in {"no", "yes", "closed"}
  /\ pc = "dispatch" => listening = "yes"
  /\ pc \in {"server_done", "return 0"} => listening # "yes"
  /\ pc \notin {"dispatch", "server_done", "return 0"} => listening = "no"
  /\ status = "0" => pc = "return 0"
  /\ Says(Done) => pc = "return 0"
  /\ Says(Start) <=> listening # "no" /\ level >= TRACE

\* Any other record changes neither.
LEMMA LogOther ==
  ASSUME Types, Types', NEW lvl \in {FATAL, TRACE, DEBUG},
         NEW what \in Texts \ {Start, Done}, Log(lvl, what), UNCHANGED file
  PROVE  (Says(Start)' <=> Says(Start)) /\ (Says(Done)' <=> Says(Done))
BY LogSays

\* The records tell whether the port was bound, after every step.
LEMMA ToldStep ==
  ASSUME IInv, IInv', Told, [Next]_vars
  PROVE  Told'
<1>0. /\ Types /\ Types' /\ Silent /\ Silent'
      /\ Start \in Texts /\ Done \in Texts /\ Start # Done
      /\ {FATAL, TRACE, DEBUG} = {1, 8, 16} /\ level \in Int
  BY DEF IInv, Types, Texts, Start, Done, FATAL, TRACE, DEBUG
<1>1. CASE Main \/ SignalHandlerInit \/ Load \/ LogReadConf \/ LogFiles
  <2>1. /\ pc \notin After /\ pc' \notin After /\ listening' = listening
        /\ status' = "0" => status = "0"
    BY <1>1 DEF Main, SignalHandlerInit, Load, LogReadConf, LogFiles, At, Goto, Tells,
                Ends, After
  <2>2. ~ Says(Start)' /\ ~ Says(Done)'
    BY <1>0, <2>1, SilentSays
  <2> QED BY <2>1, <2>2 DEF Told, After
<1>2. CASE LogThread
  <2>1. /\ pc = "log_thread" /\ status = "running" /\ UNCHANGED <<level, listening, file>>
        /\ status' \in {"running", "1"} /\ pc' \in {"log_thread", "req_init"}
        /\ UNCHANGED ring \/ Log(TRACE, "log init done")
    BY <1>2 DEF LogThread, At, Goto, Tells
  <2>2. (Says(Start)' <=> Says(Start)) /\ (Says(Done)' <=> Says(Done))
    <3>1. CASE UNCHANGED ring
      BY <2>1, <3>1 DEF Says, Logged
    <3>2. CASE Log(TRACE, "log init done")
      <4>1. "log init done" \in Texts \ {Start, Done}
        BY DEF Texts, Start, Done
      <4> QED BY <1>0, <2>1, <3>2, <4>1, LogOther
    <3> QED BY <2>1, <3>1, <3>2
  <2> QED BY <2>1, <2>2 DEF Told
<1>3. CASE LogThreadLoop
  <2>1. UNCHANGED <<pc, status, level, listening>>
    BY <1>3 DEF LogThreadLoop
  <2>2. (Says(Start)' <=> Says(Start)) /\ (Says(Done)' <=> Says(Done))
    BY <1>0, <1>3, LoopSays
  <2> QED BY <2>1, <2>2 DEF Told
<1>4. CASE ReqInit \/ ReadPort \/ ReadTimeout \/ Ensure
  <2>1. /\ pc \in {"req_init", "read_conf", "read_timeout", "ensure"}
        /\ pc' \in {"read_conf", "read_timeout", "server_run", "ensure", "return 1"}
        /\ UNCHANGED <<status, level, listening, file>>
    BY <1>4 DEF ReqInit, ReadPort, ReadTimeout, Ensure, Throws, At, Goto, logger
  <2>2. \/ UNCHANGED ring
        \/ \E lvl \in {FATAL, TRACE}, what \in Texts \ {Start, Done} : Log(lvl, what)
    <3>1. /\ "request module init done" \in Texts \ {Start, Done}
          /\ "failed to create post_data buffer" \in Texts \ {Start, Done}
          /\ "thread_num conf load done" \in Texts \ {Start, Done}
          /\ "Read conf error" \in Texts \ {Start, Done}
          /\ "init failed" \in Texts \ {Start, Done}
      BY DEF Texts, Start, Done
    <3>2. \/ UNCHANGED ring
          \/ Log(TRACE, "request module init done")
          \/ Log(FATAL, "failed to create post_data buffer")
          \/ Log(TRACE, "thread_num conf load done")
          \/ Log(FATAL, "Read conf error") \/ Log(FATAL, "init failed")
      BY <1>4, Zenon DEF ReqInit, ReadPort, ReadTimeout, Ensure, Throws
    <3> QED BY <3>1, <3>2, Zenon
  <2>3. (Says(Start)' <=> Says(Start)) /\ (Says(Done)' <=> Says(Done))
    <3>1. CASE UNCHANGED ring
      BY <2>1, <3>1 DEF Says, Logged
    <3>2. ASSUME NEW lvl \in {FATAL, TRACE}, NEW what \in Texts \ {Start, Done},
                 Log(lvl, what)
          PROVE  (Says(Start)' <=> Says(Start)) /\ (Says(Done)' <=> Says(Done))
      BY <1>0, <2>1, <3>2, LogOther
    <3> QED BY <2>2, <3>1, <3>2
  <2> QED BY <2>1, <2>3 DEF Told
<1>5. CASE ServerRun
  <2>1. /\ pc = "server_run" /\ UNCHANGED <<status, level, file>>
        /\ \/ listening' = "yes" /\ pc' = "dispatch" /\ Log(TRACE, Start)
           \/ listening' = "no" /\ pc' = "server_done" /\ UNCHANGED ring
    BY <1>5 DEF ServerRun, At, Goto, logger, Start
  <2>2. ~ Says(Start) /\ ~ Says(Done) /\ status # "0"
    BY <2>1 DEF Told
  <2>3. CASE listening' = "yes" /\ pc' = "dispatch" /\ Log(TRACE, Start)
    <3>1. /\ Says(Start)' <=> Says(Start) \/ ~(level < TRACE)
          /\ Says(Done)' <=> Says(Done)
      BY <1>0, <2>1, <2>3, LogSays
    <3> QED BY <1>0, <2>1, <2>2, <2>3, <3>1 DEF Told, TRACE
  <2>4. CASE listening' = "no" /\ pc' = "server_done" /\ UNCHANGED ring
    <3>1. (Says(Start)' <=> Says(Start)) /\ (Says(Done)' <=> Says(Done))
      BY <2>1, <2>4 DEF Says, Logged
    <3> QED BY <2>1, <2>2, <2>4, <3>1 DEF Told
  <2> QED BY <2>1, <2>3, <2>4
<1>6. CASE HttpHandler
  <2>1. /\ pc = "dispatch" /\ pc' = "dispatch" /\ status = "running"
        /\ status' \in {"running", "SIGSEGV", "SIGPIPE"}
        /\ UNCHANGED <<level, file, listening>> /\ Log(DEBUG, "in http_handler")
    BY <1>6 DEF HttpHandler, At, Goto, Ends, logger
  <2>2. "in http_handler" \in Texts \ {Start, Done}
    BY DEF Texts, Start, Done
  <2>3. (Says(Start)' <=> Says(Start)) /\ (Says(Done)' <=> Says(Done))
    BY <1>0, <2>1, <2>2, LogOther
  <2> QED BY <2>1, <2>3 DEF Told
<1>7. CASE DispatchReturns
  <2>1. /\ pc = "dispatch" /\ pc' = "server_done" /\ listening' = "closed"
        /\ UNCHANGED <<status, level, file, ring>>
    BY <1>7 DEF DispatchReturns, At, Goto, logger
  <2>2. (Says(Start)' <=> Says(Start)) /\ (Says(Done)' <=> Says(Done))
    BY <2>1 DEF Says, Logged
  <2> QED BY <2>1, <2>2 DEF Told
<1>8. CASE ServerDone
  <2>1. /\ pc = "server_done" /\ pc' = "return 0" /\ Log(TRACE, Done)
        /\ UNCHANGED <<status, level, file, listening>>
    BY <1>8 DEF ServerDone, At, Goto, logger, Done
  <2>2. Says(Start)' <=> Says(Start)
    BY <1>0, <2>1, LogSays
  <2> QED BY <2>1, <2>2 DEF Told
<1>9. CASE Return
  <2>1. /\ \/ pc = "return 0" /\ status' = "0"
           \/ pc = "return 1" /\ status' = "1"
        /\ UNCHANGED <<pc, level, file, ring, listening>>
    BY <1>9 DEF Return, At, Ends, logger
  <2>2. (Says(Start)' <=> Says(Start)) /\ (Says(Done)' <=> Says(Done))
    BY <2>1 DEF Says, Logged
  <2> QED BY <2>1, <2>2 DEF Told
<1>10. CASE UNCHANGED vars
  <2>1. UNCHANGED <<pc, status, level, file, ring, listening>>
    BY <1>10 DEF vars, logger
  <2>2. (Says(Start)' <=> Says(Start)) /\ (Says(Done)' <=> Says(Done))
    BY <2>1 DEF Says, Logged
  <2> QED BY <2>1, <2>2 DEF Told
<1> QED BY <1>1, <1>2, <1>3, <1>4, <1>5, <1>6, <1>7, <1>8, <1>9, <1>10
        DEF Next, Starts

\* The switches are Boolean and the process ends in one of these ways.
LEMMA SwitchesStep ==
  ASSUME Switches, [Next]_vars
  PROVE  Switches'
<1>1. CASE Main \/ SignalHandlerInit \/ Load
  BY <1>1, Zenon DEF Main, SignalHandlerInit, Load, Goto, Tells, logger, Switches
<1>2. CASE LogReadConf \/ LogFiles \/ LogThread
  BY <1>2, Zenon DEF LogReadConf, LogFiles, LogThread, Goto, Tells, Ends, logger,
                     Switches
<1>3. CASE ReqInit \/ ReadPort \/ ReadTimeout \/ ServerRun
  BY <1>3, Zenon DEF ReqInit, ReadPort, ReadTimeout, ServerRun, Throws, Goto, logger,
                     Switches
<1>4. CASE HttpHandler \/ DispatchReturns \/ Ensure \/ ServerDone \/ Return
  BY <1>4, Zenon DEF HttpHandler, DispatchReturns, Ensure, ServerDone, Return, Goto,
                     Ends, logger, Switches
<1>5. CASE LogThreadLoop \/ UNCHANGED vars
  BY <1>5, Zenon DEF LogThreadLoop, vars, logger, Switches
<1> QED BY <1>1, <1>2, <1>3, <1>4, <1>5, Zenon DEF Next, Starts

-----------------------------------------------------------------------------
(* The invariant, extended.                                                *)

JInv ==
  /\ IInv
  /\ Configured /\ Settings
  /\ Timers
  /\ Switches
  /\ Told

\* The invariant holds at first.
LEMMA JInvInit == Init => JInv
<1> SUFFICES ASSUME Init PROVE JInv
  OBVIOUS
<1>1. IInv /\ Configured
  BY InitHolds, ConfiguredInit
<1>2. Settings
  BY Numbers DEF Init, Settings
<1>3. Timers
  <2>1. armed = <<>> /\ Len(armed) = 0
    BY DEF Init
  <2> QED BY <2>1 DEF Timers, ArmedAsConfigured
<1>4. Switches
  BY Zenon DEF Init, Switches
<1>5. Told
  <2>1. /\ pc = "main" /\ status = "running" /\ listening = "no"
        /\ \A f \in Logs : file[f] = <<>> /\ ring[f] = <<>>
    BY DEF Init
  <2>2. ASSUME NEW what PROVE ~ Says(what)
    <3>1. Says(what) <=> \E f \in Logs : Among(file[f] \o ring[f], what)
      BY DEF Says, Logged, Among
    <3>2. Says(what) <=> \E f \in Logs : Among(file[f], what) \/ Among(ring[f], what)
      BY <1>1, <3>1, SaysWhere DEF IInv, Types
    <3> QED BY <2>1, <3>2, AmongNone
  <2> QED BY <2>1, <2>2 DEF Told
<1> QED BY <1>1, <1>2, <1>3, <1>4, <1>5 DEF JInv

\* The invariant holds always.
LEMMA JInvHolds == Spec => []JInv
<1>1. JInv /\ [Next]_vars => JInv'
  <2> SUFFICES ASSUME JInv, [Next]_vars PROVE JInv'
    OBVIOUS
  <2>1. IInv'
    BY StepKeeps DEF JInv
  <2>2. Configured'
    BY ConfKept DEF JInv, Configured
  <2> QED BY <2>1, <2>2, SettingsStep, TimersStep, SwitchesStep, ToldStep DEF JInv
<1> QED BY JInvInit, <1>1, PTL DEF Spec

-----------------------------------------------------------------------------
(* The theorems.                                                           *)

\* No record is copied before the rings are allocated, no body before
\* post_data is, and SIGPIPE never ends the process.
THEOREM InitialisedSafe == Spec => []InitialisedBeforeUse
<1>1. IInv => InitialisedBeforeUse
  <2> SUFFICES ASSUME IInv PROVE InitialisedBeforeUse
    OBVIOUS
  <2>1. ASSUME NEW f \in Logs, Logged(f) # <<>>
        PROVE  buffers
    <3>1. CASE pc \in After
      BY <3>1 DEF IInv, SetUp
    <3>2. CASE pc \notin After
      <4>1. file[f] = <<>> /\ ring[f] = <<>>
        BY <3>2 DEF IInv, Silent
      <4>2. file[f] \in Seq(Texts) /\ ring[f] \in Seq(Texts)
        BY DEF IInv, Types
      <4> QED BY <2>1, <4>1, <4>2, Concat DEF Logged
    <3> QED BY <3>1, <3>2
  <2> QED BY <2>1 DEF IInv, Ended, InitialisedBeforeUse
<1> QED BY <1>1, Invariance, PTL

\* A failed start-up is told: on stderr before the log thread runs, by a fatal
\* record once it does, unless the level forbids it.
THEOREM FailuresTold == Spec => []FailureIsTold
<1>1. IInv => FailureIsTold
  <2> SUFFICES ASSUME IInv, status = "1"
               PROVE  IF thread THEN level < FATAL \/ Logged("wf") # <<>> ELSE stderr
    BY DEF FailureIsTold
  <2>1. CASE ~thread
    BY <2>1 DEF IInv, Ended, SetUp, After
  <2>2. CASE thread
    <3>1. level < FATAL \/ ring["wf"] # <<>> \/ file["wf"] # <<>>
      BY <2>2 DEF IInv, Ended
    <3>2. file["wf"] \in Seq(Texts) /\ ring["wf"] \in Seq(Texts)
      BY DEF IInv, Types, Logs
    <3> QED BY <2>2, <3>1, <3>2, Concat DEF Logged
  <2> QED BY <2>1, <2>2
<1> QED BY <1>1, Invariance, PTL

\* From main to the loop every variable keeps its type: the settings fit an
\* int, and the timeval of a timer is one, its microseconds less than a second,
\* even when the product of req_new wrapped.
THEOREM TypeCorrect == Spec => []TypeOK
<1>1. JInv => TypeOK
  <2> SUFFICES ASSUME JInv PROVE TypeOK
    OBVIOUS
  <2>1. \A f \in Logs : Logged(f) \in Seq(Texts)
    BY Concat DEF JInv, IInv, Types, Logged
  <2>2. {stderr, sigpipe, buffers, thread, post_data} \subseteq BOOLEAN
    BY Zenon DEF JInv, Switches
  <2>3. \A i \in 1..Len(armed) : armed[i] \in Timevals
    BY ElementOfSeq DEF JInv, Timers
  <2> QED BY <2>1, <2>2, <2>3 DEF JInv, Configured, Settings, Switches, Told,
                                  Timevals, TypeOK
<1> QED BY <1>1, JInvHolds, PTL

\* Of the records that look like success, "http server start OK!" is there
\* exactly when the port was bound; "server init done", and the 0 main returns,
\* come when nobody listens any more.
THEOREM RecordsHonest == Spec => []RecordsTell
<1>1. JInv => RecordsTell
  <2> SUFFICES ASSUME Told PROVE RecordsTell
    BY DEF JInv
  <2> QED BY DEF Told, Start, Done, RecordsTell
<1> QED BY <1>1, JInvHolds, PTL

\* The timer of a request is armed for the seconds of the configuration, or
\* those of the default, whatever the width of an int, as long as their
\* microseconds fit in one.
THEOREM TimersConfigured == Spec => []ArmedAsConfigured
<1>1. JInv => ArmedAsConfigured
  BY DEF JInv, Timers
<1> QED BY <1>1, JInvHolds, PTL
=============================================================================
