# A TLA+ development for ndsim

`nd` is a small HTTP server (`ndsim`) written on libevent: it takes a request,
asks a backend over HTTP, and replies; a logger with a thread of its own writes
what happens to two files. This directory holds TLA+ modules translated from
`src/src/*.cpp`, TLC configurations that check them on small instances, and
proofs checked by TLAPS. `PROJECT.json` maps every definition to the lines it
stands for and lists runs, mutants, hazards, findings and theorems.

## 1. Inventory of the system

### Components

| Component | Where | State it keeps | Operations |
|---|---|---|---|
| request handler | `req.cpp`, `ndsim_define.h` | global `post_data`; per request `req_t` (`readbuf_len`, `err_no`, `command_no`, timer, `req_base`) | `http_handler`, `req_new`, `req_free`, `get_post_data`, `timeout_handler`, `failure_process` |
| commands | `function.cpp` | none; they dispatch a nested event loop | `search`, `search2`, `test_backend` |
| backend HTTP client | `http_client.cpp` | `http_request_get`: connection, URI, base | `start_http_request`, `start_url_request`, `http_request_get_cb`, `http_request_free` (and a POST path nobody calls) |
| HTTP server loop | `server.cpp` | `server_base`, `port`, `timeout_s` | `read_conf`, `server_init`, `server_run` |
| timers, custom events | `event.cpp` | `base`, the list `ts_list`, `custom_event_map` | `event_timer_new`, `list_produce`, `list_consume`, `event_trigger`, `event_listen` |
| logger | `log.cpp` | two ring buffers with their offsets, a pipe, two files, `log_mutex` | `log_printf`, `log_thread_loop`, `log_init` |
| log data | `log.cpp`, `log.h` | chunked list `log_data_t` | `log_data_new`, `_push_*`, `_free` |
| file utilities | `file.cpp` | the file system | `dirname`, `basename`, `create_parent_dir`, `create_dir`, `scan_dir` |
| hash | `hash.h` | none | `MurmurHash64A`, `strhash` |
| start-up | `main.cpp` | `conf` | `signal_handler_init`, `main` |

### How they interact

    clients --HTTP--> server_base (evhttp) --call--> http_handler --call--> search / search2 / test_backend
                                                          |                     | event_base_dispatch (nested)
                                                          |                     +-- http_request_get_cb  <--HTTP-- backend
                                                          |                     +-- timeout_handler      <-- timer of req_new
                                                          +--> failure_process
    any of these --log_printf--> rings + pipe --> log thread --> <name>.log, <name>.log.wf

* **Calls.** `server_run` dispatches `server_base` on the main thread; evhttp
  calls `http_handler`; a backend command dispatches a second base *inside* the
  handler, so the server loop stands still until the nested loop ends.
* **Callbacks.** In the nested loop the backend's answer
  (`http_request_get_cb`) and the request timer (`timeout_handler`) race; both
  end the loop with `event_base_loopexit`, which does not prevent events that
  are already due.
* **Shared state.** All requests share one `post_data`. All threads share the
  rings of the logger; `log_mutex` orders the callers of `log_printf`, but the
  log thread never takes it.
* **Messages.** The pipe between `log_printf` and the log thread: bytes may be
  dropped when it is full, and one `read` may take many of them.

### What is hard

The concurrency that matters is of two kinds. The request path has one thread
but re-entrant event loops: the order of timer, answer, redirect and loop exit
is not written down anywhere and no test fixes it. The logger has real threads
and no lock on one side. Failures: a backend that is silent, redirects for
ever, hangs up, or sends a redirect without a target; a short `fwrite`; a file
moved away under the logger; a full pipe and a full ring. There are no tests in
the repository.

### What makes each component correct

| Component | Correct when |
|---|---|
| request handler, commands | a handler finds its own body in `post_data` for its whole life; every request gets the replies its life explains and none after its handler returned; every request is answered in the end; the whole is a serial service whose first answer is final |
| backend client | each connection is freed once, and nobody points to a freed one |
| logger | every published byte reaches its file once, in order, unharmed by the ring wrapping or filling; a cut record still ends its line; the log thread never sleeps on work and notices moved files |
| custom events | the list is a FIFO queue though the consumer takes no lock; each trigger is consumed; nobody touches a freed node |
| log data, formatting | no pair lost or reordered across chunks; never a byte beyond the buffer, always a final newline |
| file utilities | `dirname` and `basename` of a path lead where the path leads; `create_dir` returns, succeeds only when the directory is there, and fails for a reason |
| start-up | nothing is used before it is initialised; every failure is told; the records of success are true; the timer runs for as long as configured |

The hazards behind these properties are listed in `PROJECT.json`, each at its
line, with the properties that cover it or the reason none does yet.

## 2. Modules

| Module | Models | Kind |
|---|---|---|
| `SerialService` | what the request path promises to clients | abstract specification |
| `Request` | `req.cpp`, `function.cpp`, the GET path of `http_client.cpp`, `server_run`, the request timer | detailed specification, implements `SerialService` |
| `RequestProofs` | theorems about `Request` | proofs |
| `LogRing` | `log_printf` (from the free space of the ring on), `log_thread_loop`, `log_init` | detailed specification |
| `LogRingProofs` | theorems about `LogRing` | proofs |
| `LogRecord` | `log_printf` (up to there), `log_data_new`, `_PUSH`, `log_data_free` | detailed specification |
| `LogRecordProofs` | theorems about `LogRecord` | proofs |
| `FifoQueue` | what the list of custom events promises | abstract specification |
| `EventQueue` | `list_init`, `list_produce`, `list_consume`, `event_trigger`, `custom_event_cb` | detailed specification, implements `FifoQueue` |
| `EventQueueProofs` | theorems about `EventQueue` | proofs |
| `Startup` | `main`, `signal_handler_init`, `log_init`, `log_read_conf`, `req_init`, `read_conf`, `server_init`, `server_run`, the arithmetic of `event_timer_new` | detailed specification |
| `StartupProofs` | theorems about `Startup` | proofs |
| `CreateDir` | `dirname`, `basename`, `create_parent_dir`, `create_dir` | detailed specification |
| `DirnameProofs` | what `dirname` returns for every string, for `CreateDirProofs` | proofs |
| `CreateDirProofs` | theorems about `CreateDir` | proofs |
| `Remainders` | lemmas on `%` and `\div` by a divisor that is not a number, for `LogRingProofs` and `StartupProofs` | proofs |

Operators whose name extends that of the definition right after them
(`LoopIsFreeThreaded` before `LoopIsFree`, `BufLeftNoGap` before `BufLeft`, ...)
are mutants: plausible bugs that `PROJECT.json` pairs with the property they
must break. They are not part of the specifications.

### Request

A request goes from `"unsent"` to `"queued"` (in evhttp), for backend commands
through `"dispatch"` (its handler is inside the nested `event_base_dispatch`),
to `"done"`. The actions are:

| Action | Code |
|---|---|
| `Send` | a client; `cmdno` and the length of the body are free |
| `HandleBackend` | `http_handler` for commands 1, 2, 12, up to the nested dispatch: `req_new`, `get_post_data`, `start_http_request` |
| `HandleUnsupported` | `http_handler` for every other command, to its end: `failure_process`, `req_free` |
| `ReqNewFails` | `req_new` without memory for the reply buffer: the process ends (`up`) |
| `BackendAnswers`, `BackendRedirects`, `BackendFails` | `http_request_get_cb` with any other status, with 302, and with what makes it dereference NULL (no request after a timeout of the backend, a 302 without a usable `Location`); the last ends the process (`up`) |
| `ConnectionCloses` | the peer or the six-second timeout closes a kept-alive connection; the base may then have no event left |
| `TimerFires` | `timeout_handler`, possible while the base the timer is on is dispatched |
| `LoopEnds` | the nested dispatch returns (loopexit, or no event left) and the handler runs to its end: frees, the 200 reply, `req_free` |

Each action is atomic because the code between two dispatch points runs
without interruption on the only thread. What libevent is assumed to do is
stated in the header of the module; `LoopExit`, `SendReply` and `NoEventsLeft`
stand for its functions and are marked external in the map. `exiting` does not
disable the other events: an event already due runs before the loop ends, so a
timeout may be replied after the answer arrived, and the other way round.

Abstracted: URIs, header contents, response bodies, and what is logged. Bodies
are lengths from 0 to one more than `MAX_POST_DATA_SIZE`.

### LogRing

Bytes are numbered, per ring, in the order `log_printf` publishes them; a cell
of a ring holds the number of its byte, so "lost", "repeated" and "overwritten"
can be stated on `file` and `buf`. `build.sh` compiles with `-g -Wall` and no
optimisation, so each load and store of an offset is a step of its own: `Copy`
(load of the read offset, cut, memcpy), `AddOffset` (`+=`), `ModOffset` (`%=`),
`Wake` (pipe and unlock) on one side; `LogWake` (read, stat, fopen), `LogTest`,
`LogBranch`, `LogWrite`, `LogWriteTail`, `LogTailMod`, `LogMod` on the other,
once for each of the two rings. `Copy` is one step since the cells it writes
are free (`NothingLostOrRepeated` says so of the cells the log thread reads).

When the log thread passes `fwrite` a range outside the ring, the behaviour of
the program is undefined: the flag `corrupt` is set and the model stops. The
history variable `raced` records that a write offset wrapped under the log
thread: it loaded one between `+=` and `%=`, or `%=` came between the load of
the comparison and the load of the count. The properties say what holds as long
as that did not happen, and that nothing else but a failed write leaves the
ring. `faults` bounds the failures of `fwrite` and `fopen`.

`fflush` and the optional copy to stderr are abstracted: `file` is what was
handed to stdio. `named[s]` says whether the path of a log file still names the
open one; a file that was moved *and* replaced by another of the same name
would pass the `stat` of the code, and is not modelled.

### LogRecord

`log_printf` builds its record in `_log_temp_buf` before it looks at a ring:
`Prefix`, `FileLine`, one `Pair` for each key and value, `Msg`, `Format` and
`End` stand for its `snprintf` calls in order. Each but the last may return a
negative value, less than the room left, or more; the last writes a literal of
two characters, which cannot fail, so the branch for a negative result behind it
(`log.cpp:192`) is never taken. `Clamp` is the three-way test that
follows each of them, and `pos` and `size` are `buf - _log_temp_buf` and
`size`. Characters are abstracted to lengths and to whether the last one
written is a newline. The pairs come from a `log_data_t`: `LogDataNew`, `Push`
(the four `log_data_push_*` differ in the field they fill), `LogDataFree` and
`FreeChunk`, over chunks of `ChunkSize` pairs linked by `next`, with the
`tail` that only the first chunk keeps up to date. `NextChunk` is the walk from
chunk to chunk. `prev` is written and never read, and is left out.
No code of this commit calls `log_data_new`: every `log_printf` is passed no
pairs. The properties of the list are for the callers its header invites.

`RecordEndsLine` discharges what `LogRing` assumes of a record: it has at least
one byte, at most `sizeof(_log_temp_buf) - 1`, and ends in a newline. That each
newline is also the only one, and what `msg` holds, is not looked at.

### EventQueue

`ts_list` is a linked list whose last node is a placeholder. `list_produce`
fills the placeholder under `list_wlock` and makes a new one; `list_consume`
takes no lock, so each of its loads and each store of `list_produce` is a step.
They are taken in program order, which is what unoptimised code on x86 shows to
other threads; nothing in the source (no `volatile`, no barrier) would hold an
optimiser to it. Memory from `malloc` reads as `Garbage`, a freed node becomes
`Garbage` again, and its address may come back at once.

`custom_event_cb` consumes until it meets a placeholder, then returns to the
loop (`CbReturns`). Between two consumptions it runs the callback
(`cpc = "callback"` to `CallbackReturns`), which may call `event_trigger`: the
event loop is one of the producers, and triggers from outside a callback too
when it is polling. `Activate` and `CustomEventCb` model `event_active` and the
loop's dequeuing of the event as atomic on one flag, `active`. With
`evthread_use_pthreads` commented out (`event.cpp`) libevent does not grant
that to other threads; the module says what the list and the order of publish
and activate are worth once it does. In this commit `main` does not call
`event_init`, so none of this runs. The look-up of the callback in
`custom_event_map` is not modelled: `got` is what is handed to it.

### Startup

The main thread goes through `pc`; each call the code makes of the system is an
action that works or fails, and each missing key of the configuration takes the
`catch` of its reader. `status` says how the process ended, `stderr` whether it
told why. Three things of the source decide what is told:

* `log_read_conf` assigns `_log_level` last. If any key of `[Log]` is missing
  the level is still 0 when it calls `log_fatal`, so nothing is logged, and
  `log_init` does not look at its result: the program goes on without a log, or
  fails in `fopen`. Were the level read first, that record would be copied to a
  ring that is not allocated (the mutant `LogReadConfLevelFirst`).
* `server_init` ignores the result of `server_run`. "server init done" and the
  0 of `main` therefore mean that nobody listens (any more).
* `main` returns without waiting for the log thread. `ring` holds what
  `log_thread_loop` has not written; it is lost.

The rings and files are those of `LogRing` seen from afar: sequences of records,
moved as a whole by `LogThreadLoop`. Whether a ring is full or a byte is lost
there is the business of `LogRing`. In the loop only what depends on the
start-up is kept: the timer `req_new` sets, the body written to `post_data`, the
reply to a client that is gone.

`timeout_s * 1000000` overflows an `int` from 2148 seconds on. That is undefined
behaviour: `Products` holds the wrapped product (what `build.sh` produces
without optimisation) and the exact one (a compiler that multiplies in 64 bits).
The machine's limits are the constants `INT_MAX` and `ULONG_MAX` (127 and 65535
in the run, with 10 microseconds to the second) rather than widths: all the code
needs of them is that an `unsigned long` holds twice an `int`, and the prover
does not reason about powers of two of a variable width.

### CreateDir

`create_dir` calls `create_parent_dir`, which calls itself; both do the same
thing to a path, the second to the `dirname` of its argument. `stack` holds the
path of each call, `step` is the system call the last one is about to make.
Another process makes files or directories on the way between any two of them
(`OtherMakes`), and any of them that had no reason in the model to fail may do so
all the same (`Fault`, counted in `faults`): `mkdir` on a full disk or a
read-only file system, `stat` and `access` on an I/O error. `fs` tells of each place whether something is there and whether
it may be used, searched only, or neither (a file counts as the latter: that a
file with a slash after it is reported missing rather than in the way makes
`mkdir` fail where `access` would have, with the same result). The umask is
taken not to remove the owner's permissions from what `mkdir` makes.

Of these functions only `dirname` is called in this commit, by `main` for the
path of the configuration. `main` also calls `basename`, but on a `char *`, which
selects the overload of `<string.h>` and not the one of `file.cpp`; that one is
`GnuBasename`, external in the map. It does not skip slashes at the end of a path
as `dirname` and the `Basename` of `file.cpp` do: `ConfFound` says what becomes of
the argument of `main`; `PartsLead`, a theorem and not part of a run, what
`file.cpp`'s pair would make of it.

`dirname` cuts by writing NUL bytes into a `std::string`, which keeps its
length. Paths are therefore kept character by character: a system call sees
the first `Strlen` characters, `Dirname` of a result sees the rest as well. The constant
`MaxDepth` stands for the end of the call stack.

## 3. Runs

| Run | Instance | Shows |
|---|---|---|
| `request` | 2 requests, commands 1, 2, 3, 6, 12, 99, 2 connections, `FairSpec` | `TypeOK`, `PostDataOwned`, `ConnectionsAccounted`, `BasesAccounted`, `RepliesExplained`, `DoneIsFinal`; `Request` implements `SerialService` (`ServiceSpec`); `AnsweredByTimer`: without `search2` every request is answered by its timer, if by nothing else; `AnsweredIfRedirectsEnd`: with it, provided backends are fair and redirects end |
| `timeout_halts`, `timeout_processed` | 1 request | the findings below |
| `log_safety` | 2 threads, 1 ring of 4 bytes, records of up to 3, 8 bytes, 1 fault | `TypeOK`, `NothingLostOrRepeated`, `LeavesRingWhy`, `LinesEnd` |
| `log_flush` | 1 thread, both rings, pipe of 2, reads of 1, `FairSpec` | `NoLostWakeup`, `Flushed`, `RotationNoticed` |
| `log_record` | a buffer of 5, pieces of -1, 0, 1, 3 and 6 bytes, 5 pairs in chunks of 2 | `TypeOK`, `RoomAccounted`, `RecordEndsLine`, `PairsInOrder`, `AllFreed` |
| `event_queue` | 2 threads and the event loop as producers, 3 events of 2 keys, 3 addresses, `FairSpec` | `TypeOK`, `ReadsInitialised`, `NodesAccounted`, `NoLostTrigger`, `Delivered`; `EventQueue` implements `FifoQueue` (`FifoSpec`) |
| `startup` | every subset of the six keys, levels 0, 1, 8, 16, five timeouts, 2 requests, `FairSpec` | `TypeOK`, `InitialisedBeforeUse`, `FailureIsTold`, `RecordsTell`, `ArmedAsConfigured`, `Settles` |
| `create_dir` | all paths of up to 5 characters over 2 names, any part of the way in place, 1 thing made by another process, up to 2 system calls that fail by themselves, `FairSpec` | `TypeOK`, `Created`, `FailsWhy`, `FaultsTold`, `MadeDownwards`, `ConfFound`, `CreateDirReturns` |
| `create_dir_climbs` | paths of up to 4 characters, no other process, no failing call | the finding below |
| `log_from_ring`, `log_rotation` | 1 thread, 1 ring | the findings below |

Deadlock is checked for `LogRecord` only. The others may really stop: clients
may stop sending, nobody need log or trigger, `create_dir` returns, and the
process may end.

**Why the bounds are enough.** A handler excludes all others, so interference
between requests shows with two: one inside its nested loop and one queued
behind it. Two connections let a
redirect allocate while the old identity is recycled. The commands of each run
hold one member of each arm of the switch that behaves differently (1 and 12
run on the timer's base, 2 on its own; 3 to 5 do not read the body, 6 and 7 do;
99 is the default). A body is empty, fits exactly, or is one byte too long.
For the ring, 8 bytes through 4 cells go around twice and leave the write
offset at every position, records of 3 do not fit beside one another and are
cut; two rings and a log thread that reads one byte at a time are enough for
the pipe (of 2) to overflow and for a wake-up to cover the other ring's record.
`log_mutex` is held from one end of `log_printf` to the other, so a second
thread adds only the wait for it. `MaxBytes` and the `MaxFaults` of `LogRing` only
bound the state space. Five pairs in chunks of two make three chunks, the last half full;
pieces of 6 bytes do not fit in the buffer, pieces of 3 fit once. Two threads
and a callback contend for the list, and three events, each with a new
placeholder, through three addresses put a freed address back into use, at both
ends of the list. Five characters hold a double slash between two names, a
leading and a trailing one, and three names in a row; the recursion then goes at
most five calls deep, and one deeper for each `access` that fails at its upper
end; that is below `MaxDepth`, unless it does not end. Two failing calls are a `stat`
and the `access` behind it, which make the code take a directory for missing, or
one each at two levels of the recursion. Of the
timeouts one is no time at all, 12 scaled seconds still fit an `int`, 13 make
the product negative and 26 wrap it around to less than a second.

**Fairness.** `Request!Fairness`: the server loop takes up queued requests,
timers expire, a loop told to end ends. These are promises of libevent and of
time; a client need not send and a backend need not answer. `BackendFairness`
adds that an outgoing request has some outcome and an idle connection is
closed, which `evhttp_connection_set_timeout(cn, 6)` in `start_url_request`
bounds; it is used only where a property needs it. `LogRing!FairSpec`: the
scheduler runs the log thread and a thread inside `log_printf`; nobody is
obliged to log. `EventQueue!FairSpec`: the same for a thread inside
`event_trigger` and for the event loop, callbacks included; nobody is obliged to
trigger. `Startup!FairSpec`: both threads run; no request need arrive and the
dispatch need not fail. `CreateDir!FairSpec`: the process runs; others need not.

## 4. Findings

Each is a violation run on what a comment of the source says.

* `TimeoutHalts`: after `timeout_handler` replied 504, the handler replies 200
  on the same request (`function.cpp:64`, `:114`).
* `TimeoutProcessed`: the base `search2` dispatches has no timer; a backend that
  redirects for ever blocks the server.
* `FlushedFromRing`: the log thread loads the write offset three times without
  the mutex. If it wraps between the comparison and the count, the count is
  negative; if a load falls between `+=` and `%=`, a drained ring looks full
  and is written again.
* `RotationChecked`: a moved log file is not noticed until the next record:
  `read` blocks after `select` timed out.
* `Climbs`: of a path with a double slash `dirname` can return the same directory
  twice in a row, since it takes the NUL bytes it wrote itself for a name;
  `create_dir("a//b")` makes `a`, fails to make `a` again, and returns -1.

Not runs of their own, but behaviours the models have and the properties have
to admit, so that no property excludes them: in `Startup`, a program without a
log (`FailureIsTold`), a server that never listened and is logged as done
(`RecordsTell`), a timeout of 2148 seconds or more (`ArmedAsConfigured`), a
`memset` of a failed `malloc` (`InitialisedBeforeUse`), and a record of a failure
that is lost with the process (it counts as told while it is in the ring, and
`Settles` promises nothing once the process is gone); in `CreateDir`, a working directory that may not be
searched, on which the recursion does not end (`CreateDirReturns`), and
`ndsim conf/x.conf/`, which makes `main` look for a nameless file in the
directory above (`ConfFound`); in
`Request`, a body that is empty or too large and whose command runs and answers
200 all the same (`HandleBackend` does not look at `readbuf_len`).

## 5. Proofs

`RequestProofs` proves for every set of requests, commands and connections and
every body limit, from `RequestAssumption` alone:

| Theorem | States |
|---|---|
| `TypeCorrect` | `Spec => []TypeOK` |
| `PostDataSafe` | `Spec => []PostDataOwned` |
| `ConnectionsSafe` | `Spec => []ConnectionsAccounted` |
| `BasesSafe` | `Spec => []BasesAccounted` |
| `RepliesSafe` | `Spec => []RepliesExplained` |
| `DoneStaysDone` | `Spec => DoneIsFinal` |
| `RequestImplementsService` | `Spec => ServiceSpec` |

The inductive invariant `IInv` adds two conjuncts to the properties:
`Serialised` (at most one handler is inside a nested loop, which `LoopIsFree`
preserves) and `Progress` (what is known of a request's timer, connection and
replies at each stage of its life). Without `Serialised` neither `PostDataOwned` nor
`ConnectionsAccounted` is inductive: a second handler could overwrite the body
or be given a connection in use. Without `Progress` a step could start from a
state in which a request that was never handled already has a reply or a
running timer. Each part has a step lemma with one case per action;
`OthersUntouched` states once that an action of a request leaves all others
alone. The refinement proof maps `HandleBackend` to `Begin`, `TimerFires` to
`AnswerEarly` or a stutter, `LoopEnds` to `End` or `AnswerAndEnd`,
`HandleUnsupported` to `AnswerAndEnd`, and all else to a stutter.

`LogRingProofs` proves for every size of the rings, the records, the pipe and
the reads, any number of threads, and any number of failures, from
`LogRingAssumption`:

| Theorem | States |
|---|---|
| `TypeCorrect` | `Spec => []TypeOK` |
| `NothingLost` | `Spec => []NothingLostOrRepeated` |
| `LeavesRing` | `Spec => []LeavesRingWhy` |
| `EndsInNewline` | `Spec => []LinesEnd` |
| `WakeupsReach` | `Spec => []NoLostWakeup` |

The bounds on the offsets in `TypeOK` need to know *when* an offset may be
beyond the ring: `Offsets` says the write offset only between `+=` and `%=` of
the holder of the mutex, the read offset only before the `%=` of the log thread.
That there is one such holder is `Exclusive`; that a record fits what is still
to be offered, `Room`. `Held` is the heart of it: the file holds the first bytes
published, in order; both offsets agree with the counts of bytes modulo `N`; the
bytes from there to the last one copied are in their cells; and there are fewer
of them than cells, so no two share one. It is inductive only together with
`Learnt`, what the log thread found out by its three loads and relies on
afterwards, and both are claimed (`Intact`) only while no write offset wrapped
under the log thread: the run `log_from_ring` shows that without `raced` they
are false. `LeavesRingWhy` follows from `Intact`, and from `Whole`, which says
where the read offset is when no write failed.
`NoLostWakeup` needs to say of the log thread in motion what it promises of
one that waits: it will still look at each ring that is not written out
(`Awake`), and a ring found changed behind its back has a byte in the pipe or a
producer that will send one (the second part of `Attentive`). The arithmetic is
in `Remainders`: `CongAdd` and `CongDiff` let congruences be handled without the
prover seeing a `%`, and `ModClose` makes congruent counts equal that are less
than a ring apart.

`LogRecordProofs` proves, for every buffer of at least two bytes, every set of
lengths, chunks of any size and any number of pairs, from `LogRecordAssumption`:

| Theorem | States |
|---|---|
| `RoomSafe` | `Spec => []RoomAccounted` |
| `RecordSafe` | `Spec => []RecordEndsLine` |
| `TypeCorrect` | `Spec => []TypeOK` |
| `PairsOrdered` | `Spec => []PairsInOrder` |
| `FreedAll` | `Spec => []AllFreed` |

The first two are proved together as `BufInv`, which adds the types of `pos`,
`size` and `nl`. `SnprintfKeepsRoom`, the lemma for one `snprintf` and its
three-way test, does for all pieces but the last; `End` needs that the room is
positive *before* it, or there would be no byte to make a newline of. Why a
buffer of one byte will not do: `End` would leave `pos` at 0 and `*(buf-1)`
before the buffer.

The list needs its shape: `Chained` (each chunk points to the next, `tail` is
the last), `Ordered` (there is a function `start` that tells how many pairs were
pushed before each chunk, and the chunks hold the pairs from there on), `Walk`
(what `log_printf` has written at each step), and `Freeing` (what
`log_data_free` has left). `start` is a witness rather than a formula: as
`ChunkSize * (k - 1)` it would need products of two variables, and the order
does not depend on chunks being full.

`EventQueueProofs` proves for any number of producers, nodes and events, from
`EventQueueAssumption`:

| Theorem | States |
|---|---|
| `TypeCorrect` | `Spec => []TypeOK` |
| `ReadsSafe` | `Spec => []ReadsInitialised` |
| `NodesSafe` | `Spec => []NodesAccounted` |
| `TriggersReach` | `Spec => []NoLostTrigger` |
| `EventsInOrder` | `Spec => FifoSpec` |

Nothing about the consumer, which takes no lock, can be said without the list it
walks. `Linked` says there is a sequence of distinct nodes, one for each event
published and not consumed and one for the placeholder, linked in that order,
with `head` at its first and, but for the moment between publishing and the
store to it, `tail` at its last. `Publish` extends the witness by a node,
`MoveHead` drops one (`PublishLinked`, `MoveHeadLinked`), and no other store
reaches a node of it, except the fields of the placeholder nobody reads yet
(`ProducerLinked`). For that a node in the hands of a thread must be in no other
hand and not on the list: `Owned`, which the re-use of freed addresses makes
less than obvious. `Locking` leaves one producer at a time in the critical
section, `Stored` says how much of the placeholder it has filled, `Reading` that
what the consumer has loaded is the first event not consumed. `Counted` compares
the number of allocated nodes with the list and the hands; `Noticed` says that
an event not consumed is in the poll loop, or `active`, or its producer has yet
to activate. The refinement maps `Publish` to `Put`, `MoveHead` to `Take`, and
every other step to a stutter; `Reading` is why the event taken is the first.

`StartupProofs` proves for every configuration, set of levels, timeouts and
requests, and every `INT_MAX` and `ULONG_MAX`, from `StartupAssumption`:

| Theorem | States |
|---|---|
| `InitialisedSafe` | `Spec => []InitialisedBeforeUse` |
| `FailuresTold` | `Spec => []FailureIsTold` |
| `TypeCorrect` | `Spec => []TypeOK` |
| `RecordsHonest` | `Spec => []RecordsTell` |
| `TimersConfigured` | `Spec => []ArmedAsConfigured` |

The invariant of the first two says what is set up at each `pc` (`SetUp`), that
rings and files are empty until `log_init` is done (`Silent`), and how the
process can have ended (`Ended`). It has to know the level too: `log_read_conf`
calls `log_fatal` before the rings are allocated, and only because the level is
0 at every step before it (the first line of `SetUp`) is that record dropped.
`Ended` ties `"return 1"` to a fatal record in the ring or already in the file,
since the log thread may move it at any time: `LogKeeps` says that `log_printf`
does not lose it, the case of `LogThreadLoop` in `LogInit` that the log thread
does not. `JInv` adds what the others need: `Settings` (what was read is what
the configuration says, as the timer of `req_new` relies on), `Timers`, and
`Told`, which follows `listening` and the two records of success through the
program, wherever the log thread has put them by now (`LoopSays`).
`TimevalExact` is the arithmetic: a product that fits an `int` is not changed by
the conversions to `int` and `unsigned long`, so dividing it gives back the
seconds. `TimevalType` says that any other product still gives a proper
`timeval`.

`CreateDirProofs` proves for paths of any length, any depth of the stack, any
number of directories made by others and any number of system calls that fail
by themselves, from `CreateDirAssumption`:

| Theorem | States |
|---|---|
| `TypeCorrect` | `Spec => []TypeOK` |
| `CreatedThere` | `Spec => []Created` |
| `FailsForReasons` | `Spec => []FailsWhy` |
| `FaultsAreTold` | `Spec => []FaultsTold` |
| `MakesDownwards` | `Spec => []MadeDownwards` |
| `ConfLeads` | `Spec => []ConfFound` |
| `PartsLeadThere` | `Spec => []PartsLead` |

Each system call of `create_dir` is a step of its own, so that it saw its
directory is by the time it returns a fact of the past. `Known` says what
remains of it: nothing in the model removes a place or its permissions, so what
`stat` saw is there, and what `access` granted or `mkdir` made can be used. Had
another process been allowed to remove directories, `Created` would be false
between the last call and the return, as it is in any program.

`FaultsTold` rests on `Noticed`: after a system call failed by itself, either -1
is on its way to the caller, or a directory is there whose call, lower in the
stack or about to look again, still takes it for missing. That call can only end
in -1, when its `access(F_OK)` or its `mkdir` finds the directory
(`NoticedStep`).

The others need to know what `dirname` returns, not for paths only but for
what earlier calls of `dirname` made of them. `DirnameProofs` says so of every
string that is `Good`, as paths are and as the results are again
(`DirnameClimbs`): either the result leads one directory up, or it leads to the
same place, which happens at the root, at the working directory, and when a
slash stands behind the NUL that ends the string (`Late`). The last case is the
finding `Climbs`; it cannot come up in a `Straight` string, and unless the path
has a double slash all that `dirname` makes of it are `Straight`. `CutFacts`
says what a cut string looks like; the cases of where the cut falls are lemmas
of their own (`ClimbRoot` to `ClimbUp`). `ConfParts` compares the two basenames.
What a scan finds and what names a string holds up to a character is shown by
induction, in the form of `Least`: a set of natural numbers that is not empty has
a least element. The library proves that of a well-founded relation on a set, without an operator as a
parameter.

`JInv` then speaks of `Height`, how far down the way to the path the place of a
call is. `Stacked`: each call is for a place on the way, the `dirname` of the
one before, and all but the first are above the path; `Falling`: without a
double slash each is above the one before; `Grown`: nothing on the way is there
without what is above it; `Failing`: a call that fails, or whose directory turns
up behind its back, is `Excused`, that is, has one of the reasons of `FailsWhy`;
`Granted`: before a `mkdir` the directory above can be used; `Making`: what was
made so far ends right above the directory of the next `mkdir`. `FailsWhy` is
not inductive without `Failing` (a `mkdir` may find the directory there, made
by this very call further up, which only `Falling` excludes), nor
`MadeDownwards` without `Granted` and `Stacked`, which say that two directories
made in a row are one below the other. Of the empty path nothing is made
(`Empty`): its `dirname` is the root. TLC checked `JInv` and `Empty` on the
instance of `create_dir` before they were proved.

**Only model-checked.** The liveness properties (`AnsweredByTimer`,
`AnsweredIfRedirectsEnd`, `Flushed`, `RotationNoticed`, `Delivered`, `Settles`,
`CreateDirReturns`): liveness under fairness and `ENABLED` are out of the
prover's reach. All other properties of passing runs are theorems;
`PartsLead` is a theorem only.

## 6. Plan

All modules of the first plan are built, and all their safety invariants,
`DoneIsFinal` and both refinements are theorems. What is left, most useful
first:

1. **Action properties** from the invariants already proved: that a step of
   `LogRing` only ever extends the files and never takes back what it published,
   and that the settings of `Startup` do not change once the loop runs.
2. **The POST path** of the HTTP client and `custom_event_map`, should anything
   come to call them.

### Not modelled

libevent, `bsl` and `comcfg` themselves are modelled by how the code uses them.
Left out are the wrappers of `event.cpp` that only forward to libevent and the
connections of `event_connect` (no state of their own, no caller), the POST path
of the HTTP client and `scan_dir`, `file_size` and `file_exists` (no caller),
`MurmurHash64A` (64-bit products exceed TLC's integers) and with it
`custom_event_map`, and the contents of `path_query` (one byte too short for its
`?`): URIs are abstracted.
There are no `RECURSIVE` operators: the prover could not reason about a module
that has one.
