------------------------------ MODULE LogRing ------------------------------
(***************************************************************************)
(* The logger of ndsim (log.cpp).  log_printf formats a record and appends *)
(* it to one of two ring buffers, then writes a byte to a pipe, all under  *)
(* log_mutex.  The log thread waits for the pipe, reopens log files that   *)
(* were moved away, and writes what the rings hold to the files.  It never *)
(* takes log_mutex: it loads the write offsets, several times each, while  *)
(* log_printf stores them in two steps (+= and then %=).                   *)
(*                                                                         *)
(* Bytes are numbered from 1 per ring, in the order log_printf publishes   *)
(* them; a cell of a ring holds the number of its byte.  build.sh compiles *)
(* without optimisation: every load and store of an offset is a step.      *)
(***************************************************************************)
EXTENDS Integers, Sequences, FiniteSets

CONSTANTS
  Threads,    \* the threads that call log_printf
  Levels,     \* the levels they log at, those _log_level lets through
  N,          \* LOG_BUF_SIZE
  MaxLen,     \* the longest record, sizeof(_log_temp_buf) - 1
  PipeCap,    \* the bytes the pipe holds
  ReadMax,    \* sizeof(tmp), the bytes one read takes from the pipe
  MaxBytes,   \* bound: the bytes ever offered to one ring
  MaxFaults,  \* bound: the failures of fwrite and fopen
  NoThread    \* log_mutex is free

ASSUME LogRingAssumption ==
  /\ Levels \subseteq {1, 2, 4, 8, 16}
  /\ N \in Nat /\ MaxLen \in Nat \ {0} /\ MaxLen < N
  /\ PipeCap \in Nat \ {0} /\ ReadMax \in Nat \ {0}
  /\ MaxBytes \in Nat /\ MaxFaults \in Nat
  /\ NoThread \notin Threads

Streams == {"log", "wf"}

VARIABLES
  mutex,      \* the holder of log_mutex
  ppc,        \* where each thread is in log_printf
  rec,        \* the record in _log_temp_buf: its ring and its length
  woff, roff, \* [log|logwf]_write_offset and _read_offset
  buf,        \* log_buf and logwf_buf
  published,  \* how many bytes were ever made visible in each ring
  ends,       \* the numbers of the bytes that are newlines
  pipe,       \* bytes in log_pipe
  lpc, at,    \* where the log thread is, and with which ring
  file,       \* what was written to the files of each ring, old and new
  named,      \* the open file is still the one the log's path names
  faults,     \* failures so far
  corrupt,    \* the log thread passed fwrite a range outside the ring
  raced       \* history: a write offset wrapped under it, that is: it loaded
              \* one between += and %=, or %= came between its last two loads

producer == <<mutex, ppc, rec, woff, buf, published, ends>>
consumer == <<roff, lpc, at, file, corrupt, raced>>
vars == <<producer, consumer, pipe, named, faults>>

-----------------------------------------------------------------------------
(* log_printf.                                                             *)

StreamOf(level) == IF level <= 2 THEN "wf" ELSE "log"

\* The free space of a ring; one cell always stays empty.
BufLeftNoGap(s) == N - ((woff[s] - roff[s] + N) % N) + 1
BufLeft(s) == N - ((woff[s] - roff[s] + N) % N)

\* How much of a record of len bytes fits.
Fit(s, len) ==
  IF len <= BufLeft(s) - 1 THEN len
  ELSE IF BufLeft(s) - 1 > 0 THEN BufLeft(s) - 1 ELSE 0

\* The newline of a record of which ret bytes are kept: its own last byte,
\* or the byte the truncation ends with.
NewlineUntouched(len, ret) == IF ret = len THEN {ret} ELSE {}
Newline(len, ret) == IF ret = 0 THEN {} ELSE {ret}

\* Take the mutex and format a record.
LogPrintf(t) ==
  /\ ~corrupt /\ ppc[t] = "idle" /\ mutex = NoThread
  /\ \E level \in Levels, len \in 1..MaxLen :
       /\ published[StreamOf(level)] + len <= MaxBytes
       /\ rec' = [s |-> StreamOf(level), len |-> len]
  /\ mutex' = t
  /\ ppc' = [ppc EXCEPT ![t] = "copy"]
  /\ UNCHANGED <<woff, buf, published, ends, consumer, pipe, named, faults>>

\* Load the read offset, truncate the record to the free space, copy it,
\* around the end of the ring where it does not fit before it.
CopyOverEnd(t) ==
  /\ ~corrupt /\ ppc[t] = "copy"
  /\ LET s == rec.s
         ret == Fit(s, rec.len)
     IN /\ buf' = [buf EXCEPT ![s] = [i \in 0..(N - 1) |->
                     IF i \in woff[s]..(woff[s] + ret - 1)
                     THEN published[s] + 1 + (i - woff[s]) ELSE @[i]]]
        /\ ends' = [ends EXCEPT ![s] =
                     @ \cup {published[s] + k : k \in Newline(rec.len, ret)}]
        /\ rec' = [rec EXCEPT !.len = ret]
  /\ ppc' = [ppc EXCEPT ![t] = "add"]
  /\ UNCHANGED <<mutex, woff, published, consumer, pipe, named, faults>>
Copy(t) ==
  /\ ~corrupt /\ ppc[t] = "copy"
  /\ LET s == rec.s
         ret == Fit(s, rec.len)
     IN /\ buf' = [buf EXCEPT ![s] = [i \in 0..(N - 1) |->
                     IF (i - woff[s] + N) % N < ret
                     THEN published[s] + 1 + ((i - woff[s] + N) % N)
                     ELSE @[i]]]
        /\ ends' = [ends EXCEPT ![s] =
                     @ \cup {published[s] + k : k \in Newline(rec.len, ret)}]
        /\ rec' = [rec EXCEPT !.len = ret]
  /\ ppc' = [ppc EXCEPT ![t] = "add"]
  /\ UNCHANGED <<mutex, woff, published, consumer, pipe, named, faults>>

\* write_offset += ret.  The bytes are visible to the log thread from here.
AddOffset(t) ==
  /\ ~corrupt /\ ppc[t] = "add"
  /\ LET s == rec.s IN
       /\ woff' = [woff EXCEPT ![s] = @ + rec.len]
       /\ published' = [published EXCEPT ![s] = @ + rec.len]
  /\ ppc' = [ppc EXCEPT ![t] = "mod"]
  /\ UNCHANGED <<mutex, rec, buf, ends, consumer, pipe, named, faults>>

\* write_offset %= LOG_BUF_SIZE.
ModOffsetMissing(t) ==
  /\ ~corrupt /\ ppc[t] = "mod"
  /\ ppc' = [ppc EXCEPT ![t] = "wake"]
  /\ UNCHANGED <<mutex, rec, woff, buf, published, ends, consumer, pipe, named,
                 faults>>
ModOffset(t) ==
  /\ ~corrupt /\ ppc[t] = "mod"
  /\ woff' = [woff EXCEPT ![rec.s] = @ % N]
  /\ raced' = (raced \/ (woff[rec.s] >= N /\ lpc = "linear" /\ at = rec.s))
  /\ ppc' = [ppc EXCEPT ![t] = "wake"]
  /\ UNCHANGED <<mutex, rec, buf, published, ends, roff, lpc, at, file, corrupt,
                 pipe, named, faults>>

\* Write a byte to the pipe, whose write end does not block: when it is full
\* the byte is lost.  Release the mutex.
WakeLogOnly(t) ==
  /\ ~corrupt /\ ppc[t] = "wake"
  /\ pipe' = IF rec.s = "log" /\ pipe < PipeCap THEN pipe + 1 ELSE pipe
  /\ mutex' = NoThread
  /\ ppc' = [ppc EXCEPT ![t] = "idle"]
  /\ UNCHANGED <<rec, woff, buf, published, ends, consumer, named, faults>>
Wake(t) ==
  /\ ~corrupt /\ ppc[t] = "wake"
  /\ pipe' = IF pipe < PipeCap THEN pipe + 1 ELSE pipe
  /\ mutex' = NoThread
  /\ ppc' = [ppc EXCEPT ![t] = "idle"]
  /\ UNCHANGED <<rec, woff, buf, published, ends, consumer, named, faults>>

-----------------------------------------------------------------------------
(* log_thread_loop.                                                        *)

LogThreadAt(l) == ~corrupt /\ lpc = l

\* The log thread loads the write offset of its ring.
LoadWriteOffset == raced' = (raced \/ woff[at] >= N)

\* Go on with the other ring, or back to the pipe.
NextRing ==
  /\ lpc' = IF at = "log" THEN "test" ELSE "wait"
  /\ at' = IF at = "log" THEN "wf" ELSE "log"

\* fwrite takes n bytes from the read offset on, or, failing, fewer; then
\* read_offset += size.  A count below zero becomes a huge size_t: it leaves
\* the ring, as does one that passes its end.
Fwrite(n, then) ==
  \/ /\ n < 0 \/ roff[at] + n > N
     /\ corrupt' = TRUE
     /\ UNCHANGED <<roff, lpc, at, file, faults>>
  \/ /\ n >= 0 /\ roff[at] + n <= N
     /\ \E k \in 0..n :
          /\ k < n => faults < MaxFaults
          /\ faults' = IF k < n THEN faults + 1 ELSE faults
          /\ file' = [file EXCEPT ![at] =
                        @ \o [i \in 1..k |-> buf[at][roff[at] + i - 1]]]
          /\ roff' = [roff EXCEPT ![at] = @ + k]
     /\ lpc' = then
     /\ UNCHANGED <<at, corrupt>>

\* select and read: the pipe's read end blocks, so an empty pipe holds the
\* log thread whatever timeout select is given.  Then stat both log files and
\* open again those whose name is gone; an fopen that fails leaves the old one.
LogWakeOneFile ==
  /\ LogThreadAt("wait") /\ pipe > 0
  /\ pipe' = IF pipe > ReadMax THEN pipe - ReadMax ELSE 0
  /\ named' = [named EXCEPT !["log"] = TRUE]
  /\ lpc' = "test"
  /\ UNCHANGED <<producer, roff, at, file, corrupt, raced, faults>>
LogWake ==
  /\ LogThreadAt("wait") /\ pipe > 0
  /\ pipe' = IF pipe > ReadMax THEN pipe - ReadMax ELSE 0
  /\ \E failed \in SUBSET {s \in Streams : ~named[s]} :
       /\ faults + Cardinality(failed) <= MaxFaults
       /\ faults' = faults + Cardinality(failed)
       /\ named' = [s \in Streams |-> s \notin failed]
  /\ lpc' = "test"
  /\ UNCHANGED <<producer, roff, at, file, corrupt, raced>>

\* write_offset != read_offset, the first load of the write offset.
LogTest ==
  /\ LogThreadAt("test")
  /\ LoadWriteOffset
  /\ IF woff[at] # roff[at] THEN lpc' = "branch" /\ UNCHANGED at
     ELSE NextRing
  /\ UNCHANGED <<producer, roff, file, corrupt, pipe, named, faults>>

\* write_offset > read_offset, the second load.
LogBranch ==
  /\ LogThreadAt("branch")
  /\ LoadWriteOffset
  /\ lpc' = IF woff[at] > roff[at] THEN "linear" ELSE "tail"
  /\ UNCHANGED <<producer, roff, at, file, corrupt, pipe, named, faults>>

\* The third load: write up to the write offset.  After a tail the read
\* offset is meant to be zero.
LogWrite ==
  /\ LogThreadAt("linear") \/ LogThreadAt("head")
  /\ LoadWriteOffset
  /\ Fwrite(woff[at] - roff[at], "mod")
  /\ UNCHANGED <<producer, pipe, named>>

\* Of a ring that wrapped, first the part up to its end.
LogWriteTail ==
  /\ LogThreadAt("tail")
  /\ Fwrite(N - roff[at], "tailmod")
  /\ UNCHANGED <<producer, raced, pipe, named>>

\* read_offset %= LOG_BUF_SIZE.
LogTailModMissing ==
  /\ LogThreadAt("tailmod")
  /\ lpc' = "head"
  /\ UNCHANGED <<producer, roff, at, file, corrupt, raced, pipe, named, faults>>
LogTailMod ==
  /\ LogThreadAt("tailmod")
  /\ roff' = [roff EXCEPT ![at] = @ % N]
  /\ lpc' = "head"
  /\ UNCHANGED <<producer, at, file, corrupt, raced, pipe, named, faults>>
LogMod ==
  /\ LogThreadAt("mod")
  /\ roff' = [roff EXCEPT ![at] = @ % N]
  /\ NextRing
  /\ UNCHANGED <<producer, file, corrupt, raced, pipe, named, faults>>

\* Somebody moves or deletes a log file.
Rotate(s) ==
  /\ ~corrupt /\ named[s]
  /\ named' = [named EXCEPT ![s] = FALSE]
  /\ UNCHANGED <<producer, consumer, pipe, faults>>

-----------------------------------------------------------------------------
(* The specification.                                                      *)

Init ==
  /\ mutex = NoThread
  /\ ppc = [t \in Threads |-> "idle"]
  /\ rec = [s |-> "log", len |-> 0]
  /\ woff = [s \in Streams |-> 0]
  /\ roff = [s \in Streams |-> 0]
  /\ buf = [s \in Streams |-> [i \in 0..(N - 1) |-> 0]]
  /\ published = [s \in Streams |-> 0]
  /\ ends = [s \in Streams |-> {}]
  /\ pipe = 0
  /\ lpc = "wait" /\ at = "log"
  /\ file = [s \in Streams |-> <<>>]
  /\ named = [s \in Streams |-> TRUE]
  /\ faults = 0
  /\ corrupt = FALSE
  /\ raced = FALSE

InLogPrintf(t) == Copy(t) \/ AddOffset(t) \/ ModOffset(t) \/ Wake(t)

LogThread ==
  \/ LogWake \/ LogTest \/ LogBranch \/ LogWrite
  \/ LogWriteTail \/ LogTailMod \/ LogMod

Next ==
  \/ \E t \in Threads : LogPrintf(t) \/ InLogPrintf(t)
  \/ LogThread
  \/ \E s \in Streams : Rotate(s)

Spec == Init /\ [][Next]_vars

\* The scheduler runs every thread that can run.  No caller need log.
FairSpec ==
  /\ Spec
  /\ WF_vars(LogThread)
  /\ \A t \in Threads : WF_vars(InLogPrintf(t))

-----------------------------------------------------------------------------
(* Properties that hold.                                                   *)

TypeOK ==
  /\ mutex \in Threads \cup {NoThread}
  /\ ppc \in [Threads -> {"idle", "copy", "add", "mod", "wake"}]
  /\ rec \in [s : Streams, len : 0..MaxLen]
  /\ woff \in [Streams -> 0..(N + MaxLen - 1)]
  /\ roff \in [Streams -> 0..N]
  /\ buf \in [Streams -> [0..(N - 1) -> Nat]]
  /\ published \in [Streams -> 0..MaxBytes]
  /\ ends \in [Streams -> SUBSET (1..MaxBytes)]
  /\ pipe \in 0..PipeCap
  /\ lpc \in {"wait", "test", "branch", "linear", "tail", "tailmod", "head", "mod"}
  /\ at \in Streams
  /\ file \in [Streams -> Seq(Nat)]
  /\ named \in [Streams -> BOOLEAN]
  /\ faults \in 0..MaxFaults
  /\ corrupt \in BOOLEAN
  /\ raced \in BOOLEAN

\* As long as no write offset has wrapped under the log thread, what it wrote is every byte published, once, in order and unchanged, up
\* to its read offset; and the bytes after that are intact in the ring, where
\* log_printf, which computed the free space from a read offset that went on
\* growing, has not run over them.  Short writes change nothing of it.
NothingLostOrRepeated ==
  ~raced /\ ~corrupt => \A s \in Streams :
    /\ file[s] = [i \in 1..Len(file[s]) |-> i]
    /\ Len(file[s]) <= published[s]
    /\ roff[s] % N = Len(file[s]) % N
    /\ \A k \in (Len(file[s]) + 1)..published[s] : buf[s][(k - 1) % N] = k

\* The log thread passes fwrite a range outside the ring for two reasons
\* only: a write offset wrapped under it, or the tail of a wrapped ring was
\* not written whole.
LeavesRingWhy == corrupt => raced \/ faults > 0

\* A record cut to the free space still ends its line: between two calls of
\* log_printf, what a ring was given, and so what will be in the file once
\* it is drained, ends in a newline.
LinesEnd ==
  mutex = NoThread =>
    \A s \in Streams : published[s] = 0 \/ published[s] \in ends[s]

\* The log thread does not sleep on work: when it waits at an empty pipe and
\* nobody is about to write to the pipe, both rings are drained, though the
\* pipe may have been full and one read may have taken many wakeups.  (Only
\* a write that failed leaves bytes behind.)
NoLostWakeup ==
  lpc = "wait" /\ pipe = 0 /\ mutex = NoThread /\ faults = 0 =>
    woff = roff

\* Every byte log_printf published reaches the file, unless a write offset
\* wraps under the log thread (or a write fails).
Flushed ==
  \A s \in Streams, k \in 1..MaxBytes :
    published[s] >= k ~> Len(file[s]) >= k \/ raced

\* A log file that was moved away is opened again, once something is logged
\* to either ring.
RotationNoticed ==
  \A s \in Streams : ~named[s] /\ pipe > 0 ~> named[s] \/ raced

-----------------------------------------------------------------------------
(* What comments of the source say and the code does not do.               *)

\* "init the mutex for thread": the log thread sees the write offsets only
\* between two log_printfs; it writes no range outside the ring, and no byte
\* a second time.
FlushedFromRing ==
  ~corrupt /\ \A s \in Streams : Len(file[s]) <= published[s]

\* "check if file is moved or deleted", every LOG_SLEEP_TIME seconds.
RotationChecked ==
  \A s \in Streams : ~named[s] ~> named[s] \/ raced
=============================================================================
