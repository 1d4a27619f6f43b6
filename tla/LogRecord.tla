----------------------------- MODULE LogRecord -----------------------------
(***************************************************************************)
(* How log_printf builds a record (log.cpp).  Key/value pairs are pushed   *)
(* to a log_data_t, a list of chunks of _LOG_DATA_SIZE pairs each, whose   *)
(* first chunk points to the last.  log_printf writes a prefix, the file   *)
(* and line, the pairs and the message one after another into              *)
(* _log_temp_buf: after each snprintf it moves buf forward and takes the   *)
(* same from size, whatever the piece, and in the end it makes sure of a   *)
(* newline.  Characters are abstracted to lengths, and to whether the last *)
(* one written is a newline.  LogRing takes up the record from there.      *)
(***************************************************************************)
EXTENDS Integers, Sequences

CONSTANTS
  Size,       \* sizeof(_log_temp_buf)
  ChunkSize,  \* _LOG_DATA_SIZE
  Pairs,      \* what is pushed
  Lens,       \* what snprintf may return when it does not fail
  MaxPairs    \* bound: the pairs pushed to one log_data_t

ASSUME LogRecordAssumption ==
  /\ Size \in Nat /\ Size >= 2
  /\ ChunkSize \in Nat \ {0}
  /\ Lens \subseteq Nat
  /\ MaxPairs \in Nat

VARIABLES
  chunk,      \* the chunks made for the log_data_t, by address 1, 2, ...
  live,       \* those that are allocated
  tail,       \* ld->tail
  pc,         \* where log_printf is; "idle" and "freeing" outside of it
  pos, size,  \* buf - _log_temp_buf, and size
  nl,         \* the byte before buf is a newline
  cur, i,     \* the chunk and the index log_printf or log_data_free is at
  given,      \* log_printf was given the log_data_t
  pushed,     \* history: the pairs pushed to ld, in order
  seen        \* history: the pairs written to the record, in order

list == <<chunk, live, tail, pushed>>
record == <<pos, size, nl, seen, given>>
vars == <<list, record, pc, cur, i>>

-----------------------------------------------------------------------------
(* log_data_t.                                                             *)

NewChunk(ps) == [pairs |-> ps, next |-> 0]

LogDataNew ==
  /\ pc = "idle" /\ live = {}
  /\ chunk' = <<NewChunk(<<>>)>>
  /\ live' = {1}
  /\ tail' = 1
  /\ pushed' = <<>>
  /\ UNCHANGED <<record, pc, cur, i>>

\* _PUSH: a full last chunk gets a successor.
PushTailStays(x) ==
  /\ pc = "idle" /\ live # {} /\ Len(pushed) < MaxPairs
  /\ pushed' = Append(pushed, x)
  /\ IF Len(chunk[tail].pairs) >= ChunkSize
     THEN /\ chunk' = Append([chunk EXCEPT ![tail].next = Len(chunk) + 1],
                             NewChunk(<<x>>))
          /\ live' = live \cup {Len(chunk) + 1}
     ELSE /\ chunk' = [chunk EXCEPT ![tail].pairs = Append(@, x)]
          /\ UNCHANGED live
  /\ UNCHANGED <<record, pc, cur, i, tail>>
Push(x) ==
  /\ pc = "idle" /\ live # {} /\ Len(pushed) < MaxPairs
  /\ pushed' = Append(pushed, x)
  /\ IF Len(chunk[tail].pairs) >= ChunkSize
     THEN /\ chunk' = Append([chunk EXCEPT ![tail].next = Len(chunk) + 1],
                             NewChunk(<<x>>))
          /\ live' = live \cup {Len(chunk) + 1}
          /\ tail' = Len(chunk) + 1
     ELSE /\ chunk' = [chunk EXCEPT ![tail].pairs = Append(@, x)]
          /\ UNCHANGED <<live, tail>>
  /\ UNCHANGED <<record, pc, cur, i>>

LogDataFree ==
  /\ pc = "idle" /\ live # {}
  /\ pc' = "freeing" /\ cur' = 1
  /\ UNCHANGED <<list, record, i>>

\* One round of the loop of log_data_free, or its end.
FreeChunk ==
  /\ pc = "freeing"
  /\ IF cur # 0
     THEN /\ live' = live \ {cur}
          /\ cur' = chunk[cur].next
          /\ UNCHANGED pc
     ELSE pc' = "idle" /\ UNCHANGED <<live, cur>>
  /\ UNCHANGED <<chunk, tail, pushed, record, i>>

-----------------------------------------------------------------------------
(* log_printf, up to the copy to the ring.                                 *)

\* How far buf moves after snprintf returned ret.
ClampFull(ret) == IF ret < 0 THEN 0 ELSE IF ret >= size THEN size ELSE ret
ClampLargeOnly(ret) == IF ret >= size THEN size - 1 ELSE ret
Clamp(ret) == IF ret < 0 THEN 0 ELSE IF ret >= size THEN size - 1 ELSE ret

\* snprintf of a piece; buf and size move on.
Snprintf ==
  \E ret \in Lens \cup {-1} :
    /\ pos' = pos + Clamp(ret)
    /\ size' = size - Clamp(ret)
    /\ \E b \in BOOLEAN : nl' = IF Clamp(ret) > 0 THEN b ELSE nl

\* log_printf is called with the log_data_t, or with none.
LogPrintf ==
  /\ pc = "idle"
  /\ pos' = 0 /\ size' = Size /\ nl' = FALSE /\ seen' = <<>>
  /\ given' \in {FALSE, live # {}}
  /\ cur' = IF given' THEN 1 ELSE 0
  /\ i' = 1
  /\ pc' = "prefix"
  /\ UNCHANGED list

Prefix ==
  /\ pc = "prefix"
  /\ Snprintf
  /\ pc' \in {"fileline", "pairs"}
  /\ UNCHANGED <<list, seen, given, cur, i>>

FileLine ==
  /\ pc = "fileline"
  /\ Snprintf
  /\ pc' = "pairs"
  /\ UNCHANGED <<list, seen, given, cur, i>>

\* A pair of the chunk.
Pair ==
  /\ pc = "pairs" /\ cur # 0 /\ i <= Len(chunk[cur].pairs)
  /\ Snprintf
  /\ seen' = Append(seen, chunk[cur].pairs[i])
  /\ i' = i + 1
  /\ UNCHANGED <<list, given, pc, cur>>

\* The next chunk.
NextChunkKeepsIndex ==
  /\ pc = "pairs" /\ cur # 0 /\ i > Len(chunk[cur].pairs)
  /\ cur' = chunk[cur].next
  /\ UNCHANGED <<list, record, pc, i>>
NextChunk ==
  /\ pc = "pairs" /\ cur # 0 /\ i > Len(chunk[cur].pairs)
  /\ cur' = chunk[cur].next
  /\ i' = 1
  /\ UNCHANGED <<list, record, pc>>

\* "msg=", once no chunk is left.
Msg ==
  /\ pc = "pairs" /\ cur = 0
  /\ Snprintf
  /\ pc' = "format"
  /\ UNCHANGED <<list, seen, given, cur, i>>

Format ==
  /\ pc = "format"
  /\ Snprintf
  /\ pc' = "end"
  /\ UNCHANGED <<list, seen, given, cur, i>>

\* "]\n", as much of it as fits; then the byte before buf becomes a newline.
EndNoNewline ==
  /\ pc = "end"
  /\ pos' = pos + Clamp(2)
  /\ size' = size - Clamp(2)
  /\ nl' = IF Clamp(2) = 0 THEN nl ELSE Clamp(2) = 2
  /\ pc' = "done"
  /\ UNCHANGED <<list, seen, given, cur, i>>
End ==
  /\ pc = "end"
  /\ pos' = pos + Clamp(2)
  /\ size' = size - Clamp(2)
  /\ nl' = TRUE
  /\ pc' = "done"
  /\ UNCHANGED <<list, seen, given, cur, i>>

\* The record of pos bytes goes to a ring.
Done ==
  /\ pc = "done"
  /\ pc' = "idle"
  /\ UNCHANGED <<list, record, cur, i>>

-----------------------------------------------------------------------------
(* The specification.                                                      *)

Init ==
  /\ chunk = <<>> /\ live = {} /\ tail = 0 /\ pushed = <<>>
  /\ pc = "idle"
  /\ pos = 0 /\ size = Size /\ nl = FALSE /\ seen = <<>> /\ given = FALSE
  /\ cur = 0 /\ i = 1

Next ==
  \/ LogDataNew \/ LogDataFree \/ FreeChunk
  \/ \E x \in Pairs : Push(x)
  \/ LogPrintf \/ Prefix \/ FileLine \/ Pair \/ NextChunk
  \/ Msg \/ Format \/ End \/ Done

Spec == Init /\ [][Next]_vars

-----------------------------------------------------------------------------
(* Properties.                                                             *)

TypeOK ==
  /\ chunk \in Seq([pairs : Seq(Pairs), next : Nat])
  /\ live \subseteq 1..Len(chunk)
  /\ tail \in 0..Len(chunk)
  /\ pc \in {"idle", "freeing", "prefix", "fileline", "pairs", "format", "end",
             "done"}
  /\ pos \in Nat /\ size \in Nat /\ nl \in BOOLEAN /\ given \in BOOLEAN
  /\ cur \in 0..Len(chunk) /\ i \in Nat \ {0}
  /\ pushed \in Seq(Pairs) /\ seen \in Seq(Pairs)

\* No snprintf is given room beyond the end of _log_temp_buf, however many
\* pieces were cut before: buf and size always add up to the buffer, and a
\* byte is left for the terminating zero.
RoomAccounted == pos + size = Size /\ size > 0

\* Every record has at least one byte, leaves one free, and ends in a
\* newline, so buf - 1 is never before the buffer.  LogRing relies on it.
RecordEndsLine == pc = "done" => pos \in 1..(Size - 1) /\ nl

\* A log_data_t is walked whole and in order: what was written at any time
\* are the pairs pushed first, across all chunks, and all of them when the
\* walk is over.
PairsInOrder ==
  /\ pc = "pairs" /\ given =>
       Len(seen) <= Len(pushed) /\ seen = SubSeq(pushed, 1, Len(seen))
  /\ pc \in {"format", "end", "done"} => seen = IF given THEN pushed ELSE <<>>

\* log_data_free frees every chunk, each once.
AllFreed ==
  pc = "freeing" => IF cur = 0 THEN live = {} ELSE cur \in live
=============================================================================
