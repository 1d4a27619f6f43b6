-------------------------- MODULE LogRecordProofs --------------------------
(***************************************************************************)
(* Proofs about LogRecord: whatever the pieces of a record and wherever   *)
(* they are cut, no snprintf is given room beyond _log_temp_buf, and the   *)
(* record ends in a newline; the list of pairs plays no part in it.  And   *)
(* whatever the size of a chunk, the list is walked whole and in order,    *)
(* and freed whole.                                                        *)
(***************************************************************************)
EXTENDS LogRecord, SequenceTheorems, TLAPS

USE LogRecordAssumption

\* The accounting of buf and size, whatever the pieces were.
BufInv ==
  /\ pos \in Nat /\ size \in Nat /\ nl \in BOOLEAN
  /\ RoomAccounted
  /\ RecordEndsLine

-----------------------------------------------------------------------------

\* What one snprintf moves buf by.
LEMMA ClampBounds ==
  ASSUME NEW ret \in Int, size \in Nat, size > 0
  PROVE  Clamp(ret) \in 0..(size - 1)
BY SMT DEF Clamp

\* What the last snprintf, of the newline, moves buf by.
LEMMA ClampEnd ==
  ASSUME size \in Nat, size > 0
  PROVE  Clamp(2) = IF size > 2 THEN 2 ELSE size - 1
BY SMT DEF Clamp

\* A piece, cut or not, keeps the accounting.
LEMMA SnprintfKeepsRoom ==
  ASSUME pos \in Nat, size \in Nat, nl \in BOOLEAN, RoomAccounted, Snprintf
  PROVE  pos' \in Nat /\ size' \in Nat /\ nl' \in BOOLEAN /\ RoomAccounted'
<1>1. PICK ret \in Lens \cup {-1} :
        /\ pos' = pos + Clamp(ret)
        /\ size' = size - Clamp(ret)
        /\ \E b \in BOOLEAN : nl' = IF Clamp(ret) > 0 THEN b ELSE nl
  BY DEF Snprintf
<1>2. Clamp(ret) \in 0..(size - 1)
  BY ClampBounds DEF RoomAccounted
<1>3. nl' \in BOOLEAN
  <2>1. PICK b \in BOOLEAN : nl' = IF Clamp(ret) > 0 THEN b ELSE nl
    BY <1>1
  <2>2. CASE Clamp(ret) > 0
    BY <2>1, <2>2
  <2>3. CASE ~(Clamp(ret) > 0)
    BY <2>1, <2>3
  <2> QED BY <2>2, <2>3
<1>4. pos' \in Nat /\ size' \in Nat /\ pos' + size' = Size /\ size' > 0
  BY <1>1, <1>2, SMT DEF RoomAccounted
<1> QED BY <1>3, <1>4 DEF RoomAccounted

\* An empty record, as log_printf starts one.
LEMMA EmptyRecord ==
  ASSUME pos = 0, size = Size, nl = FALSE, pc # "done"
  PROVE  BufInv
<1>1. pos \in Nat /\ size \in Nat /\ pos + size = Size /\ size > 0
  BY SMT
<1>2. nl \in BOOLEAN
  BY Zenon
<1> QED BY <1>1, <1>2 DEF BufInv, RoomAccounted, RecordEndsLine

\* The accounting holds at first, and every step keeps it.
LEMMA BufInit == Init => BufInv
<1> SUFFICES ASSUME Init PROVE BufInv
  OBVIOUS
<1>1. pos = 0 /\ size = Size /\ nl = FALSE /\ pc = "idle"
  BY DEF Init
<1> QED BY <1>1, EmptyRecord

\* Only snprintf, the newline and a new record touch it.
LEMMA BufStep == BufInv /\ [Next]_vars => BufInv'
<1> SUFFICES ASSUME BufInv, [Next]_vars PROVE BufInv'
  OBVIOUS
<1> USE DEF BufInv
<1>1. CASE Prefix \/ FileLine \/ Pair \/ Msg \/ Format
  <2>1. Snprintf
    BY <1>1 DEF Prefix, FileLine, Pair, Msg, Format
  <2>2. pc' # "done"
    BY <1>1 DEF Prefix, FileLine, Pair, Msg, Format
  <2> QED BY <2>1, <2>2, SnprintfKeepsRoom DEF RecordEndsLine
<1>2. CASE End
  <2>1. /\ pos' = pos + Clamp(2) /\ size' = size - Clamp(2) /\ nl' = TRUE
    BY <1>2 DEF End
  <2>2. Clamp(2) = IF size > 2 THEN 2 ELSE size - 1
    BY ClampEnd DEF RoomAccounted
  <2>3. pos' \in 1..(Size - 1) /\ size' \in Nat /\ pos' + size' = Size /\ size' > 0
    BY <2>1, <2>2, SMT DEF RoomAccounted
  <2>4. pos' \in Nat
    BY <2>3, SMT
  <2> QED BY <2>1, <2>3, <2>4 DEF RoomAccounted, RecordEndsLine
<1>3. CASE LogPrintf
  <2>1. pos' = 0 /\ size' = Size /\ nl' = FALSE /\ pc' = "prefix"
    BY <1>3 DEF LogPrintf
  <2>2. pos' \in Nat /\ size' \in Nat /\ pos' + size' = Size /\ size' > 0
    BY <2>1, SMT
  <2>3. nl' \in BOOLEAN
    BY <2>1, Zenon
  <2> QED BY <2>1, <2>2, <2>3 DEF RoomAccounted, RecordEndsLine
<1>4. CASE \/ LogDataNew \/ LogDataFree \/ FreeChunk \/ NextChunk \/ Done
           \/ (\E x \in Pairs : Push(x)) \/ UNCHANGED vars
  <2>1. UNCHANGED <<pos, size, nl>> /\ (pc' = "done" => pc = "done")
    BY <1>4 DEF LogDataNew, LogDataFree, FreeChunk, NextChunk, Done, Push,
                record, vars
  <2> QED BY <2>1 DEF RoomAccounted, RecordEndsLine
<1> QED BY <1>1, <1>2, <1>3, <1>4 DEF Next

-----------------------------------------------------------------------------
(* The list of chunks.                                                     *)

Chunks == [pairs : Seq(Pairs), next : Nat]

\* Each chunk points to the one after it, and tail is the last.
Chained ==
  /\ tail = Len(chunk)
  /\ \A k \in 1..Len(chunk) : chunk[k].next = IF k = Len(chunk) THEN 0 ELSE k + 1

\* start[k] pairs were pushed before the first of chunk k; so log_printf, at
\* the i-th pair of chunk cur, has written start[cur] + i - 1.
Starts(start) ==
  /\ start[1] = 0 /\ start[Len(chunk) + 1] = Len(pushed)
  /\ \A k \in 1..Len(chunk) : start[k + 1] = start[k] + Len(chunk[k].pairs)
  /\ \A k \in 1..Len(chunk) : \A j \in 1..Len(chunk[k].pairs) :
       pushed[start[k] + j] = chunk[k].pairs[j]
  /\ pc = "pairs" /\ cur # 0 =>
       i <= Len(chunk[cur].pairs) + 1 /\ Len(seen) = start[cur] + i - 1

Ordered == \E start \in [1..(Len(chunk) + 1) -> 0..Len(pushed)] : Starts(start)

\* What is allocated: all of it or nothing, or what log_data_free has left.
Freeing ==
  /\ pc = "freeing" => live = IF cur = 0 THEN {} ELSE cur..Len(chunk)
  /\ pc # "freeing" => live = {} \/ live = 1..Len(chunk)

\* Where the walk is, and what it has written.
Walk ==
  /\ pc \notin {"freeing", "prefix", "fileline", "pairs"} => cur = 0
  /\ pc \in {"prefix", "fileline"} =>
       seen = <<>> /\ i = 1 /\ cur = IF given THEN 1 ELSE 0
  /\ pc \in {"prefix", "fileline", "pairs"} /\ given => chunk # <<>>
  /\ pc \in {"prefix", "fileline", "pairs"} /\ ~given => seen = <<>> /\ cur = 0
  /\ pc = "pairs" /\ given =>
       /\ \A n \in 1..Len(seen) : seen[n] = pushed[n]
       /\ cur = 0 => Len(seen) = Len(pushed)
  /\ pc \in {"format", "end", "done"} => seen = IF given THEN pushed ELSE <<>>

IInv ==
  /\ BufInv
  /\ TypeOK
  /\ Chained
  /\ Ordered
  /\ Freeing
  /\ Walk

\* A chunk is pushed to, or one is added.
LEMMA PushFacts ==
  ASSUME TypeOK, Chained, Freeing, NEW x \in Pairs, Push(x)
  PROVE  /\ pushed' = Append(pushed, x) /\ pc = "idle" /\ pc' = "idle"
         /\ UNCHANGED <<record, cur, i>>
         /\ chunk' \in Seq(Chunks) /\ Len(chunk) \in Nat \ {0}
         /\ live = 1..Len(chunk) /\ live' = 1..Len(chunk')
         /\ Chained'
         /\ \/ /\ Len(chunk') = Len(chunk) + 1
               /\ \A k \in 1..Len(chunk) : chunk'[k].pairs = chunk[k].pairs
               /\ chunk'[Len(chunk) + 1].pairs = <<x>>
            \/ /\ Len(chunk') = Len(chunk)
               /\ \A k \in 1..Len(chunk) : k # Len(chunk) => chunk'[k] = chunk[k]
               /\ chunk'[Len(chunk)].pairs = Append(chunk[Len(chunk)].pairs, x)
<1>1. /\ pc = "idle" /\ live # {} /\ pushed' = Append(pushed, x)
      /\ UNCHANGED <<record, pc, cur, i>>
  BY DEF Push
<1>2. /\ Len(chunk) \in Nat \ {0} /\ tail = Len(chunk) /\ tail \in 1..Len(chunk)
      /\ live = 1..Len(chunk) /\ chunk \in Seq(Chunks) /\ chunk[tail] \in Chunks
  <2>1. chunk \in Seq(Chunks)
    BY DEF TypeOK, Chunks
  <2>2. live = 1..Len(chunk) /\ tail = Len(chunk)
    BY <1>1 DEF Chained, Freeing
  <2>3. Len(chunk) \in Nat \ {0}
    BY <1>1, <2>1, <2>2
  <2>4. tail \in 1..Len(chunk)
    BY <2>2, <2>3
  <2>5. chunk[tail] \in Chunks
    BY <2>1, <2>4, ElementOfSeq
  <2> QED BY <2>1, <2>2, <2>3, <2>4, <2>5
<1>3. CASE Len(chunk[tail].pairs) >= ChunkSize
  <2>1. /\ chunk' = Append([chunk EXCEPT ![tail].next = Len(chunk) + 1],
                           NewChunk(<<x>>))
        /\ live' = live \cup {Len(chunk) + 1} /\ tail' = Len(chunk) + 1
    BY <1>3 DEF Push
  <2>2. PICK c : c = [chunk[tail] EXCEPT !.next = Len(chunk) + 1]
    OBVIOUS
  <2>3. c \in Chunks /\ c.pairs = chunk[tail].pairs /\ c.next = Len(chunk) + 1
    <3>1. chunk[tail].pairs \in Seq(Pairs) /\ Len(chunk) + 1 \in Nat
      BY <1>2 DEF Chunks
    <3>2. c = [pairs |-> chunk[tail].pairs, next |-> Len(chunk) + 1]
      BY <1>2, <2>2 DEF Chunks
    <3> QED BY <3>1, <3>2 DEF Chunks
  <2>4. PICK d : d = [chunk EXCEPT ![tail] = c]
    OBVIOUS
  <2>5. chunk' = Append(d, NewChunk(<<x>>))
    BY <2>1, <2>2, <2>4
  <2>6. /\ d \in Seq(Chunks) /\ Len(d) = Len(chunk) /\ d[tail] = c
        /\ \A k \in 1..Len(chunk) : k # tail => d[k] = chunk[k]
    BY <1>2, <2>3, <2>4, ExceptSeq
  <2>7. NewChunk(<<x>>) \in Chunks
    BY DEF NewChunk, Chunks
  <2>8. /\ chunk' \in Seq(Chunks) /\ Len(chunk') = Len(chunk) + 1
        /\ \A k \in 1..Len(chunk) : chunk'[k] = d[k]
        /\ chunk'[Len(chunk) + 1] = NewChunk(<<x>>)
    BY <2>5, <2>6, <2>7, AppendProperties
  <2>9. /\ \A k \in 1..Len(chunk) : chunk'[k].pairs = chunk[k].pairs
        /\ chunk'[Len(chunk) + 1].pairs = <<x>>
        /\ chunk'[Len(chunk) + 1].next = 0
        /\ chunk'[Len(chunk)].next = Len(chunk) + 1
        /\ \A k \in 1..Len(chunk) : k # Len(chunk) => chunk'[k].next = chunk[k].next
    BY <1>2, <2>3, <2>6, <2>8 DEF NewChunk
  <2>10. Chained'
    BY <1>2, <2>1, <2>8, <2>9 DEF Chained
  <2>11. live' = 1..Len(chunk')
    BY <1>2, <2>1, <2>8
  <2> QED BY <1>1, <1>2, <2>8, <2>9, <2>10, <2>11
<1>4. CASE ~(Len(chunk[tail].pairs) >= ChunkSize)
  <2>1. /\ chunk' = [chunk EXCEPT ![tail].pairs = Append(@, x)]
        /\ UNCHANGED <<live, tail>>
    BY <1>4 DEF Push
  <2>2. PICK c : c = [chunk[tail] EXCEPT !.pairs = Append(chunk[tail].pairs, x)]
    OBVIOUS
  <2>3. /\ c \in Chunks /\ c.pairs = Append(chunk[tail].pairs, x)
        /\ c.next = chunk[tail].next
    <3>1. Append(chunk[tail].pairs, x) \in Seq(Pairs)
      BY <1>2, AppendProperties DEF Chunks
    <3> QED BY <1>2, <2>2, <3>1 DEF Chunks
  <2>4. chunk' = [chunk EXCEPT ![tail] = c]
    BY <2>1, <2>2
  <2>5. /\ chunk' \in Seq(Chunks) /\ Len(chunk') = Len(chunk) /\ chunk'[tail] = c
        /\ \A k \in 1..Len(chunk) : k # tail => chunk'[k] = chunk[k]
    BY <1>2, <2>3, <2>4, ExceptSeq
  <2>6. Chained'
    BY <1>2, <2>1, <2>3, <2>5 DEF Chained
  <2> QED BY <1>1, <1>2, <2>1, <2>3, <2>5, <2>6
<1> QED BY <1>3, <1>4

\* log_data_t plays no part in the steps of log_printf, and chunks stay as
\* they are when log_data_free frees them.
LEMMA ListFrame ==
  ASSUME [Next]_vars, ~ LogDataNew, ~ \E x \in Pairs : Push(x)
  PROVE  /\ UNCHANGED <<chunk, tail, pushed>>
         /\ ~ FreeChunk => UNCHANGED live
<1>1. CASE LogDataFree \/ FreeChunk
  BY <1>1 DEF LogDataFree, FreeChunk, list
<1>2. CASE LogPrintf \/ Prefix \/ FileLine \/ Pair
  BY <1>2 DEF LogPrintf, Prefix, FileLine, Pair, list
<1>3. CASE NextChunk \/ Msg \/ Format \/ End \/ Done
  BY <1>3 DEF NextChunk, Msg, Format, End, Done, list
<1>4. CASE UNCHANGED vars
  BY <1>4 DEF vars, list
<1> QED BY <1>1, <1>2, <1>3, <1>4 DEF Next

\* Where the walk goes from the end of a chunk.
LEMMA NextFacts ==
  ASSUME TypeOK, Chained, cur # 0
  PROVE  /\ cur \in 1..Len(chunk) /\ chunk[cur].next \in 0..Len(chunk)
         /\ chunk[cur].next = IF cur = Len(chunk) THEN 0 ELSE cur + 1
         /\ chunk[cur].pairs \in Seq(Pairs)
<1>1. cur \in 1..Len(chunk) /\ Len(chunk) \in Nat
  BY DEF TypeOK
<1>2. chunk[cur].next = IF cur = Len(chunk) THEN 0 ELSE cur + 1
  BY <1>1 DEF Chained
<1>3. chunk[cur].pairs \in Seq(Pairs)
  <2>1. chunk[cur] \in Chunks
    BY <1>1, ElementOfSeq DEF TypeOK, Chunks
  <2> QED BY <2>1 DEF Chunks
<1> QED BY <1>1, <1>2, <1>3

\* A list that is allocated has a first chunk to find.
LEMMA NotEmpty ==
  ASSUME TypeOK
  PROVE  live # {} => 1 \in 0..Len(chunk)
<1>1. Len(chunk) \in Nat /\ live \subseteq 1..Len(chunk)
  BY DEF TypeOK
<1>2. ASSUME live # {} PROVE 1 \in 0..Len(chunk)
  <2>1. PICK k : k \in live
    BY <1>2
  <2>2. k \in 1..Len(chunk)
    BY <1>1, <2>1
  <2> QED BY <1>1, <2>2
<1> QED BY <1>2

\* A new log_data_t has an empty chunk.
LEMMA NewFacts ==
  ASSUME LogDataNew
  PROVE  /\ chunk' = <<NewChunk(<<>>)>> /\ chunk' \in Seq(Chunks) /\ Len(chunk') = 1
         /\ chunk'[1].pairs = <<>> /\ chunk'[1].next = 0
         /\ live' = {1} /\ live' = 1..Len(chunk') /\ tail' = 1 /\ pushed' = <<>>
         /\ UNCHANGED <<record, pc, cur, i>> /\ pc = "idle"
<1>1. /\ chunk' = <<NewChunk(<<>>)>> /\ live' = {1} /\ tail' = 1 /\ pushed' = <<>>
      /\ UNCHANGED <<record, pc, cur, i>> /\ pc = "idle"
  BY DEF LogDataNew
<1>2. NewChunk(<<>>) \in Chunks
  BY DEF NewChunk, Chunks
<1>3. chunk' \in Seq(Chunks) /\ Len(chunk') = 1 /\ chunk'[1] = NewChunk(<<>>)
  BY <1>1, <1>2
<1>4. {1} = 1..1
  OBVIOUS
<1> QED BY <1>1, <1>3, <1>4 DEF NewChunk

\* Only _PUSH links chunks, and only behind the last.
LEMMA ChainedStep ==
  ASSUME TypeOK, Chained, Freeing, [Next]_vars
  PROVE  Chained'
<1>1. CASE LogDataNew
  BY <1>1, NewFacts DEF Chained
<1>2. CASE \E x \in Pairs : Push(x)
  BY <1>2, PushFacts
<1>3. CASE (~ LogDataNew) /\ ~ \E x \in Pairs : Push(x)
  <2>1. UNCHANGED <<chunk, tail>>
    BY <1>3, ListFrame
  <2> QED BY <2>1 DEF Chained
<1> QED BY <1>1, <1>2, <1>3

\* log_data_free leaves the chunks not yet walked.
LEMMA FreeingStep ==
  ASSUME TypeOK, Chained, Freeing, Walk, [Next]_vars
  PROVE  Freeing'
<1>1. CASE LogDataNew
  BY <1>1, NewFacts DEF Freeing
<1>2. CASE \E x \in Pairs : Push(x)
  BY <1>2, PushFacts DEF Freeing
<1>3. CASE LogDataFree
  BY <1>3 DEF LogDataFree, Freeing, list
<1>4. CASE FreeChunk
  <2>1. UNCHANGED chunk /\ Len(chunk) \in Nat
    BY <1>4 DEF FreeChunk, TypeOK
  <2>2. CASE cur = 0
    BY <1>4, <2>1, <2>2 DEF FreeChunk, Freeing
  <2>3. CASE cur # 0
    <3>1. live' = live \ {cur} /\ cur' = chunk[cur].next /\ pc' = "freeing"
      BY <1>4, <2>3 DEF FreeChunk
    <3>2. live = cur..Len(chunk)
      BY <1>4, <2>3 DEF FreeChunk, Freeing
    <3>3. /\ cur \in 1..Len(chunk)
          /\ cur' = IF cur = Len(chunk) THEN 0 ELSE cur + 1
      BY <2>3, <3>1, NextFacts
    <3>4. live' = IF cur' = 0 THEN {} ELSE cur'..Len(chunk)
      BY <2>1, <3>1, <3>2, <3>3
    <3> QED BY <2>1, <3>1, <3>4 DEF Freeing
  <2> QED BY <2>2, <2>3
<1>5. CASE \/ LogPrintf \/ Prefix \/ FileLine \/ Pair \/ NextChunk \/ Msg \/ Format
           \/ End \/ Done \/ UNCHANGED vars
  <2>1. /\ UNCHANGED <<chunk, live>>
        /\ pc' = "freeing" <=> pc = "freeing"
        /\ pc = "freeing" => UNCHANGED cur
    BY <1>5 DEF LogPrintf, Prefix, FileLine, Pair, NextChunk, Msg, Format, End, Done,
                vars, list
  <2> QED BY <2>1 DEF Freeing
<1> QED BY <1>1, <1>2, <1>3, <1>4, <1>5 DEF Next

\* What writing a pair does.
LEMMA PairFacts ==
  ASSUME TypeOK, Chained, Walk, Pair
  PROVE  /\ cur \in 1..Len(chunk) /\ i \in 1..Len(chunk[cur].pairs) /\ given
         /\ chunk[cur].pairs[i] \in Pairs
         /\ seen' = Append(seen, chunk[cur].pairs[i]) /\ i' = i + 1
         /\ pc = "pairs" /\ UNCHANGED <<list, given, pc, cur>>
<1>1. /\ pc = "pairs" /\ cur # 0 /\ i <= Len(chunk[cur].pairs)
      /\ seen' = Append(seen, chunk[cur].pairs[i]) /\ i' = i + 1
      /\ UNCHANGED <<list, given, pc, cur>>
  BY DEF Pair
<1>2. cur \in 1..Len(chunk) /\ chunk[cur].pairs \in Seq(Pairs)
  BY <1>1, NextFacts
<1>3. i \in 1..Len(chunk[cur].pairs)
  BY <1>1, <1>2 DEF TypeOK
<1>4. chunk[cur].pairs[i] \in Pairs
  BY <1>2, <1>3, ElementOfSeq
<1>5. given
  BY <1>1 DEF Walk
<1> QED BY <1>1, <1>2, <1>3, <1>4, <1>5

\* Every step keeps the types.
LEMMA TypeStep ==
  ASSUME BufInv', TypeOK, Chained, Chained', Freeing, Freeing', Walk, [Next]_vars
  PROVE  TypeOK'
<1>0. pos' \in Nat /\ size' \in Nat /\ nl' \in BOOLEAN
  BY DEF BufInv
<1>1. /\ chunk' \in Seq(Chunks) /\ live' \subseteq 1..Len(chunk')
      /\ tail' \in 0..Len(chunk') /\ pushed' \in Seq(Pairs)
      /\ Len(chunk') \in Nat /\ cur \in 0..Len(chunk')
  <2>0. chunk \in Seq(Chunks) /\ Len(chunk) \in Nat
    BY DEF TypeOK, Chunks
  <2>1. CASE LogDataNew
    <3>1. cur = 0
      BY <2>1 DEF LogDataNew, Walk
    <3> QED BY <2>1, <3>1, NewFacts
  <2>2. ASSUME NEW x \in Pairs, Push(x)
        PROVE  /\ chunk' \in Seq(Chunks) /\ live' \subseteq 1..Len(chunk')
               /\ tail' \in 0..Len(chunk') /\ pushed' \in Seq(Pairs)
               /\ Len(chunk') \in Nat /\ cur \in 0..Len(chunk')
    <3>1. pushed' \in Seq(Pairs)
      <4>1. pushed' = Append(pushed, x) /\ pushed \in Seq(Pairs)
        BY <2>2, PushFacts DEF TypeOK
      <4> QED BY <4>1, AppendProperties
    <3>2. chunk' \in Seq(Chunks) /\ live' = 1..Len(chunk') /\ Chained'
      BY <2>2, PushFacts
    <3>3. Len(chunk') = Len(chunk) + 1 \/ Len(chunk') = Len(chunk)
      BY <2>2, PushFacts
    <3>4. cur \in 0..Len(chunk') /\ Len(chunk') \in Nat
      BY <2>0, <3>3 DEF TypeOK
    <3>5. tail' \in 0..Len(chunk')
      BY <3>2, <3>4 DEF Chained
    <3> QED BY <3>1, <3>2, <3>4, <3>5
  <2>3. CASE (~ LogDataNew) /\ ~ \E x \in Pairs : Push(x)
    <3>1. UNCHANGED <<chunk, tail, pushed>>
      BY <2>3, ListFrame
    <3>2. live' \subseteq live
      BY <2>3, ListFrame DEF FreeChunk
    <3> QED BY <2>0, <3>1, <3>2 DEF TypeOK
  <2> QED BY <2>1, <2>2, <2>3
<1>2. /\ pc' \in {"idle", "freeing", "prefix", "fileline", "pairs", "format",
                  "end", "done"}
      /\ cur' \in 0..Len(chunk')
      /\ i' \in Nat \ {0}
  <2> DEFINE Q == /\ pc' \in {"idle", "freeing", "prefix", "fileline", "pairs",
                              "format", "end", "done"}
                  /\ cur' \in 0..Len(chunk')
                  /\ i' \in Nat \ {0}
  <2>1. CASE \/ LogDataNew \/ (\E x \in Pairs : Push(x)) \/ Prefix \/ FileLine
             \/ Msg \/ Format \/ End \/ Done \/ UNCHANGED vars
    <3>1. UNCHANGED <<cur, i>> /\ pc' \in {pc, "idle", "fileline", "pairs", "format",
                                           "end", "done"}
      BY <2>1 DEF LogDataNew, Push, Prefix, FileLine, Msg, Format, End, Done, vars
    <3> QED BY <1>1, <3>1 DEF TypeOK
  <2>2. CASE LogDataFree
    <3>1. live # {} /\ UNCHANGED <<chunk, i>> /\ pc' = "freeing" /\ cur' = 1
      BY <2>2 DEF LogDataFree, list
    <3>2. 1 \in 0..Len(chunk)
      BY <3>1, NotEmpty
    <3> QED BY <3>1, <3>2 DEF TypeOK
  <2>3. CASE FreeChunk
    <3>1. /\ UNCHANGED <<chunk, i>> /\ pc' \in {"freeing", "idle"}
          /\ (cur # 0 /\ cur' = chunk[cur].next) \/ cur' = cur
      BY <2>3 DEF FreeChunk
    <3> QED BY <1>1, <3>1, NextFacts DEF TypeOK
  <2>4. CASE LogPrintf
    <3>1. /\ given' \in {FALSE, live # {}} /\ cur' = IF given' THEN 1 ELSE 0
          /\ i' = 1 /\ pc' = "prefix" /\ UNCHANGED chunk
      BY <2>4 DEF LogPrintf, list
    <3>2. given' => live # {}
      BY <3>1, Zenon
    <3>3. cur' = 0 \/ (cur' = 1 /\ live # {})
      BY <3>1, <3>2
    <3>4. cur' \in 0..Len(chunk)
      BY <3>3, NotEmpty
    <3> QED BY <3>1, <3>4
  <2>5. CASE Pair
    <3>1. UNCHANGED <<pc, cur>> /\ i' = i + 1
      BY <2>5 DEF Pair
    <3> QED BY <1>1, <3>1 DEF TypeOK
  <2>6. CASE NextChunk
    <3>1. cur # 0 /\ cur' = chunk[cur].next /\ i' = 1 /\ UNCHANGED <<chunk, pc>>
      BY <2>6 DEF NextChunk, list
    <3> QED BY <3>1, NextFacts DEF TypeOK
  <2> QED BY <2>1, <2>2, <2>3, <2>4, <2>5, <2>6 DEF Next
<1>3. given' \in BOOLEAN
  <2>1. CASE LogPrintf
    BY <2>1, Zenon DEF LogPrintf
  <2>2. CASE ~ LogPrintf
    <3>1. given' = given
      BY <2>2 DEF Next, LogDataNew, LogDataFree, FreeChunk, Push, Prefix, FileLine,
                  Pair, NextChunk, Msg, Format, End, Done, record, vars
    <3> QED BY <3>1 DEF TypeOK
  <2> QED BY <2>1, <2>2
<1>4. seen' \in Seq(Pairs)
  <2>1. CASE Pair
    <3>1. /\ seen' = Append(seen, chunk[cur].pairs[i])
          /\ chunk[cur].pairs[i] \in Pairs /\ seen \in Seq(Pairs)
      BY <2>1, PairFacts DEF TypeOK
    <3> QED BY <3>1, AppendProperties
  <2>2. CASE ~ Pair
    <3>1. seen' = seen \/ seen' = <<>>
      <4>1. CASE LogPrintf
        BY <4>1 DEF LogPrintf
      <4>2. CASE ~ LogPrintf
        BY <2>2, <4>2 DEF Next, LogDataNew, LogDataFree, FreeChunk, Push, Prefix,
                          FileLine, NextChunk, Msg, Format, End, Done, record, vars
      <4> QED BY <4>1, <4>2
    <3>2. <<>> \in Seq(Pairs)
      OBVIOUS
    <3> QED BY <3>1, <3>2 DEF TypeOK
  <2> QED BY <2>1, <2>2
<1> QED BY <1>0, <1>1, <1>2, <1>3, <1>4 DEF TypeOK, Chunks

\* Where each chunk starts stays as it is when only the walk goes on.
LEMMA StartsFrame ==
  ASSUME NEW start \in [1..(Len(chunk) + 1) -> 0..Len(pushed)], Starts(start),
         UNCHANGED <<chunk, pushed>>,
         pc' = "pairs" /\ cur' # 0 =>
           i' <= Len(chunk[cur'].pairs) + 1 /\ Len(seen') = start[cur'] + i' - 1
  PROVE  Ordered'
<1>1. start \in [1..(Len(chunk') + 1) -> 0..Len(pushed')]
  OBVIOUS
<1>2. Starts(start)'
  BY DEF Starts
<1> QED BY <1>1, <1>2 DEF Ordered

\* Pushing moves the end of the last chunk, or adds a chunk after it.
LEMMA PushOrdered ==
  ASSUME TypeOK, Chained, Freeing, NEW x \in Pairs, Push(x),
         NEW start \in [1..(Len(chunk) + 1) -> 0..Len(pushed)], Starts(start)
  PROVE  Ordered'
<1> DEFINE n == Len(chunk)
<1>1. /\ pc' = "idle" /\ chunk' \in Seq(Chunks) /\ n \in Nat \ {0}
      /\ pushed' = Append(pushed, x) /\ pushed \in Seq(Pairs)
  BY PushFacts DEF TypeOK
<1>2. /\ Len(pushed) \in Nat /\ Len(pushed') = Len(pushed) + 1
      /\ \A m \in 1..Len(pushed) : pushed'[m] = pushed[m]
      /\ pushed'[Len(pushed) + 1] = x
  BY <1>1, AppendProperties
<1>3. ASSUME NEW k \in 1..n
      PROVE  /\ chunk[k].pairs \in Seq(Pairs) /\ Len(chunk[k].pairs) \in Nat
             /\ start[k] \in 0..Len(pushed) /\ start[k + 1] \in 0..Len(pushed)
             /\ start[k + 1] = start[k] + Len(chunk[k].pairs)
             /\ \A j \in 1..Len(chunk[k].pairs) :
                  /\ start[k] + j \in 1..Len(pushed)
                  /\ pushed'[start[k] + j] = chunk[k].pairs[j]
  <2>1. chunk[k].pairs \in Seq(Pairs)
    <3>1. chunk[k] \in Chunks
      BY ElementOfSeq DEF TypeOK, Chunks
    <3> QED BY <3>1 DEF Chunks
  <2>2. Len(chunk[k].pairs) \in Nat
    BY <2>1
  <2>3. k \in 1..(n + 1) /\ k + 1 \in 1..(n + 1)
    BY <1>1
  <2>4. start[k] \in 0..Len(pushed) /\ start[k + 1] \in 0..Len(pushed)
    BY <2>3
  <2>5. start[k + 1] = start[k] + Len(chunk[k].pairs)
    BY DEF Starts
  <2>6. ASSUME NEW j \in 1..Len(chunk[k].pairs)
        PROVE  start[k] + j \in 1..Len(pushed)
    BY <1>2, <2>2, <2>4, <2>5
  <2>7. ASSUME NEW j \in 1..Len(chunk[k].pairs)
        PROVE  pushed'[start[k] + j] = chunk[k].pairs[j]
    BY <1>2, <2>6 DEF Starts
  <2> QED BY <2>1, <2>2, <2>4, <2>5, <2>6, <2>7
<1>4. start[1] = 0 /\ start[n + 1] = Len(pushed)
  BY DEF Starts
<1>5. CASE /\ Len(chunk') = n + 1
           /\ \A k \in 1..n : chunk'[k].pairs = chunk[k].pairs
           /\ chunk'[n + 1].pairs = <<x>>
  <2>1. PICK d : d = [k \in 1..(n + 2) |-> IF k = n + 2 THEN Len(pushed) + 1 ELSE start[k]]
    OBVIOUS
  <2>2. d[n + 2] = Len(pushed) + 1 /\ \A k \in 1..(n + 1) : d[k] = start[k]
    BY <1>1, <2>1
  <2>3. d \in [1..(Len(chunk') + 1) -> 0..Len(pushed')]
    <3>1. Len(chunk') + 1 = n + 2
      BY <1>1, <1>5
    <3>2. \A k \in 1..(n + 1) : start[k] \in 0..Len(pushed')
      BY <1>2
    <3>3. \A k \in 1..(n + 2) : k # n + 2 => k \in 1..(n + 1)
      BY <1>1
    <3> QED BY <1>2, <2>1, <3>1, <3>2, <3>3
  <2>4. d[1] = 0 /\ d[Len(chunk') + 1] = Len(pushed')
    BY <1>1, <1>2, <1>4, <1>5, <2>2
  <2>5. Len(<<x>>) = 1 /\ <<x>>[1] = x
    OBVIOUS
  <2>6. ASSUME NEW k \in 1..Len(chunk')
        PROVE  /\ d[k + 1] = d[k] + Len(chunk'[k].pairs)
               /\ \A j \in 1..Len(chunk'[k].pairs) :
                    pushed'[d[k] + j] = chunk'[k].pairs[j]
    <3>1. CASE k = n + 1
      <4>1. d[k] = Len(pushed) /\ d[k + 1] = Len(pushed) + 1 /\ chunk'[k].pairs = <<x>>
        BY <1>1, <1>4, <1>5, <2>2, <3>1
      <4> QED BY <1>2, <2>5, <4>1
    <3>2. CASE k # n + 1
      <4>1. k \in 1..n
        BY <1>1, <1>5, <3>2
      <4>2. d[k] = start[k] /\ d[k + 1] = start[k + 1] /\ chunk'[k].pairs = chunk[k].pairs
        BY <1>1, <1>5, <2>2, <4>1
      <4> QED BY <1>3, <4>1, <4>2
    <3> QED BY <3>1, <3>2
  <2>7. Starts(d)'
    BY <1>1, <2>4, <2>6 DEF Starts
  <2> QED BY <2>3, <2>7 DEF Ordered
<1>6. CASE /\ Len(chunk') = n
           /\ \A k \in 1..n : k # n => chunk'[k] = chunk[k]
           /\ chunk'[n].pairs = Append(chunk[n].pairs, x)
  <2>1. PICK d : d = [k \in 1..(n + 1) |-> IF k = n + 1 THEN Len(pushed) + 1 ELSE start[k]]
    OBVIOUS
  <2>2. d[n + 1] = Len(pushed) + 1 /\ \A k \in 1..n : d[k] = start[k]
    BY <1>1, <2>1
  <2>3. d \in [1..(Len(chunk') + 1) -> 0..Len(pushed')]
    <3>1. \A k \in 1..n : start[k] \in 0..Len(pushed')
      BY <1>2, <1>3
    <3>2. \A k \in 1..(n + 1) : k # n + 1 => k \in 1..n
      BY <1>1
    <3> QED BY <1>2, <1>6, <2>1, <3>1, <3>2
  <2>4. d[1] = 0 /\ d[Len(chunk') + 1] = Len(pushed')
    BY <1>1, <1>2, <1>4, <1>6, <2>2
  <2>5. ASSUME NEW k \in 1..Len(chunk')
        PROVE  /\ d[k + 1] = d[k] + Len(chunk'[k].pairs)
               /\ \A j \in 1..Len(chunk'[k].pairs) :
                    pushed'[d[k] + j] = chunk'[k].pairs[j]
    <3>0. k \in 1..n
      BY <1>6
    <3>1. CASE k = n
      <4>1. PICK ps \in Seq(Pairs) : ps = chunk[k].pairs
        BY <1>3, <3>0
      <4>2. PICK qs : qs = Append(ps, x)
        OBVIOUS
      <4>3. chunk'[k].pairs = qs
        BY <1>6, <3>1, <4>1, <4>2
      <4>4. /\ Len(qs) = Len(ps) + 1 /\ Len(ps) \in Nat /\ qs[Len(ps) + 1] = x
            /\ \A j \in 1..Len(ps) : qs[j] = ps[j]
        BY <4>2, AppendProperties
      <4>5. d[k] = start[k] /\ d[k + 1] = Len(pushed) + 1
        BY <2>2, <3>0, <3>1
      <4>6. start[k] + Len(ps) = Len(pushed) /\ start[k] \in Nat
        BY <1>2, <1>3, <1>4, <3>0, <3>1, <4>1
      <4>7. Len(qs) = Len(ps) + 1 /\ Len(ps) \in Nat /\ Len(pushed) \in Nat
        BY <1>2, <4>4
      <4>9. d[k + 1] = d[k] + Len(qs)
        BY <4>5, <4>6, <4>7
      <4>8. ASSUME NEW j \in 1..Len(qs) PROVE pushed'[d[k] + j] = qs[j]
        <5>1. CASE j = Len(ps) + 1
          <6>1. start[k] + j = Len(pushed) + 1
            BY <4>6, <4>7, <5>1
          <6> QED BY <1>2, <4>4, <4>5, <5>1, <6>1
        <5>2. CASE j # Len(ps) + 1
          <6>1. j \in 1..Len(ps)
            BY <4>4, <5>2
          <6> QED BY <1>3, <3>0, <4>1, <4>4, <4>5, <6>1
        <5> QED BY <5>1, <5>2
      <4> QED BY <4>3, <4>8, <4>9
    <3>2. CASE k # n
      <4>1. k + 1 \in 1..n
        BY <1>1, <3>0, <3>2
      <4>2. d[k] = start[k] /\ d[k + 1] = start[k + 1] /\ chunk'[k] = chunk[k]
        BY <1>6, <2>2, <3>0, <3>2, <4>1
      <4> QED BY <1>3, <3>0, <4>2
    <3> QED BY <3>1, <3>2
  <2>6. Starts(d)'
    BY <1>1, <2>4, <2>5 DEF Starts
  <2> QED BY <2>3, <2>6 DEF Ordered
<1> QED BY <1>5, <1>6, PushFacts

\* What the walk has reached, in numbers.
LEMMA WalkFacts ==
  ASSUME TypeOK, Chained, pc = "pairs", cur # 0,
         NEW start \in [1..(Len(chunk) + 1) -> 0..Len(pushed)], Starts(start)
  PROVE  /\ cur \in 1..Len(chunk) /\ cur + 1 \in 1..(Len(chunk) + 1)
         /\ Len(chunk[cur].pairs) \in Nat /\ Len(pushed) \in Nat /\ Len(seen) \in Nat
         /\ start[cur] \in 0..Len(pushed) /\ start[cur + 1] \in 0..Len(pushed)
         /\ start[cur + 1] = start[cur] + Len(chunk[cur].pairs)
         /\ i \in 1..(Len(chunk[cur].pairs) + 1)
         /\ Len(seen) = start[cur] + i - 1
<1>1. /\ Len(chunk) \in Nat /\ Len(pushed) \in Nat /\ Len(seen) \in Nat
      /\ i \in Nat \ {0}
  BY DEF TypeOK
<1>2. cur \in 1..Len(chunk) /\ chunk[cur].pairs \in Seq(Pairs)
  BY NextFacts
<1>3. cur \in 1..(Len(chunk) + 1) /\ cur + 1 \in 1..(Len(chunk) + 1)
  BY <1>1, <1>2
<1>4. start[cur] \in 0..Len(pushed) /\ start[cur + 1] \in 0..Len(pushed)
  BY <1>3
<1>5. Len(chunk[cur].pairs) \in Nat
  BY <1>2
<1>6. /\ start[cur + 1] = start[cur] + Len(chunk[cur].pairs)
      /\ i <= Len(chunk[cur].pairs) + 1 /\ Len(seen) = start[cur] + i - 1
  BY <1>2 DEF Starts
<1>7. i \in 1..(Len(chunk[cur].pairs) + 1)
  BY <1>1, <1>5, <1>6
<1> QED BY <1>1, <1>2, <1>3, <1>4, <1>5, <1>6, <1>7

\* The chunks hold what was pushed, in order.
LEMMA OrderedStep ==
  ASSUME TypeOK, Chained, Ordered, Freeing, Walk, [Next]_vars
  PROVE  Ordered'
<1>1. CASE LogDataNew
  <2>1. PICK d : d = [k \in 1..2 |-> 0]
    OBVIOUS
  <2>2. /\ Len(chunk') = 1 /\ Len(pushed') = 0 /\ pc' = "idle"
        /\ Len(chunk'[1].pairs) = 0
    BY <1>1, NewFacts
  <2>3. d \in [1..(Len(chunk') + 1) -> 0..Len(pushed')]
    BY <2>1, <2>2
  <2>4. d[1] = 0 /\ d[2] = 0 /\ Len(chunk') + 1 = 2
    BY <2>1, <2>2
  <2>5. ASSUME NEW k \in 1..Len(chunk')
        PROVE  d[k + 1] = d[k] + Len(chunk'[k].pairs) /\ Len(chunk'[k].pairs) = 0
    <3>1. k = 1
      BY <2>2
    <3> QED BY <2>2, <2>4, <3>1
  <2>6. Starts(d)'
    BY <2>2, <2>4, <2>5 DEF Starts
  <2> QED BY <2>3, <2>6 DEF Ordered
<1>2. PICK start \in [1..(Len(chunk) + 1) -> 0..Len(pushed)] : Starts(start)
  BY DEF Ordered
<1>3. ASSUME NEW x \in Pairs, Push(x) PROVE Ordered'
  BY <1>2, <1>3, PushOrdered
<1>4. CASE (~ LogDataNew) /\ ~ \E x \in Pairs : Push(x)
  <2>1. UNCHANGED <<chunk, pushed>>
    BY <1>4, ListFrame
  <2>2. CASE LogDataFree \/ FreeChunk \/ LogPrintf \/ Msg \/ Format \/ End \/ Done
    <3>1. pc' # "pairs"
      BY <2>2 DEF LogDataFree, FreeChunk, LogPrintf, Msg, Format, End, Done
    <3> QED BY <1>2, <2>1, <3>1, StartsFrame
  <2>3. CASE Prefix \/ FileLine
    <3>1. /\ UNCHANGED <<seen, given, cur, i>> /\ pc \in {"prefix", "fileline"}
      BY <2>3 DEF Prefix, FileLine
    <3>2. seen' = <<>> /\ i' = 1 /\ (cur' # 0 => cur' = 1)
      BY <3>1 DEF Walk
    <3>3. ASSUME cur' # 0
          PROVE  i' <= Len(chunk[cur'].pairs) + 1 /\ Len(seen') = start[cur'] + i' - 1
      <4>1. cur = 1 /\ cur' = 1 /\ cur # 0
        BY <3>1, <3>2, <3>3
      <4>2. Len(chunk[1].pairs) \in Nat
        BY <4>1, NextFacts
      <4>3. start[1] = 0 /\ Len(seen') = 0
        BY <1>2, <3>2 DEF Starts
      <4> QED BY <3>2, <4>1, <4>2, <4>3
    <3> QED BY <1>2, <2>1, <3>3, StartsFrame
  <2>4. CASE Pair
    <3>1. /\ cur \in 1..Len(chunk) /\ i \in 1..Len(chunk[cur].pairs)
          /\ seen' = Append(seen, chunk[cur].pairs[i]) /\ i' = i + 1
          /\ pc = "pairs" /\ cur' = cur /\ cur # 0 /\ seen \in Seq(Pairs)
      BY <2>4, PairFacts DEF TypeOK
    <3>2. Len(seen') = Len(seen) + 1 /\ Len(seen) \in Nat
      BY <3>1
    <3>3. Len(seen) = start[cur] + i - 1 /\ start[cur] \in 0..Len(pushed)
          /\ Len(chunk[cur].pairs) \in Nat /\ Len(pushed) \in Nat
      BY <1>2, <3>1, WalkFacts
    <3>4. i' <= Len(chunk[cur'].pairs) + 1 /\ Len(seen') = start[cur'] + i' - 1
      BY <3>1, <3>2, <3>3
    <3> QED BY <1>2, <2>1, <3>4, StartsFrame
  <2>5. CASE NextChunk
    <3>1. /\ pc = "pairs" /\ cur # 0 /\ i > Len(chunk[cur].pairs)
          /\ cur' = chunk[cur].next /\ i' = 1 /\ seen' = seen
      BY <2>5 DEF NextChunk, record
    <3>2. /\ Len(seen) = start[cur] + i - 1 /\ i \in 1..(Len(chunk[cur].pairs) + 1)
          /\ start[cur + 1] = start[cur] + Len(chunk[cur].pairs)
          /\ start[cur] \in 0..Len(pushed) /\ Len(pushed) \in Nat
          /\ Len(chunk[cur].pairs) \in Nat
      BY <1>2, <3>1, WalkFacts
    <3>3. ASSUME cur' # 0
          PROVE  i' <= Len(chunk[cur'].pairs) + 1 /\ Len(seen') = start[cur'] + i' - 1
      <4>1. cur' = cur + 1 /\ cur' \in 1..Len(chunk)
        BY <3>1, <3>3, NextFacts
      <4>2. Len(chunk[cur'].pairs) \in Nat
        <5>1. chunk[cur'] \in Chunks
          BY <4>1, ElementOfSeq DEF TypeOK, Chunks
        <5> QED BY <5>1 DEF Chunks
      <4>3. i = Len(chunk[cur].pairs) + 1
        BY <3>1, <3>2
      <4>4. Len(seen) = start[cur + 1]
        BY <3>2, <4>3
      <4>5. start[cur + 1] \in Nat
        BY <3>2
      <4> QED BY <3>1, <4>1, <4>2, <4>4, <4>5
    <3> QED BY <1>2, <2>1, <3>3, StartsFrame
  <2>6. CASE UNCHANGED vars
    <3>1. UNCHANGED <<pc, cur, i, seen>>
      BY <2>6 DEF vars, record
    <3> QED BY <1>2, <2>1, <3>1, StartsFrame DEF Starts
  <2> QED BY <1>4, <2>2, <2>3, <2>4, <2>5, <2>6 DEF Next
<1> QED BY <1>1, <1>3, <1>4

\* The walk has written what lies before it.
LEMMA WalkStep ==
  ASSUME TypeOK, Chained, Ordered, Walk, [Next]_vars
  PROVE  Walk'
<1>0. PICK start \in [1..(Len(chunk) + 1) -> 0..Len(pushed)] : Starts(start)
  BY DEF Ordered
<1>1. CASE LogDataNew \/ (\E x \in Pairs : Push(x)) \/ Done
  <2>1. pc \in {"idle", "done"} /\ pc' = "idle" /\ cur' = cur
    BY <1>1 DEF LogDataNew, Push, Done
  <2> QED BY <2>1 DEF Walk
<1>2. CASE LogDataFree \/ FreeChunk
  <2>1. pc' = "freeing" \/ (pc' = "idle" /\ cur' = 0)
    BY <1>2 DEF LogDataFree, FreeChunk
  <2> QED BY <2>1 DEF Walk
<1>3. CASE LogPrintf
  <2>1. /\ seen' = <<>> /\ given' \in {FALSE, live # {}}
        /\ cur' = IF given' THEN 1 ELSE 0
        /\ i' = 1 /\ pc' = "prefix" /\ UNCHANGED chunk
    BY <1>3 DEF LogPrintf, list
  <2>2. given' => live # {}
    BY <2>1, Zenon
  <2>3. given' => chunk' # <<>>
    <3>1. live # {} => 1 \in 0..Len(chunk)
      BY NotEmpty
    <3>2. Len(<<>>) = 0
      OBVIOUS
    <3>3. live # {} => Len(chunk) # 0
      BY <3>1
    <3> QED BY <2>1, <2>2, <3>2, <3>3
  <2> QED BY <2>1, <2>3 DEF Walk
<1>4. CASE Prefix \/ FileLine
  <2>1. /\ UNCHANGED <<seen, given, cur, i, chunk>> /\ pc \in {"prefix", "fileline"}
        /\ pc' \in {"fileline", "pairs"}
    BY <1>4 DEF Prefix, FileLine, list
  <2>2. /\ seen' = <<>> /\ i' = 1 /\ cur' = IF given' THEN 1 ELSE 0
        /\ given' => chunk' # <<>>
    BY <2>1 DEF Walk
  <2>3. Len(seen') = 0
    BY <2>2
  <2> QED BY <2>1, <2>2, <2>3 DEF Walk
<1>5. CASE Pair
  <2>1. /\ cur \in 1..Len(chunk) /\ i \in 1..Len(chunk[cur].pairs) /\ given
        /\ seen' = Append(seen, chunk[cur].pairs[i]) /\ chunk[cur].pairs[i] \in Pairs
        /\ pc = "pairs" /\ cur # 0 /\ seen \in Seq(Pairs)
        /\ UNCHANGED <<pc, cur, given, chunk, pushed>>
    BY <1>5, PairFacts DEF TypeOK, list
  <2>2. /\ Len(seen') = Len(seen) + 1 /\ Len(seen) \in Nat
        /\ seen'[Len(seen) + 1] = chunk[cur].pairs[i]
        /\ \A n \in 1..Len(seen) : seen'[n] = seen[n]
    BY <2>1, AppendProperties
  <2>3. pushed[start[cur] + i] = chunk[cur].pairs[i]
    BY <1>0, <2>1 DEF Starts
  <2>4. start[cur] + i = Len(seen) + 1
    <3>1. Len(seen) = start[cur] + i - 1 /\ start[cur] \in 0..Len(pushed)
          /\ i \in 1..(Len(chunk[cur].pairs) + 1)
      BY <1>0, <2>1, WalkFacts
    <3> QED BY <3>1
  <2>5. ASSUME NEW n \in 1..Len(seen') PROVE seen'[n] = pushed'[n]
    <3>1. CASE n = Len(seen) + 1
      BY <2>1, <2>2, <2>3, <2>4, <3>1
    <3>2. CASE n # Len(seen) + 1
      <4>1. n \in 1..Len(seen)
        BY <2>2, <3>2
      <4> QED BY <2>1, <2>2, <4>1 DEF Walk
    <3> QED BY <3>1, <3>2
  <2>6. chunk' # <<>>
    BY <2>1 DEF Walk
  <2> QED BY <2>1, <2>5, <2>6 DEF Walk
<1>6. CASE NextChunk
  <2>1. /\ pc = "pairs" /\ cur # 0 /\ i > Len(chunk[cur].pairs)
        /\ cur' = chunk[cur].next /\ UNCHANGED <<seen, given, pc, chunk, pushed>>
    BY <1>6 DEF NextChunk, record, list
  <2>2. given /\ chunk # <<>>
    BY <2>1 DEF Walk
  <2>3. ASSUME cur' = 0 PROVE Len(seen) = Len(pushed)
    <3>1. cur = Len(chunk)
      BY <2>1, <2>3, NextFacts DEF TypeOK
    <3>2. /\ Len(seen) = start[cur] + i - 1 /\ i \in 1..(Len(chunk[cur].pairs) + 1)
          /\ start[cur + 1] = start[cur] + Len(chunk[cur].pairs)
          /\ start[cur] \in 0..Len(pushed) /\ Len(chunk[cur].pairs) \in Nat
      BY <1>0, <2>1, WalkFacts
    <3>3. i = Len(chunk[cur].pairs) + 1
      BY <2>1, <3>2
    <3>4. start[cur + 1] = Len(pushed)
      BY <1>0, <3>1 DEF Starts
    <3> QED BY <3>2, <3>3, <3>4
  <2> QED BY <2>1, <2>2, <2>3 DEF Walk
<1>7. CASE Msg
  <2>1. pc = "pairs" /\ cur = 0 /\ pc' = "format" /\ UNCHANGED <<seen, given, cur, pushed>>
    BY <1>7 DEF Msg, list
  <2>2. ASSUME given PROVE seen = pushed
    <3>1. /\ Len(seen) = Len(pushed) /\ \A n \in 1..Len(seen) : seen[n] = pushed[n]
          /\ seen \in Seq(Pairs) /\ pushed \in Seq(Pairs)
      BY <2>1, <2>2 DEF Walk, TypeOK
    <3> QED BY <3>1, SeqEqual
  <2>3. ~given => seen = <<>>
    BY <2>1 DEF Walk
  <2> QED BY <2>1, <2>2, <2>3 DEF Walk
<1>8. CASE Format \/ End
  <2>1. /\ pc \in {"format", "end"} /\ pc' \in {"end", "done"}
        /\ UNCHANGED <<seen, given, cur, pushed>>
    BY <1>8 DEF Format, End, list
  <2> QED BY <2>1 DEF Walk
<1>9. CASE UNCHANGED vars
  BY <1>9 DEF Walk, vars, list, record
<1> QED BY <1>1, <1>2, <1>3, <1>4, <1>5, <1>6, <1>7, <1>8, <1>9 DEF Next

\* The invariant holds at first.
LEMMA InitIInv == Init => IInv
<1> SUFFICES ASSUME Init PROVE IInv
  OBVIOUS
<1>1. BufInv
  BY BufInit
<1>2. /\ chunk = <<>> /\ live = {} /\ tail = 0 /\ pushed = <<>> /\ pc = "idle"
      /\ seen = <<>> /\ given = FALSE /\ cur = 0 /\ i = 1
  BY DEF Init
<1>3. Len(chunk) = 0 /\ Len(pushed) = 0
  BY <1>2
<1>4. given \in BOOLEAN
  BY <1>2, Zenon
<1>5. chunk \in Seq(Chunks) /\ pushed \in Seq(Pairs) /\ seen \in Seq(Pairs)
  BY <1>2
<1>6. TypeOK
  BY <1>1, <1>2, <1>3, <1>4, <1>5 DEF TypeOK, BufInv, Chunks
<1>7. Chained /\ Freeing /\ Walk
  BY <1>2, <1>3 DEF Chained, Freeing, Walk
<1>8. Ordered
  <2>1. PICK d : d = [k \in 1..1 |-> 0]
    OBVIOUS
  <2>2. d \in [1..(Len(chunk) + 1) -> 0..Len(pushed)] /\ d[1] = 0 /\ Len(chunk) + 1 = 1
    BY <1>3, <2>1
  <2>3. Starts(d)
    BY <1>2, <1>3, <2>2 DEF Starts
  <2> QED BY <2>2, <2>3 DEF Ordered
<1> QED BY <1>1, <1>6, <1>7, <1>8 DEF IInv

\* The invariant holds always.
LEMMA IInvHolds == Spec => []IInv
<1>1. IInv /\ [Next]_vars => IInv'
  BY BufStep, TypeStep, ChainedStep, OrderedStep, FreeingStep, WalkStep DEF IInv
<1> QED BY InitIInv, <1>1, PTL DEF Spec

-----------------------------------------------------------------------------
(* The theorems.                                                           *)

\* However many pieces were cut, no snprintf is given room beyond the buffer.
THEOREM RoomSafe == Spec => []RoomAccounted
<1>1. BufInv => RoomAccounted
  BY DEF BufInv
<1> QED BY BufInit, BufStep, <1>1, PTL DEF Spec

\* Every record fits, is not empty, and ends in a newline.
THEOREM RecordSafe == Spec => []RecordEndsLine
<1>1. BufInv => RecordEndsLine
  BY DEF BufInv
<1> QED BY BufInit, BufStep, <1>1, PTL DEF Spec

\* Every value log_printf and log_data_t work on keeps its type: tail and the
\* chunk walked are always among the chunks made.
THEOREM TypeCorrect == Spec => []TypeOK
<1>1. IInv => TypeOK
  BY DEF IInv
<1> QED BY <1>1, IInvHolds, PTL

\* log_printf writes the pairs of a log_data_t in the order they were pushed,
\* none twice and none left out, whatever the number of pairs and the size of
\* the chunks _PUSH spread them over.
THEOREM PairsOrdered == Spec => []PairsInOrder
<1>1. IInv => PairsInOrder
  <2> SUFFICES ASSUME TypeOK, Chained, Ordered, Walk PROVE PairsInOrder
    BY DEF IInv
  <2>1. ASSUME pc = "pairs", given
        PROVE  Len(seen) <= Len(pushed) /\ seen = SubSeq(pushed, 1, Len(seen))
    <3>1. /\ Len(seen) \in Nat /\ Len(pushed) \in Nat
          /\ seen \in Seq(Pairs) /\ pushed \in Seq(Pairs)
          /\ \A n \in 1..Len(seen) : seen[n] = pushed[n]
      BY <2>1 DEF TypeOK, Walk
    <3>2. Len(seen) <= Len(pushed)
      <4>1. CASE cur = 0
        BY <2>1, <3>1, <4>1 DEF Walk
      <4>2. CASE cur # 0
        <5>1. PICK start \in [1..(Len(chunk) + 1) -> 0..Len(pushed)] : Starts(start)
          BY DEF Ordered
        <5>2. /\ Len(seen) = start[cur] + i - 1
              /\ i \in 1..(Len(chunk[cur].pairs) + 1)
              /\ start[cur + 1] = start[cur] + Len(chunk[cur].pairs)
              /\ start[cur] \in 0..Len(pushed) /\ start[cur + 1] \in 0..Len(pushed)
              /\ Len(chunk[cur].pairs) \in Nat
          BY <2>1, <4>2, <5>1, WalkFacts
        <5> QED BY <3>1, <5>2
      <4> QED BY <4>1, <4>2
    <3>3. \A n \in 1..Len(seen) : pushed[n] \in Pairs
      BY <3>1, ElementOfSeq
    <3>4. PICK s : s = SubSeq(pushed, 1, Len(seen))
      OBVIOUS
    <3>5. /\ s \in Seq(Pairs)
          /\ Len(s) = IF 1 <= Len(seen) THEN Len(seen) - 1 + 1 ELSE 0
          /\ \A n \in 1..(Len(seen) - 1 + 1) : s[n] = pushed[1 + n - 1]
      BY <3>1, <3>3, <3>4, SubSeqProperties
    <3>6. Len(s) = Len(seen) /\ \A n \in 1..Len(seen) : s[n] = pushed[n]
      <4>1. \A n \in 1..Len(seen) : 1 + n - 1 = n /\ n \in 1..(Len(seen) - 1 + 1)
        BY <3>1
      <4> QED BY <3>1, <3>5, <4>1
    <3>7. seen = s
      BY <3>1, <3>5, <3>6, SeqEqual
    <3> QED BY <3>2, <3>4, <3>7
  <2> QED BY <2>1 DEF PairsInOrder, Walk
<1> QED BY <1>1, IInvHolds, PTL

\* log_data_free frees every chunk of the list, each once: it never gets to
\* one that is gone, and none is left when it gets to the end.
THEOREM FreedAll == Spec => []AllFreed
<1>1. IInv => AllFreed
  <2> SUFFICES ASSUME TypeOK, Freeing PROVE AllFreed
    BY DEF IInv
  <2>1. cur # 0 => cur \in cur..Len(chunk)
    BY DEF TypeOK
  <2> QED BY <2>1 DEF Freeing, AllFreed
<1> QED BY <1>1, IInvHolds, PTL
=============================================================================
