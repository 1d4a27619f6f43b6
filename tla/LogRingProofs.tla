--------------------------- MODULE LogRingProofs ---------------------------
(***************************************************************************)
(* Proofs about LogRing, for every size of the rings, of the records, of   *)
(* the pipe and of the reads, any number of threads, and as many failures  *)
(* as there may be.                                                        *)
(***************************************************************************)
EXTENDS LogRing, Remainders, FiniteSetTheorems, TLAPS

-----------------------------------------------------------------------------
(* The invariant.                                                          *)

\* How far the holder of the mutex is.
Stage == IF mutex = NoThread THEN "idle" ELSE ppc[mutex]

\* One thread at a time is in log_printf.
Exclusive == \A t \in Threads : ppc[t] # "idle" <=> mutex = t

\* The bound on the bytes offered counts the record under way.
Room == Stage \in {"copy", "add"} => published[rec.s] + rec.len <= MaxBytes

\* A write offset is beyond the ring between += and %= only, a read offset at
\* its end before the %= of the log thread only.
Offsets ==
  /\ \A s \in Streams : woff[s] >= N => Stage = "mod" /\ rec.s = s
  /\ \A s \in Streams :
       roff[s] = N => lpc \in {"mod", "tailmod"} /\ at = s
  /\ lpc = "wait" => at = "log"

\* The record that was copied ends in a newline.
Lines ==
  /\ \A s \in Streams : published[s] = 0 \/ published[s] \in ends[s]
  /\ Stage = "add" =>
       rec.len = 0 \/ published[rec.s] + rec.len \in ends[rec.s]

\* The bytes copied to a ring and not yet published.
Coming(s) == IF Stage = "add" /\ rec.s = s THEN rec.len ELSE 0

\* What is in a ring, from the first byte not yet written to the last one
\* copied; one cell is always free.
Held(s) ==
  /\ file[s] = [i \in 1..Len(file[s]) |-> i]
  /\ Len(file[s]) <= published[s]
  /\ published[s] + Coming(s) - Len(file[s]) <= N - 1
  /\ roff[s] % N = Len(file[s]) % N
  /\ woff[s] % N = published[s] % N
  /\ \A k \in (Len(file[s]) + 1)..(published[s] + Coming(s)) :
       buf[s][(k - 1) % N] = k

\* What the log thread has learnt of the write offset still holds.
Learnt ==
  /\ lpc = "branch" => published[at] > Len(file[at])
  /\ lpc = "linear" => woff[at] > roff[at]
  /\ lpc = "tail" => published[at] - Len(file[at]) >= N - roff[at]

Intact == ~raced /\ ~corrupt => Learnt /\ \A s \in Streams : Held(s)

\* Unless a write failed, the tail is written whole.
Whole ==
  /\ lpc = "tailmod" /\ faults = 0 => roff[at] = N
  /\ lpc = "head" /\ faults = 0 => roff[at] = 0

\* The log thread still has to look at ring s before it waits again, or will
\* not have to wait.
Awake(s) ==
  \/ pipe > 0 \/ mutex # NoThread
  \/ lpc # "wait" /\ (at = s \/ at = "log")

Attentive ==
  faults = 0 =>
    /\ \A s \in Streams : woff[s] = roff[s] \/ Awake(s)
    /\ lpc = "mod" =>
         roff[at] % N = woff[at] \/ pipe > 0 \/ mutex # NoThread

IInv ==
  /\ TypeOK
  /\ Exclusive
  /\ Room
  /\ Offsets
  /\ Lines
  /\ Intact
  /\ Whole
  /\ LeavesRingWhy
  /\ Attentive

-----------------------------------------------------------------------------
(* The mutex, and the types.                                               *)

\* What the proofs need of the constants.
LEMMA Sizes ==
  /\ N \in Nat \ {0} /\ MaxLen \in Nat /\ MaxLen < N
  /\ MaxBytes \in Nat /\ MaxFaults \in Nat
  /\ PipeCap \in Nat \ {0} /\ ReadMax \in Nat \ {0}
BY LogRingAssumption

\* A remainder by the size of the ring, within any larger bound.
LEMMA ModWithin ==
  ASSUME NEW a \in Int, NEW m \in Nat, N - 1 <= m
  PROVE  a % N \in 0..m
<1> DEFINE r == a % N
<1>1. r \in 0..(N - 1)
  BY ModRange, Sizes
<1> HIDE DEF r
<1>2. r \in 0..m
  BY <1>1, Sizes
<1> QED BY <1>2 DEF r

\* There are finitely many rings.
LEMMA StreamsFinite == \A S \in SUBSET Streams : Cardinality(S) \in Nat
<1>1. IsFiniteSet({"log"})
  BY FS_Singleton
<1>2. IsFiniteSet({"log"} \cup {"wf"})
  BY <1>1, FS_AddElement
<1>3. Streams = {"log"} \cup {"wf"}
  BY DEF Streams
<1> QED BY <1>2, <1>3, FS_Subset, FS_CardinalityType

\* An update keeps the type of a function.
LEMMA UpdateType ==
  ASSUME NEW S, NEW T, NEW f \in [S -> T], NEW x \in S, NEW v \in T
  PROVE  [f EXCEPT ![x] = v] \in [S -> T]
OBVIOUS

\* The numbers up to l, and m more from there on.
Numbers(l) == [i \in 1..l |-> i]
Follows(g, l) == \A i \in 1..Len(g) : g[i] = l + i

\* The second behind the first are the numbers up to l + m.
LEMMA CountOn ==
  ASSUME NEW f \in Seq(Nat), NEW g \in Seq(Nat), NEW l \in Nat, NEW m \in Nat,
         f = Numbers(l), Len(g) = m, Follows(g, l)
  PROVE  Len(f \o g) = l + m /\ f \o g = Numbers(l + m)
<1> USE DEF Numbers, Follows
<1> DEFINE h == f \o g
<1>1. Len(f) = l
  OBVIOUS
<1>2. h \in Seq(Nat) /\ Len(h) = l + m
  BY <1>1
<1>3. ASSUME NEW i \in 1..(l + m) PROVE h[i] = i
  <2>1. CASE i <= l
    <3>1. i \in 1..l
      BY <2>1
    <3>2. h[i] = f[i]
      BY <1>1, <3>1
    <3> QED BY <3>1, <3>2
  <2>2. CASE ~ (i <= l)
    <3> DEFINE j == i - l
    <3>1. j \in 1..m /\ i = l + j /\ j \in Int
      BY <2>2
    <3>2. h[i] = g[j]
      BY <1>1, <2>2, <3>1
    <3>3. g[j] = l + j
      BY <3>1
    <3> HIDE DEF j, h
    <3> QED BY <3>1, <3>2, <3>3
  <2> QED BY <2>1, <2>2
<1>4. h = [i \in 1..(l + m) |-> h[i]]
  <2>1. DOMAIN h = 1..(l + m)
    BY <1>2
  <2>2. h = [i \in DOMAIN h |-> h[i]]
    BY <1>2
  <2> HIDE DEF h
  <2> QED BY <2>1, <2>2
<1> HIDE DEF h
<1>5. h = [i \in 1..(l + m) |-> i]
  BY <1>3, <1>4
<1> QED BY <1>2, <1>5 DEF h

\* A function on 1..k is a sequence.
LEMMA FunctionIsSeq ==
  ASSUME NEW T, NEW k \in Nat, NEW f \in [1..k -> T]
  PROVE  f \in Seq(T) /\ Len(f) = k
OBVIOUS

\* TypeOK, ring by ring.
LEMMA RingTypes ==
  ASSUME TypeOK, NEW s \in Streams
  PROVE  /\ woff[s] \in Int /\ 0 <= woff[s] /\ woff[s] <= N + MaxLen - 1
         /\ roff[s] \in Int /\ 0 <= roff[s] /\ roff[s] <= N
         /\ published[s] \in Nat /\ published[s] <= MaxBytes
         /\ buf[s] \in [0..(N - 1) -> Nat]
         /\ ends[s] \subseteq 1..MaxBytes
         /\ file[s] \in Seq(Nat) /\ Len(file[s]) \in Nat
<1> USE Sizes
<1>1. woff[s] \in 0..(N + MaxLen - 1)
  BY DEF TypeOK
<1>2. roff[s] \in 0..N
  BY DEF TypeOK
<1>3. published[s] \in 0..MaxBytes
  BY DEF TypeOK
<1>4. /\ buf[s] \in [0..(N - 1) -> Nat] /\ ends[s] \subseteq 1..MaxBytes
      /\ file[s] \in Seq(Nat)
  BY DEF TypeOK
<1> QED BY <1>1, <1>2, <1>3, <1>4

\* TypeOK, for the record under way and the ring looked at.
LEMMA RecTypes ==
  ASSUME TypeOK
  PROVE  /\ rec.s \in Streams
         /\ rec.len \in Nat /\ rec.len <= MaxLen
         /\ at \in Streams
BY Sizes DEF TypeOK

\* The invariant holds at first.
LEMMA InitIInv == Init => IInv
<1> SUFFICES ASSUME Init PROVE IInv
  OBVIOUS
<1> USE LogRingAssumption DEF Init
<1>1. Stage = "idle"
  BY DEF Stage
<1>2. TypeOK
  <2>1. buf \in [Streams -> [0..(N - 1) -> Nat]]
    OBVIOUS
  <2>2. file \in [Streams -> Seq(Nat)]
    OBVIOUS
  <2>3. /\ mutex \in Threads \cup {NoThread}
        /\ ppc \in [Threads -> {"idle", "copy", "add", "mod", "wake"}]
        /\ rec \in [s : Streams, len : 0..MaxLen]
        /\ lpc = "wait" /\ at \in Streams
    BY DEF Streams
  <2>4. /\ woff \in [Streams -> 0..(N + MaxLen - 1)]
        /\ roff \in [Streams -> 0..N]
        /\ published \in [Streams -> 0..MaxBytes]
        /\ ends \in [Streams -> SUBSET (1..MaxBytes)]
    OBVIOUS
  <2>5. pipe \in 0..PipeCap /\ faults \in 0..MaxFaults
    OBVIOUS
  <2>6. /\ named \in [Streams -> BOOLEAN]
        /\ corrupt \in BOOLEAN /\ raced \in BOOLEAN
    BY Zenon
  <2> HIDE LogRingAssumption DEF Init
  <2> QED BY <2>1, <2>2, <2>3, <2>4, <2>5, <2>6 DEF TypeOK
<1>3. Exclusive
  BY DEF Exclusive
<1>4. Room /\ Offsets /\ Lines
  BY <1>1 DEF Room, Offsets, Lines, Streams
<1>5. ASSUME NEW s \in Streams PROVE Held(s)
  BY <1>1, <1>5 DEF Held, Coming
<1>6. Intact
  BY <1>5 DEF Intact, Learnt
<1>7. Whole /\ LeavesRingWhy
  BY DEF Whole, LeavesRingWhy
<1>8. Attentive
  BY DEF Attentive
<1> QED BY <1>2, <1>3, <1>4, <1>6, <1>7, <1>8 DEF IInv

\* Where the holder of the mutex goes.
LEMMA StageMoves ==
  ASSUME TypeOK, Exclusive, NEW t \in Threads
  PROVE  /\ LogPrintf(t) => Stage = "idle" /\ Stage' = "copy" /\ mutex' # NoThread
         /\ Copy(t) => Stage = "copy" /\ Stage' = "add"
         /\ AddOffset(t) => Stage = "add" /\ Stage' = "mod"
         /\ ModOffset(t) => Stage = "mod" /\ Stage' = "wake"
         /\ Wake(t) => Stage = "wake" /\ Stage' = "idle"
         /\ InLogPrintf(t) => mutex = t
<1> USE LogRingAssumption DEF TypeOK, Exclusive, Stage
<1>1. LogPrintf(t) => Stage = "idle" /\ Stage' = "copy" /\ mutex' # NoThread
  BY DEF LogPrintf
<1>2. Copy(t) => mutex = t /\ Stage = "copy" /\ Stage' = "add"
  BY DEF Copy
<1>3. AddOffset(t) => mutex = t /\ Stage = "add" /\ Stage' = "mod"
  BY DEF AddOffset
<1>4. ModOffset(t) => mutex = t /\ Stage = "mod" /\ Stage' = "wake"
  <2>1. ModOffset(t) => /\ ppc[t] = "mod" /\ mutex' = mutex
                        /\ ppc' = [ppc EXCEPT ![t] = "wake"]
    BY DEF ModOffset
  <2> QED BY <2>1
<1>5. Wake(t) => mutex = t /\ Stage = "wake" /\ Stage' = "idle"
  BY DEF Wake
<1> QED BY <1>1, <1>2, <1>3, <1>4, <1>5 DEF InLogPrintf

\* The log thread and those who move its files leave log_printf alone.
Elsewhere == LogThread \/ \E s \in Streams : Rotate(s)

\* The log thread and those who move files leave the producer alone.
LEMMA StageStays ==
  ASSUME Elsewhere \/ UNCHANGED vars
  PROVE  UNCHANGED producer /\ Stage' = Stage
<1>1. UNCHANGED producer
  BY DEF Elsewhere, LogThread, LogWake, LogTest, LogBranch, LogWrite,
         LogWriteTail, LogTailMod, LogMod, Rotate, vars
<1> QED BY <1>1 DEF producer, Stage

\* The mutex excludes.
LEMMA ExclusiveStep == TypeOK /\ Exclusive /\ [Next]_vars => Exclusive'
<1> SUFFICES ASSUME TypeOK, Exclusive, [Next]_vars PROVE Exclusive'
  OBVIOUS
<1> USE LogRingAssumption DEF TypeOK, Exclusive
<1>1. ASSUME NEW t \in Threads, LogPrintf(t) PROVE Exclusive'
  BY <1>1 DEF LogPrintf
<1>2. ASSUME NEW t \in Threads, InLogPrintf(t) PROVE Exclusive'
  <2>1. CASE Wake(t)
    BY <2>1 DEF Wake
  <2>2. CASE ~ Wake(t)
    <3>1. /\ ppc[t] # "idle" /\ mutex' = mutex
          /\ \E p \in {"add", "mod", "wake"} : ppc' = [ppc EXCEPT ![t] = p]
      BY <1>2, <2>2 DEF InLogPrintf, Copy, AddOffset, ModOffset
    <3> QED BY <3>1
  <2> QED BY <2>1, <2>2
<1>3. CASE Elsewhere \/ UNCHANGED vars
  BY <1>3, StageStays DEF producer
<1> QED BY <1>1, <1>2, <1>3 DEF Next, Elsewhere

-----------------------------------------------------------------------------
(* Types, and the bounds of the offsets.                                   *)

\* What log_printf keeps of a record: no more than it is long, and no more
\* than leaves one cell of the ring free.
LEMMA FitBounds ==
  ASSUME TypeOK, NEW s \in Streams, NEW len \in Nat
  PROVE  /\ BufLeft(s) \in 1..N
         /\ Fit(s, len) \in 0..len
         /\ Fit(s, len) <= BufLeft(s) - 1
<1> DEFINE x == woff[s] - roff[s] + N
<1>1. x \in Int
  BY Sizes, RingTypes
<1> HIDE DEF x
<1>2. x % N \in 0..(N - 1)
  BY <1>1, ModRange, Sizes
<1>3. BufLeft(s) = N - (x % N)
  BY DEF BufLeft, x
<1> DEFINE free == BufLeft(s)
<1>4. free \in 1..N
  BY <1>2, <1>3, Sizes
<1>5. Fit(s, len) = IF len <= free - 1 THEN len
                    ELSE IF free - 1 > 0 THEN free - 1 ELSE 0
  BY DEF Fit
<1> HIDE DEF free
<1> QED BY <1>4, <1>5 DEF free

\* What fwrite is handed: k bytes of the ring from the read offset on.
Read(k) == [i \in 1..k |-> buf[at][roff[at] + i - 1]]

\* The two outcomes of Fwrite.
Leaves(n) ==
  /\ n < 0 \/ roff[at] + n > N
  /\ corrupt' = TRUE
  /\ UNCHANGED <<roff, lpc, at, file, faults>>

Writes(n, k, then) ==
  /\ n >= 0 /\ roff[at] + n <= N
  /\ k < n => faults < MaxFaults
  /\ faults' = IF k < n THEN faults + 1 ELSE faults
  /\ file' = [file EXCEPT ![at] = @ \o Read(k)]
  /\ roff' = [roff EXCEPT ![at] = @ + k]
  /\ lpc' = then
  /\ UNCHANGED <<at, corrupt>>

\* A call of fwrite leaves the ring, or writes all of its range or part.
LEMMA FwriteOutcome ==
  ASSUME NEW n, NEW then, Fwrite(n, then)
  PROVE  Leaves(n) \/ \E k \in 0..n : Writes(n, k, then)
BY Zenon DEF Fwrite, Leaves, Writes, Read

\* The bound on the bytes offered is kept.
LEMMA RoomStep ==
  ASSUME TypeOK, Exclusive, Room, [Next]_vars
  PROVE  Room'
<1> USE DEF Room
<1>1. ASSUME NEW t \in Threads, LogPrintf(t) PROVE Room'
  <2>1. PICK level \in Levels, len \in 1..MaxLen :
          /\ published[StreamOf(level)] + len <= MaxBytes
          /\ rec' = [s |-> StreamOf(level), len |-> len]
    BY <1>1 DEF LogPrintf
  <2>2. rec'.s = StreamOf(level) /\ rec'.len = len
    BY <2>1
  <2>3. published' = published
    BY <1>1 DEF LogPrintf
  <2> QED BY <2>1, <2>2, <2>3
<1>2. ASSUME NEW t \in Threads, Copy(t) PROVE Room'
  <2>1. Stage = "copy"
    BY <1>2, StageMoves
  <2>2. rec' = [rec EXCEPT !.len = Fit(rec.s, rec.len)] /\ published' = published
    BY <1>2 DEF Copy
  <2>3. rec.s \in Streams /\ rec.len \in Nat
    BY RecTypes
  <2>4. Fit(rec.s, rec.len) \in 0..rec.len
    BY <2>3, FitBounds
  <2>5. rec'.s = rec.s /\ rec'.len = Fit(rec.s, rec.len)
    BY <2>2 DEF TypeOK
  <2>6. published[rec.s] \in Nat
    BY <2>3, RingTypes
  <2> QED BY <2>1, <2>2, <2>3, <2>4, <2>5, <2>6, Sizes
<1>3. ASSUME NEW t \in Threads, AddOffset(t) \/ ModOffset(t) \/ Wake(t)
      PROVE  Room'
  BY <1>3, StageMoves
<1>4. CASE Elsewhere \/ UNCHANGED vars
  BY <1>4, StageStays DEF producer
<1> QED BY <1>1, <1>2, <1>3, <1>4 DEF Next, InLogPrintf, Elsewhere

\* Every step keeps the types.
LEMMA TypeStep ==
  ASSUME TypeOK, Exclusive, Room, Offsets, [Next]_vars
  PROVE  TypeOK'
<1>0. /\ rec.s \in Streams /\ rec.len \in Nat /\ rec.len <= MaxLen
      /\ at \in Streams
  BY RecTypes
<1> USE Sizes
<1>1. ASSUME NEW t \in Threads, LogPrintf(t) PROVE TypeOK'
  <2>1. rec' \in [s : Streams, len : 0..MaxLen]
    BY <1>1 DEF LogPrintf, StreamOf, Streams
  <2>2. mutex' \in Threads \cup {NoThread}
        /\ ppc' \in [Threads -> {"idle", "copy", "add", "mod", "wake"}]
    BY <1>1 DEF LogPrintf, TypeOK
  <2> QED BY <1>1, <2>1, <2>2 DEF LogPrintf, TypeOK, consumer
<1>2. ASSUME NEW t \in Threads, Copy(t) PROVE TypeOK'
  <2> DEFINE s == rec.s
             ret == Fit(s, rec.len)
  <2>0. /\ s \in Streams /\ rec.len \in Nat /\ rec.len <= MaxLen
        /\ published[s] \in Nat /\ published[s] <= MaxBytes /\ woff[s] \in Int
    BY <1>0, RingTypes
  <2>1. ret \in 0..rec.len
    BY <2>0, FitBounds
  <2>2. published[s] + rec.len <= MaxBytes
    BY <1>2, StageMoves DEF Room
  <2>3. rec' = [rec EXCEPT !.len = ret]
    BY <1>2 DEF Copy
  <2>4. ends' = [ends EXCEPT ![s] =
                   @ \cup {published[s] + k : k \in Newline(rec.len, ret)}]
    BY <1>2 DEF Copy
  <2>5. buf' = [buf EXCEPT ![s] = [i \in 0..(N - 1) |->
                  IF (i - woff[s] + N) % N < ret
                  THEN published[s] + 1 + ((i - woff[s] + N) % N)
                  ELSE @[i]]]
    BY <1>2 DEF Copy
  <2> HIDE DEF ret
  <2>6. rec' \in [s : Streams, len : 0..MaxLen]
    <3>1. rec \in [s : Streams, len : 0..MaxLen]
      BY DEF TypeOK
    <3>2. ret \in 0..MaxLen
      BY <2>0, <2>1
    <3> QED BY <2>3, <3>1, <3>2
  <2>7. ends' \in [Streams -> SUBSET (1..MaxBytes)]
    <3>1. {published[s] + k : k \in Newline(rec.len, ret)} \subseteq 1..MaxBytes
      BY <2>0, <2>1, <2>2 DEF Newline
    <3> QED BY <2>0, <2>4, <3>1 DEF TypeOK
  <2>8. buf' \in [Streams -> [0..(N - 1) -> Nat]]
    <3>1. ASSUME NEW i \in 0..(N - 1)
          PROVE  published[s] + 1 + ((i - woff[s] + N) % N) \in Nat
      <4> DEFINE x == i - woff[s] + N
      <4>1. x \in Int
        BY <2>0
      <4> HIDE DEF x
      <4>2. x % N \in Nat
        BY <4>1, ModRange
      <4> QED BY <2>0, <4>2 DEF x
    <3> DEFINE c(i) == (i - woff[s] + N) % N
    <3>2. \A i \in 0..(N - 1) : published[s] + 1 + c(i) \in Nat
      BY <3>1
    <3>3. buf' = [buf EXCEPT ![s] = [i \in 0..(N - 1) |->
                    IF c(i) < ret THEN published[s] + 1 + c(i) ELSE buf[s][i]]]
      BY <2>5
    <3> HIDE DEF c
    <3> QED BY <2>0, <3>2, <3>3 DEF TypeOK
  <2>9. ppc' \in [Threads -> {"idle", "copy", "add", "mod", "wake"}]
    BY <1>2 DEF Copy, TypeOK
  <2> QED BY <1>2, <2>6, <2>7, <2>8, <2>9 DEF Copy, TypeOK, consumer
<1>3. ASSUME NEW t \in Threads, AddOffset(t) PROVE TypeOK'
  <2>1. Stage = "add"
    BY <1>3, StageMoves
  <2>2. /\ woff' = [woff EXCEPT ![rec.s] = woff[rec.s] + rec.len]
        /\ published' = [published EXCEPT ![rec.s] = published[rec.s] + rec.len]
    BY <1>3 DEF AddOffset
  <2>3. woff[rec.s] + rec.len \in 0..(N + MaxLen - 1)
        /\ published[rec.s] + rec.len \in 0..MaxBytes
    <3>1. woff[rec.s] < N /\ woff[rec.s] \in Int /\ 0 <= woff[rec.s]
      BY <1>0, <2>1, RingTypes DEF Offsets
    <3>2. published[rec.s] + rec.len <= MaxBytes /\ published[rec.s] \in Nat
      BY <1>0, <2>1, RingTypes DEF Room
    <3> QED BY <1>0, <3>1, <3>2
  <2>4. woff' \in [Streams -> 0..(N + MaxLen - 1)]
    BY <1>0, <2>2, <2>3, UpdateType DEF TypeOK
  <2>5. published' \in [Streams -> 0..MaxBytes]
    BY <1>0, <2>2, <2>3, UpdateType DEF TypeOK
  <2>6. ppc' \in [Threads -> {"idle", "copy", "add", "mod", "wake"}]
    BY <1>3 DEF AddOffset, TypeOK
  <2> QED BY <1>3, <2>4, <2>5, <2>6 DEF AddOffset, TypeOK, consumer
<1>4. ASSUME NEW t \in Threads, ModOffset(t) PROVE TypeOK'
  <2>1. woff[rec.s] \in Int
    BY <1>0, RingTypes
  <2>2. woff[rec.s] % N \in 0..(N + MaxLen - 1)
    <3>1. N + MaxLen - 1 \in Nat /\ N - 1 <= N + MaxLen - 1
      OBVIOUS
    <3> QED BY <2>1, <3>1, ModWithin, Zenon
  <2>3. woff' = [woff EXCEPT ![rec.s] = woff[rec.s] % N]
    BY <1>4 DEF ModOffset
  <2>4. woff' \in [Streams -> 0..(N + MaxLen - 1)]
    BY <1>0, <2>2, <2>3, UpdateType DEF TypeOK
  <2>5. raced' \in BOOLEAN
    BY <1>4 DEF ModOffset, TypeOK
  <2>6. ppc' \in [Threads -> {"idle", "copy", "add", "mod", "wake"}]
    BY <1>4 DEF ModOffset, TypeOK
  <2> QED BY <1>4, <2>4, <2>5, <2>6 DEF ModOffset, TypeOK
<1>5. ASSUME NEW t \in Threads, Wake(t) PROVE TypeOK'
  <2>1. pipe' \in 0..PipeCap
    BY <1>5 DEF Wake, TypeOK
  <2>2. ppc' \in [Threads -> {"idle", "copy", "add", "mod", "wake"}]
    BY <1>5 DEF Wake, TypeOK
  <2> QED BY <1>5, <2>1, <2>2 DEF Wake, TypeOK, consumer
<1>6. CASE LogWake
  <2>1. PICK failed \in SUBSET {s \in Streams : ~named[s]} :
          /\ faults + Cardinality(failed) <= MaxFaults
          /\ faults' = faults + Cardinality(failed)
          /\ named' = [s \in Streams |-> s \notin failed]
    BY <1>6 DEF LogWake
  <2>3. Cardinality(failed) \in Nat
    BY StreamsFinite
  <2>4. faults' \in 0..MaxFaults
    <3>1. faults \in 0..MaxFaults
      BY DEF TypeOK
    <3> QED BY <2>1, <2>3, <3>1
  <2>5. named' \in [Streams -> BOOLEAN]
    BY <2>1
  <2>6. pipe' \in 0..PipeCap
    BY <1>6 DEF LogWake, TypeOK
  <2> QED BY <1>6, <2>4, <2>5, <2>6 DEF LogWake, TypeOK, producer
<1>7. CASE LogTest
  BY <1>7 DEF LogTest, LoadWriteOffset, NextRing, TypeOK, producer, Streams
<1>8. CASE LogBranch
  BY <1>8 DEF LogBranch, LoadWriteOffset, TypeOK, producer
<1>9. ASSUME NEW n \in Int, NEW then \in {"mod", "tailmod"}, Fwrite(n, then),
             UNCHANGED producer, raced' \in BOOLEAN, UNCHANGED <<pipe, named>>
      PROVE  TypeOK'
  <2>1. CASE Leaves(n)
    BY <1>9, <2>1 DEF Leaves, TypeOK, producer
  <2>2. ASSUME NEW k \in 0..n, Writes(n, k, then) PROVE TypeOK'
    <3>1. /\ n >= 0 /\ roff[at] + n <= N
          /\ k < n => faults < MaxFaults
          /\ faults' = IF k < n THEN faults + 1 ELSE faults
          /\ file' = [file EXCEPT ![at] =
                        file[at] \o [i \in 1..k |-> buf[at][roff[at] + i - 1]]]
          /\ roff' = [roff EXCEPT ![at] = roff[at] + k]
          /\ lpc' = then /\ UNCHANGED <<at, corrupt>>
      BY <2>2 DEF Writes, Read
    <3>2. /\ roff[at] \in Int /\ 0 <= roff[at] /\ k \in Nat /\ roff[at] + k <= N
          /\ buf[at] \in [0..(N - 1) -> Nat] /\ file[at] \in Seq(Nat)
      <4>1. /\ roff[at] \in Int /\ 0 <= roff[at]
            /\ buf[at] \in [0..(N - 1) -> Nat] /\ file[at] \in Seq(Nat)
        BY <1>0, RingTypes
      <4>2. n >= 0 /\ roff[at] + n <= N
        BY <3>1
      <4> QED BY <4>1, <4>2
    <3>3. roff' \in [Streams -> 0..N]
      <4>1. roff[at] + k \in 0..N
        BY <3>2
      <4> QED BY <1>0, <3>1, <4>1, UpdateType DEF TypeOK
    <3>4. faults' \in 0..MaxFaults
      BY <3>1 DEF TypeOK
    <3> DEFINE written == [i \in 1..k |-> buf[at][roff[at] + i - 1]]
    <3>5. written \in Seq(Nat)
      <4>1. \A i \in 1..k : roff[at] + i - 1 \in 0..(N - 1)
        BY <3>2
      <4>2. \A i \in 1..k : buf[at][roff[at] + i - 1] \in Nat
        BY <3>2, <4>1
      <4>3. written \in [1..k -> Nat]
        BY <4>2
      <4> HIDE DEF written
      <4> QED BY <3>2, <4>3, FunctionIsSeq
    <3>6. file' \in [Streams -> Seq(Nat)]
      <4> HIDE DEF written
      <4>1. file[at] \o written \in Seq(Nat)
        BY <3>2, <3>5
      <4>2. file' = [file EXCEPT ![at] = file[at] \o written]
        BY <3>1 DEF written
      <4> QED BY <1>0, <4>1, <4>2, UpdateType DEF TypeOK
    <3> QED BY <1>9, <3>1, <3>3, <3>4, <3>6 DEF TypeOK, producer
  <2> QED BY <1>9, <2>1, <2>2, FwriteOutcome
<1>10. CASE LogWrite
  <2>1. woff[at] - roff[at] \in Int
    BY <1>0, RingTypes
  <2>2. raced' \in BOOLEAN
    BY <1>10 DEF LogWrite, LoadWriteOffset, TypeOK
  <2> QED BY <1>10, <2>1, <2>2, <1>9 DEF LogWrite
<1>11. CASE LogWriteTail
  <2>1. N - roff[at] \in Int
    BY <1>0, RingTypes
  <2>2. raced' \in BOOLEAN
    BY <1>11 DEF LogWriteTail, TypeOK
  <2> QED BY <1>11, <2>1, <2>2, <1>9 DEF LogWriteTail
<1>12. CASE LogTailMod \/ LogMod
  <2>1. roff[at] \in Int
    BY <1>0, RingTypes
  <2>2. roff[at] % N \in 0..N
    <3>1. N \in Nat /\ N - 1 <= N
      OBVIOUS
    <3> QED BY <2>1, <3>1, ModWithin, Zenon
  <2>3. roff' = [roff EXCEPT ![at] = roff[at] % N]
    BY <1>12 DEF LogTailMod, LogMod
  <2>4. roff' \in [Streams -> 0..N]
    BY <1>0, <2>2, <2>3, UpdateType DEF TypeOK
  <2>5. lpc' \in {"wait", "test", "head"} /\ at' \in Streams
    BY <1>0, <1>12 DEF LogTailMod, LogMod, NextRing, Streams
  <2> QED BY <1>12, <2>4, <2>5 DEF LogTailMod, LogMod, TypeOK, producer
<1>13. CASE \E s \in Streams : Rotate(s)
  BY <1>13 DEF Rotate, TypeOK, producer, consumer
<1>14. CASE UNCHANGED vars
  BY <1>14 DEF vars, TypeOK, producer, consumer
<1> QED
  BY <1>1, <1>2, <1>3, <1>4, <1>5, <1>6, <1>7, <1>8, <1>10, <1>11, <1>12,
     <1>13, <1>14 DEF Next, InLogPrintf, LogThread

\* Every step keeps the offsets where they may be.
LEMMA OffsetsStep ==
  ASSUME TypeOK, Exclusive, Offsets, [Next]_vars
  PROVE  Offsets'
<1>0. /\ rec.s \in Streams /\ rec.len \in Nat /\ at \in Streams
      /\ woff \in [Streams -> 0..(N + MaxLen - 1)] /\ roff \in [Streams -> 0..N]
  BY RecTypes DEF TypeOK
<1> USE Sizes DEF Offsets
<1>1. ASSUME NEW t \in Threads, LogPrintf(t) \/ Copy(t) \/ Wake(t)
      PROVE  Offsets'
  <2>1. Stage # "mod" /\ UNCHANGED <<woff, roff, lpc, at>>
    BY <1>1, StageMoves DEF LogPrintf, Copy, Wake, consumer
  <2> QED BY <2>1
<1>2. ASSUME NEW t \in Threads, AddOffset(t) PROVE Offsets'
  <2>1. Stage = "add" /\ Stage' = "mod" /\ UNCHANGED <<rec, roff, lpc, at>>
    BY <1>2, StageMoves DEF AddOffset, consumer
  <2>2. woff' = [woff EXCEPT ![rec.s] = woff[rec.s] + rec.len]
    BY <1>2 DEF AddOffset
  <2>3. ASSUME NEW s \in Streams, s # rec.s PROVE ~ (woff'[s] >= N)
    BY <1>0, <2>1, <2>2, <2>3
  <2> QED BY <2>1, <2>3
<1>3. ASSUME NEW t \in Threads, ModOffset(t) PROVE Offsets'
  <2>1. UNCHANGED <<rec, roff, lpc, at>>
    BY <1>3 DEF ModOffset
  <2>2. woff' = [woff EXCEPT ![rec.s] = woff[rec.s] % N]
    BY <1>3 DEF ModOffset
  <2>3. woff[rec.s] % N \in 0..(N - 1)
    BY <1>0, RingTypes, ModRange
  <2> DEFINE r == woff[rec.s] % N
  <2>4. woff' = [woff EXCEPT ![rec.s] = r] /\ r \in 0..(N - 1)
    BY <2>2, <2>3
  <2> HIDE DEF r
  <2>5. ASSUME NEW s \in Streams PROVE ~ (woff'[s] >= N)
    BY <1>0, <2>4
  <2> QED BY <2>1, <2>5
<1>4. CASE Elsewhere \/ UNCHANGED vars
  <2>1. UNCHANGED <<woff, rec>> /\ Stage' = Stage
    BY <1>4, StageStays DEF producer
  <2>2. ASSUME NEW n \in Int, NEW then \in {"mod", "tailmod"}, Fwrite(n, then)
        PROVE  Offsets'
    <3>1. CASE Leaves(n)
      BY <2>1, <3>1 DEF Leaves
    <3>2. ASSUME NEW k \in 0..n, Writes(n, k, then) PROVE Offsets'
      <4>1. /\ roff' = [roff EXCEPT ![at] = roff[at] + k]
            /\ lpc' = then /\ at' = at
        BY <3>2 DEF Writes
      <4>2. \A s \in Streams : s # at => roff'[s] # N
        BY <1>0, <4>1
      <4> QED BY <2>1, <4>1, <4>2
    <3> QED BY <2>2, <3>1, <3>2, FwriteOutcome
  <2>3. CASE LogWrite
    BY <1>0, <2>2, <2>3, RingTypes DEF LogWrite
  <2>4. CASE LogWriteTail
    BY <1>0, <2>2, <2>4, RingTypes DEF LogWriteTail
  <2>5. CASE LogTailMod \/ LogMod
    <3> DEFINE r == roff[at] % N
    <3>1. roff' = [roff EXCEPT ![at] = r] /\ r \in 0..(N - 1)
      BY <1>0, <2>5, RingTypes, ModRange DEF LogTailMod, LogMod
    <3> HIDE DEF r
    <3>2. \A s \in Streams : roff'[s] # N
      BY <1>0, <2>5, <3>1 DEF LogTailMod, LogMod
    <3>3. lpc' = "wait" => at' = "log"
      BY <2>5 DEF LogTailMod, LogMod, NextRing
    <3> QED BY <2>1, <3>2, <3>3
  <2>6. CASE LogWake \/ LogTest \/ LogBranch
    <3>1. /\ roff' = roff /\ lpc \notin {"mod", "tailmod"}
          /\ lpc' = "wait" => at' = "log"
      BY <2>6 DEF LogWake, LogTest, LogBranch, LogThreadAt, NextRing
    <3> QED BY <2>1, <3>1
  <2>7. CASE (\E s \in Streams : Rotate(s)) \/ UNCHANGED vars
    <3>1. UNCHANGED <<roff, lpc, at>>
      BY <2>7 DEF Rotate, consumer, vars
    <3> QED BY <2>1, <3>1
  <2> QED
    BY <1>4, <2>3, <2>4, <2>5, <2>6, <2>7 DEF Elsewhere, LogThread
<1> QED BY <1>1, <1>2, <1>3, <1>4 DEF Next, InLogPrintf, Elsewhere

\* A record that is copied, or cut, ends in a newline.
LEMMA LinesStep ==
  ASSUME TypeOK, Exclusive, Lines, [Next]_vars
  PROVE  Lines'
<1>0. rec.s \in Streams /\ rec.len \in Nat
  BY RecTypes
<1> USE DEF Lines
<1>1. ASSUME NEW t \in Threads, LogPrintf(t) \/ ModOffset(t) \/ Wake(t)
      PROVE  Lines'
  <2>1. Stage' # "add" /\ UNCHANGED <<published, ends>>
    BY <1>1, StageMoves DEF LogPrintf, ModOffset, Wake
  <2> QED BY <2>1
<1>2. ASSUME NEW t \in Threads, Copy(t) PROVE Lines'
  <2> DEFINE ret == Fit(rec.s, rec.len)
  <2>1. /\ published' = published
        /\ rec' = [rec EXCEPT !.len = ret]
        /\ ends' = [ends EXCEPT ![rec.s] = ends[rec.s] \cup
                     {published[rec.s] + k : k \in Newline(rec.len, ret)}]
    BY <1>2 DEF Copy
  <2>2. rec'.s = rec.s /\ rec'.len = ret
    BY <2>1 DEF TypeOK
  <2> HIDE DEF ret
  <2>3. ASSUME NEW s \in Streams PROVE ends[s] \subseteq ends'[s]
    BY <1>0, <2>1 DEF TypeOK
  <2>4. ret # 0 => published[rec.s] + ret \in ends'[rec.s]
    BY <1>0, <2>1 DEF TypeOK, Newline
  <2> QED BY <1>0, <2>1, <2>2, <2>3, <2>4
<1>3. ASSUME NEW t \in Threads, AddOffset(t) PROVE Lines'
  <2>1. /\ Stage = "add" /\ Stage' = "mod" /\ ends' = ends
        /\ published' = [published EXCEPT ![rec.s] = published[rec.s] + rec.len]
    BY <1>3, StageMoves DEF AddOffset
  <2>2. \A s \in Streams : s # rec.s => published'[s] = published[s]
    BY <2>1 DEF TypeOK
  <2>3. published'[rec.s] = published[rec.s] + rec.len
    BY <1>0, <2>1 DEF TypeOK
  <2>4. published[rec.s] \in Nat
    BY <1>0, RingTypes
  <2> QED BY <1>0, <2>1, <2>2, <2>3, <2>4
<1>4. CASE Elsewhere \/ UNCHANGED vars
  BY <1>4, StageStays DEF producer
<1> QED BY <1>1, <1>2, <1>3, <1>4 DEF Next, InLogPrintf, Elsewhere

-----------------------------------------------------------------------------
(* A failed write, and the end of the ring.                                *)

\* What has gone wrong is not put right.
LEMMA Monotone ==
  ASSUME TypeOK, [Next]_vars
  PROVE  /\ raced => raced'
         /\ corrupt => corrupt'
         /\ faults' \in Nat /\ faults <= faults'
<1>0. faults \in Nat
  BY Sizes DEF TypeOK
<1>1. ASSUME NEW t \in Threads, LogPrintf(t) \/ InLogPrintf(t)
      PROVE  (raced => raced') /\ corrupt' = corrupt /\ faults' = faults
  <2>1. CASE ModOffset(t)
    <3>1. raced => raced'
      BY <2>1, Zenon DEF ModOffset
    <3>2. corrupt' = corrupt /\ faults' = faults
      BY <2>1, Zenon DEF ModOffset
    <3> QED BY <3>1, <3>2
  <2>2. CASE ~ ModOffset(t)
    <3>1. UNCHANGED consumer /\ faults' = faults
      BY <1>1, <2>2 DEF LogPrintf, InLogPrintf, Copy, AddOffset, Wake
    <3> QED BY <3>1 DEF consumer
  <2> QED BY <2>1, <2>2
<1>2. CASE LogWake
  <2>1. PICK failed \in SUBSET {s \in Streams : ~named[s]} :
          faults' = faults + Cardinality(failed)
    BY <1>2 DEF LogWake
  <2>2. Cardinality(failed) \in Nat
    BY StreamsFinite
  <2> QED BY <1>0, <1>2, <2>1, <2>2 DEF LogWake
<1>3. ASSUME NEW n, NEW then, Fwrite(n, then), raced => raced',
             LogThreadAt("linear") \/ LogThreadAt("head") \/ LogThreadAt("tail")
      PROVE  (raced => raced') /\ (corrupt => corrupt') /\ faults' \in Nat
             /\ faults <= faults'
  <2>1. ~ corrupt
    BY <1>3 DEF LogThreadAt
  <2>2. CASE Leaves(n)
    <3>1. faults' = faults
      BY <2>2 DEF Leaves
    <3> QED BY <1>0, <1>3, <2>1, <3>1
  <2>3. ASSUME NEW k \in 0..n, Writes(n, k, then)
        PROVE  faults' \in Nat /\ faults <= faults'
    <3>1. faults' = faults + 1 \/ faults' = faults
      BY <2>3 DEF Writes
    <3> QED BY <1>0, <3>1
  <2> QED BY <1>3, <2>1, <2>2, <2>3, FwriteOutcome
<1>4. CASE LogWrite \/ LogWriteTail
  <2>1. raced => raced'
    BY <1>4, Zenon DEF LogWrite, LogWriteTail, LoadWriteOffset
  <2> QED BY <1>3, <1>4, <2>1 DEF LogWrite, LogWriteTail
<1>5. CASE LogTest \/ LogBranch \/ LogTailMod \/ LogMod
  <2>1. raced => raced'
    BY <1>5, Zenon DEF LogTest, LogBranch, LogTailMod, LogMod, LoadWriteOffset
  <2>2. faults' = faults /\ corrupt' = corrupt
    BY <1>5 DEF LogTest, LogBranch, LogTailMod, LogMod
  <2> QED BY <1>0, <2>1, <2>2
<1>6. CASE (\E s \in Streams : Rotate(s)) \/ UNCHANGED vars
  BY <1>0, <1>6 DEF Rotate, vars, consumer
<1> QED BY <1>0, <1>1, <1>2, <1>4, <1>5, <1>6 DEF Next, LogThread

\* The log thread hands fwrite the tail of the ring, or, as long as no offset
\* wrapped under it and no write failed, what is before the write offset.
LEMMA LeavesStep ==
  ASSUME TypeOK, Offsets, Intact, Whole, LeavesRingWhy, [Next]_vars
  PROVE  LeavesRingWhy'
<1> SUFFICES ASSUME corrupt', ~ raced', ~ (faults' > 0) PROVE FALSE
  BY DEF LeavesRingWhy
<1>0. /\ at \in Streams /\ woff[at] \in Int /\ roff[at] \in Int
      /\ 0 <= woff[at] /\ 0 <= roff[at] /\ roff[at] <= N
  BY RecTypes, RingTypes
<1>1. ~ raced /\ faults = 0
  <2>1. faults \in Nat
    BY Sizes DEF TypeOK
  <2> QED BY <2>1, Monotone
<1>2. ~ corrupt
  BY <1>1 DEF LeavesRingWhy
<1>3. CASE LogWrite
  <2> DEFINE n == woff[at] - roff[at]
  <2>1. Leaves(n)
    BY <1>2, <1>3, FwriteOutcome DEF LogWrite, Leaves, Writes
  <2>2. woff[at] < N
    <3>1. ~ (woff[at] >= N)
      BY <1>3, Zenon DEF LogWrite, LoadWriteOffset
    <3> QED BY <1>0, <3>1, Sizes
  <2>3. woff[at] >= roff[at]
    BY <1>0, <1>1, <1>2, <1>3 DEF LogWrite, LogThreadAt, Intact, Learnt, Whole
  <2>4. ~ (n < 0) /\ ~ (roff[at] + n > N)
    BY <1>0, <2>2, <2>3, Sizes
  <2> QED BY <2>1, <2>4 DEF Leaves
<1>4. CASE LogWriteTail
  <2> DEFINE n == N - roff[at]
  <2>1. Leaves(n)
    BY <1>2, <1>4, FwriteOutcome DEF LogWriteTail, Leaves, Writes
  <2>2. ~ (n < 0) /\ ~ (roff[at] + n > N)
    BY <1>0, Sizes
  <2> QED BY <2>1, <2>2 DEF Leaves
<1>5. CASE ~ (LogWrite \/ LogWriteTail)
  <2>1. corrupt' = corrupt
    BY <1>5 DEF Next, LogPrintf, InLogPrintf, Copy, AddOffset, ModOffset, Wake,
         LogThread, LogWake, LogTest, LogBranch, LogTailMod, LogMod, Rotate,
         vars, consumer
  <2> QED BY <1>2, <2>1
<1> QED BY <1>3, <1>4, <1>5

\* Without a failed write the tail is written whole.
LEMMA WholeStep ==
  ASSUME TypeOK, Whole, [Next]_vars
  PROVE  Whole'
<1>0. at \in Streams /\ roff[at] \in Int /\ roff \in [Streams -> 0..N]
      /\ faults \in Nat
  BY RecTypes, RingTypes, Sizes DEF TypeOK
<1> USE DEF Whole
<1>1. ASSUME NEW t \in Threads, LogPrintf(t) \/ InLogPrintf(t)
      PROVE  Whole'
  <2>1. UNCHANGED <<lpc, at, roff, faults>>
    BY <1>1 DEF LogPrintf, InLogPrintf, Copy, AddOffset, ModOffset, Wake, consumer
  <2> QED BY <2>1
<1>2. CASE LogWake \/ LogTest \/ LogBranch \/ LogMod
  BY <1>2 DEF LogWake, LogTest, LogBranch, LogMod, NextRing
<1>3. CASE LogWrite
  <2>1. LogThreadAt("linear") \/ LogThreadAt("head")
    BY <1>3 DEF LogWrite
  <2>2. Fwrite(woff[at] - roff[at], "mod")
    BY <1>3 DEF LogWrite
  <2>3. CASE Leaves(woff[at] - roff[at])
    BY <2>3 DEF Leaves
  <2>4. CASE lpc' = "mod"
    BY <2>4
  <2> QED BY <2>2, <2>3, <2>4, FwriteOutcome DEF Writes
<1>4. CASE LogWriteTail
  <2>1. Fwrite(N - roff[at], "tailmod") /\ lpc = "tail"
    BY <1>4 DEF LogWriteTail, LogThreadAt
  <2>2. CASE Leaves(N - roff[at])
    BY <2>1, <2>2 DEF Leaves
  <2>3. ASSUME NEW k \in 0..(N - roff[at]), Writes(N - roff[at], k, "tailmod")
        PROVE  Whole'
    <3>1. /\ faults' = IF k < N - roff[at] THEN faults + 1 ELSE faults
          /\ roff' = [roff EXCEPT ![at] = roff[at] + k]
          /\ lpc' = "tailmod" /\ at' = at
      BY <2>3 DEF Writes
    <3>2. faults' = 0 => k = N - roff[at]
      BY <1>0, <3>1, Sizes
    <3>3. roff'[at] = roff[at] + k
      BY <1>0, <3>1
    <3> QED BY <1>0, <3>1, <3>2, <3>3, Sizes
  <2> QED BY <2>1, <2>2, <2>3, FwriteOutcome
<1>5. CASE LogTailMod
  <2>1. /\ lpc = "tailmod" /\ lpc' = "head" /\ at' = at /\ faults' = faults
        /\ roff' = [roff EXCEPT ![at] = roff[at] % N]
    BY <1>5 DEF LogTailMod, LogThreadAt
  <2>2. N % N = 0
    <3>1. (0 + N) % N = 0 % N /\ 0 % N = 0
      BY ModShift, ModSmall, Sizes
    <3> QED BY <3>1, Sizes
  <2>3. roff'[at] = roff[at] % N
    BY <1>0, <2>1
  <2> QED BY <2>1, <2>2, <2>3
<1>6. CASE (\E s \in Streams : Rotate(s)) \/ UNCHANGED vars
  <2>1. UNCHANGED <<lpc, at, roff, faults>>
    BY <1>6 DEF Rotate, vars, consumer
  <2> QED BY <2>1
<1> QED BY <1>1, <1>2, <1>3, <1>4, <1>5, <1>6 DEF Next, LogThread

-----------------------------------------------------------------------------
(* What the rings hold.                                                    *)

\* A difference less than the size of a ring is its own remainder, one below
\* zero once the size is added.
LEMMA Distance ==
  ASSUME NEW d \in Int
  PROVE  /\ 0 <= d /\ d < N => d % N = d
         /\ d < 0 /\ 0 - N <= d => d % N = d + N
<1>1. CASE 0 <= d /\ d < N
  <2>1. d \in 0..(N - 1)
    BY <1>1, Sizes
  <2> QED BY <1>1, <2>1, ModSmall, Sizes
<1>2. CASE d < 0 /\ 0 - N <= d
  <2> DEFINE e == d + N
  <2>1. e \in 0..(N - 1) /\ e = d + N
    BY <1>2, Sizes
  <2> HIDE DEF e
  <2>2. e % N = e
    BY <2>1, ModSmall, Sizes
  <2>3. e % N = d % N
    BY <2>1, ModShift, Sizes
  <2> QED BY <1>2, <2>1, <2>2, <2>3
<1> QED BY <1>1, <1>2, Sizes

\* A count of bytes.
LEMMA ComingType ==
  ASSUME TypeOK, NEW s \in Streams
  PROVE  Coming(s) \in Nat
BY RecTypes DEF Coming

\* The offsets tell how many bytes are published and not yet written.
LEMMA HeldCount ==
  ASSUME TypeOK, NEW s \in Streams, Held(s)
  PROVE  /\ published[s] - Len(file[s]) \in 0..(N - 1)
         /\ (woff[s] - roff[s]) % N = published[s] - Len(file[s])
<1> DEFINE P == published[s]
           L == Len(file[s])
           W == woff[s]
           R == roff[s]
<1>1. P \in Int /\ L \in Int /\ W \in Int /\ R \in Int
  BY RingTypes
<1>2. Cong(N, W, P) /\ Cong(N, R, L)
  BY DEF Held, Cong
<1>3. L <= P /\ P + Coming(s) - L <= N - 1 /\ Coming(s) \in Nat
  BY ComingType DEF Held
<1> HIDE DEF P, L, W, R
<1>4. (W - R) % N = (P - L) % N
  <2>1. Cong(N, W - R, P - L)
    BY <1>1, <1>2, CongDiff, Sizes
  <2> QED BY <2>1 DEF Cong
<1>5. P - L \in 0..(N - 1)
  BY <1>1, <1>3, Sizes
<1>6. (P - L) % N = P - L
  BY <1>5, ModSmall, Sizes
<1> QED BY <1>4, <1>5, <1>6 DEF P, L, W, R

\* A step that leaves the bytes of a ring where they are, and its offsets up
\* to the size of the ring.
LEMMA HeldKept ==
  ASSUME NEW s \in Streams, Held(s),
         file'[s] = file[s], published'[s] = published[s], buf'[s] = buf[s],
         Coming(s)' = Coming(s),
         roff'[s] % N = roff[s] % N, woff'[s] % N = woff[s] % N
  PROVE  Held(s)'
BY DEF Held

\* The free space log_printf computes lies outside the bytes not yet written,
\* and the record goes where the log thread will look for it.
LEMMA CopyKeeps ==
  ASSUME TypeOK, Exclusive, Offsets, NEW t \in Threads, Copy(t),
         NEW s \in Streams, s = rec.s, Held(s)
  PROVE  Held(s)'
<1> DEFINE ret == Fit(s, rec.len)
           P == published[s]
           L == Len(file[s])
           W == woff[s]
           R == roff[s]
           c(i) == (i - W + N) % N
<1>1. Stage = "copy" /\ Stage' = "add"
  BY StageMoves
<1>2. /\ s \in Streams /\ rec.len \in Nat
      /\ P \in Nat /\ L \in Nat /\ W \in Int /\ R \in Int
  BY RecTypes, RingTypes
<1>3. /\ rec' = [rec EXCEPT !.len = ret]
      /\ UNCHANGED <<woff, published, roff, file>>
  BY DEF Copy, consumer
<1>4. rec'.s = s /\ rec'.len = ret
  BY <1>3 DEF TypeOK
<1>5. Coming(s) = 0 /\ Coming(s)' = ret
  BY <1>1, <1>4 DEF Coming
<1>6. ret \in Nat /\ ret <= N - 1 - (P - L)
  <2> DEFINE x == W - R
  <2>1. x \in Int /\ x % N = P - L
    BY <1>2, HeldCount
  <2>2. BufLeft(s) = N - ((x + N) % N)
    BY DEF BufLeft
  <2> HIDE DEF x
  <2>3. (x + N) % N = x % N
    BY <2>1, ModShift, Sizes
  <2>4. BufLeft(s) = N - (P - L)
    BY <2>1, <2>2, <2>3
  <2>5. ret \in 0..rec.len /\ ret <= BufLeft(s) - 1
    BY <1>2, FitBounds
  <2> HIDE DEF ret, P, L
  <2> QED BY <1>2, <2>4, <2>5, Sizes
<1>7. buf'[s] = [i \in 0..(N - 1) |->
                   IF c(i) < ret THEN P + 1 + c(i) ELSE buf[s][i]]
  <2>1. buf' = [buf EXCEPT ![s] = [i \in 0..(N - 1) |->
                  IF c(i) < ret THEN P + 1 + c(i) ELSE buf[s][i]]]
    BY DEF Copy
  <2> HIDE DEF c, ret, P
  <2> QED BY <1>2, <2>1 DEF TypeOK
<1>8. /\ file[s] = [i \in 1..L |-> i] /\ L <= P
      /\ R % N = L % N /\ W % N = P % N
      /\ \A k \in (L + 1)..P : buf[s][(k - 1) % N] = k
  BY <1>2, <1>5 DEF Held
<1>9. ASSUME NEW k \in (L + 1)..(P + ret) PROVE buf'[s][(k - 1) % N] = k
  <2> DEFINE i == (k - 1) % N
             x == i - W
             d == k - 1 - P
  <2>0. k \in Int
    BY <1>2, <1>6
  <2>1. i \in 0..(N - 1)
    <3> DEFINE y == k - 1
    <3>1. y \in Int
      BY <2>0
    <3> HIDE DEF y
    <3>2. y % N \in 0..(N - 1)
      BY <3>1, ModRange, Sizes
    <3> QED BY <3>2 DEF y
  <2>2. i % N = (k - 1) % N
    BY <2>1, ModSmall, Sizes
  <2>3. (i - W) % N = (k - 1 - P) % N
    <3> DEFINE y == k - 1
    <3>1. i \in Int /\ y \in Int /\ W \in Int /\ P \in Int
      BY <1>2, <2>0, <2>1
    <3>2. Cong(N, i, y) /\ Cong(N, W, P)
      BY <1>8, <2>2 DEF Cong
    <3> HIDE DEF i, y, W, P
    <3>3. Cong(N, i - W, y - P)
      BY <3>1, <3>2, CongDiff, Sizes
    <3> QED BY <3>3 DEF Cong, y
  <2>4. c(i) = d % N
    <3>1. x \in Int
      BY <1>2, <2>1
    <3>2. c(i) = (x + N) % N
      OBVIOUS
    <3>3. x % N = d % N
      BY <2>3
    <3> HIDE DEF x, d, c, i
    <3> QED BY <3>1, <3>2, <3>3, ModShift, Sizes
  <2>5. d \in Int /\ k = d + 1 + P
    BY <1>2, <2>0
  <2>6. buf'[s][i] = IF c(i) < ret THEN P + 1 + c(i) ELSE buf[s][i]
    <3> HIDE DEF i, c, ret, P
    <3> QED BY <1>7, <2>1
  <2> HIDE DEF d, c, ret, P, L, W, R
  <2>7. CASE k > P
    <3>1. 0 <= d /\ d < ret /\ d < N
      BY <1>2, <1>6, <1>8, <2>5, <2>7, Sizes
    <3>2. c(i) = d
      BY <2>4, <2>5, <3>1, Distance
    <3> HIDE DEF i
    <3> QED BY <1>2, <2>5, <2>6, <3>1, <3>2 DEF i
  <2>8. CASE ~ (k > P)
    <3>1. d < 0 /\ 0 - N <= d /\ d + N >= ret
      BY <1>2, <1>6, <1>8, <2>0, <2>5, <2>8, Sizes
    <3>2. c(i) = d + N
      BY <2>4, <2>5, <3>1, Distance
    <3>3. ~ (c(i) < ret)
      BY <1>6, <2>5, <3>1, <3>2, Sizes
    <3>4. buf[s][i] = k
      BY <1>2, <1>8, <2>0, <2>8
    <3> QED BY <2>6, <3>3, <3>4
  <2> QED BY <2>7, <2>8
<1> HIDE DEF ret, c
<1>10. P + ret - L <= N - 1
  BY <1>2, <1>6, Sizes
<1> QED BY <1>3, <1>4, <1>5, <1>8, <1>9, <1>10 DEF Held

\* Bytes the log thread takes from the read offset on are the next ones.
LEMMA WriteKeeps ==
  ASSUME TypeOK, Held(at), NEW k \in Nat,
         k <= published[at] - Len(file[at]), roff[at] + k <= N,
         file' = [file EXCEPT ![at] = file[at] \o Read(k)],
         roff' = [roff EXCEPT ![at] = roff[at] + k],
         UNCHANGED <<producer, at>>
  PROVE  Held(at)'
<1> DEFINE L == Len(file[at])
           R == roff[at]
           P == published[at]
<1>1. /\ at \in Streams /\ L \in Nat /\ R \in Nat /\ P \in Nat
      /\ file[at] \in Seq(Nat) /\ buf[at] \in [0..(N - 1) -> Nat]
  BY RecTypes, RingTypes
<1>2. UNCHANGED <<published, woff, buf, rec, mutex, ppc>>
  BY DEF producer
<1>3. Coming(at)' = Coming(at) /\ Coming(at) \in Nat
  BY <1>1, <1>2, ComingType DEF Coming, Stage
<1>4. /\ file[at] = [i \in 1..L |-> i] /\ R % N = L % N
      /\ P + Coming(at) - L <= N - 1
      /\ woff[at] % N = P % N
      /\ \A j \in (L + 1)..(P + Coming(at)) : buf[at][(j - 1) % N] = j
  BY DEF Held
<1>5. roff'[at] = R + k
  BY <1>1 DEF TypeOK
<1>6. (R + k) % N = (L + k) % N
  <2>1. Cong(N, R, L) /\ R \in Int /\ L \in Int /\ k \in Int
    BY <1>1, <1>4 DEF Cong
  <2> HIDE DEF R, L
  <2>2. Cong(N, R + k, L + k)
    BY <2>1, CongAdd, Sizes
  <2> QED BY <2>2 DEF Cong
<1>7. ASSUME NEW i \in 1..k PROVE buf[at][R + i - 1] = L + i
  <2> DEFINE e == i - 1
  <2>1. e \in Int /\ e = i - 1 /\ 0 <= e /\ e < k
    OBVIOUS
  <2> HIDE DEF e
  <2>2. (R + e) % N = (L + e) % N
    <3>1. Cong(N, R, L) /\ R \in Int /\ L \in Int
      BY <1>1, <1>4 DEF Cong
    <3> HIDE DEF R, L
    <3>2. Cong(N, R + e, L + e)
      BY <2>1, <3>1, CongAdd, Sizes
    <3> QED BY <3>2 DEF Cong
  <2>3. R + e \in 0..(N - 1)
    BY <1>1, <2>1, Sizes
  <2>4. (R + e) % N = R + e
    BY <2>3, ModSmall, Sizes
  <2> DEFINE j == L + i
  <2>5. j \in (L + 1)..(P + Coming(at)) /\ j - 1 = L + e
    BY <1>1, <1>3, <2>1
  <2>6. buf[at][(j - 1) % N] = j
    BY <1>4, <2>5
  <2>7. (j - 1) % N = R + e
    BY <2>2, <2>4, <2>5
  <2>8. R + e = R + i - 1
    BY <1>1, <2>1
  <2> QED BY <2>6, <2>7, <2>8
<1> DEFINE more == Read(k)
<1>8. /\ more \in Seq(Nat) /\ Len(more) = k
      /\ \A i \in 1..k : more[i] = L + i
  <2>1. \A i \in 1..k : more[i] = L + i
    BY <1>7 DEF Read
  <2>2. DOMAIN more = 1..k /\ more = [i \in 1..k |-> more[i]]
    BY DEF Read
  <2>3. more \in [1..k -> Nat]
    <3>1. \A i \in 1..k : L + i \in Nat
      BY <1>1
    <3> HIDE DEF more
    <3> QED BY <2>1, <2>2, <3>1
  <2> HIDE DEF more
  <2> QED BY <2>1, <2>3, FunctionIsSeq
<1>9. file'[at] = file[at] \o more
  BY <1>1 DEF TypeOK
<1> HIDE DEF more
<1>10. /\ Len(file'[at]) = L + k
       /\ file'[at] = [i \in 1..(L + k) |-> i]
  <2> DEFINE f == file[at]
  <2>1. f \in Seq(Nat) /\ f = [i \in 1..L |-> i]
    BY <1>1, <1>4
  <2>2. file'[at] = f \o more
    BY <1>9
  <2> HIDE DEF f, L
  <2>3. L \in Nat /\ more \in Seq(Nat) /\ Len(more) = k /\ Follows(more, L)
    BY <1>1, <1>8 DEF Follows
  <2>4. f = Numbers(L)
    BY <2>1 DEF Numbers
  <2>5. /\ Len(f \o more) = L + k
        /\ f \o more = Numbers(L + k)
    BY <2>1, <2>3, <2>4, CountOn
  <2> QED BY <2>2, <2>5 DEF Numbers
<1>11. ASSUME NEW j \in (L + k + 1)..(P + Coming(at))
       PROVE  buf[at][(j - 1) % N] = j
  <2>1. j \in (L + 1)..(P + Coming(at))
    BY <1>1, <1>3
  <2> QED BY <1>4, <2>1
<1>12. L + k <= P /\ P + Coming(at) - (L + k) <= N - 1
  <2> DEFINE m == Coming(at)
  <2>1. m \in Nat /\ P + m - L <= N - 1
    BY <1>3, <1>4
  <2>0. k <= P - L
    OBVIOUS
  <2> HIDE DEF m, P, L
  <2>2. L + k <= P /\ P + m - (L + k) <= N - 1
    BY <1>1, <2>0, <2>1, Sizes
  <2> QED BY <2>2 DEF m, P, L
<1> HIDE DEF L, R, P
<1>13. UNCHANGED at
  OBVIOUS
<1> USE DEF P
<1> QED
  BY <1>2, <1>3, <1>4, <1>5, <1>6, <1>10, <1>11, <1>12, <1>13 DEF Held

\* A write offset the log thread loads is within the ring, or the step is
\* remembered as a race.
LEMMA Loaded ==
  ASSUME TypeOK, LoadWriteOffset, ~ raced'
  PROVE  ~ raced /\ woff[at] < N
<1>1. ~ raced /\ ~ (woff[at] >= N)
  BY Zenon DEF LoadWriteOffset
<1>2. woff[at] \in Int
  BY RecTypes, RingTypes
<1> QED BY <1>1, <1>2, Sizes

\* How the two offsets of a ring lie, and how much there is to write.
LEMMA OffsetsTell ==
  ASSUME TypeOK, NEW s \in Streams, Held(s), woff[s] < N
  PROVE  /\ woff[s] >= roff[s] => published[s] - Len(file[s]) = woff[s] - roff[s]
         /\ woff[s] < roff[s] =>
              published[s] - Len(file[s]) = woff[s] - roff[s] + N
<1> DEFINE d == woff[s] - roff[s]
<1>1. d \in Int /\ d < N /\ 0 - N <= d /\ (woff[s] >= roff[s] <=> 0 <= d)
      /\ (woff[s] < roff[s] <=> d < 0)
  BY RingTypes, Sizes
<1>2. d % N = published[s] - Len(file[s])
  BY HeldCount
<1> HIDE DEF d
<1>3. /\ 0 <= d => d % N = d
      /\ d < 0 => d % N = d + N
  BY <1>1, Distance
<1> QED BY <1>1, <1>2, <1>3 DEF d



\* log_printf, seen from the log thread.
LEMMA ProducerLearnt ==
  ASSUME TypeOK, Exclusive, NEW t \in Threads, LogPrintf(t) \/ InLogPrintf(t),
         Learnt, ~ raced'
  PROVE  Learnt'
<1>0. /\ at \in Streams /\ rec.s \in Streams /\ rec.len \in Nat
      /\ woff[at] \in Int /\ roff[at] \in Int
      /\ published[at] \in Nat /\ Len(file[at]) \in Nat
  BY RecTypes, RingTypes
<1>1. UNCHANGED <<roff, lpc, at, file>>
  BY DEF LogPrintf, InLogPrintf, Copy, AddOffset, ModOffset, Wake, consumer
<1>2. CASE LogPrintf(t) \/ Copy(t) \/ Wake(t)
  <2>1. UNCHANGED <<woff, published>>
    BY <1>2 DEF LogPrintf, Copy, Wake
  <2> QED BY <1>1, <2>1 DEF Learnt
<1>3. CASE AddOffset(t)
  <2>1. /\ woff' = [woff EXCEPT ![rec.s] = woff[rec.s] + rec.len]
        /\ published' = [published EXCEPT ![rec.s] = published[rec.s] + rec.len]
    BY <1>3 DEF AddOffset
  <2>2. \/ woff'[at] = woff[at] /\ published'[at] = published[at]
        \/ /\ woff'[at] = woff[at] + rec.len
           /\ published'[at] = published[at] + rec.len
    BY <1>0, <2>1 DEF TypeOK
  <2> QED BY <1>0, <1>1, <2>2, Sizes DEF Learnt
<1>4. CASE ModOffset(t)
  <2>1. /\ published' = published
        /\ woff' = [woff EXCEPT ![rec.s] = woff[rec.s] % N]
    BY <1>4 DEF ModOffset
  <2>2. lpc = "linear" => woff'[at] = woff[at]
    <3>1. CASE rec.s # at
      BY <1>0, <2>1, <3>1 DEF TypeOK
    <3>2. CASE rec.s = at /\ lpc = "linear"
      <4>1. ~ (woff[at] >= N)
        BY <1>4, <3>2, Zenon DEF ModOffset
      <4>2. woff[at] \in 0..(N - 1)
        BY <1>0, <4>1, RingTypes, Sizes
      <4>3. woff[at] % N = woff[at]
        BY <4>2, ModSmall, Sizes
      <4>4. woff'[at] = woff[at] % N
        BY <1>0, <2>1, <3>2 DEF TypeOK
      <4> QED BY <4>3, <4>4
    <3> QED BY <3>1, <3>2
  <2> QED BY <1>1, <2>1, <2>2 DEF Learnt
<1> QED BY <1>2, <1>3, <1>4 DEF InLogPrintf

\* log_printf keeps what a ring holds.
LEMMA ProducerHeld ==
  ASSUME TypeOK, Exclusive, Offsets,
         NEW t \in Threads, LogPrintf(t) \/ InLogPrintf(t),
         NEW s \in Streams, Held(s)
  PROVE  Held(s)'
<1>0. /\ rec.s \in Streams /\ rec.len \in Nat
      /\ woff[s] \in Int /\ published[s] \in Int
  BY RecTypes, RingTypes
<1>1. UNCHANGED <<roff, file>>
  BY DEF LogPrintf, InLogPrintf, Copy, AddOffset, ModOffset, Wake, consumer
<1>2. CASE LogPrintf(t) \/ Wake(t)
  <2>1. UNCHANGED <<woff, published, buf>> /\ Coming(s) = 0 /\ Coming(s)' = 0
    BY <1>2, StageMoves DEF LogPrintf, Wake, Coming
  <2> QED BY <1>1, <2>1, HeldKept
<1>3. CASE Copy(t)
  <2>1. CASE s = rec.s
    BY <1>3, <2>1, CopyKeeps
  <2>2. CASE s # rec.s
    <3>1. Stage = "copy" /\ rec'.s = rec.s
      BY <1>3, StageMoves DEF Copy, TypeOK
    <3>2. Coming(s) = 0 /\ Coming(s)' = 0
      BY <2>2, <3>1 DEF Coming
    <3>3. UNCHANGED <<woff, published>>
      BY <1>3 DEF Copy
    <3>4. buf'[s] = buf[s]
      <4>1. \E r : buf' = [buf EXCEPT ![rec.s] = r]
        BY <1>3 DEF Copy
      <4> QED BY <1>0, <2>2, <4>1 DEF TypeOK
    <3> QED BY <1>1, <3>2, <3>3, <3>4, HeldKept
  <2> QED BY <2>1, <2>2
<1>4. CASE AddOffset(t)
  <2>1. /\ woff' = [woff EXCEPT ![rec.s] = woff[rec.s] + rec.len]
        /\ published' = [published EXCEPT ![rec.s] = published[rec.s] + rec.len]
        /\ buf' = buf
    BY <1>4 DEF AddOffset
  <2>2. Stage = "add" /\ Coming(s)' = 0
    BY <1>4, StageMoves DEF Coming
  <2>3. CASE s # rec.s
    <3>1. woff'[s] = woff[s] /\ published'[s] = published[s] /\ Coming(s) = 0
      BY <1>0, <2>1, <2>3 DEF TypeOK, Coming
    <3> QED BY <1>1, <2>1, <2>2, <3>1, HeldKept
  <2>4. CASE s = rec.s
    <3> DEFINE W == woff[s]
               P == published[s]
               m == Coming(s)
    <3>1. /\ woff'[s] = W + m /\ published'[s] = P + m /\ m = rec.len
          /\ Coming(s)' = 0
      BY <1>0, <2>1, <2>2, <2>4 DEF TypeOK, Coming
    <3>2. Cong(N, W, P) /\ W \in Int /\ P \in Int /\ m \in Int
      BY <1>0, <3>1 DEF Held, Cong
    <3>3. /\ file[s] = [i \in 1..Len(file[s]) |-> i]
          /\ Len(file[s]) <= P
          /\ P + m - Len(file[s]) <= N - 1
          /\ roff[s] % N = Len(file[s]) % N
          /\ \A k \in (Len(file[s]) + 1)..(P + m) : buf[s][(k - 1) % N] = k
      BY DEF Held
    <3>4. Len(file[s]) \in Nat /\ m \in Nat
      BY <1>0, <3>1, RingTypes
    <3> HIDE DEF W, P, m
    <3>5. Cong(N, W + m, P + m)
      BY <3>2, CongAdd, Sizes
    <3>6. woff'[s] % N = published'[s] % N
      BY <3>1, <3>5 DEF Cong
    <3>7. /\ published'[s] + Coming(s)' = P + m
          /\ Len(file[s]) <= P + m
      BY <3>1, <3>2, <3>3, <3>4
    <3>8. /\ file'[s] = [i \in 1..Len(file'[s]) |-> i]
          /\ roff'[s] % N = Len(file'[s]) % N
          /\ Len(file'[s]) <= published'[s]
      BY <1>1, <3>1, <3>3, <3>7
    <3>9. published'[s] + Coming(s)' - Len(file'[s]) <= N - 1
      <4> DEFINE a == published'[s]
                 b == Coming(s)'
                 l == Len(file[s])
      <4>1. Len(file'[s]) = l
        BY <1>1
      <4>2. a = P + m /\ b = 0
        BY <3>1
      <4>3. l \in Int /\ P + m - l <= N - 1
        BY <3>3, <3>4
      <4> HIDE DEF a, b, l
      <4>4. a + b - l <= N - 1
        BY <3>2, <4>2, <4>3, Sizes
      <4>5. a + b - Len(file'[s]) <= N - 1
        BY <4>1, <4>4, Zenon
      <4> QED BY <4>5, Zenon DEF a, b
    <3>10. \A k \in (Len(file'[s]) + 1)..(published'[s] + Coming(s)') :
              buf'[s][(k - 1) % N] = k
      BY <1>1, <2>1, <3>3, <3>7
    <3> QED BY <3>6, <3>8, <3>9, <3>10 DEF Held
  <2> QED BY <2>3, <2>4
<1>5. CASE ModOffset(t)
  <2>1. /\ woff' = [woff EXCEPT ![rec.s] = woff[rec.s] % N]
        /\ UNCHANGED <<published, buf>>
    BY <1>5 DEF ModOffset
  <2>2. Coming(s) = 0 /\ Coming(s)' = 0
    BY <1>5, StageMoves DEF Coming
  <2>3. woff'[s] % N = woff[s] % N
    <3>1. CASE s # rec.s
      BY <1>0, <2>1, <3>1 DEF TypeOK
    <3>2. CASE s = rec.s
      <4> DEFINE r == woff[s] % N
      <4>1. woff'[s] = r
        BY <1>0, <2>1, <3>2 DEF TypeOK
      <4>2. r \in 0..(N - 1)
        BY <1>0, ModRange, Sizes
      <4>3. r % N = r
        BY <4>2, ModSmall, Sizes
      <4> QED BY <4>1, <4>3
    <3> QED BY <3>1, <3>2
  <2> QED BY <1>1, <2>1, <2>2, <2>3, HeldKept
<1> QED BY <1>2, <1>3, <1>4, <1>5 DEF InLogPrintf

\* Of the bytes it may write, fwrite takes some: the next ones.
LEMMA FwriteHeld ==
  ASSUME TypeOK, NEW n \in Int, NEW then, Fwrite(n, then), ~ corrupt',
         UNCHANGED producer, n >= 0 => n <= published[at] - Len(file[at]),
         \A s \in Streams : Held(s)
  PROVE  lpc' = then /\ \A s \in Streams : Held(s)'
<1>0. at \in Streams /\ roff[at] \in Int /\ published[at] \in Int
      /\ Len(file[at]) \in Int
  BY RecTypes, RingTypes
<1>1. PICK k \in 0..n : Writes(n, k, then)
  BY FwriteOutcome DEF Leaves
<1>2. /\ file' = [file EXCEPT ![at] = file[at] \o Read(k)]
      /\ roff' = [roff EXCEPT ![at] = roff[at] + k]
      /\ lpc' = then /\ at' = at
  BY <1>1 DEF Writes
<1>3. k \in Nat /\ k <= published[at] - Len(file[at]) /\ roff[at] + k <= N
  <2>1. n >= 0 /\ roff[at] + n <= N
    BY <1>1 DEF Writes
  <2> QED BY <1>0, <2>1, Sizes
<1>4. UNCHANGED <<producer, at>>
  BY <1>2
<1>5. Held(at)
  BY <1>0
<1>6. Held(at)'
  BY <1>2, <1>3, <1>4, <1>5, WriteKeeps
<1>7. ASSUME NEW s \in Streams, s # at PROVE Held(s)'
  <2>1. file'[s] = file[s] /\ roff'[s] = roff[s]
    BY <1>0, <1>2, <1>7 DEF TypeOK
  <2>2. UNCHANGED <<published, woff, buf>> /\ Coming(s)' = Coming(s)
    BY <1>4 DEF producer, Coming, Stage
  <2>3. Held(s)
    BY <1>7
  <2> QED BY <2>1, <2>2, <2>3, HeldKept
<1>8. ASSUME NEW s \in Streams, s = at PROVE Held(s)'
  <2>1. Held(at)' <=> Held(s)'
    BY <1>2, <1>8
  <2> QED BY <1>6, <2>1
<1> QED BY <1>2, <1>7, <1>8

\* The log thread keeps what the rings hold, and learns what is true.
LEMMA LogThreadHeld ==
  ASSUME TypeOK, Offsets, Elsewhere \/ UNCHANGED vars, Learnt,
         \A s \in Streams : Held(s), ~ raced', ~ corrupt'
  PROVE  Learnt' /\ \A s \in Streams : Held(s)'
<1>0. /\ at \in Streams /\ woff[at] \in Int /\ roff[at] \in Int
      /\ 0 <= woff[at] /\ 0 <= roff[at] /\ roff[at] <= N
      /\ published[at] \in Int /\ Len(file[at]) \in Int
      /\ Held(at)
  BY RecTypes, RingTypes
<1>1. UNCHANGED producer /\ Stage' = Stage
  BY StageStays
<1>2. /\ UNCHANGED <<rec, published, woff, buf>>
      /\ \A s \in Streams : Coming(s)' = Coming(s)
  BY <1>1 DEF producer, Coming
<1>3. ASSUME UNCHANGED <<roff, file>> PROVE \A s \in Streams : Held(s)'
  BY <1>2, <1>3, HeldKept
<1>4. CASE LogWake \/ (\E s \in Streams : Rotate(s)) \/ UNCHANGED vars
  <2>1. UNCHANGED <<roff, file, at>> /\ (lpc' = "test" \/ lpc' = lpc)
    BY <1>4 DEF LogWake, Rotate, vars, consumer
  <2>2. Learnt'
    BY <1>2, <2>1 DEF Learnt
  <2> QED BY <1>3, <2>1, <2>2
<1>5. CASE LogTest
  <2>1. UNCHANGED <<roff, file>>
    BY <1>5 DEF LogTest
  <2>2. CASE lpc' = "branch"
    <3>1. lpc = "test" /\ LoadWriteOffset /\ woff[at] # roff[at] /\ at' = at
      BY <1>5, <2>2 DEF LogTest, LogThreadAt, NextRing
    <3>2. woff[at] < N
      BY <3>1, Loaded
    <3>3. roff[at] # N
      BY <1>0, <3>1 DEF Offsets
    <3>4. published[at] - Len(file[at]) # 0
      <4>1. CASE woff[at] >= roff[at]
        BY <1>0, <3>1, <3>2, <4>1, OffsetsTell
      <4>2. CASE woff[at] < roff[at]
        <5>1. published[at] - Len(file[at]) = woff[at] - roff[at] + N
          BY <1>0, <3>2, <4>2, OffsetsTell
        <5> QED BY <1>0, <3>3, <5>1, Sizes
      <4> QED BY <1>0, <4>1, <4>2
    <3>5. Len(file[at]) <= published[at]
      BY <1>0 DEF Held
    <3>6. published[at] > Len(file[at])
      BY <1>0, <3>4, <3>5
    <3> QED BY <1>2, <1>3, <2>1, <2>2, <3>1, <3>6 DEF Learnt
  <2>3. CASE lpc' # "branch"
    <3>1. lpc' \in {"test", "wait"}
      BY <1>5, <2>3 DEF LogTest, NextRing
    <3> QED BY <1>3, <2>1, <3>1 DEF Learnt
  <2> QED BY <2>2, <2>3
<1>6. CASE LogBranch
  <2>1. /\ lpc = "branch" /\ LoadWriteOffset /\ UNCHANGED <<roff, at, file>>
        /\ lpc' = IF woff[at] > roff[at] THEN "linear" ELSE "tail"
    BY <1>6 DEF LogBranch, LogThreadAt
  <2>2. woff[at] < N /\ published[at] > Len(file[at])
    BY <2>1, Loaded DEF Learnt
  <2>3. CASE woff[at] > roff[at]
    BY <1>2, <1>3, <2>1, <2>3 DEF Learnt
  <2>4. CASE ~ (woff[at] > roff[at])
    <3>1. published[at] - Len(file[at]) >= N - roff[at]
      <4>1. CASE woff[at] = roff[at]
        <5>1. published[at] - Len(file[at]) = woff[at] - roff[at]
          BY <1>0, <2>2, <4>1, OffsetsTell
        <5> QED BY <1>0, <2>2, <4>1, <5>1
      <4>2. CASE woff[at] < roff[at]
        <5>1. published[at] - Len(file[at]) = woff[at] - roff[at] + N
          BY <1>0, <2>2, <4>2, OffsetsTell
        <5> QED BY <1>0, <5>1, Sizes
      <4> QED BY <1>0, <2>4, <4>1, <4>2
    <3> QED BY <1>2, <1>3, <2>1, <2>4, <3>1 DEF Learnt
  <2> QED BY <2>3, <2>4
<1>7. CASE LogWrite
  <2> DEFINE n == woff[at] - roff[at]
  <2>1. LoadWriteOffset /\ Fwrite(n, "mod")
    BY <1>7 DEF LogWrite
  <2>2. woff[at] < N
    BY <2>1, Loaded
  <2>3. n \in Int /\ (n >= 0 => n <= published[at] - Len(file[at]))
    <3>1. CASE woff[at] >= roff[at]
      <4>1. published[at] - Len(file[at]) = n
        BY <1>0, <2>2, <3>1, OffsetsTell
      <4> QED BY <1>0, <4>1
    <3>2. CASE ~ (woff[at] >= roff[at])
      BY <1>0, <3>2
    <3> QED BY <3>1, <3>2
  <2> HIDE DEF n
  <2>4. lpc' = "mod" /\ \A s \in Streams : Held(s)'
    BY <1>1, <2>1, <2>3, FwriteHeld
  <2> QED BY <2>4 DEF Learnt
<1>8. CASE LogWriteTail
  <2> DEFINE n == N - roff[at]
  <2>1. lpc = "tail" /\ Fwrite(n, "tailmod")
    BY <1>8 DEF LogWriteTail, LogThreadAt
  <2>2. n \in Int /\ n <= published[at] - Len(file[at])
    BY <1>0, <2>1, Sizes DEF Learnt
  <2> HIDE DEF n
  <2>3. lpc' = "tailmod" /\ \A s \in Streams : Held(s)'
    BY <1>1, <2>1, <2>2, FwriteHeld
  <2> QED BY <2>3 DEF Learnt
<1>9. CASE LogTailMod \/ LogMod
  <2>1. /\ roff' = [roff EXCEPT ![at] = roff[at] % N] /\ file' = file
        /\ lpc' \in {"head", "test", "wait"}
    BY <1>9 DEF LogTailMod, LogMod, NextRing
  <2>2. ASSUME NEW s \in Streams PROVE roff'[s] % N = roff[s] % N
    <3>1. CASE s # at
      BY <1>0, <2>1, <3>1 DEF TypeOK
    <3>2. CASE s = at
      <4> DEFINE r == roff[s] % N
      <4>1. roff'[s] = r
        BY <1>0, <2>1, <3>2 DEF TypeOK
      <4>2. r \in 0..(N - 1)
        BY <1>0, <3>2, ModRange, Sizes
      <4>3. r % N = r
        BY <4>2, ModSmall, Sizes
      <4> QED BY <4>1, <4>3
    <3> QED BY <3>1, <3>2
  <2>3. \A s \in Streams : Held(s)'
    BY <1>2, <2>1, <2>2, HeldKept
  <2> QED BY <2>1, <2>3 DEF Learnt
<1> QED
  BY <1>4, <1>5, <1>6, <1>7, <1>8, <1>9 DEF Elsewhere, LogThread

\* The rings stay intact until an offset wraps under the log thread.
LEMMA IntactStep ==
  ASSUME TypeOK, Exclusive, Offsets, Intact, [Next]_vars
  PROVE  Intact'
<1> SUFFICES ASSUME ~ raced', ~ corrupt'
             PROVE  Learnt' /\ \A s \in Streams : Held(s)'
  BY DEF Intact
<1>1. Learnt /\ \A s \in Streams : Held(s)
  BY Monotone DEF Intact
<1>2. ASSUME NEW t \in Threads, LogPrintf(t) \/ InLogPrintf(t)
      PROVE  Learnt' /\ \A s \in Streams : Held(s)'
  BY <1>1, <1>2, ProducerLearnt, ProducerHeld
<1>3. CASE Elsewhere \/ UNCHANGED vars
  BY <1>1, <1>3, LogThreadHeld
<1> QED BY <1>2, <1>3 DEF Next, Elsewhere

-----------------------------------------------------------------------------
(* Wakeups.                                                                *)

\* Both rings are written out, or will be looked at.
Seen == \A s \in Streams : woff[s] = roff[s] \/ Awake(s)

\* No ring is forgotten while the log thread stays at one.
LEMMA SeenStays ==
  ASSUME Seen, lpc # "wait", lpc' # "wait", UNCHANGED <<mutex, woff, pipe, at>>,
         \A s \in Streams : s # at => roff'[s] = roff[s]
  PROVE  Seen'
<1> SUFFICES ASSUME NEW s \in Streams PROVE woff'[s] = roff'[s] \/ Awake(s)'
  BY DEF Seen
<1>1. CASE s = at
  BY <1>1 DEF Awake
<1>2. CASE s # at
  BY <1>2 DEF Seen, Awake
<1> QED BY <1>1, <1>2

\* Nor when it goes on from one that is written out.
LEMMA SeenNext ==
  ASSUME Seen, at \in Streams, lpc # "wait", NextRing,
         UNCHANGED <<mutex, woff, pipe>>,
         woff[at] = roff'[at] \/ pipe > 0 \/ mutex # NoThread,
         \A s \in Streams : s # at => roff'[s] = roff[s]
  PROVE  Seen'
<1> SUFFICES ASSUME NEW s \in Streams, ~ (pipe > 0), mutex = NoThread
             PROVE  woff'[s] = roff'[s] \/ Awake(s)'
  BY DEF Seen, Awake
<1>1. CASE s = at
  BY <1>1
<1>2. CASE s # at /\ at = "log"
  BY <1>2 DEF NextRing, Awake, Streams
<1>3. CASE s # at /\ at # "log"
  BY <1>3 DEF Seen, Awake
<1> QED BY <1>1, <1>2, <1>3

\* The log thread still looks at every ring that is not written out.
LEMMA AttentiveStep ==
  ASSUME TypeOK, Exclusive, Offsets, Attentive, [Next]_vars
  PROVE  Attentive'
<1> SUFFICES ASSUME faults' = 0
             PROVE  /\ Seen'
                    /\ lpc' = "mod" => \/ roff'[at'] % N = woff'[at']
                                       \/ pipe' > 0 \/ mutex' # NoThread
  BY DEF Attentive, Seen
<1>0. /\ at \in Streams /\ woff[at] \in Int /\ roff[at] \in Int
      /\ 0 <= woff[at]
  BY RecTypes, RingTypes
<1>1. faults = 0
  <2>1. faults \in Nat
    BY Sizes DEF TypeOK
  <2> QED BY <2>1, Monotone
<1>2. /\ Seen
      /\ lpc = "mod" => roff[at] % N = woff[at] \/ pipe > 0 \/ mutex # NoThread
  BY <1>1 DEF Attentive, Seen
<1>3. ASSUME pipe' > 0 \/ mutex' # NoThread
      PROVE  Seen' /\ (lpc' = "mod" => \/ roff'[at'] % N = woff'[at']
                                       \/ pipe' > 0 \/ mutex' # NoThread)
  BY <1>3 DEF Seen, Awake
<1>4. ASSUME NEW t \in Threads, LogPrintf(t) \/ InLogPrintf(t)
      PROVE  pipe' > 0 \/ mutex' # NoThread
  <2>1. CASE LogPrintf(t)
    BY <2>1, StageMoves
  <2>2. CASE Wake(t)
    BY <2>2, Sizes DEF Wake, TypeOK
  <2>3. CASE Copy(t) \/ AddOffset(t) \/ ModOffset(t)
    BY <2>3, StageMoves, LogRingAssumption
       DEF InLogPrintf, Copy, AddOffset, ModOffset
  <2> QED BY <1>4, <2>1, <2>2, <2>3 DEF InLogPrintf
<1>5. CASE (Elsewhere \/ UNCHANGED vars) /\ mutex = NoThread
  <2>1. UNCHANGED <<mutex, woff>>
    BY <1>5, StageStays DEF producer
  <2>2. woff[at] < N
    BY <1>0, <1>5, Sizes DEF Offsets, Stage
  <2>3. CASE LogWake
    <3>1. lpc' = "test" /\ at' = "log"
      BY <2>3 DEF LogWake, LogThreadAt, Offsets
    <3> QED BY <3>1 DEF Seen, Awake
  <2>4. CASE LogTest
    <3>1. lpc = "test" /\ UNCHANGED <<pipe, roff>>
      BY <2>4 DEF LogTest, LogThreadAt
    <3>2. CASE lpc' = "branch"
      <4>1. at' = at
        BY <2>4, <3>2 DEF LogTest, NextRing
      <4> QED BY <1>2, <2>1, <3>1, <3>2, <4>1, SeenStays
    <3>3. CASE lpc' # "branch"
      <4>1. woff[at] = roff[at] /\ NextRing
        BY <2>4, <3>3 DEF LogTest
      <4>2. lpc' # "mod"
        BY <4>1 DEF NextRing
      <4> QED BY <1>0, <1>2, <2>1, <3>1, <4>1, <4>2, SeenNext
    <3> QED BY <3>2, <3>3
  <2>5. CASE LogBranch
    <3>1. /\ lpc = "branch" /\ lpc' \in {"linear", "tail"}
          /\ UNCHANGED <<pipe, roff, at>>
      BY <2>5 DEF LogBranch, LogThreadAt
    <3> QED BY <1>2, <2>1, <3>1, SeenStays
  <2>6. CASE LogWrite
    <3> DEFINE n == woff[at] - roff[at]
    <3>1. Fwrite(n, "mod") /\ lpc # "wait" /\ pipe' = pipe
      BY <2>6 DEF LogWrite, LogThreadAt
    <3>2. CASE Leaves(n)
      <4>1. UNCHANGED <<roff, lpc, at>>
        BY <3>2 DEF Leaves
      <4> QED BY <1>2, <2>1, <3>1, <4>1, SeenStays
    <3>3. ASSUME NEW k \in 0..n, Writes(n, k, "mod")
          PROVE  Seen' /\ roff'[at'] % N = woff'[at']
      <4>1. /\ roff' = [roff EXCEPT ![at] = roff[at] + k]
            /\ lpc' = "mod" /\ at' = at
            /\ faults' = IF k < n THEN faults + 1 ELSE faults
        BY <3>3 DEF Writes
      <4>2. k = n
        BY <1>0, <1>1, <4>1
      <4>3. roff'[at] = woff[at] /\ \A s \in Streams : s # at => roff'[s] = roff[s]
        <5>1. roff'[at] = roff[at] + k /\ \A s \in Streams : s # at => roff'[s] = roff[s]
          BY <1>0, <4>1 DEF TypeOK
        <5> QED BY <1>0, <4>2, <5>1
      <4>4. woff[at] % N = woff[at]
        <5>1. woff[at] \in 0..(N - 1)
          BY <1>0, <2>2, Sizes
        <5> QED BY <5>1, ModSmall, Sizes
      <4>5. Seen'
        BY <1>2, <2>1, <3>1, <4>1, <4>3, SeenStays
      <4> QED BY <2>1, <4>1, <4>3, <4>4, <4>5
    <3> QED BY <3>1, <3>2, <3>3, FwriteOutcome
  <2>7. CASE LogWriteTail
    <3> DEFINE n == N - roff[at]
    <3>1. Fwrite(n, "tailmod") /\ lpc = "tail" /\ pipe' = pipe
      BY <2>7 DEF LogWriteTail, LogThreadAt
    <3>2. /\ lpc' \in {"tail", "tailmod"} /\ at' = at
          /\ \A s \in Streams : s # at => roff'[s] = roff[s]
      <4>1. CASE Leaves(n)
        BY <3>1, <4>1 DEF Leaves
      <4>2. ASSUME NEW k \in 0..n, Writes(n, k, "tailmod")
            PROVE  /\ lpc' \in {"tail", "tailmod"} /\ at' = at
                   /\ \A s \in Streams : s # at => roff'[s] = roff[s]
        BY <1>0, <4>2 DEF Writes, TypeOK
      <4> QED BY <3>1, <4>1, <4>2, FwriteOutcome
    <3> QED BY <1>2, <2>1, <3>1, <3>2, SeenStays
  <2>8. CASE LogTailMod
    <3>1. /\ lpc = "tailmod" /\ lpc' = "head" /\ UNCHANGED <<pipe, at>>
          /\ roff' = [roff EXCEPT ![at] = roff[at] % N]
      BY <2>8 DEF LogTailMod, LogThreadAt
    <3>2. \A s \in Streams : s # at => roff'[s] = roff[s]
      BY <1>0, <3>1 DEF TypeOK
    <3> QED BY <1>2, <2>1, <3>1, <3>2, SeenStays
  <2>9. CASE LogMod
    <3>1. /\ lpc = "mod" /\ NextRing /\ UNCHANGED pipe
          /\ roff' = [roff EXCEPT ![at] = roff[at] % N]
      BY <2>9 DEF LogMod, LogThreadAt
    <3>2. /\ roff'[at] = roff[at] % N
          /\ \A s \in Streams : s # at => roff'[s] = roff[s]
      BY <1>0, <3>1 DEF TypeOK
    <3>3. lpc' # "mod"
      BY <3>1 DEF NextRing
    <3> QED BY <1>0, <1>2, <2>1, <3>1, <3>2, <3>3, SeenNext
  <2>10. CASE (\E s \in Streams : Rotate(s)) \/ UNCHANGED vars
    <3>1. UNCHANGED <<lpc, at, roff, pipe>>
      BY <2>10 DEF Rotate, vars, consumer
    <3> QED BY <1>2, <2>1, <3>1 DEF Seen, Awake
  <2> QED
    BY <1>5, <2>3, <2>4, <2>5, <2>6, <2>7, <2>8, <2>9, <2>10
       DEF Elsewhere, LogThread
<1>6. CASE (Elsewhere \/ UNCHANGED vars) /\ mutex # NoThread
  BY <1>3, <1>6, StageStays DEF producer
<1> QED BY <1>3, <1>4, <1>5, <1>6 DEF Next, Elsewhere

-----------------------------------------------------------------------------
(* The invariant holds, and what it says of LogRing's properties.          *)

\* Every step keeps the invariant.
LEMMA IInvStep == IInv /\ [Next]_vars => IInv'
BY TypeStep, ExclusiveStep, RoomStep, OffsetsStep, LinesStep, IntactStep,
   WholeStep, LeavesStep, AttentiveStep DEF IInv

\* The invariant holds always.
LEMMA IInvHolds == Spec => []IInv
<1>1. Init => IInv
  BY InitIInv
<1>2. IInv /\ [Next]_vars => IInv'
  BY IInvStep
<1> QED BY <1>1, <1>2, PTL DEF Spec

\* The offsets of the rings stay in their bounds (a write offset reaches at
\* most a record beyond the ring, between += and %=), whatever the threads
\* do and whatever fails.
THEOREM TypeCorrect == Spec => []TypeOK
<1>1. IInv => TypeOK
  BY DEF IInv
<1> QED BY <1>1, IInvHolds, PTL

\* Until a write offset wraps under the log thread, the files hold every
\* byte published, once, in order and unchanged, up to the read offsets, and
\* the bytes after them are intact in the rings.
THEOREM NothingLost == Spec => []NothingLostOrRepeated
<1>1. IInv => NothingLostOrRepeated
  <2> SUFFICES ASSUME IInv, ~ raced, ~ corrupt, NEW s \in Streams
               PROVE  /\ file[s] = [i \in 1..Len(file[s]) |-> i]
                      /\ Len(file[s]) <= published[s]
                      /\ roff[s] % N = Len(file[s]) % N
                      /\ \A k \in (Len(file[s]) + 1)..published[s] :
                           buf[s][(k - 1) % N] = k
    BY DEF NothingLostOrRepeated
  <2>1. Held(s)
    BY DEF IInv, Intact
  <2>2. Len(file[s]) \in Nat /\ published[s] \in Nat /\ Coming(s) \in Nat
    BY RingTypes, ComingType DEF IInv
  <2>3. ASSUME NEW k \in (Len(file[s]) + 1)..published[s]
        PROVE  buf[s][(k - 1) % N] = k
    <3>1. k \in (Len(file[s]) + 1)..(published[s] + Coming(s))
      BY <2>2
    <3> QED BY <2>1, <3>1 DEF Held
  <2> QED BY <2>1, <2>3 DEF Held
<1> QED BY <1>1, IInvHolds, PTL

\* The log thread hands fwrite a range outside a ring only after a write
\* offset wrapped under it or a write failed.
THEOREM LeavesRing == Spec => []LeavesRingWhy
<1>1. IInv => LeavesRingWhy
  BY DEF IInv
<1> QED BY <1>1, IInvHolds, PTL

\* Between two calls of log_printf what a ring was given ends in a newline,
\* also when its last record was cut to the free space.
THEOREM EndsInNewline == Spec => []LinesEnd
<1>1. IInv => LinesEnd
  BY DEF IInv, Lines, LinesEnd
<1> QED BY <1>1, IInvHolds, PTL

\* When the log thread waits at an empty pipe, nobody is in log_printf and
\* no write failed, both rings are written out: no wakeup is lost, for any
\* size of the pipe and of the reads.
THEOREM WakeupsReach == Spec => []NoLostWakeup
<1>1. IInv => NoLostWakeup
  <2> SUFFICES ASSUME IInv, lpc = "wait", pipe = 0, mutex = NoThread, faults = 0
               PROVE  woff = roff
    BY DEF NoLostWakeup
  <2>1. \A s \in Streams : woff[s] = roff[s]
    BY DEF IInv, Attentive, Awake
  <2>2. /\ woff = [s \in Streams |-> woff[s]]
        /\ roff = [s \in Streams |-> roff[s]]
    BY DEF IInv, TypeOK
  <2> QED BY <2>1, <2>2
<1> QED BY <1>1, IInvHolds, PTL
=============================================================================
