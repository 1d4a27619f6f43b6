--------------------------- MODULE CreateDirProofs ---------------------------
(***************************************************************************)
(* Proofs about CreateDir, for paths of any length, any number of nested   *)
(* calls, of directories made by other processes and of system calls that  *)
(* fail by themselves.  The first part, what it means that create_dir      *)
(* returns 0, needs of a path only where it leads.  The second, why it     *)
(* fails and what it leaves behind, needs to know how far up each call is, *)
(* from DirnameProofs.                                                     *)
(***************************************************************************)
EXTENDS DirnameProofs

Types ==
  /\ path \in Paths
  /\ stack \in Seq(Seq(Chars)) /\ Len(stack) \in 1..MaxDepth /\ stack[1] = path
  /\ step \in {"stat", "access", "exists", "return", "mkdir", "done", "overflow"}
  /\ ret \in {0, -1}
  /\ fs \in [DOMAIN fs -> Kinds]
  /\ made \in Seq(DOMAIN fs)
  /\ others \in 0..MaxOthers
  /\ faults \in 0..MaxFaults

Usable(s) == Place(s) \in DOMAIN fs /\ fs[Place(s)] = "usable"

\* What a call knows of its path, though other processes run: it was seen, and
\* nothing is taken away; or the call is over and succeeded.
Known ==
  /\ step = "access" => Place(Top) \in DOMAIN fs
  /\ step = "return" /\ ret = 0 => Usable(Top)
  /\ step = "done" => Len(stack) = 1 /\ (ret = 0 => Usable(path))

\* A system call that failed by itself has been answered with -1; or some call
\* is for a directory that is there, and will meet it.
Noticed ==
  faults > 0 =>
    \/ step = "overflow"
    \/ step \in {"return", "done"} /\ ret = -1
    \/ \E i \in 1..Len(stack) :
         /\ i < Len(stack) \/ step \in {"exists", "mkdir"}
         /\ Place(stack[i]) \in DOMAIN fs

IInv == Types /\ Known

-----------------------------------------------------------------------------
(* The invariant.                                                          *)

\* A path is a string.
LEMMA PathType ==
  ASSUME NEW s \in Paths
  PROVE  s \in Seq(Chars)
<1>1. PICK n \in 0..MaxLen : s \in [1..n -> Names \cup {Slash}]
  BY DEF Paths
<1>2. n \in Nat
  BY CreateDirAssumption
<1>3. s \in [1..n -> Chars]
  BY <1>1 DEF Chars
<1> QED BY <1>2, <1>3

\* So is the path of the call under way.
LEMMA TopType ==
  ASSUME Types
  PROVE  Top \in Seq(Chars)
<1>1. Len(stack) \in 1..Len(stack)
  BY DEF Types
<1> QED BY <1>1, ElementOfSeq DEF Types, Top

\* Whoever makes something takes nothing away.
LEMMA AppearsKeeps ==
  ASSUME Types, NEW p, p \notin DOMAIN fs, NEW kind \in Kinds, Appears(p, kind)
  PROVE  /\ fs' \in [DOMAIN fs' -> Kinds] /\ DOMAIN fs' = DOMAIN fs \cup {p}
         /\ fs'[p] = kind
         /\ \A q \in DOMAIN fs : fs'[q] = fs[q]
         /\ made \in Seq(DOMAIN fs')
<1>1. fs' = [q \in DOMAIN fs \cup {p} |-> IF q = p THEN kind ELSE fs[q]]
  BY DEF Appears
<1>2. DOMAIN fs' = DOMAIN fs \cup {p}
  BY <1>1
<1>3. made \in Seq(DOMAIN fs')
  <2>1. made \in [1..Len(made) -> DOMAIN fs] /\ Len(made) \in Nat
    BY DEF Types
  <2>2. made \in [1..Len(made) -> DOMAIN fs']
    BY <1>2, <2>1
  <2> QED BY <2>1, <2>2
<1>4. \A q \in DOMAIN fs : fs[q] \in Kinds
  BY DEF Types
<1> QED BY <1>1, <1>2, <1>3, <1>4

\* The failures stay counted.
LEMMA FaultCounts ==
  ASSUME Types, UNCHANGED faults \/ Fault
  PROVE  /\ faults' \in 0..MaxFaults
         /\ faults' = faults \/ (Fault /\ faults' > 0)
         /\ faults > 0 => faults' > 0
BY CreateDirAssumption DEF Types, Fault

\* The invariant holds at first.
LEMMA InitIInv == Init => IInv
<1> SUFFICES ASSUME Init PROVE IInv
  OBVIOUS
<1>1. path \in Paths /\ stack = <<path>> /\ step = "stat" /\ ret = 0 /\ made = <<>>
      /\ others = 0 /\ faults = 0
  BY DEF Init
<1>2. path \in Seq(Chars)
  BY <1>1, PathType
<1>3. stack \in Seq(Seq(Chars)) /\ Len(stack) = 1 /\ stack[1] = path
  BY <1>1, <1>2
<1>4. /\ Len(stack) \in 1..MaxDepth
      /\ others \in 0..MaxOthers /\ faults \in 0..MaxFaults
  BY <1>1, <1>3, CreateDirAssumption
<1>5. fs \in [DOMAIN fs -> Kinds]
  BY DEF Init
<1>6. made \in Seq(DOMAIN fs)
  BY <1>1
<1> QED BY <1>1, <1>3, <1>4, <1>5, <1>6 DEF IInv, Types, Known

\* Making a directory, or failing to, keeps the invariant.
LEMMA MkdirStep ==
  ASSUME IInv, Mkdir
  PROVE  IInv'
<1>1. step = "mkdir" /\ step' = "return" /\ UNCHANGED <<path, stack, others>>
      /\ faults' \in 0..MaxFaults
  BY FaultCounts DEF Mkdir, Return, IInv
<1>2. CASE Makes /\ Return(0)
  <2>1. /\ Appears(Place(Top), "usable") /\ made' = Append(made, Place(Top)) /\ ret' = 0
        /\ Place(Top) \notin DOMAIN fs /\ "usable" \in Kinds
    BY <1>2 DEF Makes, Return, MkdirWorks, Kinds
  <2>2. PICK p : p = Place(Top)
    OBVIOUS
  <2>3. /\ fs' \in [DOMAIN fs' -> Kinds] /\ p \in DOMAIN fs' /\ fs'[p] = "usable"
        /\ made \in Seq(DOMAIN fs')
    BY <2>1, <2>2, AppearsKeeps DEF IInv
  <2>4. made' \in Seq(DOMAIN fs')
    <3>1. made' = Append(made, p)
      BY <2>1, <2>2
    <3> QED BY <2>3, <3>1, AppendProperties
  <2>5. Place(Top)' = p
    <3>1. Top' = Top
      BY <1>1 DEF Top
    <3> QED BY <2>2, <3>1
  <2>6. Types'
    BY <1>1, <2>1, <2>3, <2>4 DEF IInv, Types
  <2> QED BY <1>1, <2>3, <2>5, <2>6 DEF IInv, Known, Usable
<1>3. CASE Return(-1) /\ UNCHANGED <<fs, made>>
  BY <1>1, <1>3 DEF Return, IInv, Types, Known
<1> QED BY <1>2, <1>3 DEF Mkdir

\* So does a return to the caller.
LEMMA ReturnsStep ==
  ASSUME IInv, Returns
  PROVE  IInv'
<1>1. step = "return" /\ UNCHANGED <<path, ret, fs, made, others, faults>>
  BY DEF Returns
<1>2. CASE Len(stack) = 1
  <2>1. step' = "done" /\ stack' = stack
    BY <1>2 DEF Returns
  <2>2. Top = path
    BY <1>2 DEF Top, IInv, Types
  <2> QED BY <1>1, <1>2, <2>1, <2>2 DEF IInv, Types, Known, Usable
<1>3. CASE Len(stack) # 1
  <2>1. /\ stack' = SubSeq(stack, 1, Len(stack) - 1)
        /\ step' = IF ret = 0 THEN "mkdir" ELSE "return"
    BY <1>3 DEF Returns
  <2>2. /\ stack \in Seq(Seq(Chars)) /\ MaxDepth \in Nat
        /\ Len(stack) \in 2..MaxDepth /\ stack[1] = path
    <3>1. stack \in Seq(Seq(Chars)) /\ Len(stack) \in 1..MaxDepth /\ stack[1] = path
      BY DEF IInv, Types
    <3>2. MaxDepth \in Nat
      BY CreateDirAssumption
    <3>3. ASSUME NEW n \in 1..MaxDepth, n # 1 PROVE n \in 2..MaxDepth
      BY <3>2, <3>3
    <3>4. Len(stack) \in 2..MaxDepth
      BY <1>3, <3>1, <3>3
    <3> QED BY <3>1, <3>2, <3>4
  <2>3. \A k \in 1..(Len(stack) - 1) : stack[k] \in Seq(Chars)
    BY <2>2, ElementOfSeq
  <2>4. /\ stack' \in Seq(Seq(Chars))
        /\ Len(stack') = IF 1 <= Len(stack) - 1 THEN Len(stack) - 1 - 1 + 1 ELSE 0
        /\ \A k \in 1..(Len(stack) - 1 - 1 + 1) : stack'[k] = stack[1 + k - 1]
    BY <2>1, <2>2, <2>3, SubSeqProperties
  <2>5. Len(stack') = Len(stack) - 1
    BY <2>2, <2>4
  <2>6. stack'[1] = stack[1]
    <3>1. 1 \in 1..(Len(stack) - 1 - 1 + 1) /\ 1 + 1 - 1 = 1
      BY <2>2
    <3> QED BY <2>4, <3>1
  <2>7. Len(stack') \in 1..MaxDepth
    BY <2>2, <2>5
  <2>8. Types'
    BY <1>1, <2>1, <2>2, <2>4, <2>6, <2>7 DEF IInv, Types
  <2>9. step' = "return" => ret' # 0
    BY <1>1, <2>1
  <2>10. step' \in {"mkdir", "return"}
    BY <2>1
  <2> QED BY <2>8, <2>9, <2>10 DEF IInv, Known
<1> QED BY <1>2, <1>3

\* So does access of the directory above, and the next call for it.
LEMMA ExistsStep ==
  ASSUME IInv, Exists
  PROVE  IInv'
<1>1. step = "exists" /\ UNCHANGED <<path, fs, made, others>>
      /\ faults' \in 0..MaxFaults
  BY FaultCounts DEF Exists, IInv
<1>2. CASE Return(-1) /\ UNCHANGED stack
  BY <1>1, <1>2 DEF Return, IInv, Types, Known
<1>3. CASE CallForParent /\ Len(stack) = MaxDepth
  <2>1. step' = "overflow" /\ UNCHANGED <<stack, ret>>
    BY <1>3 DEF CallForParent
  <2> QED BY <1>1, <2>1 DEF IInv, Types, Known
<1>4. CASE CallForParent /\ Len(stack) # MaxDepth
  <2>1. stack' = Append(stack, Dirname(Top, FALSE)) /\ step' = "stat" /\ ret' = ret
    BY <1>4, Zenon DEF CallForParent
  <2>2. PICK d \in Seq(Chars) : d = Dirname(Top, FALSE)
    BY TopType, DirnameType DEF IInv
  <2>3. stack' = Append(stack, d)
    BY <2>1, <2>2
  <2>4. /\ stack \in Seq(Seq(Chars)) /\ MaxDepth \in Nat /\ stack[1] = path
        /\ Len(stack) \in 1..MaxDepth
    BY CreateDirAssumption DEF IInv, Types
  <2>5. /\ stack' \in Seq(Seq(Chars)) /\ Len(stack') = Len(stack) + 1
        /\ \A k \in 1..Len(stack) : stack'[k] = stack[k]
    BY <2>3, <2>4, AppendProperties
  <2>6. Len(stack') \in 1..MaxDepth /\ stack'[1] = path
    BY <1>4, <2>4, <2>5
  <2> QED BY <1>1, <2>1, <2>5, <2>6 DEF IInv, Types, Known
<1> QED BY <1>2, <1>3, <1>4 DEF Exists

\* So does another process, since it only adds.
LEMMA OtherStep ==
  ASSUME IInv, OtherMakes
  PROVE  IInv'
<1>1. /\ UNCHANGED <<path, stack, step, ret, made, faults>> /\ step # "done"
      /\ others < MaxOthers /\ others' = others + 1
  BY DEF OtherMakes
<1>2. PICK p \in UpTo(Place(path)) \ DOMAIN fs, kind \in Kinds : Appears(p, kind)
  BY DEF OtherMakes
<1>3. /\ fs' \in [DOMAIN fs' -> Kinds] /\ DOMAIN fs' = DOMAIN fs \cup {p}
      /\ \A q \in DOMAIN fs : fs'[q] = fs[q]
      /\ made \in Seq(DOMAIN fs')
  BY <1>2, AppearsKeeps DEF IInv
<1>4. others' \in 0..MaxOthers
  BY <1>1, CreateDirAssumption DEF IInv, Types
<1>5. Types'
  BY <1>1, <1>3, <1>4 DEF IInv, Types
<1>6. PICK q : q = Place(Top)
  OBVIOUS
<1>7. Place(Top)' = q
  <2>1. Top' = Top
    BY <1>1 DEF Top
  <2> QED BY <1>6, <2>1
<1>8. /\ q \in DOMAIN fs => q \in DOMAIN fs' /\ fs'[q] = fs[q]
  BY <1>3
<1> QED BY <1>1, <1>5, <1>6, <1>7, <1>8 DEF IInv, Known, Usable

\* So do stat and access.
LEMMA LooksStep ==
  ASSUME IInv, Stat \/ Access
  PROVE  IInv'
<1>1. UNCHANGED <<path, stack, fs, made, others>> /\ faults' \in 0..MaxFaults
  BY FaultCounts DEF Stat, Access, IInv
<1>2. Top' = Top
  BY <1>1 DEF Top
<1>3. PICK q : q = Place(Top) /\ Place(Top)' = q
  BY <1>2
<1>4. CASE Stat
  <2>1. ret' = ret /\ step' \in {"access", "exists"} /\ (step' = "access" => Seen(Top))
    BY <1>4 DEF Stat
  <2>2. step' = "access" => q \in DOMAIN fs
    BY <1>3, <2>1 DEF Seen
  <2> QED BY <1>1, <1>3, <2>1, <2>2 DEF IInv, Types, Known
<1>5. CASE Access
  <2>1. /\ step = "access"
        /\ \/ fs[q] = "usable" /\ step' = "return" /\ ret' = 0
           \/ step' = "exists" /\ ret' = ret
    BY <1>3, <1>5 DEF Access, Return
  <2>2. q \in DOMAIN fs
    BY <1>3, <2>1 DEF IInv, Known
  <2> QED BY <1>1, <1>3, <2>1, <2>2 DEF IInv, Types, Known, Usable
<1> QED BY <1>4, <1>5

\* The invariant holds always.
LEMMA IInvHolds == Spec => []IInv
<1>1. IInv /\ [Next]_vars => IInv'
  <2> SUFFICES ASSUME IInv, [Next]_vars PROVE IInv'
    OBVIOUS
  <2>1. CASE UNCHANGED vars
    BY <2>1 DEF IInv, Types, Known, Usable, Top, vars
  <2> QED BY <2>1, LooksStep, ExistsStep, ReturnsStep, MkdirStep, OtherStep
          DEF Next, CreateDir
<1> QED BY InitIInv, <1>1, PTL DEF Spec

\* What is there stays there.
LEMMA StaysThere ==
  ASSUME IInv, [Next]_vars, NEW q \in DOMAIN fs
  PROVE  q \in DOMAIN fs'
<1>1. CASE UNCHANGED fs
  BY <1>1
<1>2. CASE \E p, kind : Appears(p, kind)
  BY <1>2 DEF Appears
<1>3. CASE Mkdir
  BY <1>1, <1>2, <1>3 DEF Mkdir, Makes
<1>4. CASE OtherMakes
  BY <1>2, <1>4 DEF OtherMakes
<1>5. CASE Stat \/ Access \/ Exists \/ Returns \/ UNCHANGED vars
  BY <1>1, <1>5 DEF Stat, Access, Exists, Returns, vars
<1> QED BY <1>3, <1>4, <1>5 DEF Next, CreateDir

\* Each system call that fails is noticed, and stays so.
LEMMA NoticedStep ==
  ASSUME IInv, Noticed, [Next]_vars
  PROVE  Noticed'
<1> SUFFICES ASSUME faults' > 0 PROVE Noticed'
  BY DEF Noticed
<1> DEFINE Meets(i) == /\ i < Len(stack) \/ step \in {"exists", "mkdir"}
                       /\ Place(stack[i]) \in DOMAIN fs
<1>1. PICK L \in Nat : L = Len(stack) /\ L > 0 /\ L \in 1..L /\ stack \in Seq(Seq(Chars))
  <2>1. stack \in Seq(Seq(Chars)) /\ Len(stack) \in 1..MaxDepth
    BY DEF IInv, Types
  <2>2. Len(stack) \in Nat /\ Len(stack) > 0 /\ Len(stack) \in 1..Len(stack)
    BY <2>1
  <2> QED BY <2>1, <2>2
<1>2. CASE Stat \/ Access
  <2>1. UNCHANGED <<stack, fs>> /\ step \in {"stat", "access"}
    BY <1>2 DEF Stat, Access
  <2>2. CASE Fault /\ step' = "exists" /\ Place(Top) \in DOMAIN fs
    BY <1>1, <2>1, <2>2 DEF Noticed, Top
  <2>3. CASE UNCHANGED faults
    <3>1. PICK i \in 1..L : i < L /\ Place(stack[i]) \in DOMAIN fs
      BY <1>1, <2>1, <2>3 DEF Noticed
    <3> QED BY <1>1, <2>1, <3>1 DEF Noticed
  <2> QED BY <1>2, <2>2, <2>3 DEF Stat, Access, Seen, IInv, Known
<1>3. CASE Exists
  <2>1. step = "exists" /\ UNCHANGED fs
    BY <1>3 DEF Exists
  <2>2. CASE Return(-1)
    BY <2>2 DEF Return, Noticed
  <2>3. CASE CallForParent /\ L = MaxDepth
    BY <1>1, <2>3 DEF CallForParent, Noticed
  <2>4. CASE CallForParent /\ L # MaxDepth
    <3>1. PICK i \in 1..L : Place(stack[i]) \in DOMAIN fs
      <4>1. CASE Seen(Top)
        BY <1>1, <4>1 DEF Seen, Top
      <4>2. CASE UNCHANGED faults
        BY <1>1, <2>1, <4>2 DEF Noticed
      <4> QED BY <1>3, <2>4, <4>1, <4>2 DEF Exists
    <3>2. stack' = Append(stack, Dirname(Top, FALSE))
      BY <1>1, <2>4, Zenon DEF CallForParent
    <3>3. PICK d \in Seq(Chars) : stack' = Append(stack, d)
      BY <3>2, TopType, DirnameType DEF IInv
    <3>4. Len(stack') = L + 1 /\ stack'[i] = stack[i]
      BY <1>1, <3>3
    <3>5. i \in 1..(L + 1) /\ i < L + 1
      BY <1>1
    <3> QED BY <2>1, <3>1, <3>4, <3>5 DEF Noticed
  <2> QED BY <1>3, <2>2, <2>3, <2>4 DEF Exists
<1>4. CASE Returns
  <2>1. step = "return" /\ UNCHANGED <<ret, fs, faults>>
    BY <1>4 DEF Returns
  <2>2. CASE ret = -1
    <3>1. step' \in {"return", "done"}
      BY <1>4, <2>2 DEF Returns
    <3> QED BY <2>1, <2>2, <3>1 DEF Noticed
  <2>3. CASE ret # -1
    <3>1. PICK i \in 1..L : i < L /\ Place(stack[i]) \in DOMAIN fs
      BY <1>1, <2>1, <2>3 DEF Noticed
    <3>2. PICK M \in Nat : M = L - 1 /\ L # 1 /\ i \in 1..M
      <4>1. L - 1 \in Nat /\ i \in Nat /\ i >= 1 /\ i < L
        BY <1>1, <3>1
      <4> QED BY <4>1
    <3>3. stack' = SubSeq(stack, 1, M) /\ step' = "mkdir"
      <4>1. ret = 0
        BY <2>3 DEF IInv, Types
      <4> QED BY <1>1, <1>4, <3>2, <4>1 DEF Returns
    <3>4. \A k \in 1..M : stack[k] \in Seq(Chars)
      BY <1>1, <3>2, ElementOfSeq
    <3>5. Len(stack') = M /\ stack'[i] = stack[i]
      BY <1>1, <3>2, <3>3, <3>4
    <3> QED BY <2>1, <3>1, <3>2, <3>3, <3>5 DEF Noticed
  <2> QED BY <2>2, <2>3
<1>5. CASE Mkdir
  <2>1. step = "mkdir" /\ step' = "return" /\ UNCHANGED stack
    BY <1>5 DEF Mkdir, Return
  <2>2. CASE ret' = -1
    BY <2>1, <2>2 DEF Noticed
  <2>3. CASE ret' # -1
    <3>1. UNCHANGED faults /\ MkdirWorks(Top)
      BY <1>5, <2>3 DEF Mkdir, Makes, Return
    <3>2. PICK i \in 1..L : Place(stack[i]) \in DOMAIN fs
      BY <1>1, <2>1, <3>1 DEF Noticed
    <3>3. i # L
      BY <1>1, <3>1, <3>2 DEF MkdirWorks, Top
    <3>4. i < L /\ Place(stack[i]) \in DOMAIN fs'
      BY <1>1, <3>2, <3>3, StaysThere
    <3> QED BY <1>1, <2>1, <3>4 DEF Noticed
  <2> QED BY <2>2, <2>3
<1>6. CASE OtherMakes \/ UNCHANGED vars
  <2>1. UNCHANGED <<stack, step, ret, faults>>
    BY <1>6 DEF OtherMakes, vars
  <2>2. \A i \in 1..L : Place(stack[i]) \in DOMAIN fs => Place(stack[i]) \in DOMAIN fs'
    BY StaysThere
  <2> QED BY <1>1, <2>1, <2>2 DEF Noticed
<1> QED BY <1>2, <1>3, <1>4, <1>5, <1>6 DEF Next, CreateDir

\* So it is always.
LEMMA NoticedHolds == Spec => []Noticed
<1>1. Init => Noticed
  BY DEF Init, Noticed
<1> QED BY <1>1, NoticedStep, IInvHolds, PTL DEF Spec

-----------------------------------------------------------------------------
(* The way to path, and where on it the calls are.                         *)

Depth == Len(Place(path))
Way(n) == SubSeq(Place(path), 1, n)

\* Where the i-th call is.
Height(i) == Len(Place(stack[i]))

\* What FailsWhy says.
Excused ==
  \/ others > 0 \/ faults > 0 \/ DoubleSlash(path)
  \/ \E n \in 1..Depth : Way(n) \in DOMAIN fs /\ fs[Way(n)] # "usable"

\* Every call is for a directory on the way, its parent's path made by dirname
\* of its own; only the first is for path itself.
Stacked ==
  \A i \in 1..Len(stack) :
    /\ Good(stack[i]) /\ (DoubleSlash(path) \/ Straight(stack[i]))
    /\ Height(i) \in 1..Depth /\ Place(stack[i]) = Way(Height(i))
    /\ i > 1 => stack[i] = DirOf(stack[i - 1]) /\ (Height(i) < Depth \/ Depth = 1)

\* Each is above the one before it, or at the root.
Falling ==
  ~ DoubleSlash(path) =>
    \A i, j \in 1..Len(stack) : i < j => Height(j) < Height(i) \/ Height(j) = 1

\* What is on the way has on the way what is above it.
Grown ==
  /\ Way(1) \in DOMAIN fs
  /\ \A n \in 1..Depth : Way(n) \in DOMAIN fs => \A m \in 1..n : Way(m) \in DOMAIN fs

\* A call fails, or meets what it has not made, for one of the reasons only.
Failing ==
  /\ ret = -1 => Excused /\ step \in {"return", "done"}
  /\ step = "exists" => ~ Seen(Top) \/ Excused
  /\ \A i \in 1..Len(stack) : i < Len(stack) \/ step = "mkdir" =>
       Place(stack[i]) \notin DOMAIN fs \/ Excused

\* What create_parent_dir has seen to when it succeeded.
Granted == step = "mkdir" => Usable(DirOf(Top))

\* How far down it has made directories.
LastMade == Len(made[1]) + Len(made) - 1

Making ==
  made # <<>> =>
    /\ step \in {"return", "mkdir", "done"}
    /\ Len(made[1]) \in 2..Depth /\ LastMade \in 2..Depth
    /\ \A i \in 1..Len(made) : made[i] = Way(Len(made[1]) + i - 1)
    /\ step = "return" /\ ret = 0 => LastMade = Height(Len(stack))
    /\ step = "mkdir" => LastMade = Len(Place(DirOf(Top)))
    /\ ret = -1 => LastMade < Depth
    /\ step = "done" /\ ret = 0 => LastMade = Depth

JInv == Stacked /\ Falling /\ Grown /\ Failing /\ Granted /\ Making

\* Of the empty path nothing is made.
Empty ==
  /\ made = <<>> /\ <<Slash>> \in DOMAIN fs
  /\ \A i \in 2..Len(stack) : stack[i] = <<Slash>>

KInv == IF path = <<>> THEN Empty ELSE JInv

\* The beginnings of a sequence.
LEMMA Beginnings ==
  ASSUME NEW S, NEW p \in Seq(S), NEW n \in 1..Len(p)
  PROVE  /\ SubSeq(p, 1, n) \in Seq(S) /\ Len(SubSeq(p, 1, n)) = n
         /\ SubSeq(p, 1, n)[1] = p[1]
         /\ Parent(SubSeq(p, 1, n)) = SubSeq(p, 1, n - 1)
         /\ \A q : q \in UpTo(SubSeq(p, 1, n - 1))
                    <=> \E m \in 1..(n - 1) : q = SubSeq(p, 1, m)
<1>1. \A k \in 0..Len(p) : /\ SubSeq(p, 1, k) \in Seq(S) /\ Len(SubSeq(p, 1, k)) = k
                           /\ \A i \in 1..k : SubSeq(p, 1, k)[i] = p[i]
  OBVIOUS
<1>2. ASSUME NEW k \in 0..Len(p), NEW m \in 0..k
      PROVE  SubSeq(SubSeq(p, 1, k), 1, m) = SubSeq(p, 1, m)
  <2>1. PICK u \in Seq(S) : u = SubSeq(p, 1, k) /\ Len(u) = k /\ \A i \in 1..k : u[i] = p[i]
    BY <1>1, <1>2
  <2>2. SubSeq(u, 1, m) = SubSeq(p, 1, m)
    BY <1>2, <2>1
  <2> QED BY <2>1, <2>2
<1>3. ASSUME NEW k \in 0..Len(p)
      PROVE  \A q : q \in UpTo(SubSeq(p, 1, k)) <=> \E m \in 1..k : q = SubSeq(p, 1, m)
  <2>1. PICK u \in Seq(S) : u = SubSeq(p, 1, k) /\ Len(u) = k
    BY <1>1, <1>3
  <2>2. \A m \in 1..k : SubSeq(u, 1, m) = SubSeq(p, 1, m)
    BY <1>2, <1>3, <2>1
  <2>3. UpTo(u) = {SubSeq(u, 1, m) : m \in 1..k}
    BY <2>1 DEF UpTo
  <2> QED BY <2>1, <2>2, <2>3
<1>4. Parent(SubSeq(p, 1, n)) = SubSeq(p, 1, n - 1)
  <2>1. PICK u \in Seq(S) : u = SubSeq(p, 1, n) /\ Len(u) = n
    <3>1. n \in 0..Len(p)
      OBVIOUS
    <3> QED BY <1>1, <3>1
  <2>2. SubSeq(u, 1, n - 1) = SubSeq(p, 1, n - 1)
    BY <1>2, <2>1
  <2> QED BY <2>1, <2>2 DEF Parent
<1>5. n \in 0..Len(p) /\ n - 1 \in 0..Len(p) /\ 1 \in 1..n
  OBVIOUS
<1>6. /\ SubSeq(p, 1, n) \in Seq(S) /\ Len(SubSeq(p, 1, n)) = n
      /\ SubSeq(p, 1, n)[1] = p[1]
  BY <1>1, <1>5
<1>7. \A q : q \in UpTo(SubSeq(p, 1, n - 1)) <=> \E m \in 1..(n - 1) : q = SubSeq(p, 1, m)
  BY <1>3, <1>5
<1> QED BY <1>4, <1>6, <1>7

\* So the way to a path.
LEMMA WayIs ==
  ASSUME path \in Paths, path # <<>>
  PROVE  /\ Depth \in Nat /\ Depth > 0
         /\ Place(path) = Way(Depth)
         /\ \A n \in 1..Depth :
              /\ Len(Way(n)) = n /\ Way(n)[1] = Root(path)
              /\ Parent(Way(n)) = Way(n - 1)
              /\ \A q : q \in UpTo(Way(n - 1)) <=> \E m \in 1..(n - 1) : q = Way(m)
         /\ Way(1) = <<Root(path)>>
<1>1. Good(path)
  BY PathGood
<1>2. PICK p \in Seq(Steps) : p = Place(path) /\ Len(p) > 0 /\ p[1] = Root(path)
  BY <1>1, PlaceType
<1>3. Depth = Len(p) /\ Len(p) \in Nat /\ \A n : Way(n) = SubSeq(p, 1, n)
  BY <1>2 DEF Depth, Way
<1>4. p = SubSeq(p, 1, Len(p)) /\ SubSeq(p, 1, 1) = <<p[1]>>
  <2>1. p = SubSeq(p, 1, Len(p))
    <3>1. \A i \in 1..Len(p) : p[i] \in Steps
      BY <1>2
    <3>2. /\ SubSeq(p, 1, Len(p)) \in Seq(Steps) /\ Len(SubSeq(p, 1, Len(p))) = Len(p)
          /\ \A i \in 1..Len(p) : SubSeq(p, 1, Len(p))[i] = p[i]
      BY <1>2, <3>1, SubSeqProperties
    <3> QED BY <1>2, <3>2, SeqEqual
  <2>2. SubSeq(p, 1, 1) = <<p[1]>>
    <3>1. 1 \in 1..Len(p) /\ p \in Seq(Steps)
      BY <1>2
    <3>2. PICK u \in Seq(Steps) : u = SubSeq(p, 1, 1) /\ Len(u) = 1 /\ u[1] = p[1]
      <4>1. PICK n \in 1..Len(p) : n = 1
        BY <3>1
      <4>2. SubSeq(p, 1, n) \in Seq(Steps) /\ Len(SubSeq(p, 1, n)) = n
            /\ SubSeq(p, 1, n)[1] = p[1]
        BY <3>1, Beginnings
      <4> QED BY <4>1, <4>2
    <3>3. PICK z \in Steps : z = p[1]
      BY <3>1
    <3>4. <<z>> \in Seq(Steps) /\ Len(<<z>>) = 1 /\ <<z>>[1] = z
      OBVIOUS
    <3>5. PICK v \in Seq(Steps) : v = <<z>> /\ Len(v) = 1 /\ v[1] = z
      BY <3>4
    <3>6. u = v
      <4>1. Len(u) = Len(v) /\ \A i \in 1..Len(u) : u[i] = v[i]
        BY <3>2, <3>3, <3>5
      <4> QED BY <3>2, <3>5, <4>1, SeqEqual
    <3> QED BY <3>2, <3>3, <3>5, <3>6
  <2> QED BY <2>1, <2>2
<1>5. ASSUME NEW n \in 1..Depth
      PROVE  /\ Len(Way(n)) = n /\ Way(n)[1] = Root(path)
             /\ Parent(Way(n)) = Way(n - 1)
             /\ \A q : q \in UpTo(Way(n - 1)) <=> \E m \in 1..(n - 1) : q = Way(m)
  <2>1. n \in 1..Len(p) /\ p \in Seq(Steps)
    BY <1>2, <1>3, <1>5
  <2>2. /\ Len(SubSeq(p, 1, n)) = n /\ SubSeq(p, 1, n)[1] = p[1]
        /\ Parent(SubSeq(p, 1, n)) = SubSeq(p, 1, n - 1)
        /\ \A q : q \in UpTo(SubSeq(p, 1, n - 1))
                   <=> \E m \in 1..(n - 1) : q = SubSeq(p, 1, m)
    BY <2>1, Beginnings
  <2> QED BY <1>2, <1>3, <2>2
<1> QED BY <1>2, <1>3, <1>4, <1>5

\* Two places on the way are the same only at the same height.
LEMMA WayApart ==
  ASSUME path \in Paths, path # <<>>,
         NEW n \in 1..Depth, NEW m \in 1..Depth, Way(n) = Way(m)
  PROVE  n = m
BY WayIs

\* Unless one of the reasons holds, what is there is what can be reached.
LEMMA Reaches ==
  ASSUME path \in Paths, path # <<>>, Grown, ~ Excused, NEW n \in 1..Depth,
         n = 1 \/ Way(n - 1) \in DOMAIN fs
  PROVE  Reachable(Way(n))
<1>1. \A m \in 1..Depth : Way(m) \in DOMAIN fs => fs[Way(m)] = "usable"
  BY DEF Excused
<1>2. Depth \in Nat
  BY WayIs
<1>3. ASSUME NEW q \in UpTo(Way(n - 1)) PROVE q \in DOMAIN fs /\ fs[q] # "closed"
  <2>1. PICK m \in 1..(n - 1) : q = Way(m)
    BY <1>3, WayIs
  <2>2. n - 1 \in 1..Depth /\ m \in 1..Depth
    BY <1>2, <2>1
  <2>3. Way(m) \in DOMAIN fs
    BY <2>1, <2>2 DEF Grown
  <2> QED BY <1>1, <2>1, <2>2, <2>3
<1>4. Way(n)[1] = Dot => fs[<<Dot>>] # "closed"
  <2>1. Way(n)[1] = Root(path) /\ Way(1) = <<Root(path)>>
    BY WayIs
  <2>2. Way(1) \in DOMAIN fs /\ 1 \in 1..Depth
    BY <1>2 DEF Grown
  <2>3. fs[Way(1)] = "usable"
    BY <1>1, <2>2
  <2>4. Way(n)[1] = Dot => Way(1) = <<Dot>>
    BY <2>1
  <2> QED BY <2>3, <2>4
<1>5. Parent(Way(n)) = Way(n - 1)
  BY WayIs
<1> QED BY <1>3, <1>4, <1>5 DEF Reachable

\* The reasons stay: nothing is taken away, and nothing changes its kind.
LEMMA ExcusedStays ==
  ASSUME Excused, path' = path, others' = others \/ others' > 0,
         faults' = faults \/ faults' > 0,
         \A q \in DOMAIN fs : q \in DOMAIN fs' /\ fs'[q] = fs[q]
  PROVE  Excused'
<1>1. CASE others > 0 \/ faults > 0 \/ DoubleSlash(path)
  BY <1>1 DEF Excused
<1>2. CASE \E n \in 1..Depth : Way(n) \in DOMAIN fs /\ fs[Way(n)] # "usable"
  <2>1. PICK n \in 1..Depth : Way(n) \in DOMAIN fs /\ fs[Way(n)] # "usable"
    BY <1>2
  <2>2. Depth' = Depth /\ Way(n)' = Way(n)
    BY DEF Depth, Way
  <2>3. Way(n) \in DOMAIN fs' /\ fs'[Way(n)] # "usable"
    BY <2>1
  <2>4. n \in 1..Depth' /\ Way(n)' \in DOMAIN fs' /\ fs'[Way(n)'] # "usable"
    BY <2>1, <2>2, <2>3
  <2> QED BY <2>4 DEF Excused
<1> QED BY <1>1, <1>2 DEF Excused

\* Where the last call is.
LEMMA TopIs ==
  ASSUME Types, Stacked
  PROVE  /\ Len(stack) \in Nat /\ Len(stack) > 0 /\ Len(stack) \in 1..Len(stack)
         /\ Good(Top) /\ Strlen(Top) > 0
         /\ Height(Len(stack)) \in 1..Depth /\ Place(Top) = Way(Height(Len(stack)))
<1>1. Len(stack) \in Nat /\ Len(stack) > 0
  BY CreateDirAssumption DEF Types
<1>2. Len(stack) \in 1..Len(stack)
  BY <1>1
<1> QED BY <1>1, <1>2 DEF Stacked, Top, Good

\* Where the directory of a call's path is.
LEMMA Above ==
  ASSUME Types, Stacked, path # <<>>, NEW i \in 1..Len(stack),
         NEW d, d = DirOf(stack[i]), NEW h, h = Len(Place(d))
  PROVE  /\ Good(d) /\ (DoubleSlash(path) \/ Straight(d))
         /\ h \in 1..Depth /\ Place(d) = Way(h)
         /\ h < Depth \/ Depth = 1
         /\ h = Height(i) \/ h = Height(i) - 1
         /\ ~ DoubleSlash(path) => h < Height(i) \/ Height(i) = 1
<1>1. PICK s : s = stack[i]
  OBVIOUS
<1>2. Good(s) /\ (DoubleSlash(path) \/ Straight(s))
  BY <1>1 DEF Stacked
<1>3. PICK g : g = Height(i) /\ g \in 1..Depth /\ Place(s) = Way(g) /\ Len(Place(s)) = g
               /\ (i > 1 => g < Depth \/ Depth = 1)
  BY <1>1 DEF Stacked, Height
<1>4. Climb(s, d)
  BY <1>1, <1>2, DirOfClimbs
<1>5. Good(d) /\ (DoubleSlash(path) \/ Straight(d))
  BY <1>2, <1>4 DEF Climb
<1>6. PICK p, r : p = Place(s) /\ r = Place(d)
  OBVIOUS
<1>7. \/ r = p /\ (Len(p) = 1 \/ Late(s))
      \/ Len(p) > 1 /\ Len(r) = Len(p) - 1 /\ r = SubSeq(p, 1, Len(p) - 1)
  <2>1. r = Place(DirOf(s))
    BY <1>1, <1>6
  <2> QED BY <1>2, <1>6, <2>1, PlacesClimb
<1>8. p = Way(g) /\ Len(p) = g /\ h = Len(r) /\ Depth \in Nat /\ Depth > 0
  BY <1>3, <1>6, WayIs DEF Types
<1>9. SubSeq(p, 1, Len(p) - 1) = Way(g - 1)
  BY <1>3, <1>8, WayIs DEF Parent, Types
<1>10. CASE r = p /\ (Len(p) = 1 \/ Late(s))
  <2>1. Late(s) => i > 1
    <3>1. i = 1 => s = path
      BY <1>1 DEF Types
    <3>2. ~ Late(path)
      BY PathGood DEF Types
    <3>3. i \in Nat /\ i >= 1
      OBVIOUS
    <3> QED BY <3>1, <3>2, <3>3
  <2>2. ~ DoubleSlash(path) => Len(p) = 1
    <3>1. Straight(s) /\ Late(s) => Bare(s)
      BY DEF Straight
    <3>2. Bare(s) => Len(p) = 1
      BY <1>2, <1>6, BarePlace
    <3> QED BY <1>2, <1>10, <3>1, <3>2
  <2>3. h = g /\ r = Way(h)
    BY <1>8, <1>10
  <2>4. i = 1 => g = Depth
    <3>1. stack[1] = path
      BY DEF Types
    <3> QED BY <1>1, <1>3, <3>1 DEF Depth
  <2>5. h < Depth \/ Depth = 1
    <3>1. i > 1 => g < Depth \/ Depth = 1
      BY <1>3
    <3>2. i = 1 \/ i > 1
      OBVIOUS
    <3> QED BY <1>8, <1>10, <2>1, <2>3, <2>4, <3>1, <3>2
  <2>6. ~ DoubleSlash(path) => g = 1
    BY <1>8, <2>2
  <2> QED BY <1>3, <1>5, <1>6, <2>3, <2>5, <2>6
<1>11. CASE Len(p) > 1 /\ Len(r) = Len(p) - 1 /\ r = SubSeq(p, 1, Len(p) - 1)
  <2>1. h = g - 1 /\ r = Way(h) /\ g > 1
    BY <1>8, <1>9, <1>11
  <2> QED BY <1>3, <1>5, <1>6, <1>8, <2>1
<1> QED BY <1>7, <1>10, <1>11

\* Steps that leave the paths alone leave the calls where they are.
LEMMA SamePlaces ==
  ASSUME path' = path, stack' = stack
  PROVE  /\ Stacked' = Stacked /\ Falling' = Falling
         /\ Top' = Top /\ Depth' = Depth
         /\ \A n : Way(n)' = Way(n) /\ Height(n)' = Height(n)
<1>1. Top' = Top /\ Depth' = Depth
  BY DEF Top, Depth
<1>2. \A n : Way(n)' = Way(n) /\ Height(n)' = Height(n)
  BY DEF Way, Height
<1>3. Stacked' = Stacked /\ Falling' = Falling
  BY DEF Stacked, Falling, Depth, Way, Height
<1> QED BY <1>1, <1>2, <1>3

\* And those that make nothing, what is there.
LEMMA SameThings ==
  ASSUME path' = path, fs' = fs, others' = others
  PROVE  /\ Grown' = Grown
         /\ faults' = faults => Excused' = Excused
         /\ faults' > 0 => Excused'
BY DEF Grown, Excused, Depth, Way

\* Before a call has returned nothing is made.
LEMMA MadeNothing ==
  ASSUME Making, step \in {"stat", "access", "exists"}
  PROVE  made = <<>>
BY DEF Making

\* stat and access keep the invariant.
LEMMA LooksKeep ==
  ASSUME IInv, path # <<>>, JInv, Stat \/ Access
  PROVE  JInv'
<1>1. /\ UNCHANGED <<path, stack, fs, made, others>>
      /\ faults' = faults \/ (Fault /\ faults' > 0)
  BY FaultCounts DEF Stat, Access, IInv
<1>2. Stacked' /\ Falling' /\ Grown' /\ Top' = Top /\ (Excused => Excused')
  BY <1>1, SamePlaces, SameThings DEF JInv
<1>3. PICK n \in 1..Depth : Place(Top) = Way(n) /\ n = Height(Len(stack))
  BY TopIs DEF JInv, IInv
<1>4. Way(n) \in DOMAIN fs /\ fs[Way(n)] # "usable" => Excused
  BY <1>3 DEF Excused
<1>5. Seen(Top)' = Seen(Top)
  BY <1>1, <1>2 DEF Seen, Reachable
<1>6. \A i \in 1..Len(stack) : Place(stack[i])' = Place(stack[i])
  BY <1>1
<1>7. /\ step' \in {"access", "exists", "return"} /\ made = <<>> /\ ret' \in {ret, 0}
      /\ ret # -1
      /\ step' = "exists" => ~ Seen(Top) \/ Excused'
  <2>1. CASE Stat
    <3>1. /\ step = "stat" /\ ret' = ret /\ step' \in {"access", "exists"}
          /\ step' = "exists" /\ Seen(Top) => fs[Place(Top)] = "closed" \/ Fault
      BY <2>1 DEF Stat
    <3>2. Seen(Top) => Place(Top) \in DOMAIN fs
      BY DEF Seen
    <3>3. made = <<>> /\ ret # -1
      BY <3>1, MadeNothing DEF JInv, Failing
    <3>4. Fault => Excused'
      BY <1>1, SameThings, CreateDirAssumption DEF Fault, IInv, Types
    <3> QED BY <1>2, <1>3, <1>4, <3>1, <3>2, <3>3, <3>4
  <2>2. CASE Access
    <3>1. /\ step = "access"
          /\ \/ step' = "return" /\ ret' = 0
             \/ step' = "exists" /\ ret' = ret /\ (fs[Place(Top)] # "usable" \/ Fault)
      BY <2>2 DEF Access, Return
    <3>2. Place(Top) \in DOMAIN fs
      BY <3>1 DEF IInv, Known
    <3>3. made = <<>> /\ ret # -1
      BY <3>1, MadeNothing DEF JInv, Failing
    <3>4. Fault => Excused'
      BY <1>1, SameThings, CreateDirAssumption DEF Fault, IInv, Types
    <3> QED BY <1>2, <1>3, <1>4, <3>1, <3>2, <3>3, <3>4
  <2> QED BY <2>1, <2>2
<1>8. Failing'
  <2>1. ret' # -1
    BY <1>7
  <2>2. \A i \in 1..Len(stack) :
          i < Len(stack) => Place(stack[i]) \notin DOMAIN fs \/ Excused
    BY DEF JInv, Failing
  <2> QED BY <1>1, <1>2, <1>5, <1>6, <1>7, <2>1, <2>2 DEF Failing
<1>9. Granted' /\ Making'
  BY <1>1, <1>7 DEF Granted, Making
<1> QED BY <1>2, <1>8, <1>9 DEF JInv

\* What is there when access says that nothing is cannot be reached.
LEMMA Unseen ==
  ASSUME path \in Paths, path # <<>>, Grown, NEW s, Strlen(s) > 0, ~ Seen(s),
         NEW n \in 1..Depth, Place(s) = Way(n)
  PROVE  Way(n) \notin DOMAIN fs \/ Excused
<1> SUFFICES ASSUME Way(n) \in DOMAIN fs, ~ Excused PROVE FALSE
  OBVIOUS
<1>1. n = 1 \/ Way(n - 1) \in DOMAIN fs
  <2>1. Depth \in Nat
    BY WayIs
  <2>2. n # 1 => n - 1 \in 1..n
    BY <2>1
  <2> QED BY <2>2 DEF Grown
<1>2. Reachable(Way(n))
  BY <1>1, Reaches
<1> QED BY <1>2 DEF Seen

\* The call for the directory above keeps the invariant.
LEMMA PushKeeps ==
  ASSUME IInv, path # <<>>, JInv, step = "exists", ~ Seen(Top) \/ Excused', Excused => Excused',
         Len(stack) # MaxDepth,
         stack' = Append(stack, DirOf(Top)), step' = "stat",
         UNCHANGED <<path, ret, fs, made, others>>
  PROVE  JInv'
<1>1. PICK L \in Nat : L = Len(stack) /\ L > 0 /\ L \in 1..L
  BY TopIs DEF IInv, JInv
<1>2. PICK d : d = DirOf(Top) /\ d = DirOf(stack[L])
  BY <1>1 DEF Top
<1>3. PICK h : h = Len(Place(d))
  OBVIOUS
<1>4. /\ Good(d) /\ (DoubleSlash(path) \/ Straight(d))
      /\ h \in 1..Depth /\ Place(d) = Way(h) /\ (h < Depth \/ Depth = 1)
      /\ h = Height(L) \/ h = Height(L) - 1
      /\ ~ DoubleSlash(path) => h < Height(L) \/ Height(L) = 1
  BY <1>1, <1>2, <1>3, Above DEF IInv, JInv
<1>5. Depth \in Nat /\ Depth > 0
  BY WayIs DEF IInv, Types
<1>6. /\ Len(stack') = L + 1 /\ stack'[L + 1] = d
      /\ \A i \in 1..L : stack'[i] = stack[i]
  <2>1. stack \in Seq(Seq(Chars))
    BY DEF IInv, Types
  <2> QED BY <1>1, <1>2, <2>1
<1>7. /\ Depth' = Depth /\ Height(L + 1)' = h
      /\ \A n : Way(n)' = Way(n)
      /\ \A i \in 1..L : Height(i)' = Height(i)
  BY <1>3, <1>6 DEF Depth, Way, Height
<1>8. Grown'
  BY SameThings DEF JInv
<1>9. Stacked'
  <2>1. ASSUME NEW i \in 1..L
        PROVE  /\ Good(stack'[i]) /\ (DoubleSlash(path) \/ Straight(stack'[i]))
               /\ Height(i)' \in 1..Depth /\ Place(stack'[i]) = Way(Height(i)')
               /\ i > 1 => /\ stack'[i] = DirOf(stack'[i - 1])
                           /\ Height(i)' < Depth \/ Depth = 1
    <3>1. stack'[i] = stack[i] /\ Height(i)' = Height(i)
      BY <1>6, <1>7
    <3>2. i > 1 => stack'[i - 1] = stack[i - 1]
      BY <1>1, <1>6
    <3> QED BY <1>1, <3>1, <3>2 DEF JInv, Stacked
  <2>2. stack'[L + 1] = DirOf(stack'[L])
    BY <1>1, <1>2, <1>6
  <2>3. \A i \in 1..(L + 1) : i \in 1..L \/ i = L + 1
    BY <1>1
  <2>4. (L + 1) - 1 = L
    BY <1>1
  <2>5. ASSUME NEW i \in 1..(L + 1)
        PROVE  /\ Good(stack'[i]) /\ (DoubleSlash(path) \/ Straight(stack'[i]))
               /\ Height(i)' \in 1..Depth /\ Place(stack'[i]) = Way(Height(i)')
               /\ i > 1 => /\ stack'[i] = DirOf(stack'[i - 1])
                           /\ Height(i)' < Depth \/ Depth = 1
    <3>1. CASE i \in 1..L
      BY <2>1, <3>1
    <3>2. CASE i = L + 1
      BY <1>4, <1>6, <1>7, <2>2, <2>4, <3>2
    <3> QED BY <2>3, <3>1, <3>2
  <2>6. DoubleSlash(path') = DoubleSlash(path)
    OBVIOUS
  <2> QED BY <1>6, <1>7, <2>5, <2>6 DEF Stacked
<1>10. Falling'
  <2> SUFFICES ASSUME ~ DoubleSlash(path), NEW i \in 1..(L + 1), NEW j \in 1..(L + 1), i < j
               PROVE  Height(j)' < Height(i)' \/ Height(j)' = 1
    BY <1>6 DEF Falling
  <2>1. i \in 1..L
    BY <1>1
  <2>2. \A k, l \in 1..L : k < l => Height(l) < Height(k) \/ Height(l) = 1
    BY <1>1 DEF JInv, Falling
  <2>3. CASE j \in 1..L
    BY <1>7, <2>1, <2>2, <2>3
  <2>4. CASE j = L + 1
    <3>1. Height(i) \in 1..Depth /\ Height(L) \in 1..Depth
      BY <1>1, <2>1 DEF JInv, Stacked
    <3>2. i = L \/ Height(L) < Height(i) \/ Height(L) = 1
      BY <1>1, <2>1, <2>2
    <3>3. Height(i)' = Height(i) /\ Height(j)' = h
      BY <1>7, <2>1, <2>4
    <3> QED BY <1>4, <1>5, <3>1, <3>2, <3>3
  <2> QED BY <1>1, <2>3, <2>4
<1>11. Failing'
  <2>1. ret # -1
    BY DEF JInv, Failing
  <2>2. Place(stack[L]) \notin DOMAIN fs \/ Excused'
    <3>1. /\ Strlen(Top) > 0 /\ Height(L) \in 1..Depth /\ Place(Top) = Way(Height(L))
      BY <1>1, TopIs DEF JInv, IInv
    <3>2. Way(Height(L)) \notin DOMAIN fs \/ Excused'
      BY <3>1, Unseen DEF IInv, Types, JInv
    <3> QED BY <1>1, <3>1, <3>2 DEF Top
  <2>3. \A i \in 1..L : Place(stack[i]) \notin DOMAIN fs \/ Excused'
    <3>1. \A i \in 1..L : i < L => Place(stack[i]) \notin DOMAIN fs \/ Excused
      BY <1>1 DEF JInv, Failing
    <3> QED BY <1>1, <2>2, <3>1
  <2>4. \A i \in 1..(L + 1) : i < L + 1 => i \in 1..L
    BY <1>1
  <2>5. \A i \in 1..(L + 1) : i < L + 1 => Place(stack'[i]) \notin DOMAIN fs' \/ Excused'
    BY <1>6, <1>8, <2>3, <2>4
  <2> QED BY <1>6, <2>1, <2>5 DEF Failing
<1>12. Granted' /\ Making'
  BY MadeNothing DEF JInv, Granted, Making
<1> QED BY <1>8, <1>9, <1>10, <1>11, <1>12 DEF JInv

\* So does every outcome of access.
LEMMA ExistsKeeps ==
  ASSUME IInv, path # <<>>, JInv, Exists
  PROVE  JInv'
<1>1. /\ step = "exists" /\ UNCHANGED <<path, fs, made, others>>
      /\ faults' = faults \/ (Fault /\ faults' > 0)
  BY FaultCounts DEF Exists, IInv
<1>0. Grown' /\ (Excused => Excused') /\ (Fault => Excused')
  <2>1. Fault => faults' > 0
    BY CreateDirAssumption DEF Fault, IInv, Types
  <2> QED BY <1>1, <2>1, SameThings DEF JInv
<1>2. CASE (Seen(Top) /\ Return(-1) /\ UNCHANGED stack)
           \/ (CallForParent /\ Len(stack) = MaxDepth)
  <2>1. /\ stack' = stack
        /\ \/ Seen(Top) /\ step' = "return" /\ ret' = -1
           \/ step' = "overflow" /\ ret' = ret
    BY <1>2 DEF CallForParent, Return
  <2>2. Stacked' /\ Falling' /\ Grown' /\ (Excused => Excused')
    BY <1>0, <1>1, <2>1, SamePlaces DEF JInv
  <2>3. made = <<>> /\ ret # -1 /\ (Seen(Top) => Excused)
    BY <1>1, MadeNothing DEF JInv, Failing
  <2>4. Failing'
    <3>1. \A i \in 1..Len(stack) :
            i < Len(stack) => Place(stack[i]) \notin DOMAIN fs \/ Excused
      BY DEF JInv, Failing
    <3> QED BY <1>1, <2>1, <2>2, <2>3, <3>1 DEF Failing
  <2>5. Granted' /\ Making'
    BY <1>1, <2>1, <2>3 DEF Granted, Making
  <2> QED BY <2>2, <2>4, <2>5 DEF JInv
<1>3. CASE CallForParent /\ (~ Seen(Top) \/ Fault) /\ Len(stack) # MaxDepth
  <2>1. stack' = Append(stack, DirOf(Top)) /\ step' = "stat" /\ ret' = ret
    BY <1>3, Zenon DEF CallForParent, DirOf
  <2> QED BY <1>0, <1>1, <1>3, <2>1, PushKeeps
<1> QED BY <1>2, <1>3 DEF Exists

\* A return to the caller keeps the invariant.
LEMMA ReturnsKeep ==
  ASSUME IInv, path # <<>>, JInv, Returns
  PROVE  JInv'
<1>1. step = "return" /\ UNCHANGED <<path, ret, fs, made, others, faults>>
  BY DEF Returns
<1>2. PICK L \in Nat : L = Len(stack) /\ L > 0 /\ L \in 1..L
  BY TopIs DEF IInv, JInv
<1>3. Grown' /\ Excused' = Excused
  BY <1>1, SameThings DEF JInv
<1>4. CASE L = 1
  <2>1. step' = "done" /\ stack' = stack
    BY <1>2, <1>4 DEF Returns
  <2>2. Stacked' /\ Falling' /\ Depth' = Depth /\ \A n : Way(n)' = Way(n)
    BY <1>1, <2>1, SamePlaces DEF JInv
  <2>3. Failing'
    <3>1. ret = -1 => Excused
      BY DEF JInv, Failing
    <3>2. \A i \in 1..Len(stack') : ~ (i < Len(stack') \/ step' = "mkdir")
      <4>1. Len(stack') = 1 /\ step' # "mkdir"
        BY <1>2, <1>4, <2>1
      <4>2. \A i \in 1..1 : ~ (i < 1)
        OBVIOUS
      <4> QED BY <4>1, <4>2
    <3>3. ret' = -1 => Excused' /\ step' \in {"return", "done"}
      BY <1>1, <1>3, <2>1, <3>1
    <3>4. step' # "exists"
      BY <2>1
    <3> QED BY <3>2, <3>3, <3>4 DEF Failing
  <2>4. Height(L) = Depth
    <3>1. stack[1] = path
      BY DEF IInv, Types
    <3> QED BY <1>4, <3>1 DEF Height, Depth
  <2>5. Granted'
    BY <2>1 DEF Granted
  <2>6. Making'
    <3>1. LastMade' = LastMade
      BY <1>1 DEF LastMade
    <3> QED BY <1>1, <1>2, <2>1, <2>2, <2>4, <3>1 DEF JInv, Making
  <2> QED BY <1>3, <2>2, <2>3, <2>5, <2>6 DEF JInv
<1>5. CASE L # 1
  <2>1. /\ stack' = SubSeq(stack, 1, L - 1)
        /\ step' = IF ret = 0 THEN "mkdir" ELSE "return"
    BY <1>2, <1>5 DEF Returns
  <2>2. PICK M \in Nat : M = L - 1 /\ M > 0 /\ M \in 1..M /\ M \in 1..L
    BY <1>2, <1>5
  <2>3. /\ Len(stack') = M /\ \A i \in 1..M : stack'[i] = stack[i]
    <3>1. stack \in Seq(Seq(Chars))
      BY DEF IInv, Types
    <3>2. \A i \in 1..M : stack[i] \in Seq(Chars)
      BY <1>2, <2>2, <3>1, ElementOfSeq
    <3> QED BY <1>2, <2>1, <2>2, <3>1, <3>2
  <2>4. /\ Depth' = Depth /\ \A n : Way(n)' = Way(n)
        /\ \A i \in 1..M : Height(i)' = Height(i)
    BY <1>1, <2>3 DEF Depth, Way, Height
  <2>5. Top' = stack[M] /\ Top = stack[L] /\ DirOf(Top') = Top
    <3>1. Top' = stack[M] /\ Top = stack[L]
      BY <1>2, <2>2, <2>3 DEF Top
    <3>2. L > 1 /\ L - 1 = M
      BY <1>2, <1>5, <2>2
    <3>3. stack[L] = DirOf(stack[L - 1])
      BY <1>2, <3>2 DEF JInv, Stacked
    <3> QED BY <3>1, <3>2, <3>3
  <2>6. Stacked'
    <3>1. ASSUME NEW i \in 1..M
          PROVE  /\ Good(stack'[i]) /\ (DoubleSlash(path) \/ Straight(stack'[i]))
                 /\ Height(i)' \in 1..Depth /\ Place(stack'[i]) = Way(Height(i)')
                 /\ i > 1 => /\ stack'[i] = DirOf(stack'[i - 1])
                             /\ Height(i)' < Depth \/ Depth = 1
      <4>1. stack'[i] = stack[i] /\ Height(i)' = Height(i) /\ i \in 1..L
        BY <1>2, <2>2, <2>3, <2>4
      <4>2. i > 1 => stack'[i - 1] = stack[i - 1]
        BY <2>2, <2>3
      <4> QED BY <1>2, <4>1, <4>2 DEF JInv, Stacked
    <3>2. DoubleSlash(path') = DoubleSlash(path)
      BY <1>1
    <3> QED BY <2>3, <2>4, <3>1, <3>2 DEF Stacked
  <2>7. Falling'
    <3> SUFFICES ASSUME ~ DoubleSlash(path), NEW i \in 1..M, NEW j \in 1..M, i < j
                 PROVE  Height(j)' < Height(i)' \/ Height(j)' = 1
      BY <1>1, <2>3 DEF Falling
    <3>1. i \in 1..L /\ j \in 1..L
      BY <2>2
    <3> QED BY <1>2, <2>4, <3>1 DEF JInv, Falling
  <2>8. Failing'
    <3>1. ret = -1 => Excused
      BY DEF JInv, Failing
    <3>2. \A i \in 1..M : Place(stack[i]) \notin DOMAIN fs \/ Excused
      <4>1. \A i \in 1..M : i \in 1..L /\ i < L
        BY <1>2, <2>2
      <4> QED BY <1>2, <4>1 DEF JInv, Failing
    <3>3. \A i \in 1..M : Place(stack'[i]) \notin DOMAIN fs' \/ Excused'
      BY <1>1, <1>3, <2>3, <3>2
    <3>4. step' # "exists" /\ (ret # 0 => step' = "return")
      BY <2>1
    <3>5. ret' = -1 => Excused' /\ step' \in {"return", "done"}
      BY <1>1, <1>3, <3>1, <3>4
    <3> QED BY <2>3, <3>3, <3>4, <3>5 DEF Failing
  <2>9. Granted'
    <3>1. ret = 0 => Usable(Top)
      BY <1>1 DEF IInv, Known
    <3>2. step' = "mkdir" => Usable(Top)
      BY <2>1, <3>1
    <3> QED BY <1>1, <2>5, <3>2 DEF Granted, Usable
  <2>10. Making'
    <3>1. LastMade' = LastMade
      BY <1>1 DEF LastMade
    <3>2. Len(Place(DirOf(Top'))) = Height(L)
      BY <2>5 DEF Height
    <3>3. ASSUME made # <<>>
          PROVE  /\ Len(made[1]) \in 2..Depth /\ LastMade \in 2..Depth
                 /\ \A i \in 1..Len(made) : made[i] = Way(Len(made[1]) + i - 1)
                 /\ ret = 0 => LastMade = Height(L)
                 /\ ret = -1 => LastMade < Depth
      BY <1>1, <1>2, <3>3 DEF JInv, Making
    <3>4. step' = "mkdir" => ret = 0
      BY <2>1
    <3>5. step' = "return" => ret # 0
      BY <2>1
    <3>6. step' \in {"mkdir", "return"}
      BY <2>1
    <3> QED BY <1>1, <2>4, <3>1, <3>2, <3>3, <3>4, <3>5, <3>6 DEF Making
  <2> QED BY <1>3, <2>6, <2>7, <2>8, <2>9, <2>10 DEF JInv
<1> QED BY <1>4, <1>5

\* What is made below something on the way leaves no gap.
LEMMA GrownBy ==
  ASSUME path \in Paths, path # <<>>, Grown, path' = path, NEW k \in 1..Depth, k > 1,
         Way(k - 1) \in DOMAIN fs, DOMAIN fs' = DOMAIN fs \cup {Way(k)}
  PROVE  Grown'
<1>1. Depth \in Nat /\ Depth > 0
  BY WayIs
<1>2. Depth' = Depth /\ \A n : Way(n)' = Way(n)
  BY DEF Depth, Way
<1>3. ASSUME NEW n \in 1..Depth, Way(n) \in DOMAIN fs', NEW m \in 1..n
      PROVE  Way(m) \in DOMAIN fs'
  <2>1. CASE Way(n) \in DOMAIN fs
    BY <1>3, <2>1 DEF Grown
  <2>2. CASE Way(n) = Way(k)
    <3>1. n = k
      BY <2>2, WayApart
    <3>2. k - 1 \in 1..Depth /\ (m = k \/ m \in 1..(k - 1))
      BY <1>1, <1>3, <3>1
    <3>3. m \in 1..(k - 1) => Way(m) \in DOMAIN fs
      BY <3>2 DEF Grown
    <3> QED BY <3>2, <3>3
  <2> QED BY <1>3, <2>1, <2>2
<1>4. Way(1) \in DOMAIN fs'
  BY DEF Grown
<1> QED BY <1>2, <1>3, <1>4 DEF Grown

\* Another process is one of the reasons.
LEMMA OtherKeeps ==
  ASSUME IInv, path # <<>>, JInv, OtherMakes
  PROVE  JInv'
<1>1. UNCHANGED <<path, stack, step, ret, made, faults>> /\ others' = others + 1
  BY DEF OtherMakes
<1>2. PICK p \in UpTo(Place(path)) \ DOMAIN fs, kind \in Kinds :
        Parent(p) \in DOMAIN fs /\ Appears(p, kind)
  BY DEF OtherMakes
<1>3. /\ DOMAIN fs' = DOMAIN fs \cup {p} /\ \A q \in DOMAIN fs : fs'[q] = fs[q]
  BY <1>2, AppearsKeeps DEF IInv
<1>4. /\ Stacked' /\ Falling' /\ Top' = Top /\ Depth' = Depth
      /\ \A n : Way(n)' = Way(n) /\ Height(n)' = Height(n)
  BY <1>1, SamePlaces DEF JInv
<1>5. Excused'
  <2>1. others' > 0
    BY <1>1 DEF IInv, Types
  <2> QED BY <2>1 DEF Excused
<1>6. PICK k \in 1..Depth : p = Way(k)
  BY <1>2 DEF UpTo, Way, Depth
<1>7. Depth \in Nat /\ Depth > 0
  BY WayIs DEF IInv, Types
<1>8. k > 1 /\ Way(k - 1) \in DOMAIN fs
  <2>1. k # 1
    BY <1>2, <1>6 DEF JInv, Grown
  <2>2. Parent(Way(k)) = Way(k - 1)
    BY WayIs DEF IInv, Types
  <2> QED BY <1>2, <1>6, <2>1, <2>2
<1>9. Grown'
  BY <1>1, <1>3, <1>6, <1>8, GrownBy DEF IInv, Types, JInv
<1>10. Failing'
  <2>1. ret = -1 => step \in {"return", "done"}
    BY DEF JInv, Failing
  <2> QED BY <1>1, <1>5, <2>1 DEF Failing
<1>11. Granted'
  <2>1. step = "mkdir" => Usable(DirOf(Top))
    BY DEF JInv, Granted
  <2>2. PICK q : q = Place(DirOf(Top))
    OBVIOUS
  <2>3. step = "mkdir" => q \in DOMAIN fs' /\ fs'[q] = "usable"
    BY <1>3, <2>1, <2>2 DEF Usable
  <2> QED BY <1>1, <1>4, <2>2, <2>3 DEF Granted, Usable
<1>12. Making'
  <2>1. LastMade' = LastMade
    BY <1>1 DEF LastMade
  <2> QED BY <1>1, <1>4, <2>1 DEF JInv, Making
<1> QED BY <1>4, <1>9, <1>10, <1>11, <1>12 DEF JInv

\* Making a directory, or failing to, keeps the invariant.
LEMMA MkdirKeeps ==
  ASSUME IInv, path # <<>>, JInv, Mkdir
  PROVE  JInv'
<1>1. step = "mkdir" /\ step' = "return" /\ UNCHANGED <<path, stack, others>>
  BY DEF Mkdir, Return
<1>2. PICK L \in Nat : L = Len(stack) /\ L > 0 /\ L \in 1..L
  BY TopIs DEF IInv, JInv
<1>3. /\ Stacked' /\ Falling' /\ Top' = Top /\ Depth' = Depth
      /\ \A i : Way(i)' = Way(i) /\ Height(i)' = Height(i)
  BY <1>1, SamePlaces DEF JInv
<1>4. ret # -1 /\ (Place(Top) \notin DOMAIN fs \/ Excused)
  BY <1>1, <1>2 DEF JInv, Failing, Top
<1>5. PICK n \in 1..Depth : n = Height(L) /\ Place(Top) = Way(n) /\ Strlen(Top) > 0
  BY <1>2, TopIs DEF IInv, JInv
<1>6. PICK d, h : d = DirOf(Top) /\ d = DirOf(stack[L]) /\ h = Len(Place(d))
  BY <1>2 DEF Top
<1>7. /\ h \in 1..Depth /\ Place(d) = Way(h) /\ (h < Depth \/ Depth = 1)
      /\ h = n \/ h = n - 1
  BY <1>2, <1>5, <1>6, Above DEF IInv, JInv
<1>8. Way(h) \in DOMAIN fs /\ fs[Way(h)] = "usable"
  BY <1>1, <1>6, <1>7 DEF JInv, Granted, Usable
<1>9. Depth \in Nat /\ Depth > 0
  BY WayIs DEF IInv, Types
<1>10. Way(n) \notin DOMAIN fs => h = n - 1 /\ n > 1
  BY <1>7, <1>8, <1>9
<1>11. made # <<>> => /\ Len(made[1]) \in 2..Depth /\ LastMade \in 2..Depth /\ LastMade = h
                      /\ \A i \in 1..Len(made) : made[i] = Way(Len(made[1]) + i - 1)
  BY <1>1, <1>6 DEF JInv, Making
<1>12. CASE Return(-1) /\ UNCHANGED <<fs, made>>
            /\ ((~ MkdirWorks(Top) /\ UNCHANGED faults) \/ Fault)
  <2>1. ret' = -1 /\ UNCHANGED <<fs, made>>
    BY <1>12 DEF Return
  <2>2. ~ MkdirWorks(Top) => Excused
    <3> SUFFICES ASSUME ~ MkdirWorks(Top), ~ Excused PROVE FALSE
      OBVIOUS
    <3>1. Way(n) \notin DOMAIN fs /\ h = n - 1 /\ n > 1
      BY <1>4, <1>5, <1>10
    <3>2. Reachable(Way(n))
      BY <1>8, <3>1, Reaches DEF IInv, Types, JInv
    <3>3. Parent(Way(n)) = Way(h)
      BY <3>1, WayIs DEF IInv, Types
    <3> QED BY <1>5, <1>8, <3>1, <3>2, <3>3 DEF MkdirWorks
  <2>3. Grown' /\ Excused'
    <3>1. Fault => faults' > 0
      BY CreateDirAssumption DEF Fault, IInv, Types
    <3> QED BY <1>1, <1>12, <2>1, <2>2, <3>1, SameThings DEF JInv
  <2>4. Failing' /\ Granted'
    BY <1>1, <2>3 DEF Failing, Granted
  <2>5. Making'
    <3>1. LastMade' = LastMade
      BY <2>1 DEF LastMade
    <3>2. made # <<>> => LastMade < Depth
      BY <1>7, <1>9, <1>11
    <3> QED BY <1>1, <1>3, <1>11, <2>1, <3>1, <3>2 DEF Making
  <2> QED BY <1>3, <2>3, <2>4, <2>5 DEF JInv
<1>13. CASE Makes /\ Return(0) /\ UNCHANGED faults
  <2>1. /\ Appears(Place(Top), "usable") /\ made' = Append(made, Place(Top)) /\ ret' = 0
        /\ Place(Top) \notin DOMAIN fs /\ "usable" \in Kinds
    BY <1>13 DEF Makes, Return, MkdirWorks, Kinds
  <2>2. Way(n) \notin DOMAIN fs /\ h = n - 1 /\ n > 1
    BY <1>5, <1>10, <2>1
  <2>3. /\ DOMAIN fs' = DOMAIN fs \cup {Way(n)}
        /\ \A q \in DOMAIN fs : fs'[q] = fs[q]
    <3>1. PICK q : q = Place(Top) /\ q = Way(n)
      BY <1>5
    <3>2. Appears(q, "usable") /\ q \notin DOMAIN fs
      BY <2>1, <3>1
    <3> QED BY <2>1, <3>1, <3>2, AppearsKeeps DEF IInv
  <2>4. Grown'
    BY <1>1, <1>8, <2>2, <2>3, GrownBy DEF IInv, Types, JInv
  <2>5. Excused => Excused'
    BY <1>1, <1>13, <2>3, ExcusedStays
  <2>6. ASSUME NEW i \in 1..L, i < L
        PROVE  Place(stack[i]) \notin DOMAIN fs' \/ Excused'
    <3>1. Place(stack[i]) \notin DOMAIN fs \/ Excused
      BY <1>2, <2>6 DEF JInv, Failing
    <3>2. ~ Excused => Place(stack[i]) # Way(n)
      <4> SUFFICES ASSUME ~ Excused PROVE Place(stack[i]) # Way(n)
        OBVIOUS
      <4>1. ~ DoubleSlash(path)
        BY DEF Excused
      <4>2. Height(L) < Height(i) \/ Height(L) = 1
        BY <1>2, <2>6, <4>1 DEF JInv, Falling
      <4>3. Height(i) \in 1..Depth /\ Place(stack[i]) = Way(Height(i))
        BY <1>2, <2>6 DEF JInv, Stacked
      <4>4. Height(i) # n
        BY <1>5, <1>9, <2>2, <4>2, <4>3
      <4> QED BY <4>3, <4>4, WayApart DEF IInv, Types
    <3> QED BY <2>3, <2>5, <3>1, <3>2
  <2>7. Failing'
    <3>1. \A i \in 1..Len(stack') : i < Len(stack') \/ step' = "mkdir" =>
            Place(stack'[i]) \notin DOMAIN fs' \/ Excused'
      BY <1>1, <1>2, <2>6
    <3> QED BY <1>1, <2>1, <3>1 DEF Failing
  <2>8. Granted'
    BY <1>1 DEF Granted
  <2>9. Making'
    <3>1. PICK w : w = Way(n) /\ Len(w) = n
      BY WayIs DEF IInv, Types
    <3>2. made \in Seq(DOMAIN fs) /\ made' = Append(made, w)
      BY <1>5, <2>1, <3>1 DEF IInv, Types
    <3>3. PICK m \in Nat : m = Len(made)
      BY <3>2
    <3>4. /\ Len(made') = m + 1 /\ made'[m + 1] = w
          /\ \A i \in 1..m : made'[i] = made[i]
      BY <3>2, <3>3
    <3>5. LastMade' = Len(made'[1]) + Len(made') - 1
      BY DEF LastMade
    <3>6. CASE made = <<>>
      <4>1. m = 0
        BY <3>3, <3>6
      <4>2. Len(made'[1]) = n /\ LastMade' = n
        BY <3>1, <3>4, <3>5, <4>1
      <4>3. \A i \in 1..Len(made') : made'[i] = Way(Len(made'[1]) + i - 1)
        BY <3>1, <3>4, <4>1, <4>2
      <4>4. n \in 2..Depth
        BY <1>9, <2>2
      <4> QED BY <1>1, <1>2, <1>3, <1>5, <2>1, <4>2, <4>3, <4>4 DEF Making
    <3>7. CASE made # <<>>
      <4>1. m > 0
        BY <3>2, <3>3, <3>7, EmptySeq
      <4>2. PICK b \in 2..Depth : b = Len(made[1])
        BY <1>11, <3>7
      <4>3. made'[1] = made[1] /\ b + m - 1 = h
        BY <1>11, <3>3, <3>4, <3>7, <4>1, <4>2 DEF LastMade
      <4>4. LastMade' = n
        BY <1>9, <2>2, <3>4, <3>5, <4>2, <4>3
      <4>5. \A i \in 1..Len(made') : made'[i] = Way(Len(made'[1]) + i - 1)
        <5>1. b + (m + 1) - 1 = n
          BY <1>9, <2>2, <4>2, <4>3
        <5>2. \A i \in 1..m : made'[i] = Way(b + i - 1)
          BY <1>11, <3>3, <3>4, <3>7, <4>2
        <5>3. \A i \in 1..(m + 1) : i \in 1..m \/ i = m + 1
          OBVIOUS
        <5> QED BY <3>1, <3>4, <4>2, <4>3, <5>1, <5>2, <5>3
      <4>6. n \in 2..Depth
        BY <1>9, <2>2
      <4> QED BY <1>1, <1>2, <1>3, <1>5, <2>1, <4>2, <4>3, <4>4, <4>5, <4>6 DEF Making
    <3> QED BY <3>6, <3>7
  <2> QED BY <1>3, <2>4, <2>7, <2>8, <2>9 DEF JInv
<1> QED BY <1>12, <1>13 DEF Mkdir

\* The invariant holds at first.
LEMMA InitJInv ==
  ASSUME Init, path # <<>>
  PROVE  JInv
<1>1. path \in Paths /\ stack = <<path>> /\ step = "stat" /\ ret = 0 /\ made = <<>>
  BY DEF Init
<1>2. PICK k \in 1..Depth : DOMAIN fs = UpTo(Way(k)) \cup {<<Slash>>, <<Dot>>}
  BY DEF Init, Way, Depth
<1>3. Depth \in Nat /\ Depth > 0 /\ Place(path) = Way(Depth)
  BY <1>1, WayIs
<1>4. Stacked
  <2>1. Len(stack) = 1 /\ stack[1] = path
    BY <1>1
  <2>2. Good(path) /\ (DoubleSlash(path) \/ Straight(path))
    BY <1>1, PathGood DEF Straight
  <2>3. Height(1) = Depth
    BY <2>1 DEF Height, Depth
  <2>4. \A i \in 1..1 : i = 1 /\ ~ (i > 1)
    OBVIOUS
  <2> QED BY <1>3, <2>1, <2>2, <2>3, <2>4 DEF Stacked
<1>5. Falling
  <2>1. Len(stack) = 1
    BY <1>1
  <2>2. \A i, j \in 1..1 : ~ (i < j)
    OBVIOUS
  <2> QED BY <2>1, <2>2 DEF Falling
<1>6. Grown
  <2>1. \A q : q \in UpTo(Way(k)) <=> \E m \in 1..k : q = Way(m)
    <3>1. CASE k = Depth
      BY <1>3, <3>1 DEF UpTo, Way, Depth
    <3>2. CASE k < Depth
      <4>1. PICK n \in 1..Depth : n = k + 1
        BY <1>3, <3>2
      <4>2. n - 1 = k
        BY <4>1
      <4>3. \A q : q \in UpTo(Way(n - 1)) <=> \E m \in 1..(n - 1) : q = Way(m)
        BY <1>1, WayIs
      <4> QED BY <4>2, <4>3
    <3> QED BY <1>3, <3>1, <3>2
  <2>2. k \in Nat /\ k >= 1
    OBVIOUS
  <2>3. Way(1) \in DOMAIN fs
    <3>1. 1 \in 1..k
      BY <2>2
    <3> QED BY <1>2, <2>1, <3>1
  <2>4. ASSUME NEW n \in 1..Depth, Way(n) \in DOMAIN fs, NEW m \in 1..n
        PROVE  Way(m) \in DOMAIN fs
    <3>1. CASE Way(n) \in UpTo(Way(k))
      <4>1. PICK l \in 1..k : Way(n) = Way(l)
        BY <2>1, <3>1
      <4>2. l \in 1..Depth
        BY <1>3
      <4>3. n = l
        BY <1>1, <4>1, <4>2, WayApart
      <4>4. m \in 1..k
        BY <4>3
      <4> QED BY <1>2, <2>1, <4>4
    <3>2. CASE Way(n) \in {<<Slash>>, <<Dot>>}
      <4>1. Len(Way(n)) = n
        BY <1>1, WayIs
      <4>2. n = 1
        BY <3>2, <4>1
      <4>3. m = 1
        BY <4>2
      <4> QED BY <2>3, <4>3
    <3> QED BY <1>2, <2>4, <3>1, <3>2
  <2> QED BY <2>3, <2>4 DEF Grown
<1>7. Failing
  <2>1. Len(stack) = 1 /\ \A i \in 1..1 : ~ (i < 1)
    BY <1>1
  <2> QED BY <1>1, <2>1 DEF Failing
<1>8. Granted /\ Making
  BY <1>1 DEF Granted, Making
<1> QED BY <1>4, <1>5, <1>6, <1>7, <1>8 DEF JInv

\* For the empty path nothing is made, since the directory of nothing is the
\* root, which is there.
LEMMA EmptyKeeps ==
  ASSUME IInv, path = <<>>, Empty, [Next]_vars
  PROVE  Empty'
<1> USE DEF Empty
<1>1. PICK L \in Nat : L = Len(stack) /\ L > 0 /\ L \in 1..L /\ stack[1] = <<>>
                       /\ stack \in Seq(Seq(Chars))
  <2>1. /\ Len(stack) \in 1..MaxDepth /\ MaxDepth \in Nat
        /\ stack[1] = <<>> /\ stack \in Seq(Seq(Chars))
    BY CreateDirAssumption DEF IInv, Types
  <2>2. Len(stack) \in Nat /\ Len(stack) > 0 /\ Len(stack) \in 1..Len(stack)
    BY <2>1
  <2> QED BY <2>1, <2>2
<1>2. PICK t : t = Top /\ t = stack[L] /\ t \in {<<>>, <<Slash>>} /\ t = stack[Len(stack)]
  <2>1. L = 1 \/ L \in 2..L
    BY <1>1
  <2> QED BY <1>1, <2>1 DEF Top
<1>3. CASE Stat \/ Access \/ UNCHANGED vars
  BY <1>3 DEF Stat, Access, vars
<1>4. CASE Exists
  <2>1. UNCHANGED <<path, fs, made>> /\ (stack' = stack \/ stack' = Append(stack, DirOf(t)))
    BY <1>2, <1>4, Zenon DEF Exists, CallForParent, Return, DirOf
  <2>2. DirOf(t) = <<Slash>>
    BY <1>2, DirOfNothing
  <2>3. CASE stack' = stack
    BY <2>1, <2>3
  <2>4. CASE stack' = Append(stack, DirOf(t))
    <3>1. PICK d \in Seq(Chars) : d = DirOf(t) /\ d = <<Slash>>
      <4>1. <<Slash>> \in Seq(Chars)
        BY DEF Chars
      <4> QED BY <2>2, <4>1
    <3>2. /\ Len(stack') = L + 1 /\ stack'[L + 1] = d
          /\ \A i \in 1..L : stack'[i] = stack[i]
      BY <1>1, <2>4, <3>1
    <3>3. \A i \in 2..(L + 1) : i = L + 1 \/ (i \in 2..L /\ i \in 1..L)
      BY <1>1
    <3>4. \A i \in 2..L : stack[i] = <<Slash>>
      BY <1>1
    <3> QED BY <2>1, <3>1, <3>2, <3>3, <3>4
  <2> QED BY <2>1, <2>3, <2>4
<1>5. CASE Returns
  <2>1. /\ UNCHANGED <<path, fs, made>>
        /\ stack' = stack \/ (L # 1 /\ stack' = SubSeq(stack, 1, L - 1))
    BY <1>1, <1>5 DEF Returns
  <2>2. CASE stack' = stack
    BY <2>1, <2>2
  <2>3. CASE L # 1 /\ stack' = SubSeq(stack, 1, L - 1)
    <3>1. PICK M \in Nat : M = L - 1
      BY <1>1
    <3>2. \A i \in 1..M : stack[i] \in Seq(Chars)
      BY <1>1, <3>1, ElementOfSeq
    <3>3. Len(stack') = M /\ \A i \in 1..M : stack'[i] = stack[i]
      BY <1>1, <2>3, <3>1, <3>2
    <3>4. \A i \in 2..M : i \in 2..L /\ i \in 1..M
      BY <3>1
    <3> QED BY <1>1, <2>1, <3>3, <3>4
  <2> QED BY <2>1, <2>2, <2>3
<1>6. CASE Mkdir
  <2>1. ~ MkdirWorks(t)
    <3>1. CASE t = <<>>
      <4>1. t \in Seq(Chars) /\ Len(t) = 0
        BY <3>1
      <4>2. Ends(t, Strlen(t))
        BY <4>1, StrlenEnds
      <4>3. ~ (Strlen(t) > 0)
        BY <4>1, <4>2 DEF Ends
      <4> QED BY <4>3 DEF MkdirWorks
    <3>2. CASE t = <<Slash>>
      BY <3>2, PlaceOfNothing DEF MkdirWorks
    <3> QED BY <1>2, <3>1, <3>2
  <2>2. UNCHANGED <<stack, fs, made>>
    BY <1>2, <1>6, <2>1 DEF Mkdir, Makes
  <2> QED BY <2>2
<1>7. CASE OtherMakes
  <2>1. UNCHANGED <<stack, made>> /\ \E p, kind : Appears(p, kind)
    BY <1>7 DEF OtherMakes
  <2>2. <<Slash>> \in DOMAIN fs'
    BY <2>1 DEF Appears
  <2> QED BY <2>1, <2>2
<1> QED BY <1>3, <1>4, <1>5, <1>6, <1>7 DEF Next, CreateDir

\* And so does KInv, always.
LEMMA KInvHolds == Spec => []KInv
<1>1. Init => KInv
  <2> SUFFICES ASSUME Init PROVE KInv
    OBVIOUS
  <2>1. CASE path = <<>>
    <3>1. stack = <<path>> /\ made = <<>> /\ <<Slash>> \in DOMAIN fs
      BY DEF Init
    <3>2. \A i \in 2..Len(stack) : stack[i] = <<Slash>>
      BY <3>1
    <3> QED BY <2>1, <3>1, <3>2 DEF KInv, Empty
  <2> QED BY <2>1, InitJInv DEF KInv
<1>2. IInv /\ KInv /\ [Next]_vars => KInv'
  <2> SUFFICES ASSUME IInv, KInv, [Next]_vars PROVE KInv'
    OBVIOUS
  <2>1. path' = path
    BY DEF Next, CreateDir, Stat, Access, Exists, Returns, Mkdir, OtherMakes, vars
  <2>2. CASE path = <<>>
    BY <2>1, <2>2, EmptyKeeps DEF KInv
  <2>3. CASE path # <<>>
    <3>1. JInv
      BY <2>3 DEF KInv
    <3>2. ASSUME UNCHANGED vars PROVE JInv'
      <4>1. UNCHANGED <<path, stack, step, ret, fs, made, others, faults>>
        BY <3>2 DEF vars
      <4>2. Stacked' /\ Falling' /\ Grown' /\ Top' = Top /\ Excused' = Excused
        BY <3>1, <4>1, SamePlaces, SameThings DEF JInv
      <4>3. Seen(Top)' = Seen(Top) /\ Usable(DirOf(Top))' = Usable(DirOf(Top))
        BY <4>1, <4>2 DEF Seen, Reachable, Usable
      <4>4. Failing'
        BY <3>1, <4>1, <4>2, <4>3 DEF JInv, Failing
      <4>5. Granted'
        BY <3>1, <4>1, <4>3 DEF JInv, Granted
      <4>6. Making'
        BY <3>1, <4>1, <4>2 DEF JInv, Making, LastMade, Depth, Way, Height
      <4> QED BY <4>2, <4>4, <4>5, <4>6 DEF JInv
    <3>3. JInv'
      BY <2>3, <3>1, <3>2, LooksKeep, ExistsKeeps, ReturnsKeep, MkdirKeeps, OtherKeeps
         DEF Next, CreateDir
    <3> QED BY <2>1, <2>3, <3>3 DEF KInv
  <2> QED BY <2>2, <2>3
<1> QED BY <1>1, <1>2, IInvHolds, PTL DEF Spec

-----------------------------------------------------------------------------
(* The theorems.                                                           *)

\* The calls of create_dir and create_parent_dir keep their types: every path
\* they hand on is a string, at most MaxDepth of them are on the stack, and
\* what was made is still there, whatever other processes make.
THEOREM TypeCorrect == Spec => []TypeOK
<1>1. IInv => TypeOK
  <2> SUFFICES ASSUME Types PROVE TypeOK
    BY DEF IInv
  <2>1. stack # <<>> /\ Len(stack) <= MaxDepth
    <3>1. Len(<<>>) = 0
      OBVIOUS
    <3> QED BY <3>1 DEF Types
  <2>2. \A k \in 1..Len(stack) : stack[k] \in Seq(Names \cup {Slash, Nul, Dot})
    BY ElementOfSeq DEF Types, Chars
  <2>3. \A k \in 1..Len(made) : made[k] \in DOMAIN fs
    BY ElementOfSeq DEF Types
  <2>4. \A p \in DOMAIN fs : fs[p] \in Kinds
    BY DEF Types
  <2> QED BY <2>1, <2>2, <2>3, <2>4 DEF Types, TypeOK
<1> QED BY <1>1, IInvHolds, PTL

\* When create_dir returns 0 its directory is there, with all permissions,
\* though each call only looked at it some time before, or was told so by its
\* mkdir, and other processes made directories in between.
THEOREM CreatedThere == Spec => []Created
<1>1. IInv => Created
  BY DEF IInv, Known, Usable, Created
<1> QED BY <1>1, IInvHolds, PTL

\* No system call that failed by itself is passed over: when create_dir returns,
\* it returns -1, however far up the call was that met the failure.
THEOREM FaultsAreTold == Spec => []FaultsTold
<1>1. IInv /\ Noticed => FaultsTold
  <2> SUFFICES ASSUME IInv, Noticed, step = "done", faults > 0 PROVE ret = -1
    BY DEF FaultsTold
  <2>1. Len(stack) = 1
    BY DEF IInv, Known
  <2>2. \A i \in 1..1 : ~ (i < 1)
    OBVIOUS
  <2> QED BY <2>1, <2>2 DEF Noticed
<1> QED BY <1>1, IInvHolds, NoticedHolds, PTL

\* create_dir fails for one of the reasons only: something on the way that is
\* no directory it may use, another process, a system call that failed by
\* itself, the empty path, a double slash.
THEOREM FailsForReasons == Spec => []FailsWhy
<1>1. IInv /\ KInv => FailsWhy
  <2> SUFFICES ASSUME IInv, KInv, ret = -1, path # <<>> PROVE
               \/ \E p \in UpTo(Place(path)) : p \in DOMAIN fs /\ fs[p] # "usable"
               \/ others > 0
               \/ faults > 0
               \/ DoubleSlash(path)
    BY DEF FailsWhy
  <2>1. Excused
    BY DEF KInv, JInv, Failing
  <2>2. \A n \in 1..Depth : Way(n) \in UpTo(Place(path))
    BY DEF UpTo, Way, Depth
  <2> QED BY <2>1, <2>2 DEF Excused
<1> QED BY <1>1, IInvHolds, KInvHolds, PTL

\* What it makes is a chain of directories on the way to path, from the top
\* down, none twice, and path itself is the last exactly when it returns 0.
THEOREM MakesDownwards == Spec => []MadeDownwards
<1>1. IInv /\ KInv => MadeDownwards
  <2> SUFFICES ASSUME IInv, KInv PROVE MadeDownwards
    OBVIOUS
  <2>1. CASE made = <<>>
    BY <2>1 DEF MadeDownwards
  <2>2. CASE made # <<>>
    <3>1. path # <<>> /\ JInv
      BY <2>2 DEF KInv, Empty
    <3>2. PICK b \in 2..Depth : b = Len(made[1])
      BY <2>2, <3>1 DEF JInv, Making
    <3>3. PICK m \in Nat : m = Len(made) /\ m > 0 /\ m \in 1..m
      <4>1. made \in Seq(DOMAIN fs)
        BY DEF IInv, Types
      <4> QED BY <2>2, <4>1, EmptySeq
    <3>4. b + m - 1 \in 2..Depth /\ \A i \in 1..m : made[i] = Way(b + i - 1)
      BY <2>2, <3>1, <3>2, <3>3 DEF JInv, Making, LastMade
    <3>5. /\ ret = -1 => b + m - 1 < Depth
          /\ step = "done" /\ ret = 0 => b + m - 1 = Depth
      BY <2>2, <3>1, <3>2, <3>3 DEF JInv, Making, LastMade
    <3>6. Depth \in Nat /\ Depth > 0 /\ Depth \in 1..Depth /\ Place(path) = Way(Depth)
      BY <3>1, WayIs DEF IInv, Types
    <3>7. PICK l \in 1..Depth : l = b + m - 1 /\ made[m] = Way(l)
      BY <3>3, <3>4, <3>6
    <3>8. Way(l) = Place(path) <=> l = Depth
      BY <3>1, <3>6, WayApart DEF IInv, Types
    <3>9. ret \in {0, -1}
      BY DEF IInv, Types
    <3>10. step = "done" => (ret = 0 <=> made[Len(made)] = Place(path))
      BY <3>3, <3>5, <3>7, <3>8, <3>9
    <3>11. \A i \in 1..Len(made) : made[i] = SubSeq(Place(path), 1, Len(made[1]) + i - 1)
      BY <3>2, <3>3, <3>4 DEF Way
    <3> QED BY <3>10, <3>11 DEF MadeDownwards
  <2> QED BY <2>1, <2>2
<1> QED BY <1>1, IInvHolds, KInvHolds, PTL

\* main finds the configuration its argument names, for every path with a name
\* in it, exactly when no slash stands behind that name.
THEOREM ConfLeads == Spec => []ConfFound
<1>1. IInv => ConfFound
  BY ConfParts, Zenon DEF IInv, Types, ConfFound
<1> QED BY <1>1, IInvHolds, PTL

\* dirname and the basename of file.cpp lead, together, where the path leads:
\* for every path with a name in it.
THEOREM PartsLeadThere == Spec => []PartsLead
<1>1. IInv => PartsLead
  BY PathParts, Zenon DEF IInv, Types, PartsLead
<1> QED BY <1>1, IInvHolds, PTL
=============================================================================
