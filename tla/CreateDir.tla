----------------------------- MODULE CreateDir -----------------------------
(***************************************************************************)
(* The directories of file.cpp.  create_dir(path) makes a directory and,   *)
(* through create_parent_dir, those above it: each call looks at its path  *)
(* (stat, access), and when nothing is there calls itself for the dirname  *)
(* of it before mkdir.  Each system call is a step; another process may    *)
(* make a directory between any two of them, and any of them may fail by   *)
(* itself: a full disk, a read-only file system, a name too long.  The     *)
(* umask is taken to leave the owner's permissions alone.                  *)
(*                                                                         *)
(* dirname returns its argument with NUL bytes written over what it cuts   *)
(* off.  A std::string does not end there: the system calls see what is    *)
(* before the first NUL, the next dirname sees all of it.  So paths are    *)
(* sequences of characters here: the slash, NUL, the dot of "./", and one  *)
(* character for each name.  There are no ".." and no links.               *)
(***************************************************************************)
EXTENDS Integers, Sequences

CONSTANTS
  Names,      \* the names of files and directories
  MaxLen,     \* bound: the length of a path given to create_dir
  MaxDepth,   \* bound: the calls the stack holds
  MaxOthers,  \* bound: what other processes make
  MaxFaults   \* bound: the system calls that fail by themselves

Slash == "/"
Nul == "NUL"
Dot == "."

ASSUME CreateDirAssumption ==
  /\ Names \cap {Slash, Nul, Dot} = {}
  /\ MaxLen \in Nat /\ MaxDepth \in Nat \ {0} /\ MaxOthers \in Nat
  /\ MaxFaults \in Nat

\* A name is one character: no two of them stand side by side.
Paths ==
  {s \in UNION {[1..n -> Names \cup {Slash}] : n \in 0..MaxLen} :
     \A i \in 1..(Len(s) - 1) : s[i] = Slash \/ s[i + 1] = Slash}

\* A directory with all permissions, one with no more than the permission to
\* search it, and one without that, or a file.
Kinds == {"usable", "search", "closed"}

VARIABLES
  path,     \* what create_dir was called with
  stack,    \* the path of each call that has not returned, create_dir's first
  step,     \* where the last of them is; "done" when create_dir has returned
  ret,      \* what the call that has returned last returned
  fs,       \* the places where something is, and its kind
  made,     \* history: what create_dir has made, in order
  others,   \* how many directories other processes have made
  faults    \* history: how many system calls have failed by themselves

vars == <<path, stack, step, ret, fs, made, others, faults>>

-----------------------------------------------------------------------------
(* Paths.                                                                  *)

\* The last i for which P(i), or 0.
Last(n, P(_)) ==
  LET S == {i \in 1..n : P(i)}
  IN IF S = {} THEN 0 ELSE CHOOSE i \in S : \A j \in S : j <= i

\* The last place up to the n-th where s has a slash, or has none.
LastSlash(s, n) == Last(n, LAMBDA i : s[i] = Slash)
LastNoSlash(s, n) == Last(n, LAMBDA i : s[i] # Slash)

\* The end of the last name: "skip the tracing '/'s".
NameEndNoSkip(s) == Len(s)
NameEnd(s) == LastNoSlash(s, Len(s))

Dirname(s, reserve_last_slash) ==
  LET slash == LastSlash(s, NameEnd(s))
      parent == IF slash = 0 THEN <<Dot, Slash>>
                ELSE [s EXCEPT ![slash + 1] = Nul]
      end == LastNoSlash(parent, IF slash = 0 THEN 2 ELSE slash)
  IN IF NameEnd(s) = 0 THEN <<Slash>>
     ELSE IF reserve_last_slash THEN parent
     ELSE [parent EXCEPT ![IF end = 0 THEN 2 ELSE end + 1] = Nul]

\* The basename of <string.h>, which main calls: the overload for a char *.
GnuBasename(s) == SubSeq(s, LastSlash(s, Len(s)) + 1, Len(s))

\* The one of file.cpp, which nothing calls.
Basename(s) ==
  IF NameEnd(s) = 0 THEN <<Slash>>
  ELSE SubSeq(s, LastSlash(s, NameEnd(s)) + 1, NameEnd(s))

\* How much of a string a system call sees: what is before the first NUL.
Strlen(s) ==
  CHOOSE n \in 0..Len(s) :
    (\A i \in 1..n : s[i] # Nul) /\ (n < Len(s) => s[n + 1] = Nul)

\* The names among its first n characters.
NamesOf(s) ==
  LET upto[n \in 0..Len(s)] ==
        IF n = 0 THEN <<>>
        ELSE IF s[n] \in Names THEN Append(upto[n - 1], s[n]) ELSE upto[n - 1]
  IN upto

\* Where it leads: the root or the working directory, and names from there.
Place(s) ==
  <<IF Strlen(s) > 0 /\ s[1] = Slash THEN Slash ELSE Dot>> \o NamesOf(s)[Strlen(s)]

UpTo(place) == {SubSeq(place, 1, n) : n \in 1..Len(place)}
Parent(place) == SubSeq(place, 1, Len(place) - 1)

-----------------------------------------------------------------------------
(* What the file system answers.                                           *)

\* Every directory on the way to the place, and the working directory when
\* it is where the way starts, can be searched.
Reachable(place) ==
  /\ \A p \in UpTo(Parent(place)) : p \in DOMAIN fs /\ fs[p] # "closed"
  /\ place[1] = Dot => fs[<<Dot>>] # "closed"

\* access(s, F_OK) = 0.
Seen(s) == Strlen(s) > 0 /\ Reachable(Place(s)) /\ Place(s) \in DOMAIN fs

\* mkdir(s) = 0, unless it fails by itself: nothing is there, and its parent
\* may be written.
MkdirWorks(s) ==
  /\ Strlen(s) > 0 /\ Reachable(Place(s)) /\ Place(s) \notin DOMAIN fs
  /\ fs[Parent(Place(s))] = "usable"

\* A system call fails that had no reason to in any of this.
Fault == faults < MaxFaults /\ faults' = faults + 1

\* Something of some kind is at the place from now on.
Appears(place, kind) ==
  fs' = [p \in DOMAIN fs \cup {place} |-> IF p = place THEN kind ELSE fs[p]]

-----------------------------------------------------------------------------
(* create_dir and create_parent_dir: create_parent_dir(p) does to          *)
(* dirname(p) what create_dir does to its argument.                        *)

Top == stack[Len(stack)]

Return(r) == step' = "return" /\ ret' = r

\* stat and S_ISDIR.
Stat ==
  /\ step = "stat"
  /\ \/ /\ step' \in IF ~Seen(Top) THEN {"exists"}
                     ELSE IF fs[Place(Top)] = "closed" THEN {"access", "exists"}
                     ELSE {"access"}
        /\ UNCHANGED faults
     \/ Seen(Top) /\ Fault /\ step' = "exists"
  /\ UNCHANGED <<path, stack, ret, fs, made, others>>

\* access(R_OK|W_OK|X_OK).
Access ==
  /\ step = "access"
  /\ \/ fs[Place(Top)] = "usable" /\ Return(0) /\ UNCHANGED faults
     \/ fs[Place(Top)] # "usable" /\ step' = "exists" /\ UNCHANGED <<ret, faults>>
     \/ fs[Place(Top)] = "usable" /\ Fault /\ step' = "exists" /\ UNCHANGED ret
  /\ UNCHANGED <<path, stack, fs, made, others>>

\* create_parent_dir is called for the path of the last call.
CallForParent ==
  /\ IF Len(stack) = MaxDepth THEN step' = "overflow" /\ UNCHANGED stack
     ELSE stack' = Append(stack, Dirname(Top, FALSE)) /\ step' = "stat"
  /\ UNCHANGED ret

\* access(F_OK): what is there is in the way; where nothing is, the parent
\* comes first.
ExistsIgnored ==
  /\ step = "exists"
  /\ CallForParent
  /\ UNCHANGED <<path, fs, made, others, faults>>
Exists ==
  /\ step = "exists"
  /\ \/ Seen(Top) /\ Return(-1) /\ UNCHANGED <<stack, faults>>
     \/ ~Seen(Top) /\ CallForParent /\ UNCHANGED faults
     \/ Seen(Top) /\ Fault /\ CallForParent
  /\ UNCHANGED <<path, fs, made, others>>

\* A call returns: create_dir to its caller, create_parent_dir to one that
\* goes on to mkdir, or returns -1 as well.
ReturnsAnyway ==
  /\ step = "return"
  /\ IF Len(stack) = 1 THEN step' = "done" /\ UNCHANGED stack
     ELSE /\ stack' = SubSeq(stack, 1, Len(stack) - 1)
          /\ step' = "mkdir"
  /\ UNCHANGED <<path, ret, fs, made, others, faults>>
Returns ==
  /\ step = "return"
  /\ IF Len(stack) = 1 THEN step' = "done" /\ UNCHANGED stack
     ELSE /\ stack' = SubSeq(stack, 1, Len(stack) - 1)
          /\ step' = IF ret = 0 THEN "mkdir" ELSE "return"
  /\ UNCHANGED <<path, ret, fs, made, others, faults>>

\* What mkdir makes.
Makes ==
  /\ MkdirWorks(Top)
  /\ Appears(Place(Top), "usable")
  /\ made' = Append(made, Place(Top))

MkdirUnchecked ==
  /\ step = "mkdir"
  /\ \/ Makes /\ UNCHANGED faults
     \/ ~MkdirWorks(Top) /\ UNCHANGED <<fs, made, faults>>
     \/ MkdirWorks(Top) /\ Fault /\ UNCHANGED <<fs, made>>
  /\ Return(0)
  /\ UNCHANGED <<path, stack, others>>
MkdirErrno ==
  /\ step = "mkdir"
  /\ \/ Makes /\ Return(0) /\ UNCHANGED faults
     \/ ~MkdirWorks(Top) /\ Return(17) /\ UNCHANGED <<fs, made, faults>>
     \/ MkdirWorks(Top) /\ Fault /\ Return(28) /\ UNCHANGED <<fs, made>>
  /\ UNCHANGED <<path, stack, others>>
Mkdir ==
  /\ step = "mkdir"
  /\ \/ Makes /\ Return(0) /\ UNCHANGED faults
     \/ ~MkdirWorks(Top) /\ Return(-1) /\ UNCHANGED <<fs, made, faults>>
     \/ MkdirWorks(Top) /\ Fault /\ Return(-1) /\ UNCHANGED <<fs, made>>
  /\ UNCHANGED <<path, stack, others>>

\* Another process makes something where create_dir is about to.
OtherMakes ==
  /\ others < MaxOthers /\ step # "done"
  /\ \E p \in UpTo(Place(path)) \ DOMAIN fs, kind \in Kinds :
       Parent(p) \in DOMAIN fs /\ Appears(p, kind)
  /\ others' = others + 1
  /\ UNCHANGED <<path, stack, step, ret, made, faults>>

-----------------------------------------------------------------------------
(* The specification.                                                      *)

\* Some part of the way to path exists.
Init ==
  /\ path \in Paths
  /\ stack = <<path>>
  /\ step = "stat"
  /\ ret = 0
  /\ \E n \in 1..Len(Place(path)) :
       fs \in [UpTo(SubSeq(Place(path), 1, n)) \cup {<<Slash>>, <<Dot>>} -> Kinds]
  /\ fs[<<Slash>>] # "closed"
  /\ made = <<>>
  /\ others = 0
  /\ faults = 0

CreateDir == Stat \/ Access \/ Exists \/ Returns \/ Mkdir

Next == CreateDir \/ OtherMakes

Spec == Init /\ [][Next]_vars

\* The process runs.
FairSpec == Spec /\ WF_vars(CreateDir)

-----------------------------------------------------------------------------
(* Properties.                                                             *)

TypeOK ==
  /\ path \in Paths
  /\ stack # <<>> /\ Len(stack) <= MaxDepth
  /\ \A i \in 1..Len(stack) : stack[i] \in Seq(Names \cup {Slash, Nul, Dot})
  /\ step \in {"stat", "access", "exists", "return", "mkdir", "done", "overflow"}
  /\ ret \in {0, -1}
  /\ \A p \in DOMAIN fs : fs[p] \in Kinds
  /\ \A i \in 1..Len(made) : made[i] \in DOMAIN fs
  /\ others \in 0..MaxOthers
  /\ faults \in 0..MaxFaults

\* create_dir returns 0 only when the directory is there and can be used,
\* though each of its calls only knows that the one before it succeeded.
Created == step = "done" /\ ret = 0 => fs[Place(path)] = "usable"

\* A path with two slashes in a row between two names.
DoubleSlash(s) ==
  \E i, j, k \in 1..Len(s) :
    i < j /\ j + 1 < k /\ s[j] = Slash /\ s[j + 1] = Slash
    /\ s[i] \in Names /\ s[k] \in Names

\* create_dir fails for these reasons only: something on the way is no
\* directory it may use; another process made one of the directories between
\* its access and its mkdir; a system call failed by itself; the path is empty;
\* or it has a double slash, whose second half a later dirname finds behind the
\* NULs of the first.
FailsWhy ==
  step = "done" /\ ret = -1 =>
    \/ \E p \in UpTo(Place(path)) : p \in DOMAIN fs /\ fs[p] # "usable"
    \/ others > 0
    \/ faults > 0
    \/ path = <<>>
    \/ DoubleSlash(path)

\* No system call that failed by itself is passed over: create_dir returns -1,
\* in the end, though it takes one that failed to see a directory for a reason
\* to make those above it, and learns only from mkdir that it is there.
FaultsTold == step = "done" /\ faults > 0 => ret = -1

\* What create_dir makes is a chain of directories on the way to path, from the
\* top down and none twice, and it ends with path itself exactly when
\* create_dir returns 0: after a failure half-way only directories above path
\* stay behind.
MadeDownwards ==
  /\ \A i \in 1..Len(made) :
       made[i] = SubSeq(Place(path), 1, Len(made[1]) + i - 1)
  /\ step = "done" /\ made # <<>> =>
       (ret = 0 <=> made[Len(made)] = Place(path))

\* create_dir returns, unless the path is relative to a working directory
\* that may not be searched: the dirname of "./" is "./" again, so the calls
\* go on until the stack is full.
CreateDirReturns ==
  (path # <<>> /\ path[1] # Slash => fs[<<Dot>>] # "closed") => <>(step = "done")

\* main takes the configuration's directory from dirname and its name from
\* the basename of <string.h>: put together they lead where the argument
\* leads, except when a slash stands behind the argument's last name.  That
\* basename then returns nothing, and main looks in the directory above.
ConfFound ==
  (\E i \in 1..Len(path) : path[i] \in Names) =>
    (path[Len(path)] # Slash
       <=> Place(path) = Place(Dirname(path, FALSE)) \o GnuBasename(path))

\* With the basename of file.cpp, which looks past such slashes as dirname
\* does, they lead there always.
PartsLead ==
  \A i \in 1..Len(path) : path[i] \in Names =>
    Place(path) = Place(Dirname(path, FALSE)) \o Basename(path)

-----------------------------------------------------------------------------
(* What a comment of the source says and the code does not do.             *)

\* "skip the letters": each call of create_parent_dir looks one directory
\* further up than the one before it.
Climbs ==
  \A i \in 1..(Len(stack) - 1) :
    Place(stack[i]) # Place(stack[i + 1]) \/ Len(Place(stack[i])) = 1
=============================================================================
