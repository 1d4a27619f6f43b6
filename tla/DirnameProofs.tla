--------------------------- MODULE DirnameProofs ---------------------------
(***************************************************************************)
(* What dirname returns, for every string create_dir can hand it: the      *)
(* place above the one its argument leads to, or the same place when there *)
(* is none above, or when the argument has a slash behind the NUL it ends  *)
(* at.  The induction over the characters of a string is on the least      *)
(* element of a set of natural numbers.                                    *)
(***************************************************************************)
EXTENDS CreateDir, SequenceTheorems, WellFoundedInduction, TLAPS

Chars == Names \cup {Slash, Nul, Dot}

-----------------------------------------------------------------------------
(* Least and greatest elements, and induction.                             *)

Less == {ss \in Nat \X Nat : ss[1] < ss[2]}

\* A set of natural numbers has a least element.
LEMMA Least ==
  ASSUME NEW T, T \subseteq Nat, T # {}
  PROVE  \E n \in T : \A m \in T : n <= m
<1>1. IsWellFoundedOn(Less, Nat)
  BY NatLessThanWellFounded DEF OpToRel, Less
<1>2. PICK n \in T : \A y \in T : ~ (<<y, n>> \in Less)
  BY <1>1, WFMin
<1>3. \A y \in T : ~ (y < n)
  BY <1>2 DEF Less
<1> QED BY <1>3

\* A set of numbers up to n has a greatest element.
LEMMA Greatest ==
  ASSUME NEW n \in Nat, NEW T, T \subseteq 1..n, T # {}
  PROVE  \E i \in T : \A j \in T : j <= i
<1> DEFINE U == {k \in Nat : \A j \in T : j <= k}
<1>1. n \in U
  OBVIOUS
<1>2. PICK k \in U : \A m \in U : k <= m
  <2> HIDE DEF U
  <2>1. U \subseteq Nat
    BY DEF U
  <2> QED BY <1>1, <2>1, Least
<1>3. k \in Nat /\ \A j \in T : j <= k
  BY <1>2
<1>4. CASE k \in T
  BY <1>3, <1>4
<1>5. CASE k \notin T
  <2>1. PICK t \in T : TRUE
    OBVIOUS
  <2>2. k - 1 \in Nat /\ \A j \in T : j <= k - 1
    BY <1>3, <1>5, <2>1
  <2>3. k - 1 \in U
    BY <2>2
  <2> QED BY <1>2, <1>3, <2>3
<1> QED BY <1>4, <1>5

\* Induction up to n, for the members of a set.
LEMMA Induction ==
  ASSUME NEW n \in Nat, NEW S, 0 \in S, \A k \in 0..(n - 1) : k \in S => k + 1 \in S
  PROVE  n \in S
<1> SUFFICES ASSUME n \notin S PROVE FALSE
  OBVIOUS
<1> DEFINE T == {k \in 0..n : k \notin S}
<1>1. PICK k \in T : \A m \in T : k <= m
  <2>1. T \subseteq Nat /\ n \in T
    OBVIOUS
  <2> HIDE DEF T
  <2> QED BY <2>1, Least
<1>2. k # 0 /\ k - 1 \in 0..(n - 1)
  BY <1>1
<1>3. k - 1 \in S
  BY <1>1, <1>2
<1> QED BY <1>1, <1>2, <1>3

-----------------------------------------------------------------------------
(* The parts of a string.                                                  *)

\* Last finds the last place where a character is, or is not.
LEMMA LastSlashFacts ==
  ASSUME NEW s \in Seq(Chars), NEW n \in 0..Len(s)
  PROVE  /\ LastSlash(s, n) \in 0..n
         /\ LastSlash(s, n) # 0 => s[LastSlash(s, n)] = Slash
         /\ \A i \in 1..n : s[i] = Slash => i <= LastSlash(s, n)
<1> DEFINE S == {i \in 1..n : s[i] = Slash}
<1>1. LastSlash(s, n) = IF S = {} THEN 0 ELSE CHOOSE i \in S : \A j \in S : j <= i
  BY DEF LastSlash, Last
<1>2. S # {} => \E i \in S : \A j \in S : j <= i
  <2>1. S \subseteq 1..n /\ n \in Nat
    OBVIOUS
  <2> HIDE DEF S
  <2> QED BY <2>1, Greatest
<1>3. CASE S = {}
  <2>1. LastSlash(s, n) = 0
    BY <1>1, <1>3, Zenon
  <2> QED BY <1>3, <2>1
<1>4. CASE S # {}
  <2>1. PICK r \in S : r = LastSlash(s, n) /\ \A j \in S : j <= r
    <3> HIDE DEF S
    <3> QED BY <1>1, <1>2, <1>4, Zenon
  <2> QED BY <2>1
<1> QED  BY <1>3, <1>4

\* The same for the last place without a slash.
LEMMA LastNoSlashFacts ==
  ASSUME NEW s \in Seq(Chars), NEW n \in 0..Len(s)
  PROVE  /\ LastNoSlash(s, n) \in 0..n
         /\ LastNoSlash(s, n) # 0 => s[LastNoSlash(s, n)] # Slash
         /\ \A i \in 1..n : s[i] # Slash => i <= LastNoSlash(s, n)
<1> DEFINE S == {i \in 1..n : s[i] # Slash}
<1>1. LastNoSlash(s, n) = IF S = {} THEN 0 ELSE CHOOSE i \in S : \A j \in S : j <= i
  BY DEF LastNoSlash, Last
<1>2. S # {} => \E i \in S : \A j \in S : j <= i
  <2>1. S \subseteq 1..n /\ n \in Nat
    OBVIOUS
  <2> HIDE DEF S
  <2> QED BY <2>1, Greatest
<1>3. CASE S = {}
  <2>1. LastNoSlash(s, n) = 0
    BY <1>1, <1>3, Zenon
  <2> QED BY <1>3, <2>1
<1>4. CASE S # {}
  <2>1. PICK r \in S : r = LastNoSlash(s, n) /\ \A j \in S : j <= r
    <3> HIDE DEF S
    <3> QED BY <1>1, <1>2, <1>4, Zenon
  <2> QED BY <2>1
<1> QED  BY <1>3, <1>4

\* A string ends at its first NUL.
Ends(s, n) ==
  /\ n \in 0..Len(s)
  /\ \A i \in 1..n : s[i] # Nul
  /\ n < Len(s) => s[n + 1] = Nul

\* There is one such place.
LEMMA StrlenEnds ==
  ASSUME NEW s \in Seq(Chars)
  PROVE  Ends(s, Strlen(s))
<1> DEFINE T == {n \in 0..Len(s) : n < Len(s) => s[n + 1] = Nul}
<1>1. PICK n \in T : \A m \in T : n <= m
  <2>1. T \subseteq Nat /\ Len(s) \in T
    OBVIOUS
  <2> HIDE DEF T
  <2> QED BY <2>1, Least
<1>2. \A i \in 1..n : s[i] # Nul
  <2> SUFFICES ASSUME NEW i \in 1..n, s[i] = Nul PROVE FALSE
    OBVIOUS
  <2>1. i - 1 \in T
    BY <1>1
  <2> QED BY <1>1, <2>1
<1>3. \E k \in 0..Len(s) :
        (\A i \in 1..k : s[i] # Nul) /\ (k < Len(s) => s[k + 1] = Nul)
  BY <1>1, <1>2
<1> QED BY <1>3 DEF Strlen, Ends

\* And only one.
LEMMA StrlenIs ==
  ASSUME NEW s \in Seq(Chars), NEW n, Ends(s, n)
  PROVE  Strlen(s) = n
<1>1. Ends(s, Strlen(s))
  BY StrlenEnds
<1>2. PICK m \in 0..Len(s) : m = Strlen(s) /\ Ends(s, m)
  BY <1>1 DEF Ends
<1>3. ~ (m < n)
  BY <1>2 DEF Ends
<1>4. ~ (n < m)
  BY <1>2 DEF Ends
<1> QED BY <1>2, <1>3, <1>4 DEF Ends

-----------------------------------------------------------------------------
(* Names.                                                                  *)

\* One character more, or none.
Longer(s, w, n) == IF s[n] \in Names THEN Append(w, s[n]) ELSE w

\* g counts up the names among the first n characters.
Counts(s, g, n) ==
  g = [i \in 0..n |-> IF i = 0 THEN <<>> ELSE Longer(s, g[i - 1], i)]

\* There is such a function, so NamesOf is one.
LEMMA NamesOfCounts ==
  ASSUME NEW s \in Seq(Chars)
  PROVE  Counts(s, NamesOf(s), Len(s))
<1> DEFINE S == {n \in Nat : \E g : Counts(s, g, n)}
<1>1. 0 \in S
  <2>1. Counts(s, [i \in 0..0 |-> <<>>], 0)
    BY DEF Counts
  <2> QED BY <2>1
<1>2. ASSUME NEW k \in 0..(Len(s) - 1), k \in S PROVE k + 1 \in S
  <2>1. PICK g : Counts(s, g, k)
    BY <1>2
  <2> DEFINE h == [i \in 0..(k + 1) |-> IF i <= k THEN g[i] ELSE Longer(s, g[k], i)]
  <2>2. \A i \in 0..k : h[i] = g[i]
    OBVIOUS
  <2>3. \A i \in 0..k : g[i] = IF i = 0 THEN <<>> ELSE Longer(s, g[i - 1], i)
    BY <2>1 DEF Counts
  <2>4. h[k + 1] = Longer(s, g[k], k + 1)
    OBVIOUS
  <2>5. \A i \in 0..(k + 1) :
          h[i] = IF i = 0 THEN <<>> ELSE Longer(s, h[i - 1], i)
    <3> SUFFICES ASSUME NEW i \in 0..(k + 1)
                 PROVE  h[i] = IF i = 0 THEN <<>> ELSE Longer(s, h[i - 1], i)
      OBVIOUS
    <3> HIDE DEF h
    <3>1. CASE i = k + 1
      BY <2>2, <2>4, <3>1
    <3>2. CASE i \in 1..k
      <4>1. i - 1 \in 0..k /\ i \in 0..k
        BY <3>2
      <4> QED BY <2>2, <2>3, <3>2, <4>1
    <3>3. CASE i = 0
      <4>1. i \in 0..k
        BY <3>3
      <4> QED BY <2>2, <2>3, <3>3, <4>1
    <3> QED BY <3>1, <3>2, <3>3
  <2>6. h = [i \in 0..(k + 1) |-> h[i]]
    OBVIOUS
  <2>7. Counts(s, h, k + 1)
    <3> HIDE DEF h
    <3> QED BY <2>5, <2>6 DEF Counts
  <2>8. k + 1 \in Nat
    OBVIOUS
  <2> QED BY <2>7, <2>8
<1>3. Len(s) \in S
  <2>1. Len(s) \in Nat
    OBVIOUS
  <2> HIDE DEF S
  <2> QED BY <1>1, <1>2, <2>1, Induction
<1>4. PICK g : Counts(s, g, Len(s))
  BY <1>3
<1>5. NamesOf(s) = CHOOSE f : Counts(s, f, Len(s))
  BY DEF NamesOf, Counts, Longer
<1> QED BY <1>4, <1>5

\* What NamesOf says of each character.
LEMMA NamesOfStep ==
  ASSUME NEW s \in Seq(Chars)
  PROVE  /\ NamesOf(s)[0] = <<>>
         /\ \A n \in 1..Len(s) : NamesOf(s)[n] = Longer(s, NamesOf(s)[n - 1], n)
<1> DEFINE g == NamesOf(s)
<1>1. Counts(s, g, Len(s))
  BY NamesOfCounts
<1> HIDE DEF g
<1>2. g[0] = <<>> /\ \A n \in 1..Len(s) : g[n] = Longer(s, g[n - 1], n)
  BY <1>1 DEF Counts
<1> QED BY <1>2 DEF g

\* They are a sequence of names.
LEMMA NamesOfType ==
  ASSUME NEW s \in Seq(Chars), NEW n \in 0..Len(s)
  PROVE  NamesOf(s)[n] \in Seq(Names)
<1> DEFINE g == NamesOf(s)
<1> DEFINE S == {k \in Nat : g[k] \in Seq(Names)}
<1>1. g[0] = <<>> /\ \A k \in 1..Len(s) : g[k] = Longer(s, g[k - 1], k)
  BY NamesOfStep
<1> HIDE DEF g
<1>2. 0 \in S
  <2>1. <<>> \in Seq(Names)
    OBVIOUS
  <2> QED BY <1>1, <2>1
<1>3. ASSUME NEW k \in 0..(n - 1), k \in S PROVE k + 1 \in S
  <2>1. k + 1 \in 1..Len(s) /\ (k + 1) - 1 = k /\ g[k] \in Seq(Names)
    BY <1>3
  <2>2. g[k + 1] = Longer(s, g[k], k + 1)
    BY <1>1, <2>1
  <2>3. g[k + 1] \in Seq(Names)
    BY <2>1, <2>2 DEF Longer
  <2> QED BY <2>1, <2>3
<1>4. n \in S
  <2>1. n \in Nat
    OBVIOUS
  <2> HIDE DEF S
  <2> QED BY <1>2, <1>3, <2>1, Induction
<1> QED BY <1>4 DEF g

\* Strings that begin alike have the same names there.
LEMMA NamesOfSame ==
  ASSUME NEW s \in Seq(Chars), NEW t \in Seq(Chars), NEW n \in 0..Len(s),
         n <= Len(t), \A i \in 1..n : s[i] = t[i]
  PROVE  NamesOf(s)[n] = NamesOf(t)[n]
<1> DEFINE g == NamesOf(s)
           h == NamesOf(t)
<1> DEFINE S == {k \in Nat : g[k] = h[k]}
<1>1. /\ g[0] = <<>> /\ \A k \in 1..Len(s) : g[k] = Longer(s, g[k - 1], k)
      /\ h[0] = <<>> /\ \A k \in 1..Len(t) : h[k] = Longer(t, h[k - 1], k)
  BY NamesOfStep
<1> HIDE DEF g, h
<1>2. 0 \in S
  BY <1>1
<1>3. ASSUME NEW k \in 0..(n - 1), k \in S PROVE k + 1 \in S
  <2>1. /\ k + 1 \in 1..Len(s) /\ k + 1 \in 1..Len(t) /\ (k + 1) - 1 = k
        /\ k + 1 \in 1..n /\ g[k] = h[k]
    BY <1>3
  <2>2. g[k + 1] = Longer(s, g[k], k + 1) /\ h[k + 1] = Longer(t, h[k], k + 1)
    BY <1>1, <2>1
  <2>3. s[k + 1] = t[k + 1]
    BY <2>1
  <2>4. g[k + 1] = h[k + 1]
    BY <2>1, <2>2, <2>3 DEF Longer
  <2> QED BY <2>1, <2>4
<1>4. n \in S
  <2>1. n \in Nat
    OBVIOUS
  <2> HIDE DEF S
  <2> QED BY <1>2, <1>3, <2>1, Induction
<1> QED BY <1>4 DEF g, h

\* Where there are no names, none are added.
LEMMA NamesOfNone ==
  ASSUME NEW s \in Seq(Chars), NEW m \in 0..Len(s), NEW n \in m..Len(s),
         \A i \in (m + 1)..n : s[i] \notin Names
  PROVE  NamesOf(s)[n] = NamesOf(s)[m]
<1> DEFINE g == NamesOf(s)
<1> DEFINE S == {k \in Nat : k >= m => g[k] = g[m]}
<1>1. \A k \in 1..Len(s) : g[k] = Longer(s, g[k - 1], k)
  BY NamesOfStep
<1> HIDE DEF g
<1>2. 0 \in S
  OBVIOUS
<1>3. ASSUME NEW k \in 0..(n - 1), k \in S PROVE k + 1 \in S
  <2>1. k + 1 \in 1..Len(s) /\ (k + 1) - 1 = k /\ (k >= m => g[k] = g[m])
    BY <1>3
  <2>2. g[k + 1] = Longer(s, g[k], k + 1)
    BY <1>1, <2>1
  <2>3. CASE k >= m
    <3>1. s[k + 1] \notin Names
      BY <2>3, <1>3
    <3>2. g[k + 1] = g[m]
      BY <2>1, <2>2, <2>3, <3>1 DEF Longer
    <3> QED BY <2>1, <3>2
  <2>4. CASE k < m
    <3>1. k + 1 >= m => k + 1 = m
      BY <2>4
    <3> QED BY <2>1, <3>1
  <2> QED BY <2>3, <2>4
<1>4. n \in S /\ n >= m
  <2>1. n \in Nat /\ n >= m
    OBVIOUS
  <2> HIDE DEF S
  <2> QED BY <1>2, <1>3, <2>1, Induction
<1> QED BY <1>4 DEF g

-----------------------------------------------------------------------------
(* dirname, character by character.                                        *)

\* Where the last name ends, and where the slash before it is.
LEMMA NameEndFacts ==
  ASSUME NEW s \in Seq(Chars)
  PROVE  /\ NameEnd(s) \in 0..Len(s)
         /\ NameEnd(s) # 0 => s[NameEnd(s)] # Slash
         /\ \A i \in 1..Len(s) : s[i] # Slash => i <= NameEnd(s)
         /\ LastSlash(s, NameEnd(s)) \in 0..NameEnd(s)
         /\ LastSlash(s, NameEnd(s)) # 0 => s[LastSlash(s, NameEnd(s))] = Slash
         /\ \A i \in 1..NameEnd(s) : s[i] = Slash => i <= LastSlash(s, NameEnd(s))
<1>1. Len(s) \in 0..Len(s)
  OBVIOUS
<1>2. PICK e : e = NameEnd(s)
  OBVIOUS
<1>3. /\ e \in 0..Len(s)
      /\ e # 0 => s[e] # Slash
      /\ \A i \in 1..Len(s) : s[i] # Slash => i <= e
  BY <1>1, <1>2, LastNoSlashFacts DEF NameEnd
<1>4. /\ LastSlash(s, e) \in 0..e
      /\ LastSlash(s, e) # 0 => s[LastSlash(s, e)] = Slash
      /\ \A i \in 1..e : s[i] = Slash => i <= LastSlash(s, e)
  BY <1>3, LastSlashFacts
<1> QED BY <1>2, <1>3, <1>4

\* Where dirname writes its second NUL: after the last character up to the
\* slash q that is none, or after a leading slash.
Cut(s, q) == IF LastNoSlash(s, q) = 0 THEN 2 ELSE LastNoSlash(s, q) + 1

\* A string of slashes has the root for its directory, and one without a
\* slash before its last name the working directory.
LEMMA DirnameShort ==
  ASSUME NEW s \in Seq(Chars)
  PROVE  /\ NameEnd(s) = 0 => Dirname(s, FALSE) = <<Slash>>
         /\ NameEnd(s) # 0 /\ LastSlash(s, NameEnd(s)) = 0 =>
              Dirname(s, FALSE) = <<Dot, Nul>>
<1>1. CASE NameEnd(s) = 0
  BY <1>1 DEF Dirname
<1>2. CASE NameEnd(s) # 0 /\ LastSlash(s, NameEnd(s)) = 0
  <2> DEFINE w == <<Dot, Slash>>
             end == LastNoSlash(w, 2)
  <2>1. w \in Seq(Chars) /\ 2 \in 0..Len(w) /\ w[1] # Slash /\ w[2] = Slash
    BY DEF Chars, Slash, Dot
  <2>2. /\ end \in 0..2
        /\ end # 0 => w[end] # Slash
        /\ \A i \in 1..2 : w[i] # Slash => i <= end
    <3> HIDE DEF w
    <3> QED BY <2>1, LastNoSlashFacts
  <2>3. end = 1
    <3> HIDE DEF w, end
    <3> QED BY <2>1, <2>2
  <2>4. Dirname(s, FALSE) = [w EXCEPT ![IF end = 0 THEN 2 ELSE end + 1] = Nul]
    <3> HIDE DEF w
    <3> QED BY <1>2, Zenon DEF Dirname, w
  <2>5. Dirname(s, FALSE) = [w EXCEPT ![2] = Nul]
    <3> HIDE DEF w, end
    <3>1. (IF end = 0 THEN 2 ELSE end + 1) = 2
      BY <2>3
    <3> QED BY <2>4, <3>1, Zenon
  <2>6. [w EXCEPT ![2] = Nul] = <<Dot, Nul>>
    OBVIOUS
  <2> QED BY <2>5, <2>6, <1>2, Zenon
<1> QED BY <1>1, <1>2

\* Of any other string dirname keeps all but two characters.
LEMMA DirnameCuts ==
  ASSUME NEW s \in Seq(Chars), NEW q \in Nat \ {0},
         NameEnd(s) # 0, LastSlash(s, NameEnd(s)) = q
  PROVE  /\ Dirname(s, FALSE) \in Seq(Chars) /\ Len(Dirname(s, FALSE)) = Len(s)
         /\ q < Len(s) /\ Cut(s, q) \in 2..(q + 1)
         /\ \A i \in 1..Len(s) :
              Dirname(s, FALSE)[i] = IF i = q + 1 \/ i = Cut(s, q) THEN Nul ELSE s[i]
<1> DEFINE parent == [s EXCEPT ![q + 1] = Nul]
           end == LastNoSlash(parent, q)
           d == Dirname(s, FALSE)
<1>1. q \in 1..Len(s) /\ q < Len(s) /\ q + 1 \in 1..Len(s)
  <2>1. PICK e : e = NameEnd(s)
    OBVIOUS
  <2>2. e \in 0..Len(s) /\ e # 0 /\ s[e] # Slash /\ q \in 0..e /\ s[q] = Slash
    BY <2>1, NameEndFacts
  <2> QED BY <2>2
<1>2. Nul \in Chars
  BY DEF Chars
<1>3. /\ parent \in Seq(Chars) /\ Len(parent) = Len(s)
      /\ \A i \in 1..Len(s) : parent[i] = IF i = q + 1 THEN Nul ELSE s[i]
  BY <1>1, <1>2, ExceptSeq
<1> HIDE DEF parent
<1>4. /\ end \in 0..q
      /\ end # 0 => parent[end] # Slash
      /\ \A i \in 1..q : parent[i] # Slash => i <= end
  <2>1. q \in 0..Len(parent)
    BY <1>1, <1>3
  <2> QED BY <1>3, <2>1, LastNoSlashFacts
<1>5. PICK r \in 0..q : /\ r = LastNoSlash(s, q) /\ (r # 0 => s[r] # Slash)
                        /\ \A i \in 1..q : s[i] # Slash => i <= r
  <2>1. q \in 0..Len(s)
    BY <1>1
  <2> QED BY <2>1, LastNoSlashFacts
<1>6. \A i \in 1..q : parent[i] = s[i]
  BY <1>1, <1>3
<1>7. end = r
  <2> HIDE DEF end
  <2> QED BY <1>4, <1>5, <1>6
<1>8. d = [parent EXCEPT ![IF end = 0 THEN 2 ELSE end + 1] = Nul]
  <2>1. parent = IF q = 0 THEN <<Dot, Slash>> ELSE [s EXCEPT ![q + 1] = Nul]
    BY DEF parent
  <2>2. end = LastNoSlash(parent, IF q = 0 THEN 2 ELSE q)
    OBVIOUS
  <2> QED BY <2>1, <2>2, Zenon DEF Dirname
<1>9. Cut(s, q) = (IF r = 0 THEN 2 ELSE r + 1) /\ Cut(s, q) \in 2..(q + 1)
  <2>1. Cut(s, q) = (IF r = 0 THEN 2 ELSE r + 1)
    BY <1>5 DEF Cut
  <2> QED BY <1>5, <2>1
<1>10. PICK c \in 2..(q + 1) : c = Cut(s, q) /\ d = [parent EXCEPT ![c] = Nul]
  <2> HIDE DEF end, d
  <2> QED BY <1>7, <1>8, <1>9
<1>11. c \in 1..Len(parent)
  BY <1>1, <1>3
<1>12. /\ d \in Seq(Chars) /\ Len(d) = Len(parent)
       /\ \A i \in 1..Len(parent) : d[i] = IF i = c THEN Nul ELSE parent[i]
  <2> HIDE DEF d
  <2> QED BY <1>2, <1>3, <1>10, <1>11, ExceptSeq
<1>13. \A i \in 1..Len(s) : d[i] = IF i = q + 1 \/ i = c THEN Nul ELSE s[i]
  <2> HIDE DEF d
  <2> QED BY <1>3, <1>12
<1> QED BY <1>1, <1>3, <1>10, <1>12, <1>13

-----------------------------------------------------------------------------
(* Where strings lead.                                                     *)

\* What the constants say of the special characters.
LEMMA Special ==
  /\ Slash \notin Names /\ Nul \notin Names /\ Dot \notin Names
  /\ Slash # Nul /\ Slash # Dot /\ Nul # Dot
BY CreateDirAssumption DEF Slash, Nul, Dot

Root(s) == IF s[1] = Slash THEN Slash ELSE Dot

\* A place is a root and names.
LEMMA PlaceIs ==
  ASSUME NEW s \in Seq(Chars), NEW n \in Nat, Strlen(s) = n, n > 0
  PROVE  /\ Place(s) = <<Root(s)>> \o NamesOf(s)[n]
         /\ n \in 1..Len(s) /\ NamesOf(s)[n] \in Seq(Names)
<1>1. n \in 0..Len(s)
  BY StrlenEnds DEF Ends
<1>2. Place(s) = <<Root(s)>> \o NamesOf(s)[n]
  BY Zenon DEF Place, Root
<1> QED BY <1>1, <1>2, NamesOfType

\* Without names it is the root.
LEMMA PlaceOfNone ==
  ASSUME NEW s \in Seq(Chars), NEW n \in Nat, Strlen(s) = n, n > 0,
         \A i \in 1..n : s[i] \notin Names
  PROVE  Place(s) = <<Root(s)>>
<1>1. Place(s) = <<Root(s)>> \o NamesOf(s)[n] /\ n \in 1..Len(s)
  BY PlaceIs
<1>2. NamesOf(s)[n] = NamesOf(s)[0]
  <2>1. /\ 0 \in 0..Len(s) /\ n \in 0..Len(s)
        /\ \A i \in (0 + 1)..n : s[i] \notin Names
    BY <1>1
  <2> QED BY <2>1, NamesOfNone
<1>3. NamesOf(s)[n] = <<>>
  BY <1>2, NamesOfStep
<1> QED BY <1>1, <1>3

\* With one name after the m-th character it is the place of those m
\* characters and that name.
LEMMA PlaceOfOne ==
  ASSUME NEW s \in Seq(Chars), NEW n \in Nat, Strlen(s) = n,
         NEW m \in 0..(n - 1), s[m + 1] \in Names,
         \A i \in (m + 2)..n : s[i] \notin Names
  PROVE  /\ Place(s) = Append(<<Root(s)>> \o NamesOf(s)[m], s[m + 1])
         /\ NamesOf(s)[m] \in Seq(Names)
<1>0. n > 0
  OBVIOUS
<1>1. Place(s) = <<Root(s)>> \o NamesOf(s)[n] /\ n \in 1..Len(s)
  BY <1>0, PlaceIs
<1>2. NamesOf(s)[n] = NamesOf(s)[m + 1]
  <2>1. /\ m + 1 \in 0..Len(s) /\ n \in (m + 1)..Len(s)
        /\ \A i \in ((m + 1) + 1)..n : s[i] \notin Names
    BY <1>1
  <2> QED BY <2>1, NamesOfNone
<1>3. PICK w \in Seq(Names) : w = NamesOf(s)[m]
  <2>1. m \in 0..Len(s)
    BY <1>1
  <2> QED BY <2>1, NamesOfType
<1>4. NamesOf(s)[m + 1] = Append(w, s[m + 1])
  <2>1. m + 1 \in 1..Len(s) /\ (m + 1) - 1 = m
    BY <1>1
  <2>2. NamesOf(s)[m + 1] = Longer(s, NamesOf(s)[m], m + 1)
    BY <2>1, NamesOfStep
  <2> QED BY <1>3, <2>2 DEF Longer
<1>5. <<Root(s)>> \o Append(w, s[m + 1]) = Append(<<Root(s)>> \o w, s[m + 1])
  <2>1. PICK x \in Names : x = s[m + 1]
    OBVIOUS
  <2>2. PICK r : r = Root(s)
    OBVIOUS
  <2>3. <<r>> \in Seq(Names \cup {r}) /\ w \in Seq(Names \cup {r})
    BY <1>3
  <2>4. <<r>> \o Append(w, x) = Append(<<r>> \o w, x)
    BY <1>3, <2>3
  <2> QED BY <2>1, <2>2, <2>4
<1> QED BY <1>1, <1>2, <1>3, <1>4, <1>5

-----------------------------------------------------------------------------
(* The strings on the stack of create_dir.                                 *)

\* A path, or what dirname made of one: it is not empty, no two names stand
\* side by side, a dot stands alone, and if it was cut it ends in no slash but
\* that of the root.
Good(s) ==
  /\ s \in Seq(Chars) /\ Strlen(s) > 0
  /\ \A i \in 1..(Strlen(s) - 1) : s[i] = Slash \/ s[i + 1] = Slash
  /\ \A i \in 1..Strlen(s) : s[i] = Dot => Strlen(s) = 1
  /\ Strlen(s) < Len(s) => Strlen(s) = 1 \/ s[Strlen(s)] # Slash

\* There is a slash behind the end, before something else: the next dirname
\* will find it.
Late(s) ==
  \E i, j \in (Strlen(s) + 1)..Len(s) : i < j /\ s[i] = Slash /\ s[j] # Slash

\* DoubleSlash, for what a system call sees.
Twice(s) ==
  \E i, j, k \in 1..Strlen(s) :
    i < j /\ j + 1 < k /\ s[j] = Slash /\ s[j + 1] = Slash
    /\ s[i] \in Names /\ s[k] \in Names

\* It names nothing.
Bare(s) == \A i \in 1..Strlen(s) : s[i] \notin Names

Straight(s) == ~ Twice(s) /\ (Late(s) => Bare(s))

\* One directory up, basename being what is left behind; or no further.
Up(s, d) ==
  \/ Place(d) = Place(s) /\ (Bare(s) \/ Late(s))
  \/ \E x \in Names : /\ Place(s) = Append(Place(d), x)
                      /\ Strlen(s) = Len(s) => Basename(s) = <<x>>

Climb(s, d) == Good(d) /\ Up(s, d) /\ (Straight(s) => Straight(d))

\* A root is good, and straight.
LEMMA RootGood ==
  ASSUME NEW d \in Seq(Chars), Ends(d, 1), d[1] \in {Slash, Dot}
  PROVE  Good(d) /\ Straight(d) /\ Place(d) = <<d[1]>>
<1>1. Strlen(d) = 1
  BY StrlenIs
<1>2. Place(d) = <<Root(d)>>
  <2>1. \A i \in 1..1 : d[i] \notin Names
    BY Special
  <2>2. 1 \in Nat
    OBVIOUS
  <2> QED BY <1>1, <2>1, <2>2, PlaceOfNone
<1>3. Root(d) = d[1]
  BY Special DEF Root
<1>4. Good(d)
  BY <1>1, Special DEF Good
<1>5. Bare(d)
  BY <1>1, Special DEF Bare
<1>6. ~ Twice(d)
  BY <1>1 DEF Twice
<1> QED BY <1>2, <1>3, <1>4, <1>5, <1>6 DEF Straight

\* A last name of one character is the basename.
LEMMA BasenameIs ==
  ASSUME NEW s \in Seq(Chars), NEW q \in Nat, q + 1 <= Len(s),
         NameEnd(s) = q + 1, LastSlash(s, q + 1) = q
  PROVE  Basename(s) = <<s[q + 1]>>
<1>1. Basename(s) = SubSeq(s, q + 1, q + 1)
  <2>1. q + 1 # 0
    OBVIOUS
  <2> QED BY <2>1, Zenon DEF Basename
<1>2. PICK b : b = SubSeq(s, q + 1, q + 1)
  OBVIOUS
<1>3. b \in Seq(Chars) /\ Len(b) = 1 /\ b[1] = s[q + 1]
  BY <1>2
<1>4. b = <<s[q + 1]>>
  BY <1>3
<1> QED BY <1>1, <1>2, <1>4

\* Above a path of slashes there is nothing.
LEMMA ClimbRoot ==
  ASSUME NEW s, Good(s), NameEnd(s) = 0
  PROVE  Climb(s, Dirname(s, FALSE))
<1> DEFINE d == <<Slash>>
<1>1. s \in Seq(Chars) /\ Strlen(s) > 0
  BY DEF Good
<1>2. Dirname(s, FALSE) = d
  BY <1>1, DirnameShort
<1>3. Good(d) /\ Straight(d) /\ Place(d) = <<Slash>>
  <2>1. d \in Seq(Chars) /\ Ends(d, 1) /\ d[1] = Slash
    BY Special DEF Chars, Ends
  <2> HIDE DEF d
  <2> QED BY <2>1, RootGood
<1>4. PICK n \in Nat : n = Strlen(s) /\ n > 0 /\ n \in 1..Len(s)
  BY <1>1, StrlenEnds DEF Ends
<1>5. \A i \in 1..Len(s) : s[i] = Slash
  BY <1>1, NameEndFacts
<1>6. Place(s) = <<Root(s)>> /\ Root(s) = Slash
  <2>1. \A i \in 1..n : s[i] \notin Names
    BY <1>4, <1>5, Special
  <2> QED BY <1>1, <1>4, <1>5, <2>1, PlaceOfNone DEF Root
<1>7. Place(d) = Place(s) /\ Bare(s)
  <2>1. Bare(s)
    BY <1>4, <1>5, Special DEF Bare
  <2> HIDE DEF d
  <2> QED BY <1>3, <1>6, <2>1
<1> HIDE DEF d
<1>8. Climb(s, d)
  BY <1>3, <1>7 DEF Climb, Up
<1> QED BY <1>2, <1>8

\* Above a single name is the working directory.
LEMMA ClimbDot ==
  ASSUME NEW s, Good(s), NameEnd(s) # 0, LastSlash(s, NameEnd(s)) = 0
  PROVE  Climb(s, Dirname(s, FALSE))
<1> DEFINE d == <<Dot, Nul>>
<1>1. s \in Seq(Chars) /\ Strlen(s) > 0
  BY DEF Good
<1>2. Dirname(s, FALSE) = d
  BY <1>1, DirnameShort
<1>3. Good(d) /\ Straight(d) /\ Place(d) = <<Dot>>
  <2>1. d \in Seq(Chars) /\ Ends(d, 1) /\ d[1] = Dot
    BY Special DEF Chars, Ends
  <2> HIDE DEF d
  <2> QED BY <2>1, RootGood
<1>4. PICK n \in Nat : n = Strlen(s) /\ n > 0 /\ n \in 1..Len(s)
  BY <1>1, StrlenEnds DEF Ends
<1>5. PICK e \in 1..Len(s) : /\ s[e] # Slash
                             /\ \A i \in 1..Len(s) : s[i] # Slash => i <= e
                             /\ \A i \in 1..e : s[i] # Slash
                             /\ e = NameEnd(s)
  <2>1. PICK e : e = NameEnd(s)
    OBVIOUS
  <2>2. /\ e \in 0..Len(s) /\ e # 0 /\ s[e] # Slash
        /\ \A i \in 1..Len(s) : s[i] # Slash => i <= e
        /\ \A i \in 1..e : s[i] = Slash => i <= 0
    BY <1>1, <2>1, NameEndFacts
  <2> QED BY <2>1, <2>2
<1>6. \A i \in 2..n : s[i] = Slash
  <2>1. CASE n = 1
    BY <2>1
  <2>2. CASE n >= 2
    <3>1. 1 \in 1..(n - 1) /\ 1 + 1 = 2 /\ 2 \in 1..Len(s)
      BY <1>4, <2>2
    <3>2. s[1] = Slash \/ s[2] = Slash
      BY <1>4, <3>1 DEF Good
    <3>3. s[1] # Slash
      BY <1>5
    <3>4. ~ (2 <= e)
      BY <1>5, <3>2, <3>3
    <3> QED BY <1>4, <1>5, <3>4
  <2> QED BY <1>4, <2>1, <2>2
<1>7. Root(s) = Dot
  <2>1. s[1] # Slash
    BY <1>5
  <2> QED BY <2>1 DEF Root
<1>8. CASE s[1] \in Names
  <2>1. /\ 0 \in 0..(n - 1) /\ s[0 + 1] \in Names
        /\ \A i \in (0 + 2)..n : s[i] \notin Names
    BY <1>4, <1>6, <1>8, Special
  <2>2. Place(s) = Append(<<Root(s)>> \o NamesOf(s)[0], s[0 + 1])
    BY <1>1, <1>4, <2>1, PlaceOfOne
  <2>3. NamesOf(s)[0] = <<>>
    BY <1>1, NamesOfStep
  <2>4. Place(s) = Append(<<Dot>>, s[1])
    BY <1>7, <2>2, <2>3
  <2>5. Place(s) = Append(Place(d), s[1])
    BY <1>3, <2>4
  <2>6. Strlen(s) = Len(s) => Basename(s) = <<s[1]>>
    <3> SUFFICES ASSUME n = Len(s) PROVE Basename(s) = <<s[1]>>
      BY <1>4
    <3>1. e = 1
      BY <1>5, <1>6
    <3>2. 0 \in Nat /\ 0 + 1 <= Len(s) /\ NameEnd(s) = 0 + 1 /\ LastSlash(s, 0 + 1) = 0
      BY <1>4, <1>5, <3>1
    <3>3. Basename(s) = <<s[0 + 1]>>
      BY <1>1, <3>2, BasenameIs
    <3> QED BY <3>3
  <2> HIDE DEF d
  <2>7. Climb(s, d)
    BY <1>3, <1>8, <2>5, <2>6 DEF Climb, Up
  <2> QED BY <1>2, <2>7
<1>9. CASE s[1] \notin Names
  <2>1. \A i \in 1..n : s[i] \notin Names
    <3> SUFFICES ASSUME NEW i \in 1..n PROVE s[i] \notin Names
      OBVIOUS
    <3>1. i = 1 \/ i \in 2..n
      OBVIOUS
    <3> QED BY <1>6, <1>9, <3>1, Special
  <2>2. Place(s) = <<Root(s)>>
    BY <1>1, <1>4, <2>1, PlaceOfNone
  <2> HIDE DEF d
  <2>3. Place(d) = Place(s) /\ Bare(s)
    BY <1>3, <1>4, <1>7, <2>1, <2>2 DEF Bare
  <2>4. Climb(s, d)
    BY <1>3, <2>3 DEF Climb, Up
  <2> QED BY <1>2, <2>4
<1> QED BY <1>8, <1>9

\* d is dirname of s, which has the slash before its last name at q, its end
\* at n, and that of the name at e.
Cuts(s, n, q, e, d) ==
  /\ s \in Seq(Chars) /\ Good(s) /\ Strlen(s) = n /\ Ends(s, n) /\ n > 0
  /\ NameEnd(s) = e /\ LastSlash(s, e) = q
  /\ 1 <= q /\ q < e /\ e <= Len(s)
  /\ s[q] = Slash /\ s[e] # Slash
  /\ \A i \in (q + 1)..e : s[i] # Slash
  /\ \A i \in (e + 1)..Len(s) : s[i] = Slash
  /\ d \in Seq(Chars) /\ Len(d) = Len(s)
  /\ \A i \in 1..Len(s) : d[i] = IF i = q + 1 \/ i = Cut(s, q) THEN Nul ELSE s[i]

\* The place of the second cut.
LEMMA CutFacts ==
  ASSUME NEW s \in Seq(Chars), NEW q \in 1..Len(s), s[q] = Slash
  PROVE  \E r \in 0..(q - 1) :
           /\ Cut(s, q) = IF r = 0 THEN 2 ELSE r + 1
           /\ r # 0 => s[r] # Slash
           /\ \A i \in (r + 1)..q : s[i] = Slash
<1>1. q \in 0..Len(s)
  OBVIOUS
<1>2. PICK r \in 0..q : /\ r = LastNoSlash(s, q) /\ (r # 0 => s[r] # Slash)
                        /\ \A i \in 1..q : s[i] # Slash => i <= r
  BY <1>1, LastNoSlashFacts
<1>3. r \in 0..(q - 1)
  BY <1>2
<1>4. \A i \in (r + 1)..q : s[i] = Slash
  BY <1>2
<1>5. Cut(s, q) = IF r = 0 THEN 2 ELSE r + 1
  BY <1>2, Zenon DEF Cut
<1> QED BY <1>2, <1>3, <1>4, <1>5

\* Behind the end a cut is not seen.
LEMMA ClimbLate ==
  ASSUME NEW s, NEW d, NEW n \in Nat, NEW q \in Nat, NEW e \in Nat,
         Cuts(s, n, q, e, d), n < q
  PROVE  Climb(s, d)
<1>1. /\ s \in Seq(Chars) /\ Good(s) /\ Strlen(s) = n /\ Ends(s, n) /\ n > 0
      /\ q < e /\ e <= Len(s) /\ s[q] = Slash /\ s[e] # Slash
      /\ d \in Seq(Chars) /\ Len(d) = Len(s)
  BY DEF Cuts
<1>2. PICK r \in 0..(q - 1) : /\ Cut(s, q) = IF r = 0 THEN 2 ELSE r + 1
                              /\ \A i \in (r + 1)..q : s[i] = Slash
  <2>1. q \in 1..Len(s)
    BY <1>1 DEF Cuts
  <2> QED BY <1>1, <2>1, CutFacts
<1>3. s[n + 1] = Nul /\ n + 1 <= r
  <2>1. s[n + 1] = Nul /\ n + 1 \in 1..q
    BY <1>1 DEF Ends
  <2>2. ~ (r < n + 1)
    BY <1>2, <2>1, Special
  <2> QED BY <2>1, <2>2
<1>4. \A i \in 1..(n + 1) : d[i] = s[i]
  <2>1. Cut(s, q) = r + 1
    BY <1>1, <1>2, <1>3
  <2> QED BY <1>1, <1>3, <2>1 DEF Cuts
<1>5. Ends(d, n)
  BY <1>1, <1>3, <1>4 DEF Ends
<1>6. Strlen(d) = n
  BY <1>1, <1>5, StrlenIs
<1>7. Place(d) = Place(s)
  <2>1. Place(s) = <<Root(s)>> \o NamesOf(s)[n] /\ n \in 1..Len(s)
    BY <1>1, PlaceIs
  <2>2. Place(d) = <<Root(d)>> \o NamesOf(d)[n]
    BY <1>1, <1>6, PlaceIs
  <2>3. NamesOf(s)[n] = NamesOf(d)[n]
    <3>1. n \in 0..Len(s) /\ n <= Len(d) /\ \A i \in 1..n : s[i] = d[i]
      BY <1>1, <1>4, <2>1
    <3> QED BY <1>1, <3>1, NamesOfSame
  <2>4. Root(d) = Root(s)
    <3>1. d[1] = s[1]
      BY <1>1, <1>4
    <3> QED BY <3>1 DEF Root
  <2> QED BY <2>1, <2>2, <2>3, <2>4
<1>8. Late(s)
  <2>1. q # n + 1
    BY <1>1, <1>3, Special
  <2>2. q \in (n + 1)..Len(s) /\ e \in (n + 1)..Len(s) /\ q < e
    BY <1>1, <2>1
  <2> QED BY <1>1, <2>2 DEF Late
<1>9. Good(d)
  <2>1. /\ \A i \in 1..(n - 1) : s[i] = Slash \/ s[i + 1] = Slash
        /\ \A i \in 1..n : s[i] = Dot => n = 1
        /\ n < Len(s) => n = 1 \/ s[n] # Slash
    BY <1>1 DEF Good
  <2>2. /\ \A i \in 1..(n - 1) : d[i] = Slash \/ d[i + 1] = Slash
        /\ \A i \in 1..n : d[i] = Dot => n = 1
        /\ n < Len(d) => n = 1 \/ d[n] # Slash
    BY <1>1, <1>4, <2>1
  <2> QED BY <1>1, <1>6, <2>2 DEF Good
<1>10. Straight(s) => Straight(d)
  <2>1. Twice(d) => Twice(s)
    BY <1>1, <1>4, <1>6 DEF Twice
  <2>2. Bare(s) => Bare(d)
    BY <1>1, <1>4, <1>6 DEF Bare
  <2> QED BY <1>8, <2>1, <2>2 DEF Straight
<1> QED BY <1>7, <1>8, <1>9, <1>10 DEF Climb, Up

\* Above the root there is nothing.
LEMMA ClimbSlash ==
  ASSUME NEW s, NEW d, NEW n \in Nat, NEW q \in Nat, NEW e \in Nat,
         Cuts(s, n, q, e, d), n = q
  PROVE  Climb(s, d)
<1>1. /\ s \in Seq(Chars) /\ Good(s) /\ Strlen(s) = n /\ Ends(s, n) /\ n > 0
      /\ q < e /\ e <= Len(s) /\ s[q] = Slash
      /\ d \in Seq(Chars) /\ Len(d) = Len(s)
  BY DEF Cuts
<1>2. n = 1 /\ n < Len(s)
  BY <1>1 DEF Good
<1>3. Cut(s, q) = 2
  BY <1>1, <1>2, CutFacts
<1>4. d[1] = Slash /\ d[2] = Nul /\ s[1] = Slash
  BY <1>1, <1>2, <1>3 DEF Cuts
<1>5. Good(d) /\ Straight(d) /\ Place(d) = <<Slash>>
  <2>1. Ends(d, 1)
    BY <1>1, <1>2, <1>4, Special DEF Ends
  <2> QED BY <1>1, <1>4, <2>1, RootGood
<1>6. Place(s) = <<Slash>>
  <2>1. \A i \in 1..n : s[i] \notin Names
    BY <1>2, <1>4, Special
  <2> QED BY <1>1, <1>4, <2>1, PlaceOfNone DEF Root
<1>7. Bare(s)
  BY <1>1, <1>2, <1>4, Special DEF Bare
<1> QED BY <1>5, <1>6, <1>7 DEF Climb, Up

\* The last name of a string whose last slash is before its end: it is one
\* character, and only slashes follow.
LEMMA LastName ==
  ASSUME NEW s, NEW d, NEW n \in Nat, NEW q \in Nat, NEW e \in Nat,
         Cuts(s, n, q, e, d), q < n
  PROVE  /\ s[q + 1] \in Names
         /\ \A i \in (q + 2)..n : s[i] = Slash
         /\ q + 2 <= n => \A i \in (q + 2)..Len(s) : s[i] = Slash
         /\ Place(s) = Append(<<Root(s)>> \o NamesOf(s)[q], s[q + 1])
         /\ NamesOf(s)[q] \in Seq(Names)
         /\ n = Len(s) => Basename(s) = <<s[q + 1]>>
<1>1. /\ s \in Seq(Chars) /\ Good(s) /\ Strlen(s) = n /\ Ends(s, n) /\ n > 0
      /\ 1 <= q /\ q < e /\ e <= Len(s) /\ n <= Len(s)
      /\ \A i \in (q + 1)..e : s[i] # Slash
      /\ \A i \in (e + 1)..Len(s) : s[i] = Slash
  BY DEF Cuts, Ends
<1>2. s[q + 1] \in Names
  <2>1. q + 1 \in 1..n /\ q + 1 \in 1..Len(s) /\ q + 1 \in (q + 1)..e
    BY <1>1
  <2>2. s[q + 1] # Slash
    BY <1>1, <2>1
  <2>3. s[q + 1] # Nul
    BY <1>1, <2>1 DEF Ends
  <2>4. s[q + 1] # Dot
    BY <1>1, <2>1 DEF Good
  <2>5. s[q + 1] \in Chars
    BY <1>1, <2>1
  <2> QED BY <2>2, <2>3, <2>4, <2>5 DEF Chars
<1>3. q + 2 <= n => \A i \in (q + 2)..Len(s) : s[i] = Slash
  <2> SUFFICES ASSUME q + 2 <= n PROVE \A i \in (q + 2)..Len(s) : s[i] = Slash
    OBVIOUS
  <2>1. q + 1 \in 1..(n - 1) /\ (q + 1) + 1 = q + 2
    BY <1>1
  <2>2. s[q + 1] = Slash \/ s[q + 2] = Slash
    BY <1>1, <2>1 DEF Good
  <2>3. s[q + 2] = Slash
    BY <1>2, <2>2, Special
  <2>4. ~ (q + 2 <= e)
    BY <1>1, <2>3
  <2> QED BY <1>1, <2>4
<1>4. \A i \in (q + 2)..n : s[i] = Slash
  BY <1>1, <1>3
<1>5. Place(s) = Append(<<Root(s)>> \o NamesOf(s)[q], s[q + 1]) /\ NamesOf(s)[q] \in Seq(Names)
  <2>1. q \in 0..(n - 1) /\ \A i \in (q + 2)..n : s[i] \notin Names
    BY <1>4, Special
  <2> QED BY <1>1, <1>2, <2>1, PlaceOfOne
<1>6. n = Len(s) => Basename(s) = <<s[q + 1]>>
  <2> SUFFICES ASSUME n = Len(s) PROVE Basename(s) = <<s[q + 1]>>
    OBVIOUS
  <2>1. e = q + 1
    BY <1>1, <1>3
  <2>2. NameEnd(s) = q + 1 /\ LastSlash(s, q + 1) = q /\ q + 1 <= Len(s)
    BY <1>1, <2>1 DEF Cuts
  <2> QED BY <1>1, <2>2, BasenameIs
<1> QED BY <1>2, <1>3, <1>4, <1>5, <1>6

\* Above a name in the root is the root.
LEMMA ClimbToRoot ==
  ASSUME NEW s, NEW d, NEW n \in Nat, NEW q \in Nat, NEW e \in Nat,
         Cuts(s, n, q, e, d), q < n, Cut(s, q) = 2, s[1] = Slash,
         \A i \in 1..q : s[i] = Slash
  PROVE  Climb(s, d)
<1>1. /\ s \in Seq(Chars) /\ 1 <= q /\ q < Len(s)
      /\ d \in Seq(Chars) /\ Len(d) = Len(s)
  BY DEF Cuts
<1>2. d[1] = Slash /\ d[2] = Nul
  BY <1>1 DEF Cuts
<1>3. Good(d) /\ Straight(d) /\ Place(d) = <<Slash>>
  <2>1. Ends(d, 1)
    BY <1>1, <1>2, Special DEF Ends
  <2> QED BY <1>1, <1>2, <2>1, RootGood
<1>4. NamesOf(s)[q] = <<>>
  <2>1. /\ 0 \in 0..Len(s) /\ q \in 0..Len(s)
        /\ \A i \in (0 + 1)..q : s[i] \notin Names
    BY <1>1, Special
  <2>2. NamesOf(s)[q] = NamesOf(s)[0]
    BY <1>1, <2>1, NamesOfNone
  <2> QED BY <1>1, <2>2, NamesOfStep
<1>5. /\ s[q + 1] \in Names /\ Place(s) = Append(<<Root(s)>> \o <<>>, s[q + 1])
      /\ Strlen(s) = Len(s) => Basename(s) = <<s[q + 1]>>
  <2>1. Strlen(s) = n
    BY DEF Cuts
  <2>2. /\ s[q + 1] \in Names
        /\ Place(s) = Append(<<Root(s)>> \o NamesOf(s)[q], s[q + 1])
        /\ n = Len(s) => Basename(s) = <<s[q + 1]>>
    BY LastName
  <2> QED BY <1>4, <2>1, <2>2
<1>6. Place(s) = Append(<<Slash>>, s[q + 1])
  BY <1>5 DEF Root
<1> QED BY <1>3, <1>5, <1>6 DEF Climb, Up

\* Above any other name is what is before it.
LEMMA ClimbUp ==
  ASSUME NEW s, NEW d, NEW n \in Nat, NEW q \in Nat, NEW e \in Nat,
         Cuts(s, n, q, e, d), q < n, NEW r \in 1..(q - 1), Cut(s, q) = r + 1,
         s[r] # Slash, \A i \in (r + 1)..q : s[i] = Slash
  PROVE  Climb(s, d)
<1>1. /\ s \in Seq(Chars) /\ Good(s) /\ Strlen(s) = n /\ Ends(s, n) /\ n > 0
      /\ 1 <= q /\ q < e /\ e <= Len(s) /\ n <= Len(s)
      /\ d \in Seq(Chars) /\ Len(d) = Len(s)
      /\ \A i \in 1..Len(s) : d[i] = IF i = q + 1 \/ i = r + 1 THEN Nul ELSE s[i]
  <2>1. PICK c : c = Cut(s, q)
    OBVIOUS
  <2>2. \A i \in 1..Len(s) : d[i] = IF i = q + 1 \/ i = c THEN Nul ELSE s[i]
    BY <2>1, Zenon DEF Cuts
  <2>3. c = r + 1
    BY <2>1
  <2>4. \A i \in 1..Len(s) : d[i] = IF i = q + 1 \/ i = r + 1 THEN Nul ELSE s[i]
    BY <2>2, <2>3
  <2> QED BY <2>4 DEF Cuts, Ends
<1>2. /\ s[q + 1] \in Names
      /\ q + 2 <= n => \A i \in (q + 2)..Len(s) : s[i] = Slash
      /\ Place(s) = Append(<<Root(s)>> \o NamesOf(s)[q], s[q + 1])
      /\ NamesOf(s)[q] \in Seq(Names)
      /\ n = Len(s) => Basename(s) = <<s[q + 1]>>
  BY LastName
<1>3. (\A i \in 1..r : d[i] = s[i]) /\ d[r + 1] = Nul
  BY <1>1
<1>4. Ends(d, r) /\ Strlen(d) = r /\ r > 0
  <2>1. Ends(d, r)
    BY <1>1, <1>3 DEF Ends
  <2> QED BY <1>1, <2>1, StrlenIs
<1>5. Place(d) = <<Root(s)>> \o NamesOf(s)[q]
  <2>1. Place(d) = <<Root(d)>> \o NamesOf(d)[r]
    <3>1. r \in Nat
      OBVIOUS
    <3> QED BY <1>1, <1>4, <3>1, PlaceIs
  <2>2. NamesOf(s)[r] = NamesOf(d)[r]
    <3>1. r \in 0..Len(s) /\ r <= Len(d) /\ \A i \in 1..r : s[i] = d[i]
      BY <1>1, <1>3
    <3> QED BY <1>1, <3>1, NamesOfSame
  <2>3. NamesOf(s)[q] = NamesOf(s)[r]
    <3>1. /\ r \in 0..Len(s) /\ q \in r..Len(s)
          /\ \A i \in (r + 1)..q : s[i] \notin Names
      BY <1>1, Special
    <3> QED BY <1>1, <3>1, NamesOfNone
  <2>4. Root(d) = Root(s)
    <3>1. d[1] = s[1]
      BY <1>3
    <3> QED BY <3>1 DEF Root
  <2> QED BY <2>1, <2>2, <2>3, <2>4
<1>6. Place(s) = Append(Place(d), s[q + 1])
  BY <1>2, <1>5
<1>7. Good(d)
  <2>1. /\ \A i \in 1..(n - 1) : s[i] = Slash \/ s[i + 1] = Slash
        /\ \A i \in 1..n : s[i] = Dot => n = 1
    BY <1>1 DEF Good
  <2>2. /\ \A i \in 1..(r - 1) : d[i] = Slash \/ d[i + 1] = Slash
        /\ \A i \in 1..r : d[i] = Dot => r = 1
        /\ r < Len(d) => r = 1 \/ d[r] # Slash
    BY <1>3, <2>1
  <2> QED BY <1>1, <1>4, <2>2 DEF Good
<1>8. ASSUME Straight(s) PROVE Straight(d)
  <2>1. ~ Twice(s)
    BY <1>8 DEF Straight
  <2>2. ~ Twice(d)
    <3> SUFFICES ASSUME Twice(d) PROVE FALSE
      OBVIOUS
    <3>1. PICK i, j, k \in 1..r :
            /\ i < j /\ j + 1 < k /\ d[j] = Slash /\ d[j + 1] = Slash
            /\ d[i] \in Names /\ d[k] \in Names
      BY <1>4 DEF Twice
    <3>2. /\ i \in 1..n /\ j \in 1..n /\ k \in 1..n
          /\ s[j] = Slash /\ s[j + 1] = Slash
          /\ s[i] \in Names /\ s[k] \in Names
      BY <1>3, <3>1
    <3> QED BY <1>1, <2>1, <3>1, <3>2 DEF Twice
  <2>3. ~ Late(s)
    <3>1. ~ Bare(s)
      BY <1>1, <1>2 DEF Bare
    <3> QED BY <1>8, <3>1 DEF Straight
  <2>4. q = r + 1
    <3> SUFFICES ASSUME q > r + 1 PROVE FALSE
      OBVIOUS
    <3>1. s[r] \in Names
      <4>1. r \in 1..n /\ r \in 1..Len(s) /\ n # 1
        BY <1>1
      <4>2. s[r] # Nul /\ s[r] # Dot /\ s[r] \in Chars
        BY <1>1, <4>1 DEF Ends, Good
      <4> QED BY <4>2 DEF Chars
    <3>2. /\ r \in 1..n /\ r + 1 \in 1..n /\ q + 1 \in 1..n
          /\ r < r + 1 /\ (r + 1) + 1 < q + 1
          /\ s[r + 1] = Slash /\ s[(r + 1) + 1] = Slash
      BY <1>1
    <3> QED BY <1>1, <1>2, <2>1, <3>1, <3>2 DEF Twice
  <2>5. ~ Late(d)
    <3> SUFFICES ASSUME NEW i \in (r + 1)..Len(s), NEW j \in (r + 1)..Len(s),
                        i < j, d[i] = Slash, d[j] # Slash
                 PROVE  FALSE
      BY <1>1, <1>4 DEF Late
    <3>1. i # r + 1 /\ i # q + 1
      BY <1>1, Special
    <3>2. i >= q + 2 /\ s[i] = Slash /\ s[j] # Slash
      BY <1>1, <2>4, <3>1
    <3>3. ~ (i <= n)
      BY <1>1, <1>2, <3>2
    <3>4. i \in (n + 1)..Len(s) /\ j \in (n + 1)..Len(s)
      BY <1>1, <3>3
    <3> QED BY <1>1, <2>3, <3>2, <3>4 DEF Late
  <2> QED BY <2>2, <2>5 DEF Straight
<1>9. Up(s, d)
  BY <1>1, <1>2, <1>6 DEF Up
<1> QED BY <1>7, <1>8, <1>9 DEF Climb

\* dirname leads one directory up, or to where its argument leads if that is
\* the root or the working directory, or if a slash is behind its end.
THEOREM DirnameClimbs ==
  ASSUME NEW s, Good(s)
  PROVE  Climb(s, Dirname(s, FALSE))
<1>1. s \in Seq(Chars) /\ Strlen(s) > 0
  BY DEF Good
<1>2. PICK e \in Nat : e = NameEnd(s)
  BY <1>1, NameEndFacts
<1>3. PICK q \in Nat : q = LastSlash(s, e)
  BY <1>1, <1>2, NameEndFacts
<1>4. PICK n \in Nat : n = Strlen(s) /\ Ends(s, n)
  BY <1>1, StrlenEnds DEF Ends
<1>5. CASE e = 0
  BY <1>2, <1>5, ClimbRoot
<1>6. CASE e # 0 /\ q = 0
  BY <1>2, <1>3, <1>6, ClimbDot
<1>7. CASE e # 0 /\ q # 0
  <2>1. PICK d : d = Dirname(s, FALSE)
    OBVIOUS
  <2>2. Cuts(s, n, q, e, d)
    <3>1. q \in Nat \ {0} /\ NameEnd(s) # 0 /\ LastSlash(s, NameEnd(s)) = q
      BY <1>2, <1>3, <1>7
    <3>2. /\ Dirname(s, FALSE) \in Seq(Chars) /\ Len(Dirname(s, FALSE)) = Len(s)
          /\ \A i \in 1..Len(s) :
               Dirname(s, FALSE)[i] = IF i = q + 1 \/ i = Cut(s, q) THEN Nul ELSE s[i]
      BY <1>1, <3>1, DirnameCuts
    <3>3. /\ d \in Seq(Chars) /\ Len(d) = Len(s)
          /\ \A i \in 1..Len(s) :
               d[i] = IF i = q + 1 \/ i = Cut(s, q) THEN Nul ELSE s[i]
      BY <2>1, <3>2, Zenon
    <3>4. /\ e \in 0..Len(s) /\ s[e] # Slash
          /\ \A i \in 1..Len(s) : s[i] # Slash => i <= e
          /\ q \in 0..e /\ s[q] = Slash
          /\ \A i \in 1..e : s[i] = Slash => i <= q
      BY <1>1, <1>2, <1>3, <1>7, NameEndFacts
    <3>5. 1 <= q /\ q < e /\ e <= Len(s)
      BY <3>4, <1>7
    <3>6. \A i \in (q + 1)..e : s[i] # Slash
      BY <3>4, <1>7
    <3>7. \A i \in (e + 1)..Len(s) : s[i] = Slash
      BY <3>4, <1>7
    <3>8. NameEnd(s) = e /\ LastSlash(s, e) = q
      BY <1>2, <1>3
    <3> QED BY <1>1, <1>4, <3>3, <3>4, <3>5, <3>6, <3>7, <3>8 DEF Cuts
  <2> SUFFICES Climb(s, d)
    BY <2>1, Zenon
  <2>3. CASE n < q
    BY <2>2, <2>3, ClimbLate
  <2>4. CASE n = q
    BY <2>2, <2>4, ClimbSlash
  <2>5. CASE q < n
    <3>1. PICK r \in 0..(q - 1) : /\ Cut(s, q) = IF r = 0 THEN 2 ELSE r + 1
                                  /\ r # 0 => s[r] # Slash
                                  /\ \A i \in (r + 1)..q : s[i] = Slash
      <4>1. q \in 1..Len(s) /\ s[q] = Slash
        BY <2>2 DEF Cuts
      <4> QED BY <1>1, <4>1, CutFacts
    <3>2. CASE r = 0
      <4>1. s[1] = Slash /\ Cut(s, q) = 2 /\ \A i \in 1..q : s[i] = Slash
        BY <1>7, <3>1, <3>2
      <4> QED BY <2>2, <2>5, <4>1, ClimbToRoot
    <3>3. CASE r # 0
      <4>1. r \in 1..(q - 1) /\ Cut(s, q) = r + 1 /\ s[r] # Slash
        BY <3>1, <3>3
      <4> QED BY <2>2, <2>5, <3>1, <4>1, ClimbUp
    <3> QED BY <3>2, <3>3
  <2> QED BY <2>3, <2>4, <2>5
<1> QED BY <1>5, <1>6, <1>7

\* Of any string dirname makes a string.
LEMMA DirnameType ==
  ASSUME NEW s \in Seq(Chars)
  PROVE  Dirname(s, FALSE) \in Seq(Chars)
<1>1. PICK d : d = Dirname(s, FALSE)
  OBVIOUS
<1>2. PICK e \in Nat : e = NameEnd(s)
  BY NameEndFacts
<1>3. PICK q \in Nat : q = LastSlash(s, e)
  BY <1>2, NameEndFacts
<1>4. <<Slash>> \in Seq(Chars) /\ <<Dot, Nul>> \in Seq(Chars)
  BY DEF Chars
<1>5. CASE e = 0 \/ q = 0
  BY <1>2, <1>3, <1>4, <1>5, DirnameShort, Zenon
<1>6. CASE e # 0 /\ q # 0
  <2>1. q \in Nat \ {0} /\ NameEnd(s) # 0 /\ LastSlash(s, NameEnd(s)) = q
    BY <1>2, <1>3, <1>6
  <2> QED BY <2>1, DirnameCuts, Zenon
<1> QED BY <1>5, <1>6

-----------------------------------------------------------------------------
(* The paths create_dir is given.                                          *)

\* A path that is not empty is good, whole, and has nothing behind its end.
LEMMA PathGood ==
  ASSUME NEW s \in Paths, s # <<>>
  PROVE  Good(s) /\ Strlen(s) = Len(s) /\ ~ Late(s) /\ (Twice(s) => DoubleSlash(s))
<1>1. PICK n \in 0..MaxLen : s \in [1..n -> Names \cup {Slash}]
  BY DEF Paths
<1>2. /\ n \in Nat /\ s \in Seq(Chars) /\ Len(s) = n /\ Len(s) > 0
      /\ \A i \in 1..n : s[i] \in Names \cup {Slash}
  <2>1. n \in Nat
    BY CreateDirAssumption
  <2>2. s \in [1..n -> Chars]
    BY <1>1 DEF Chars
  <2> QED BY <1>1, <2>1, <2>2
<1>3. \A i \in 1..n : s[i] # Nul /\ s[i] # Dot
  BY <1>2, Special
<1>4. Strlen(s) = n
  <2>1. Ends(s, n)
    BY <1>2, <1>3 DEF Ends
  <2> QED BY <1>2, <2>1, StrlenIs
<1>5. \A i \in 1..(n - 1) : s[i] = Slash \/ s[i + 1] = Slash
  BY <1>2 DEF Paths
<1>6. Good(s)
  BY <1>2, <1>3, <1>4, <1>5 DEF Good
<1>7. ~ Late(s)
  BY <1>2, <1>4 DEF Late
<1>8. Twice(s) => DoubleSlash(s)
  BY <1>2, <1>4 DEF Twice, DoubleSlash
<1> QED BY <1>2, <1>4, <1>6, <1>7, <1>8

\* A string that names nothing leads to a root.
LEMMA BarePlace ==
  ASSUME NEW s, Good(s), Bare(s)
  PROVE  Place(s) = <<Root(s)>> /\ Len(Place(s)) = 1
<1>1. PICK n \in Nat : n = Strlen(s) /\ n > 0 /\ s \in Seq(Chars)
  BY StrlenEnds DEF Good, Ends
<1>2. \A i \in 1..n : s[i] \notin Names
  BY <1>1 DEF Bare
<1>3. Place(s) = <<Root(s)>>
  BY <1>1, <1>2, PlaceOfNone
<1> QED BY <1>3

\* What a place is a sequence of.
Steps == Names \cup {Slash, Dot}

\* A place is a root with names behind it.
LEMMA PlaceType ==
  ASSUME NEW s, Good(s)
  PROVE  Place(s) \in Seq(Steps) /\ Len(Place(s)) > 0 /\ Place(s)[1] = Root(s)
<1>1. s \in Seq(Chars) /\ Strlen(s) > 0
  BY DEF Good
<1>2. PICK n \in Nat : n = Strlen(s) /\ n > 0
  BY <1>1, StrlenEnds DEF Ends
<1>3. Place(s) = <<Root(s)>> \o NamesOf(s)[n] /\ NamesOf(s)[n] \in Seq(Names)
  BY <1>1, <1>2, PlaceIs
<1>4. PICK u \in Seq(Names) : u = NamesOf(s)[n]
  BY <1>3
<1>5. PICK z \in Steps : z = Root(s)
  BY DEF Steps, Root
<1>6. u \in Seq(Steps) /\ <<z>> \in Seq(Steps)
  BY DEF Steps
<1>7. <<z>> \o u \in Seq(Steps) /\ Len(<<z>> \o u) > 0 /\ (<<z>> \o u)[1] = z
  BY <1>6
<1>8. Place(s) = <<z>> \o u
  BY <1>3, <1>4, <1>5
<1> QED BY <1>5, <1>7, <1>8

\* dirname of a path with a name and its basename, as file.cpp has it, lead,
\* together, where it leads.
LEMMA PathParts ==
  ASSUME NEW s \in Paths, NEW i \in 1..Len(s), s[i] \in Names
  PROVE  Place(s) = Place(Dirname(s, FALSE)) \o Basename(s)
<1>1. s # <<>>
  OBVIOUS
<1>2. Good(s) /\ Strlen(s) = Len(s) /\ ~ Late(s)
  BY <1>1, PathGood
<1>3. PICK d : d = Dirname(s, FALSE) /\ Climb(s, d)
  BY <1>2, DirnameClimbs, Zenon
<1>4. ~ Bare(s)
  BY <1>2 DEF Bare
<1>5. PICK x \in Names : Place(s) = Append(Place(d), x) /\ Basename(s) = <<x>>
  BY <1>2, <1>3, <1>4 DEF Climb, Up
<1>6. PICK w \in Seq(Steps) : w = Place(d)
  <2>1. Good(d)
    BY <1>3 DEF Climb
  <2> QED BY <2>1, PlaceType
<1>7. w \o <<x>> = Append(w, x)
  <2>1. x \in Steps
    BY DEF Steps
  <2> QED BY <1>6, <2>1
<1>8. Place(s) = Place(d) \o Basename(s)
  BY <1>5, <1>6, <1>7
<1> QED BY <1>3, <1>8, Zenon

\* With the basename of <string.h> they do when the path ends in a name.
LEMMA ConfParts ==
  ASSUME NEW s \in Paths, NEW i \in 1..Len(s), s[i] \in Names
  PROVE  s[Len(s)] # Slash <=> Place(s) = Place(Dirname(s, FALSE)) \o GnuBasename(s)
<1>1. PICK n \in Nat : n = Len(s) /\ n > 0 /\ s \in Seq(Chars) /\ n \in 0..n /\ n \in 1..n
  <2>1. s # <<>>
    OBVIOUS
  <2>2. s \in Seq(Chars)
    BY <2>1, PathGood DEF Good
  <2>3. Len(s) \in Nat /\ Len(s) > 0
    BY <2>2
  <2> QED BY <2>2, <2>3
<1>2. CASE s[n] # Slash
  <2>1. NameEnd(s) = n
    BY <1>1, <1>2, NameEndFacts
  <2>2. GnuBasename(s) = Basename(s)
    <3>1. NameEnd(s) # 0 /\ NameEnd(s) = Len(s)
      BY <1>1, <2>1
    <3> QED BY <3>1, Zenon DEF GnuBasename, Basename
  <2> QED BY <1>1, <1>2, <2>2, PathParts, Zenon
<1>3. CASE s[n] = Slash
  <2>1. LastSlash(s, n) = n
    BY <1>1, <1>3, LastSlashFacts
  <2>2. GnuBasename(s) = <<>>
    <3>1. GnuBasename(s) = SubSeq(s, n + 1, n)
      BY <1>1, <2>1, Zenon DEF GnuBasename
    <3> QED BY <1>1, <3>1
  <2>3. s # <<>>
    BY <1>1
  <2>4. Good(s) /\ ~ Late(s) /\ ~ Bare(s)
    BY <2>3, PathGood DEF Bare
  <2>5. PICK d : d = Dirname(s, FALSE) /\ Climb(s, d)
    BY <2>4, DirnameClimbs, Zenon
  <2>6. PICK x : Place(s) = Append(Place(d), x)
    BY <2>4, <2>5 DEF Climb, Up
  <2>7. PICK w \in Seq(Steps) : w = Place(d)
    BY <2>5, PlaceType DEF Climb
  <2>8. w \o <<>> = w /\ w # Append(w, x)
    <3>1. Len(Append(w, x)) = Len(w) + 1
      BY <2>7
    <3> QED BY <2>7, <3>1
  <2>9. Place(s) # Place(d) \o GnuBasename(s)
    BY <2>2, <2>6, <2>7, <2>8
  <2> QED BY <1>1, <1>3, <2>5, <2>9
<1> QED BY <1>2, <1>3

-----------------------------------------------------------------------------
(* The directory of a string, as create_parent_dir takes it.               *)

DirOf(s) == Dirname(s, FALSE)

\* It is one directory up, or no further.
LEMMA DirOfClimbs ==
  ASSUME NEW s, Good(s)
  PROVE  Climb(s, DirOf(s))
BY DirnameClimbs, Zenon DEF DirOf

\* Of the empty path it is the root, and so it is of the root.
LEMMA DirOfNothing == DirOf(<<>>) = <<Slash>> /\ DirOf(<<Slash>>) = <<Slash>>
<1>1. ASSUME NEW s \in Seq(Chars), \A i \in 1..Len(s) : s[i] = Slash
      PROVE  DirOf(s) = <<Slash>>
  <2>1. s \in Seq(Chars) /\ \A i \in 1..Len(s) : s[i] = Slash
    BY <1>1
  <2>2. PICK e \in 0..Len(s) : e = NameEnd(s) /\ (e # 0 => s[e] # Slash)
    BY <2>1, NameEndFacts
  <2>3. e = 0
    BY <2>1, <2>2
  <2> QED BY <2>1, <2>2, <2>3, DirnameShort, Zenon DEF DirOf
<1>2. <<>> \in Seq(Chars) /\ \A i \in 1..Len(<<>>) : <<>>[i] = Slash
  OBVIOUS
<1>3. <<Slash>> \in Seq(Chars) /\ \A i \in 1..Len(<<Slash>>) : <<Slash>>[i] = Slash
  BY DEF Chars
<1> QED BY <1>1, <1>2, <1>3, Zenon

\* The empty path leads to the working directory, the slash to the root.
LEMMA PlaceOfNothing == Place(<<>>) = <<Dot>> /\ Place(<<Slash>>) = <<Slash>>
<1>1. Place(<<>>) = <<Dot>>
  <2> DEFINE s == <<>>
  <2>1. s \in Seq(Chars) /\ Ends(s, 0)
    BY DEF Ends
  <2>2. Strlen(s) = 0
    <3> HIDE DEF s
    <3> QED BY <2>1, StrlenIs
  <2>3. NamesOf(s)[0] = <<>>
    <3> HIDE DEF s
    <3> QED BY <2>1, NamesOfStep
  <2>4. Place(s) = <<Dot>> \o <<>>
    <3> HIDE DEF s
    <3>1. (IF Strlen(s) > 0 /\ s[1] = Slash THEN Slash ELSE Dot) = Dot
      BY <2>2
    <3>2. NamesOf(s)[Strlen(s)] = <<>>
      BY <2>2, <2>3
    <3> QED BY <3>1, <3>2, Zenon DEF Place
  <2> QED BY <2>4
<1>2. Place(<<Slash>>) = <<Slash>>
  <2> DEFINE s == <<Slash>>
  <2>1. s \in Seq(Chars) /\ Ends(s, 1) /\ s[1] = Slash
    BY Special DEF Ends, Chars
  <2> HIDE DEF s
  <2>2. Place(s) = <<Slash>>
    BY <2>1, RootGood
  <2> QED BY <2>2 DEF s
<1> QED BY <1>1, <1>2

\* Places, as sequences: the directory of a string leads to a part of where
\* the string leads, and short of it by one unless there is nothing above or a
\* slash behind its end.
LEMMA PlacesClimb ==
  ASSUME NEW s, Good(s), NEW p, p = Place(s), NEW r, r = Place(DirOf(s))
  PROVE  /\ p \in Seq(Steps) /\ Len(p) > 0 /\ r \in Seq(Steps) /\ Len(r) > 0
         /\ \/ r = p /\ (Len(p) = 1 \/ Late(s))
            \/ Len(p) > 1 /\ Len(r) = Len(p) - 1 /\ r = SubSeq(p, 1, Len(p) - 1)
         /\ r[1] = p[1]
<1>1. Climb(s, DirOf(s))
  BY DirOfClimbs
<1>2. PICK d : d = DirOf(s) /\ Climb(s, d) /\ Good(d)
  BY <1>1 DEF Climb
<1>3. p \in Seq(Steps) /\ Len(p) > 0 /\ r \in Seq(Steps) /\ Len(r) > 0
  BY <1>2, PlaceType
<1>4. CASE r = p /\ (Bare(s) \/ Late(s))
  BY <1>3, <1>4, BarePlace
<1>5. CASE \E x \in Names : p = Append(r, x)
  <2>1. PICK x \in Steps : p = Append(r, x)
    BY <1>5 DEF Steps
  <2>2. Len(p) = Len(r) + 1 /\ \A i \in 1..Len(r) : p[i] = r[i]
    BY <1>3, <2>1
  <2>3. r = SubSeq(p, 1, Len(p) - 1)
    BY <1>3, <2>1, <2>2
  <2> QED BY <1>3, <2>2, <2>3
<1> QED BY <1>2, <1>4, <1>5 DEF Climb, Up
=============================================================================
