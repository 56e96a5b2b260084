----------------------------- MODULE DataLemmas -----------------------------
(***************************************************************************)
(* Lemmas on the operators the models share.  Remainders: positions of a   *)
(* ring that are less than its size apart have slots of their own.  Lists: *)
(* what an element more, one less and Without do to the elements.          *)
(***************************************************************************)
EXTENDS Integers, Lists, SequencesExt, WellFoundedInduction, TLAPS

LEMMA DivMod ==
    ASSUME NEW a \in Nat, NEW c \in Nat \ {0}
    PROVE  /\ a % c \in 0 .. c - 1
           /\ a \div c \in Int
           /\ a = c * (a \div c) + (a % c)
  OBVIOUS

LEMMA NoMultipleBetween ==
    ASSUME NEW c \in Nat \ {0}, NEW k \in Int, NEW m \in Int
    PROVE  ~ (c * k < c * m /\ c * m < c * k + c)
  <1>1. CASE m <= k
    <2>1. c * m <= c * k
      BY <1>1, Z3
    <2>2. QED
      BY <2>1
  <1>2. CASE m >= k + 1
    <2>1. c * m >= c * (k + 1)
      BY <1>2, Z3
    <2>2. c * (k + 1) = c * k + c
      BY Z3
    <2>3. QED
      BY <2>1, <2>2
  <1>3. QED
    BY <1>1, <1>2

LEMMA ModDiffers ==
    ASSUME NEW c \in Nat \ {0}, NEW a \in Nat, NEW b \in Nat,
           a < b, b - a < c
    PROVE  a % c # b % c
  <1> DEFINE k == a \div c
             m == b \div c
  <1>1. /\ k \in Int /\ m \in Int
        /\ a = c * k + (a % c) /\ b = c * m + (b % c)
        /\ a % c \in 0 .. c - 1 /\ b % c \in 0 .. c - 1
    BY DivMod
  <1>2. c * k \in Int /\ c * m \in Int
    BY <1>1
  <1> HIDE DEF k, m
  <1>3. SUFFICES ASSUME a % c = b % c PROVE FALSE
    OBVIOUS
  <1>4. c * k < c * m /\ c * m < c * k + c
    BY <1>1, <1>2, <1>3
  <1>5. QED
    BY <1>1, <1>4, NoMultipleBetween

\* Two numbers of a run of c consecutive ones, from h on.
LEMMA ModApart ==
    ASSUME NEW c \in Nat \ {0}, NEW a \in Nat, NEW b \in Nat, a # b,
           NEW h \in Nat, h <= a, h <= b, a < h + c, b < h + c
    PROVE  a % c # b % c
  <1>1. CASE a < b
    <2>1. b - a < c
      OBVIOUS
    <2>2. QED
      BY <1>1, <2>1, ModDiffers
  <1>2. CASE b < a
    <2>1. a - b < c
      OBVIOUS
    <2>2. QED
      BY <1>2, <2>1, ModDiffers
  <1>3. QED
    BY <1>1, <1>2

-----------------------------------------------------------------------------

\* A set of numbers that has 0, and with a number of 0 .. m its successor, has m.
LEMMA UpTo ==
    ASSUME NEW m \in Nat, NEW P, 0 \in P,
           \A n \in 0 .. m - 1 : n \in P => n + 1 \in P
    PROVE  m \in P
  <1> SUFFICES ASSUME m \notin P PROVE FALSE
    OBVIOUS
  <1> DEFINE out == {n \in 0 .. m : n \notin P}
  <1>1. out \subseteq Nat /\ m \in out
    OBVIOUS
  <1>2. PICK i \in out : \A j \in out : <<j, i>> \notin OpToRel(<, Nat)
    BY <1>1, NatLessThanWellFounded, WFMin, Zenon
  <1>3. i \in 0 .. m /\ i # 0 /\ i \notin P
    OBVIOUS
  <1>4. i - 1 \in 0 .. m - 1 /\ (i - 1) + 1 = i
    BY <1>3
  <1>5. i - 1 \in out
    BY <1>3, <1>4
  <1>6. <<i - 1, i>> \in Nat \X Nat /\ <<i - 1, i>>[1] < <<i - 1, i>>[2]
    BY <1>3
  <1>7. QED
    BY <1>2, <1>5, <1>6, Zenon DEF OpToRel

Step(s, F, f, n) ==
    IF n = 0 THEN <<>>
    ELSE IF s[n] \in F THEN f[n - 1] ELSE Append(f[n - 1], s[n])

\* What the first n elements of s leave: the table Without is the last line of.
Table(s, F, f, n) == f = [i \in 0 .. n |-> Step(s, F, f, i)]

LEMMA TableExists ==
    ASSUME NEW S, NEW s \in Seq(S), NEW F
    PROVE  \E f : Table(s, F, f, Len(s))
  <1> DEFINE P == {n \in Nat : \E f : Table(s, F, f, n)}
  <1>1. 0 \in P
    <2> DEFINE f == [i \in 0 .. 0 |-> <<>>]
    <2>1. \A i \in 0 .. 0 : Step(s, F, f, i) = <<>>
      BY DEF Step
    <2>2. Table(s, F, f, 0)
      BY <2>1 DEF Table
    <2>3. QED
      BY <2>2
  <1>2. ASSUME NEW n \in 0 .. Len(s) - 1, n \in P PROVE n + 1 \in P
    <2>1. PICK f : Table(s, F, f, n)
      BY <1>2
    <2> DEFINE g == [i \in 0 .. n + 1 |-> IF i = n + 1 THEN Step(s, F, f, n + 1) ELSE f[i]]
    <2>2. n \in Nat
      OBVIOUS
    <2>3. ASSUME NEW i \in 0 .. n + 1 PROVE g[i] = Step(s, F, g, i)
      <3>1. i # 0 => g[i - 1] = f[i - 1]
        BY <2>2
      <3>2. Step(s, F, g, i) = Step(s, F, f, i)
        BY <3>1 DEF Step
      <3>3. i # n + 1 => f[i] = Step(s, F, f, i)
        BY <2>1, <2>2 DEF Table
      <3>4. QED
        BY <3>2, <3>3
    <2> HIDE DEF g
    <2>4. g = [i \in 0 .. n + 1 |-> Step(s, F, g, i)]
      BY <2>3 DEF g
    <2>5. QED
      BY <2>2, <2>4 DEF Table
  <1> HIDE DEF P
  <1>3. Len(s) \in Nat
    OBVIOUS
  <1>4. Len(s) \in P
    BY <1>1, <1>2, <1>3, UpTo
  <1>5. QED
    BY <1>4 DEF P

LEMMA WithoutIsTable ==
    ASSUME NEW S, NEW s \in Seq(S), NEW F
    PROVE  \E f : Table(s, F, f, Len(s)) /\ Without(s, F) = f[Len(s)]
  <1> DEFINE f == CHOOSE g : g = [n \in 0 .. Len(s) |-> 
            IF n = 0 THEN <<>>
            ELSE IF s[n] \in F THEN g[n - 1] ELSE Append(g[n - 1], s[n])]
  <1>1. Without(s, F) = f[Len(s)]
    BY DEF Without
  <1>2. \E g : Table(s, F, g, Len(s))
    BY TableExists
  <1>3. Table(s, F, f, Len(s))
    BY <1>2, Zenon DEF Table, Step
  <1>4. QED
    BY <1>1, <1>3

\* An element more, at the end.
LEMMA AppendFacts ==
    ASSUME NEW S, NEW s \in Seq(S), NEW x \in S
    PROVE  /\ Append(s, x) \in Seq(S)
           /\ ToSet(Append(s, x)) = ToSet(s) \cup {x}
           /\ IsInjective(s) /\ x \notin ToSet(s) => IsInjective(Append(s, x))
  <1>1. /\ Append(s, x) \in Seq(S) /\ Len(Append(s, x)) = Len(s) + 1 /\ Len(s) \in Nat
        /\ DOMAIN s = 1 .. Len(s) /\ DOMAIN Append(s, x) = 1 .. Len(s) + 1
        /\ \A i \in 1 .. Len(s) : Append(s, x)[i] = s[i]
        /\ Append(s, x)[Len(s) + 1] = x
    OBVIOUS
  <1> DEFINE t == Append(s, x)
             n == Len(s)
  <1> HIDE DEF t, n
  <1>2. /\ n \in Nat /\ DOMAIN s = 1 .. n /\ DOMAIN t = 1 .. n + 1
        /\ \A i \in 1 .. n : t[i] = s[i]
        /\ t[n + 1] = x
    BY <1>1 DEF t, n
  <1>3. ToSet(t) = ToSet(s) \cup {x}
    BY <1>2 DEF ToSet
  <1>4. IsInjective(s) /\ x \notin ToSet(s) => IsInjective(t)
    BY <1>2 DEF ToSet, IsInjective
  <1>5. QED
    BY <1>1, <1>3, <1>4 DEF t

\* The first n lines of the table hold the elements of s that are not in F.
LEMMA TableFacts ==
    ASSUME NEW S, NEW s \in Seq(S), NEW F, NEW f, Table(s, F, f, Len(s))
    PROVE  /\ f[Len(s)] \in Seq(S)
           /\ ToSet(f[Len(s)]) = ToSet(s) \ F
           /\ IsInjective(s) => IsInjective(f[Len(s)])
  <1> DEFINE First(n) == {s[i] : i \in 1 .. n} \ F
             P == {n \in 0 .. Len(s) :
                     /\ f[n] \in Seq(S)
                     /\ ToSet(f[n]) = First(n)
                     /\ IsInjective(s) => IsInjective(f[n])}
  <1>1. /\ Len(s) \in Nat /\ DOMAIN s = 1 .. Len(s)
        /\ \A i \in 1 .. Len(s) : s[i] \in S
    OBVIOUS
  <1>2. \A n \in 0 .. Len(s) : f[n] = Step(s, F, f, n)
    BY DEF Table
  <1>3. 0 \in P
    <2>1. f[0] = <<>>
      BY <1>1, <1>2 DEF Step
    <2>2. <<>> \in Seq(S) /\ ToSet(<<>>) = {} /\ IsInjective(<<>>)
      <3>1. DOMAIN <<>> = {}
        OBVIOUS
      <3>2. ToSet(<<>>) = {} /\ IsInjective(<<>>)
        BY <3>1, Zenon DEF ToSet, IsInjective
      <3>3. QED
        BY <3>2
    <2>3. First(0) = {}
      OBVIOUS
    <2>4. QED
      <3> HIDE DEF First
      <3>1. 0 \in 0 .. Len(s)
        BY <1>1
      <3>2. QED
        BY <3>1, <2>1, <2>2, <2>3
  <1>4. ASSUME NEW n \in 0 .. Len(s) - 1, n \in P PROVE n + 1 \in P
    <2>1. n \in Nat /\ n + 1 \in 1 .. Len(s) /\ s[n + 1] \in S
      BY <1>1
    <2>2. f[n + 1] = IF s[n + 1] \in F THEN f[n] ELSE Append(f[n], s[n + 1])
      BY <1>2, <2>1 DEF Step
    <2>3. /\ f[n] \in Seq(S) /\ ToSet(f[n]) = First(n)
          /\ IsInjective(s) => IsInjective(f[n])
      BY <1>4
    <2>4. First(n + 1) = First(n) \cup ({s[n + 1]} \ F)
      BY <2>1
    <2> HIDE DEF First
    <2>5. CASE s[n + 1] \in F
      <3>1. f[n + 1] = f[n] /\ First(n + 1) = First(n)
        BY <2>2, <2>4, <2>5
      <3>2. n + 1 \in 0 .. Len(s)
        BY <1>1, <2>1
      <3>3. QED
        BY <2>3, <3>1, <3>2
    <2>6. CASE s[n + 1] \notin F
      <3>1. f[n + 1] = Append(f[n], s[n + 1])
        BY <2>2, <2>6
      <3>2. /\ f[n + 1] \in Seq(S) /\ ToSet(f[n + 1]) = ToSet(f[n]) \cup {s[n + 1]}
            /\ IsInjective(f[n]) /\ s[n + 1] \notin ToSet(f[n]) => IsInjective(f[n + 1])
        BY <3>1, <2>1, <2>3, AppendFacts
      <3>3. ToSet(f[n + 1]) = First(n + 1)
        BY <3>2, <2>3, <2>4, <2>6
      <3>4. IsInjective(s) => s[n + 1] \notin First(n)
        BY <1>1, <2>1 DEF First, IsInjective
      <3>5. QED
        BY <2>1, <2>3, <3>2, <3>3, <3>4
    <2>7. QED
      BY <2>5, <2>6
  <1>5. Len(s) \in P
    <2> HIDE DEF P
    <2>1. QED
      BY <1>1, <1>3, <1>4, UpTo
  <1>6. First(Len(s)) = ToSet(s) \ F
    BY <1>1 DEF ToSet
  <1>7. QED
    BY <1>5, <1>6

\* Removal keeps the type of a list, its other elements, and that none is twice in it.
LEMMA WithoutFacts ==
    ASSUME NEW S, NEW s \in Seq(S), NEW F
    PROVE  /\ Without(s, F) \in Seq(S)
           /\ ToSet(Without(s, F)) = ToSet(s) \ F
           /\ IsInjective(s) => IsInjective(Without(s, F))
  <1>1. PICK f : Table(s, F, f, Len(s)) /\ Without(s, F) = f[Len(s)]
    BY WithoutIsTable
  <1>2. QED
    BY <1>1, TableFacts

\* The rest of a list after its first element.
LEMMA TailFacts ==
    ASSUME NEW S, NEW s \in Seq(S), s # <<>>
    PROVE  /\ Head(s) \in S /\ Tail(s) \in Seq(S)
           /\ ToSet(s) = {Head(s)} \cup ToSet(Tail(s))
           /\ IsInjective(s) => IsInjective(Tail(s)) /\ Head(s) \notin ToSet(Tail(s))
  <1>1. /\ Head(s) \in S /\ Tail(s) \in Seq(S) /\ Head(s) = s[1]
        /\ Len(s) \in Nat \ {0} /\ Len(Tail(s)) = Len(s) - 1
        /\ DOMAIN s = 1 .. Len(s) /\ DOMAIN Tail(s) = 1 .. Len(s) - 1
        /\ \A i \in 1 .. Len(s) - 1 : Tail(s)[i] = s[i + 1]
    <2>1. Len(s) \in Nat \ {0} /\ DOMAIN s = 1 .. Len(s) /\ Head(s) = s[1]
      OBVIOUS
    <2>2. Head(s) \in S /\ Tail(s) \in Seq(S) /\ Len(Tail(s)) = Len(s) - 1
      BY <2>1
    <2>3. \A i \in 1 .. Len(s) - 1 : Tail(s)[i] = s[i + 1]
      BY <2>1
    <2>4. QED
      BY <2>1, <2>2, <2>3
  <1> DEFINE t == Tail(s)
             n == Len(s)
  <1> HIDE DEF t, n
  <1>2. /\ n \in Nat \ {0} /\ DOMAIN s = 1 .. n /\ DOMAIN t = 1 .. n - 1
        /\ \A i \in 1 .. n - 1 : t[i] = s[i + 1]
        /\ Head(s) = s[1]
    BY <1>1 DEF t, n
  <1>3. \A i \in 1 .. n : i = 1 \/ (i - 1 \in 1 .. n - 1 /\ (i - 1) + 1 = i)
    BY <1>2
  <1>4. ToSet(s) = {Head(s)} \cup ToSet(t)
    <2>1. ASSUME NEW y \in ToSet(s) PROVE y \in {Head(s)} \cup ToSet(t)
      <3>1. PICK i \in 1 .. n : y = s[i]
        BY <1>2 DEF ToSet
      <3>2. CASE i = 1
        BY <1>2, <3>1, <3>2
      <3>3. CASE i # 1
        <4>1. i - 1 \in DOMAIN t /\ t[i - 1] = s[i]
          BY <1>2, <1>3, <3>3
        <4>2. QED
          BY <3>1, <4>1 DEF ToSet
      <3>4. QED
        BY <3>2, <3>3
    <2>2. ASSUME NEW y \in ToSet(t) PROVE y \in ToSet(s)
      BY <1>2 DEF ToSet
    <2>3. Head(s) \in ToSet(s)
      BY <1>2 DEF ToSet
    <2>4. QED
      BY <2>1, <2>2, <2>3
  <1>5. IsInjective(s) => IsInjective(t) /\ Head(s) \notin ToSet(t)
    <2> SUFFICES ASSUME IsInjective(s) PROVE IsInjective(t) /\ Head(s) \notin ToSet(t)
      OBVIOUS
    <2>1. \A i, j \in 1 .. n : s[i] = s[j] => i = j
      BY <1>2 DEF IsInjective
    <2>2. \A i \in 1 .. n - 1 : i + 1 \in 1 .. n /\ i + 1 # 1
      BY <1>2
    <2>3. IsInjective(t)
      BY <1>2, <2>1, <2>2 DEF IsInjective
    <2>4. Head(s) \notin ToSet(t)
      BY <1>2, <2>1, <2>2 DEF ToSet
    <2>5. QED
      BY <2>3, <2>4
  <1>6. Head(s) \in S /\ t \in Seq(S)
    BY <1>1 DEF t
  <1>7. QED
    BY <1>4, <1>5, <1>6 DEF t

LEMMA ConcatFacts ==
    ASSUME NEW S, NEW s \in Seq(S), NEW t \in Seq(S)
    PROVE  /\ s \o t \in Seq(S) /\ ToSet(s \o t) = ToSet(s) \cup ToSet(t)
           /\ IsInjective(s) /\ IsInjective(t) /\ ToSet(s) \cap ToSet(t) = {}
                => IsInjective(s \o t)
  <1>1. /\ s \o t \in Seq(S) /\ Len(s) \in Nat /\ Len(t) \in Nat
        /\ DOMAIN s = 1 .. Len(s) /\ DOMAIN t = 1 .. Len(t)
        /\ DOMAIN (s \o t) = 1 .. Len(s) + Len(t)
        /\ \A i \in 1 .. Len(s) : (s \o t)[i] = s[i]
        /\ \A i \in Len(s) + 1 .. Len(s) + Len(t) : (s \o t)[i] = t[i - Len(s)]
    OBVIOUS
  <1> DEFINE u == s \o t
             m == Len(s)
             n == Len(t)
  <1> HIDE DEF u, m, n
  <1>2. /\ m \in Nat /\ n \in Nat
        /\ DOMAIN s = 1 .. m /\ DOMAIN t = 1 .. n /\ DOMAIN u = 1 .. m + n
        /\ \A i \in 1 .. m : u[i] = s[i]
        /\ \A i \in m + 1 .. m + n : u[i] = t[i - m]
    BY <1>1 DEF u, m, n
  <1>3. ASSUME NEW y \in ToSet(u) PROVE y \in ToSet(s) \cup ToSet(t)
    <2>1. PICK i \in 1 .. m + n : y = u[i]
      BY <1>2 DEF ToSet
    <2>2. CASE i \in 1 .. m
      BY <1>2, <2>1, <2>2 DEF ToSet
    <2>3. CASE i \in m + 1 .. m + n
      <3>1. i - m \in 1 .. n /\ y = t[i - m]
        BY <1>2, <2>1, <2>3
      <3>2. QED
        BY <1>2, <3>1 DEF ToSet
    <2>4. QED
      BY <1>2, <2>2, <2>3
  <1>4. ASSUME NEW y \in ToSet(s) PROVE y \in ToSet(u)
    BY <1>2 DEF ToSet
  <1>5. ASSUME NEW y \in ToSet(t) PROVE y \in ToSet(u)
    <2>1. PICK i \in 1 .. n : y = t[i]
      BY <1>2 DEF ToSet
    <2>2. m + i \in 1 .. m + n /\ m + i \in m + 1 .. m + n /\ (m + i) - m = i
      BY <1>2
    <2>3. u[m + i] = y
      BY <1>2, <2>1, <2>2
    <2>4. QED
      BY <1>2, <2>2, <2>3 DEF ToSet
  <1>6. ToSet(u) = ToSet(s) \cup ToSet(t)
    BY <1>3, <1>4, <1>5
  <1>7. ASSUME IsInjective(s), IsInjective(t), ToSet(s) \cap ToSet(t) = {}
        PROVE  IsInjective(u)
    <2>1. /\ \A i, j \in 1 .. m : s[i] = s[j] => i = j
          /\ \A i, j \in 1 .. n : t[i] = t[j] => i = j
          /\ \A i \in 1 .. m, j \in 1 .. n : s[i] # t[j]
      <3>1. \A i \in 1 .. m, j \in 1 .. n : s[i] \in ToSet(s) /\ t[j] \in ToSet(t)
        BY <1>2 DEF ToSet
      <3>2. \A i \in 1 .. m, j \in 1 .. n : s[i] # t[j]
        BY <1>7, <3>1, Zenon
      <3>3. QED
        BY <1>2, <1>7, <3>2 DEF IsInjective
    <2>2. \A i \in 1 .. m + n :
              \/ i \in 1 .. m /\ u[i] = s[i]
              \/ i \in m + 1 .. m + n /\ i - m \in 1 .. n /\ u[i] = t[i - m]
      BY <1>2
    <2>3. ASSUME NEW i \in 1 .. m + n, NEW j \in 1 .. m + n, u[i] = u[j] PROVE i = j
      <3>1. CASE i \in 1 .. m /\ u[i] = s[i]
        BY <2>1, <2>2, <2>3, <3>1
      <3>2. CASE i - m \in 1 .. n /\ u[i] = t[i - m]
        <4>1. j - m \in 1 .. n /\ u[j] = t[j - m]
          BY <2>1, <2>2, <2>3, <3>2
        <4>2. i - m = j - m
          BY <2>1, <2>3, <3>2, <4>1
        <4>3. QED
          BY <1>2, <4>2
      <3>3. QED
        BY <2>2, <3>1, <3>2
    <2>4. QED
      BY <1>2, <2>3 DEF IsInjective
  <1>8. QED
    BY <1>1, <1>6, <1>7 DEF u

\* A list cut in two.
LEMMA SplitFacts ==
    ASSUME NEW S, NEW s \in Seq(S), NEW n \in 0 .. Len(s)
    PROVE  /\ SubSeq(s, 1, n) \in Seq(S) /\ SubSeq(s, n + 1, Len(s)) \in Seq(S)
           /\ ToSet(s) = ToSet(SubSeq(s, 1, n)) \cup ToSet(SubSeq(s, n + 1, Len(s)))
           /\ IsInjective(s) =>
                /\ IsInjective(SubSeq(s, 1, n)) /\ IsInjective(SubSeq(s, n + 1, Len(s)))
                /\ ToSet(SubSeq(s, 1, n)) \cap ToSet(SubSeq(s, n + 1, Len(s))) = {}
  <1> DEFINE m == Len(s)
             front == SubSeq(s, 1, n)
             back == SubSeq(s, n + 1, Len(s))
  <1>1. /\ m \in Nat /\ DOMAIN s = 1 .. m /\ n \in Nat /\ n <= m
        /\ \A i \in 1 .. m : s[i] \in S
    OBVIOUS
  <1>2. front \in Seq(S) /\ DOMAIN front = 1 .. n /\ \A i \in 1 .. n : front[i] = s[i]
    BY <1>1
  <1>3. /\ back \in Seq(S) /\ DOMAIN back = 1 .. m - n
        /\ \A i \in 1 .. m - n : back[i] = s[n + i]
    BY <1>1
  <1> HIDE DEF m, front, back
  <1>4. ASSUME NEW y \in ToSet(s) PROVE y \in ToSet(front) \cup ToSet(back)
    <2>1. PICK i \in 1 .. m : y = s[i]
      BY <1>1 DEF ToSet
    <2>2. CASE i <= n
      <3>1. i \in 1 .. n
        BY <1>1, <2>2
      <3>2. QED
        BY <1>2, <2>1, <3>1 DEF ToSet
    <2>3. CASE ~(i <= n)
      <3>1. i - n \in 1 .. m - n /\ n + (i - n) = i
        BY <1>1, <2>3
      <3>2. back[i - n] = y
        BY <1>3, <2>1, <3>1
      <3>3. QED
        BY <1>3, <3>1, <3>2 DEF ToSet
    <2>4. QED
      BY <2>2, <2>3
  <1>5. \A i \in 1 .. n : i \in 1 .. m
    BY <1>1
  <1>6. \A i \in 1 .. m - n : n + i \in 1 .. m /\ n + i \notin 1 .. n
    BY <1>1
  <1>7. ToSet(front) \cup ToSet(back) \subseteq ToSet(s)
    BY <1>1, <1>2, <1>3, <1>5, <1>6 DEF ToSet
  <1>8. ASSUME IsInjective(s)
        PROVE  /\ IsInjective(front) /\ IsInjective(back)
               /\ ToSet(front) \cap ToSet(back) = {}
    <2>1. \A i, j \in 1 .. m : s[i] = s[j] => i = j
      BY <1>1, <1>8 DEF IsInjective
    <2>2. IsInjective(front)
      BY <1>2, <1>5, <2>1 DEF IsInjective
    <2>3. IsInjective(back)
      <3>1. ASSUME NEW i \in 1 .. m - n, NEW j \in 1 .. m - n, back[i] = back[j] PROVE i = j
        <4>1. n + i = n + j
          BY <1>3, <1>6, <2>1, <3>1
        <4>2. QED
          BY <1>1, <4>1
      <3>2. QED
        BY <1>3, <3>1 DEF IsInjective
    <2>4. \A i \in 1 .. n, j \in 1 .. m - n : front[i] # back[j]
      BY <1>2, <1>3, <1>5, <1>6, <2>1
    <2>5. ToSet(front) \cap ToSet(back) = {}
      <3>1. ASSUME NEW y \in ToSet(front), y \in ToSet(back) PROVE FALSE
        <4>1. PICK i \in 1 .. n : y = front[i]
          BY <1>2 DEF ToSet
        <4>2. PICK j \in 1 .. m - n : y = back[j]
          BY <1>3, <3>1 DEF ToSet
        <4>3. QED
          BY <2>4, <4>1, <4>2
      <3>2. QED
        BY <3>1
    <2>6. QED
      BY <2>2, <2>3, <2>5
  <1>9. QED
    BY <1>2, <1>3, <1>4, <1>7, <1>8 DEF front, back

LEMMA ContainsIsMember ==
    ASSUME NEW S, NEW s \in Seq(S), NEW x
    PROVE  Contains(s, x) <=> x \in ToSet(s)
  <1>1. DOMAIN s = 1 .. Len(s)
    OBVIOUS
  <1>2. QED
    BY <1>1 DEF Contains, ToSet

\* A set of numbers has a least one.
LEMMA Least ==
    ASSUME NEW T, T \subseteq Nat, T # {}
    PROVE  \E i \in T : \A j \in T : i <= j
  <1>1. PICK i \in T : \A j \in T : <<j, i>> \notin OpToRel(<, Nat)
    BY NatLessThanWellFounded, WFMin, Zenon
  <1>2. ASSUME NEW j \in T, j < i PROVE FALSE
    <2>1. <<j, i>> \in Nat \X Nat /\ <<j, i>>[1] < <<j, i>>[2]
      BY <1>2
    <2>2. QED
      BY <1>1, <2>1, Zenon DEF OpToRel
  <1>3. \A j \in T : i <= j
    BY <1>2
  <1>4. QED
    BY <1>3
=============================================================================
