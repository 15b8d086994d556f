---------------------------- MODULE ListasProofs ----------------------------
(***************************************************************************)
(* What the operations on lists, counters and finite sums of the models    *)
(* return.                                                                 *)
(***************************************************************************)
EXTENDS SequencesExt, SequenceTheorems, FiniteSetTheorems, WellFoundedInduction,
        TLAPS

\* A counter of a table of counters, one up and one down.
LEMMA SumarUno ==
  ASSUME NEW S, NEW f \in [S -> Nat], NEW x
  PROVE  [f EXCEPT ![x] = @ + 1] \in [S -> Nat]
<1>1. ASSUME NEW y \in S
      PROVE  [f EXCEPT ![x] = @ + 1][y] \in Nat
  <2>1. CASE y = x
    <3>1. [f EXCEPT ![x] = @ + 1][x] = f[x] + 1
      BY <2>1
    <3>2. f[x] \in Nat
      BY <2>1
    <3> QED BY <2>1, <3>1, <3>2
  <2>2. CASE y # x
    BY <2>2
  <2> QED BY <2>1, <2>2
<1> QED BY <1>1

\* The same, down.
LEMMA RestarUno ==
  ASSUME NEW S, NEW f \in [S -> Nat], NEW x, f[x] > 0
  PROVE  [f EXCEPT ![x] = @ - 1] \in [S -> Nat]
<1>1. ASSUME NEW y \in S
      PROVE  [f EXCEPT ![x] = @ - 1][y] \in Nat
  <2>1. CASE y = x
    <3>1. [f EXCEPT ![x] = @ - 1][x] = f[x] - 1
      BY <2>1
    <3>2. f[x] \in Nat \ {0}
      BY <2>1
    <3> QED BY <2>1, <3>1, <3>2
  <2>2. CASE y # x
    BY <2>2
  <2> QED BY <2>1, <2>2
<1> QED BY <1>1

\* An element added at the end.
LEMMA AgregarSeq ==
  ASSUME NEW S, NEW s \in Seq(S), NEW e \in S
  PROVE  /\ Append(s, e) \in Seq(S)
         /\ Range(Append(s, e)) = Range(s) \cup {e}
         /\ IsInjective(s) /\ e \notin Range(s) => IsInjective(Append(s, e))
<1>1. /\ Append(s, e) \in Seq(S) /\ DOMAIN Append(s, e) = 1..Len(s)+1 /\ DOMAIN s = 1..Len(s)
      /\ Len(s) \in Nat
      /\ \A i \in 1..Len(s)+1 : Append(s, e)[i] = IF i = Len(s)+1 THEN e ELSE s[i]
  BY AppendProperties, LenProperties
<1>2. Range(Append(s, e)) = Range(s) \cup {e}
  BY <1>1 DEF Range
<1>3. IsInjective(s) /\ e \notin Range(s) => IsInjective(Append(s, e))
  BY <1>1 DEF Range, IsInjective
<1> QED BY <1>1, <1>2, <1>3

\* The first element removed.
LEMMA QuitarSeq ==
  ASSUME NEW S, NEW s \in Seq(S), s # <<>>
  PROVE  /\ Head(s) \in S /\ Head(s) \in Range(s) /\ Tail(s) \in Seq(S)
         /\ Range(Tail(s)) \subseteq Range(s)
         /\ IsInjective(s) => IsInjective(Tail(s)) /\ Head(s) \notin Range(Tail(s))
<1>1. /\ Tail(s) \in Seq(S) /\ DOMAIN Tail(s) = 1..Len(s)-1 /\ DOMAIN s = 1..Len(s)
      /\ Len(s) \in Nat \ {0} /\ Head(s) = s[1] /\ Head(s) \in S
      /\ \A i \in 1..Len(s)-1 : Tail(s)[i] = s[i+1]
  BY HeadTailProperties, LenProperties, EmptySeq
<1>2. Range(Tail(s)) \subseteq Range(s) /\ Head(s) \in Range(s)
  BY <1>1 DEF Range
<1>3. IsInjective(s) => IsInjective(Tail(s)) /\ Head(s) \notin Range(Tail(s))
  BY <1>1 DEF Range, IsInjective
<1> QED BY <1>1, <1>2, <1>3

\* The element at a place removed.
LEMMA SacarSeq ==
  ASSUME NEW S, NEW s \in Seq(S), NEW i \in DOMAIN s
  PROVE  /\ s[i] \in S /\ s[i] \in Range(s) /\ RemoveAt(s, i) \in Seq(S)
         /\ Range(RemoveAt(s, i)) \subseteq Range(s)
         /\ IsInjective(s) => /\ IsInjective(RemoveAt(s, i))
                              /\ s[i] \notin Range(RemoveAt(s, i))
<1>1. /\ DOMAIN s = 1..Len(s) /\ Len(s) \in Nat /\ i \in 1..Len(s)
      /\ \A j \in 1..Len(s) : s[j] \in S
  BY LenProperties
<1>2. /\ SubSeq(s, 1, i-1) \in Seq(S) /\ Len(SubSeq(s, 1, i-1)) = i-1
      /\ \A j \in 1..i-1 : SubSeq(s, 1, i-1)[j] = s[j]
  <2>1. \A j \in 1..i-1 : s[j] \in S BY <1>1
  <2> QED BY <2>1, <1>1, SubSeqProperties
<1>3. /\ SubSeq(s, i+1, Len(s)) \in Seq(S) /\ Len(SubSeq(s, i+1, Len(s))) = Len(s)-i
      /\ \A j \in 1..Len(s)-i : SubSeq(s, i+1, Len(s))[j] = s[i+j]
  <2>1. \A j \in i+1..Len(s) : s[j] \in S BY <1>1
  <2> QED BY <2>1, <1>1, SubSeqProperties
<1>4. /\ RemoveAt(s, i) \in Seq(S) /\ DOMAIN RemoveAt(s, i) = 1..Len(s)-1
      /\ \A j \in 1..Len(s)-1 : RemoveAt(s, i)[j] = IF j < i THEN s[j] ELSE s[j+1]
  <2> DEFINE a == SubSeq(s, 1, i-1)
             b == SubSeq(s, i+1, Len(s))
  <2>1. /\ a \o b \in Seq(S) /\ Len(a \o b) = Len(a) + Len(b)
        /\ \A j \in 1..Len(a) + Len(b) : (a \o b)[j] = IF j <= Len(a) THEN a[j] ELSE b[j - Len(a)]
    BY <1>2, <1>3, ConcatProperties
  <2>2. Len(a) = i-1 /\ Len(b) = Len(s)-i /\ Len(a) + Len(b) = Len(s)-1
    BY <1>1, <1>2, <1>3
  <2>3. DOMAIN (a \o b) = 1..Len(s)-1
    BY <2>1, <2>2, LenProperties
  <2>4. ASSUME NEW j \in 1..Len(s)-1
        PROVE  (a \o b)[j] = IF j < i THEN s[j] ELSE s[j+1]
    <3>1. (a \o b)[j] = IF j <= i-1 THEN a[j] ELSE b[j - (i-1)]
      BY <2>1, <2>2
    <3>2. CASE j < i
      BY <3>1, <3>2, <1>1, <1>2
    <3>3. CASE ~(j < i)
      <4> DEFINE k == j - (i-1)
      <4>1. k \in 1..Len(s)-i /\ i + k = j+1
        BY <3>3, <1>1
      <4>2. b[k] = s[i+k]
        BY <4>1, <1>3
      <4>3. (a \o b)[j] = b[k]
        <5>1. ~(j <= i-1)
          BY <3>3, <1>1
        <5> QED BY ONLY <3>1, <5>1
      <4> QED BY <3>3, <4>1, <4>2, <4>3
    <3> QED BY <3>2, <3>3
  <2> QED BY <2>1, <2>3, <2>4 DEF RemoveAt
<1>5. Range(RemoveAt(s, i)) \subseteq Range(s) /\ s[i] \in Range(s)
  BY <1>1, <1>4 DEF Range
<1>6. ASSUME IsInjective(s)
      PROVE  IsInjective(RemoveAt(s, i)) /\ s[i] \notin Range(RemoveAt(s, i))
  <2>1. \A x, y \in 1..Len(s) : s[x] = s[y] => x = y
    BY <1>1, <1>6 DEF IsInjective
  <2>2. ASSUME NEW x \in 1..Len(s)-1, NEW y \in 1..Len(s)-1,
               RemoveAt(s, i)[x] = RemoveAt(s, i)[y]
        PROVE  x = y
    <3> DEFINE original(j) == IF j < i THEN j ELSE j+1
    <3>1. original(x) \in 1..Len(s) /\ original(y) \in 1..Len(s)
      BY <1>1
    <3>2. s[original(x)] = s[original(y)]
      BY <2>2, <1>4
    <3>3. original(x) = original(y)
      BY <3>1, <3>2, <2>1
    <3> QED BY <3>3, <1>1
  <2>3. ASSUME NEW x \in 1..Len(s)-1
        PROVE  RemoveAt(s, i)[x] # s[i]
    BY <2>1, <1>1, <1>4
  <2> QED BY <2>2, <2>3, <1>4 DEF IsInjective, Range
<1> QED BY <1>1, <1>4, <1>5, <1>6

\* What is left is shorter by one.
LEMMA SacarLen ==
  ASSUME NEW S, NEW s \in Seq(S), NEW i \in DOMAIN s
  PROVE  Len(RemoveAt(s, i)) = Len(s) - 1
<1>1. Len(s) \in Nat /\ i \in 1..Len(s) /\ \A j \in 1..Len(s) : s[j] \in S
  BY LenProperties
<1>2. SubSeq(s, 1, i-1) \in Seq(S) /\ Len(SubSeq(s, 1, i-1)) = i-1
  <2>1. \A j \in 1..i-1 : s[j] \in S BY <1>1
  <2> QED BY <2>1, <1>1, SubSeqProperties
<1>3. SubSeq(s, i+1, Len(s)) \in Seq(S) /\ Len(SubSeq(s, i+1, Len(s))) = Len(s)-i
  <2>1. \A j \in i+1..Len(s) : s[j] \in S BY <1>1
  <2> QED BY <2>1, <1>1, SubSeqProperties
<1>4. Len(RemoveAt(s, i)) = (i - 1) + (Len(s) - i)
  <2> DEFINE a == SubSeq(s, 1, i-1)
             b == SubSeq(s, i+1, Len(s))
  <2>1. Len(a \o b) = Len(a) + Len(b)
    BY <1>2, <1>3, ConcatProperties
  <2> QED BY <1>2, <1>3, <2>1 DEF RemoveAt
<1>5. i \in Int /\ Len(s) \in Int
  BY <1>1
<1>6. (i - 1) + (Len(s) - i) = Len(s) - 1
  BY ONLY <1>5
<1> QED BY <1>4, <1>6

\* The least of some numbers is one of them.
LEMMA MinEsta ==
  ASSUME NEW S \in SUBSET Nat, S # {}
  PROVE  Min(S) \in S /\ \A x \in S : Min(S) <= x
<1> DEFINE T == {0..n : n \in S}
           R == StrictSubsetOrdering(Nat)
<1>1. \A X \in T : \E n \in S : X = 0..n
  OBVIOUS
<1>2. T \subseteq FiniteSubsetsOf(Nat) /\ T # {}
  <2>1. \A n \in S : IsFiniteSet(0..n) /\ 0..n \in SUBSET Nat
    BY FS_Interval
  <2>2. \A X \in T : X \in FiniteSubsetsOf(Nat)
    BY <2>1 DEF FiniteSubsetsOf
  <2>3. T # {}
    OBVIOUS
  <2> HIDE DEF T
  <2> QED BY <2>2, <2>3
<1>3. PICK X \in T : \A Y \in T : <<Y, X>> \notin R
  <2> HIDE DEF T, R
  <2> QED BY <1>2, WFMin, FS_StrictSubsetOrderingWellFounded DEF R
<1>4. PICK x \in S : X = 0..x
  BY <1>1
<1>5. ASSUME NEW y \in S, y < x
      PROVE  FALSE
  <2>1. 0..y \in T /\ 0..y \subseteq 0..x /\ 0..y # 0..x
    <3>1. x \in 0..x /\ x \notin 0..y
      BY <1>5
    <3> QED BY <1>5, <3>1
  <2>2. <<0..y, 0..x>> \in R
    <3>1. 0..y \in SUBSET Nat /\ 0..x \in SUBSET Nat
      OBVIOUS
    <3> QED BY <2>1, <3>1 DEF StrictSubsetOrdering
  <2> QED BY <1>3, <1>4, <2>1, <2>2
<1>6. \A y \in S : x <= y
  BY <1>5
<1> QED BY <1>6 DEF Min

\* The first elements of a list.
LEMMA PrefijoSeq ==
  ASSUME NEW S, NEW s \in Seq(S), NEW k \in 0..Len(s)
  PROVE  /\ SubSeq(s, 1, k) \in Seq(S) /\ Len(SubSeq(s, 1, k)) = k
         /\ ToSet(SubSeq(s, 1, k)) = {s[i] : i \in 1..k}
         /\ IsInjective(s) => IsInjective(SubSeq(s, 1, k))
<1>1. Len(s) \in Nat /\ DOMAIN s = 1..Len(s) /\ \A i \in 1..Len(s) : s[i] \in S
  BY LenProperties
<1>2. /\ SubSeq(s, 1, k) \in Seq(S) /\ Len(SubSeq(s, 1, k)) = k
      /\ \A i \in 1..k : SubSeq(s, 1, k)[i] = s[i]
  <2>1. \A i \in 1..k : s[i] \in S
    BY <1>1
  <2> QED BY <2>1, <1>1, SubSeqProperties
<1>3. DOMAIN SubSeq(s, 1, k) = 1..k
  BY <1>2, LenProperties
<1>4. ToSet(SubSeq(s, 1, k)) = {s[i] : i \in 1..k}
  BY <1>2, <1>3 DEF ToSet
<1>5. IsInjective(s) => IsInjective(SubSeq(s, 1, k))
  BY <1>1, <1>2, <1>3 DEF IsInjective
<1> QED BY <1>2, <1>4, <1>5

\* Induction, for what a set of numbers can say.
LEMMA Induccion ==
  ASSUME NEW S, 0 \in S, \A n \in Nat : n \in S => n + 1 \in S
  PROVE  Nat \subseteq S
<1>1. SUFFICES ASSUME NEW x \in Nat \ S PROVE FALSE
  OBVIOUS
<1> DEFINE m == Min(Nat \ S)
<1>2. m \in Nat \ S /\ \A y \in Nat \ S : m <= y
  BY <1>1, MinEsta
<1> HIDE DEF m
<1>3. m # 0 /\ m - 1 \in Nat /\ m - 1 \in S
  BY <1>2
<1> QED BY <1>2, <1>3

\* Removing an element that is not the first leaves the first where it was.
LEMMA SacarCabeza ==
  ASSUME NEW S, NEW s \in Seq(S), NEW i \in DOMAIN s, i # 1
  PROVE  /\ Head(RemoveAt(s, i)) = Head(s) /\ RemoveAt(s, i) # <<>>
         /\ Head(s) \in Range(RemoveAt(s, i))
<1>1. /\ DOMAIN s = 1..Len(s) /\ Len(s) \in Nat /\ i \in 2..Len(s) /\ s # <<>>
      /\ \A j \in 1..Len(s) : s[j] \in S
  BY LenProperties, EmptySeq
<1> DEFINE a == SubSeq(s, 1, i-1)
           b == SubSeq(s, i+1, Len(s))
<1>2. a \in Seq(S) /\ Len(a) = i-1 /\ \A j \in 1..i-1 : a[j] = s[j]
  <2>1. \A j \in 1..i-1 : s[j] \in S BY <1>1
  <2> QED BY <2>1, <1>1, SubSeqProperties
<1>3. b \in Seq(S) /\ Len(b) = Len(s)-i
  <2>1. \A j \in i+1..Len(s) : s[j] \in S BY <1>1
  <2> QED BY <2>1, <1>1, SubSeqProperties
<1>4. RemoveAt(s, i) = a \o b
  BY DEF RemoveAt
<1> HIDE DEF a, b
<1>5. /\ a \o b \in Seq(S) /\ Len(a \o b) = Len(a) + Len(b)
      /\ \A j \in 1..Len(a) + Len(b) : (a \o b)[j] = IF j <= Len(a) THEN a[j] ELSE b[j - Len(a)]
  BY <1>2, <1>3, ConcatProperties
<1>6. 1 \in 1..Len(a \o b) /\ (a \o b)[1] = s[1]
  BY <1>1, <1>2, <1>3, <1>5
<1>7. DOMAIN (a \o b) = 1..Len(a \o b) /\ a \o b # <<>>
  BY <1>5, <1>6, LenProperties, EmptySeq
<1>8. Head(a \o b) = (a \o b)[1] /\ Head(s) = s[1]
  BY <1>1, <1>5, <1>7, HeadTailProperties
<1> QED BY <1>4, <1>6, <1>7, <1>8 DEF Range

\* Adding at the end leaves the first element of a list where it was.
LEMMA AgregarCabeza ==
  ASSUME NEW S, NEW s \in Seq(S), NEW e \in S, s # <<>>
  PROVE  Head(Append(s, e)) = Head(s)
<1>1. /\ Append(s, e) \in Seq(S) /\ Len(Append(s, e)) = Len(s)+1 /\ Len(s) \in Nat \ {0}
      /\ \A i \in 1..Len(s)+1 : Append(s, e)[i] = IF i = Len(s)+1 THEN e ELSE s[i]
  BY AppendProperties, LenProperties, EmptySeq
<1>2. Append(s, e)[1] = s[1] /\ Append(s, e) # <<>>
  BY <1>1, EmptySeq
<1> QED BY <1>1, <1>2, HeadTailProperties

\* Induction on a finite set, for what a set of its subsets can say.
LEMMA InduccionConjunto ==
  ASSUME NEW S, IsFiniteSet(S), NEW K, {} \in K,
         \A V \in SUBSET S : \A x \in S \ V : V \in K => V \cup {x} \in K
  PROVE  SUBSET S \subseteq K
<1> DEFINE N == {n \in Nat : \A T \in SUBSET S : Cardinality(T) = n => T \in K}
<1>1. 0 \in N
  <2>1. ASSUME NEW T \in SUBSET S, Cardinality(T) = 0
        PROVE  T \in K
    <3>1. IsFiniteSet(T) BY FS_Subset
    <3>2. T = {} BY <3>1, <2>1, FS_EmptySet
    <3> QED BY <3>2
  <2> QED BY <2>1
<1>2. ASSUME NEW n \in Nat, n \in N
      PROVE  n + 1 \in N
  <2>1. ASSUME NEW T \in SUBSET S, Cardinality(T) = n + 1
        PROVE  T \in K
    <3>1. IsFiniteSet(T) BY FS_Subset
    <3>2. T # {}
      <4>1. Cardinality({}) = 0 BY FS_EmptySet
      <4>2. n + 1 # 0 OBVIOUS
      <4> QED BY ONLY <4>1, <4>2, <2>1, Zenon
    <3>3. PICK x \in T : TRUE BY <3>2
    <3>4. Cardinality(T \ {x}) = n
      <4>1. Cardinality(T \ {x}) = Cardinality(T) - 1 BY <3>1, <3>3, FS_RemoveElement
      <4> QED BY <4>1, <2>1
    <3>5. T \ {x} \in SUBSET S /\ x \in S \ (T \ {x}) /\ (T \ {x}) \cup {x} = T
      BY <3>3
    <3>6. T \ {x} \in K BY <3>4, <3>5, <1>2
    <3> QED BY <3>5, <3>6
  <2> QED BY <2>1
<1>3. Nat \subseteq N
  <2> HIDE DEF N
  <2> QED BY <1>1, <1>2, Induccion
<1>4. ASSUME NEW T \in SUBSET S
      PROVE  T \in K
  <2>1. Cardinality(T) \in Nat BY FS_Subset, FS_CardinalityType
  <2> QED BY <2>1, <1>3
<1> QED BY <1>4

Alguno(s) == CHOOSE x \in s : TRUE

\* What the sums of the subsets of S are, one element at a time.
EsSuma(g, f, S) ==
  g = [s \in SUBSET S |-> IF s = {} THEN 0 ELSE f[Alguno(s)] + g[s \ {Alguno(s)}]]

\* There is such a function of the subsets of a finite set.
LEMMA HaySuma ==
  ASSUME NEW S, IsFiniteSet(S), NEW f
  PROVE  \E g : EsSuma(g, f, S)
<1> DEFINE Hasta(n) == {s \in SUBSET S : Cardinality(s) <= n}
           Suma(n) == \E g : g = [s \in Hasta(n) |-> IF s = {} THEN 0
                                       ELSE f[Alguno(s)] + g[s \ {Alguno(s)}]]
           N == {n \in Nat : Suma(n)}
<1>0. \A s \in SUBSET S : IsFiniteSet(s) /\ Cardinality(s) \in Nat
  BY FS_Subset, FS_CardinalityType
<1>1. 0 \in N
  <2> DEFINE g == [s \in Hasta(0) |-> 0]
  <2>1. \A s \in Hasta(0) : s = {}
    BY <1>0, FS_EmptySet
  <2>2. g = [s \in Hasta(0) |-> IF s = {} THEN 0 ELSE f[Alguno(s)] + g[s \ {Alguno(s)}]]
    <3> HIDE DEF Hasta
    <3> QED BY <2>1
  <2> HIDE DEF g
  <2> QED BY <2>2
<1>2. ASSUME NEW n \in Nat, n \in N
      PROVE  n + 1 \in N
  <2>1. PICK g : g = [s \in Hasta(n) |-> IF s = {} THEN 0
                                       ELSE f[Alguno(s)] + g[s \ {Alguno(s)}]]
    BY <1>2
  <2> DEFINE h == [s \in Hasta(n+1) |-> IF s = {} THEN 0
                                       ELSE f[Alguno(s)] + g[s \ {Alguno(s)}]]
  <2>2. \A s \in Hasta(n) : h[s] = g[s] /\ s \in Hasta(n+1)
    <3>1. Hasta(n) \subseteq Hasta(n+1) BY <1>0
    <3> HIDE DEF Hasta
    <3> QED BY <2>1, <3>1
  <2>3. \A s \in Hasta(n+1) : s # {} => s \ {Alguno(s)} \in Hasta(n)
    <3>1. ASSUME NEW s \in Hasta(n+1), s # {}
          PROVE  s \ {Alguno(s)} \in Hasta(n)
      <4>1. Alguno(s) \in s BY <3>1 DEF Alguno
      <4>2. Cardinality(s \ {Alguno(s)}) = Cardinality(s) - 1
        BY <4>1, <1>0, FS_RemoveElement
      <4>3. s \ {Alguno(s)} \in SUBSET S /\ Cardinality(s) \in Nat BY <1>0
      <4> QED BY <4>2, <4>3
    <3> QED BY <3>1
  <2>4. h = [s \in Hasta(n+1) |-> IF s = {} THEN 0
                                       ELSE f[Alguno(s)] + h[s \ {Alguno(s)}]]
    <3>1. \A s \in Hasta(n+1) : s # {} => h[s \ {Alguno(s)}] = g[s \ {Alguno(s)}]
      BY <2>2, <2>3
    <3> HIDE DEF Hasta
    <3> QED BY <3>1
  <2> HIDE DEF h, Hasta
  <2>5. Suma(n+1)
    BY ONLY <2>4
  <2> HIDE DEF Suma
  <2> QED BY ONLY <2>5, n \in Nat
<1>3. Nat \subseteq N
  <2> HIDE DEF N
  <2> QED BY <1>1, <1>2, Induccion
<1>4. PICK n \in Nat : n = Cardinality(S)
  BY FS_CardinalityType
<1>5. Hasta(n) = SUBSET S
  BY <1>4, <1>0, FS_Subset
<1>6. n \in N
  BY <1>3
<1> QED BY <1>5, <1>6 DEF EsSuma

\* The sum of the library is one of them.
LEMMA SumaEsSuma ==
  ASSUME NEW S, IsFiniteSet(S), NEW f
  PROVE  \E g : EsSuma(g, f, S) /\ SumFunctionOnSet(f, S) = g[S]
<1> DEFINE iter == CHOOSE iter : iter = [s \in SUBSET S |-> IF s = {} THEN 0
                     ELSE LET x == CHOOSE x \in s : TRUE IN f[x] + iter[s \ {x}]]
<1>1. SumFunctionOnSet(f, S) = iter[S]
  BY DEF SumFunctionOnSet, FoldFunctionOnSet, MapThenFoldSet
<1>2. EsSuma(iter, f, S)
  <2>1. \E g : g = [s \in SUBSET S |-> IF s = {} THEN 0
                     ELSE LET x == CHOOSE x \in s : TRUE IN f[x] + g[s \ {x}]]
    <3>1. PICK g : EsSuma(g, f, S)
      BY HaySuma
    <3>2. g = [s \in SUBSET S |-> IF s = {} THEN 0
                     ELSE LET x == CHOOSE x \in s : TRUE IN f[x] + g[s \ {x}]]
      BY <3>1, Zenon DEF EsSuma, Alguno
    <3> QED BY <3>2, Zenon
  <2>2. iter = [s \in SUBSET S |-> IF s = {} THEN 0
                     ELSE LET x == CHOOSE x \in s : TRUE IN f[x] + iter[s \ {x}]]
    BY <2>1, Zenon
  <2> HIDE DEF iter
  <2> QED BY <2>2, Zenon DEF EsSuma, Alguno
<1> QED BY <1>1, <1>2

\* It is a sum: any element may be the last one added.
SeSuma(g, f, S) ==
  /\ g[{}] = 0
  /\ \A T \in SUBSET S : g[T] \in Int /\ \A x \in T : g[T] = f[x] + g[T \ {x}]

\* The order in which the elements are added does not matter.
LEMMA SumaEnCualquierOrden ==
  ASSUME NEW S, IsFiniteSet(S), NEW f, \A x \in S : f[x] \in Int,
         NEW g, EsSuma(g, f, S)
  PROVE  SeSuma(g, f, S)
<1> DEFINE Bien(T) == g[T] \in Int /\ \A x \in T : g[T] = f[x] + g[T \ {x}]
           N == {n \in Nat : \A T \in SUBSET S : Cardinality(T) <= n => Bien(T)}
<1>0. \A T \in SUBSET S : IsFiniteSet(T) /\ Cardinality(T) \in Nat
  BY FS_Subset, FS_CardinalityType
<1>1. /\ g[{}] = 0
      /\ \A T \in SUBSET S : T # {} => /\ Alguno(T) \in T
                                       /\ g[T] = f[Alguno(T)] + g[T \ {Alguno(T)}]
  <2>1. \A T \in SUBSET S : g[T] = IF T = {} THEN 0 ELSE f[Alguno(T)] + g[T \ {Alguno(T)}]
    BY DEF EsSuma
  <2>2. \A T : T # {} => Alguno(T) \in T
    BY DEF Alguno
  <2> QED BY <2>1, <2>2
<1>2. Bien({})
  BY <1>1
<1>3. 0 \in N
  <2>1. ASSUME NEW T \in SUBSET S, Cardinality(T) <= 0
        PROVE  T = {}
    BY <2>1, <1>0, FS_EmptySet
  <2> HIDE DEF Bien
  <2> QED BY <2>1, <1>2
<1>4. ASSUME NEW n \in Nat, n \in N
      PROVE  n + 1 \in N
  <2>1. ASSUME NEW T \in SUBSET S, Cardinality(T) <= n + 1, T # {}
        PROVE  Bien(T)
    <3>1. \A x \in T : Bien(T \ {x})
      <4>1. ASSUME NEW x \in T
            PROVE  Bien(T \ {x})
        <5>1. Cardinality(T \ {x}) = Cardinality(T) - 1
          BY <1>0, FS_RemoveElement
        <5>2. Cardinality(T \ {x}) <= n /\ T \ {x} \in SUBSET S
          <6>1. Cardinality(T) \in Nat BY <1>0
          <6> QED BY <5>1, <6>1, <2>1
        <5> HIDE DEF Bien
        <5> QED BY <5>2, <1>4
      <4> HIDE DEF Bien
      <4> QED BY <4>1
    <3>2. PICK c \in T : g[T] = f[c] + g[T \ {c}]
      BY <1>1, <2>1
    <3>3. ASSUME NEW x \in T
          PROVE  g[T] = f[x] + g[T \ {x}]
      <4>1. CASE x = c
        BY <3>2, <4>1
      <4>2. CASE x # c
        <5>1. x \in T \ {c} /\ c \in T \ {x} /\ (T \ {c}) \ {x} = (T \ {x}) \ {c}
          BY <4>2
        <5>2. g[T \ {c}] = f[x] + g[(T \ {c}) \ {x}] /\ g[T \ {x}] = f[c] + g[(T \ {x}) \ {c}]
          BY <5>1, <3>1
        <5>3. Bien((T \ {c}) \ {x})
          <6>1. (T \ {c}) \ {x} \in SUBSET S /\ Cardinality((T \ {c}) \ {x}) <= n
            <7>1. Cardinality(T \ {c}) = Cardinality(T) - 1
              BY <1>0, FS_RemoveElement
            <7>2. T \ {c} \in SUBSET S /\ x \in T \ {c}
              BY <5>1
            <7>3. Cardinality((T \ {c}) \ {x}) = Cardinality(T \ {c}) - 1
              BY <7>2, <1>0, FS_RemoveElement
            <7>4. Cardinality(T) \in Nat BY <1>0
            <7> QED BY <7>1, <7>3, <7>4, <2>1
          <6> HIDE DEF Bien
          <6> QED BY <6>1, <1>4
        <5>4. g[(T \ {c}) \ {x}] \in Int /\ f[x] \in Int /\ f[c] \in Int
          BY <5>3
        <5>5. PICK r \in Int : r = g[(T \ {c}) \ {x}] /\ r = g[(T \ {x}) \ {c}]
          BY <5>1, <5>4
        <5>6. PICK a \in Int, b \in Int : a = f[x] /\ b = f[c]
          BY <5>4
        <5>7. g[T] = b + (a + r) /\ f[x] + g[T \ {x}] = a + (b + r)
          BY ONLY <3>2, <5>2, <5>5, <5>6
        <5> QED BY ONLY <5>7, a \in Int, b \in Int, r \in Int
      <4> QED BY <4>1, <4>2
    <3>4. g[T] \in Int
      <4>1. g[T \ {c}] \in Int /\ f[c] \in Int
        BY <3>1
      <4> QED BY <3>2, <4>1
    <3> QED BY <3>3, <3>4
  <2> HIDE DEF Bien
  <2> QED BY <2>1, <1>2
<1>5. Nat \subseteq N
  <2> HIDE DEF N
  <2> QED BY <1>3, <1>4, Induccion
<1>6. ASSUME NEW T \in SUBSET S
      PROVE  Bien(T)
  <2>1. Cardinality(T) \in Nat BY <1>0
  <2>2. Cardinality(T) \in N BY <2>1, <1>5
  <2> HIDE DEF Bien
  <2> QED BY <2>1, <2>2
<1> QED BY <1>1, <1>6 DEF SeSuma

\* Two sums of the same values over the same elements, inside larger sets or not.
LEMMA SumasIguales ==
  ASSUME NEW S, IsFiniteSet(S), NEW f, \A x \in S : f[x] \in Int, NEW g, EsSuma(g, f, S),
         NEW T, IsFiniteSet(T), NEW k, \A x \in T : k[x] \in Int, NEW h, EsSuma(h, k, T),
         NEW U \in SUBSET (S \cap T), \A x \in U : f[x] = k[x]
  PROVE  g[U] = h[U]
<1> DEFINE K == {V \in SUBSET U : g[V] = h[V]}
<1>1. g[{}] = 0 /\ \A V \in SUBSET S : g[V] \in Int /\ \A x \in V : g[V] = f[x] + g[V \ {x}]
  <2>1. SeSuma(g, f, S) BY SumaEnCualquierOrden
  <2> QED BY <2>1 DEF SeSuma
<1>2. h[{}] = 0 /\ \A V \in SUBSET T : h[V] \in Int /\ \A x \in V : h[V] = k[x] + h[V \ {x}]
  <2>1. SeSuma(h, k, T) BY SumaEnCualquierOrden
  <2> QED BY <2>1 DEF SeSuma
<1>3. {} \in K
  BY <1>1, <1>2
<1>4. ASSUME NEW V \in SUBSET U, NEW x \in U \ V, V \in K
      PROVE  V \cup {x} \in K
  <2>1. (V \cup {x}) \ {x} = V /\ x \in V \cup {x} /\ V \cup {x} \in SUBSET U
    OBVIOUS
  <2>2. g[V \cup {x}] = f[x] + g[V] /\ h[V \cup {x}] = k[x] + h[V]
    <3>1. V \cup {x} \in SUBSET S /\ V \cup {x} \in SUBSET T
      OBVIOUS
    <3>2. g[V \cup {x}] = f[x] + g[(V \cup {x}) \ {x}]
      BY <3>1, <2>1, <1>1
    <3>3. h[V \cup {x}] = k[x] + h[(V \cup {x}) \ {x}]
      BY <3>1, <2>1, <1>2
    <3> QED BY <3>2, <3>3, <2>1
  <2> QED BY <2>1, <2>2, <1>4
<1>5. IsFiniteSet(U)
  BY FS_Subset
<1>6. SUBSET U \subseteq K
  <2> HIDE DEF K
  <2> QED BY <1>3, <1>4, <1>5, InduccionConjunto
<1> QED BY <1>6

\* What a sum over a finite set is, one element at a time.
LEMMA SumaCero ==
  ASSUME NEW f
  PROVE  SumFunctionOnSet(f, {}) = 0
<1>1. PICK g : EsSuma(g, f, {}) /\ SumFunctionOnSet(f, {}) = g[{}]
  BY SumaEsSuma, FS_EmptySet
<1> QED BY <1>1 DEF EsSuma

\* One more element adds its value.
LEMMA SumaCon ==
  ASSUME NEW S, IsFiniteSet(S), NEW x, x \notin S, NEW f, \A y \in S \cup {x} : f[y] \in Int
  PROVE  /\ SumFunctionOnSet(f, S) \in Int
         /\ SumFunctionOnSet(f, S \cup {x}) = SumFunctionOnSet(f, S) + f[x]
<1> DEFINE T == S \cup {x}
<1>0. IsFiniteSet(T)
  BY FS_AddElement
<1>1. PICK g : EsSuma(g, f, S) /\ SumFunctionOnSet(f, S) = g[S]
  BY SumaEsSuma
<1>2. PICK h : EsSuma(h, f, T) /\ SumFunctionOnSet(f, T) = h[T]
  BY SumaEsSuma, <1>0
<1>3. g[S] = h[S]
  <2>1. S \in SUBSET (S \cap T) /\ \A y \in T : f[y] \in Int
    OBVIOUS
  <2> HIDE DEF T
  <2> QED BY <1>0, <1>1, <1>2, <2>1, SumasIguales
<1>4. g[S] \in Int
  <2>1. SeSuma(g, f, S) BY <1>1, SumaEnCualquierOrden
  <2> QED BY <2>1 DEF SeSuma
<1>5. h[T] = f[x] + h[S]
  <2>1. T \ {x} = S /\ x \in T /\ \A y \in T : f[y] \in Int
    OBVIOUS
  <2> HIDE DEF T
  <2>2. \A V \in SUBSET T : \A y \in V : h[V] = f[y] + h[V \ {y}]
    <3>1. SeSuma(h, f, T) BY <1>0, <1>2, <2>1, SumaEnCualquierOrden
    <3> QED BY <3>1 DEF SeSuma
  <2> QED BY <2>1, <2>2
<1>6. f[x] \in Int
  OBVIOUS
<1> QED BY <1>1, <1>2, <1>3, <1>4, <1>5, <1>6

\* A sum depends only on the values at the elements summed.
LEMMA SumaMisma ==
  ASSUME NEW S, IsFiniteSet(S), NEW f, NEW k, \A x \in S : f[x] \in Int /\ k[x] = f[x]
  PROVE  SumFunctionOnSet(k, S) = SumFunctionOnSet(f, S)
<1>1. PICK g : EsSuma(g, f, S) /\ SumFunctionOnSet(f, S) = g[S]
  BY SumaEsSuma
<1>2. PICK h : EsSuma(h, k, S) /\ SumFunctionOnSet(k, S) = h[S]
  BY SumaEsSuma
<1>3. \A x \in S : k[x] \in Int /\ f[x] = k[x] /\ f[x] \in Int
  OBVIOUS
<1>4. S \in SUBSET (S \cap S)
  OBVIOUS
<1>5. g[S] = h[S]
  BY ONLY IsFiniteSet(S), <1>1, <1>2, <1>3, <1>4, SumasIguales
<1> QED BY <1>1, <1>2, <1>5

\* One less takes it away.
LEMMA SumaSin ==
  ASSUME NEW S, IsFiniteSet(S), NEW x \in S, NEW f, \A y \in S : f[y] \in Int
  PROVE  /\ SumFunctionOnSet(f, S \ {x}) \in Int
         /\ SumFunctionOnSet(f, S) = SumFunctionOnSet(f, S \ {x}) + f[x]
<1> DEFINE T == S \ {x}
<1>1. IsFiniteSet(T) /\ x \notin T /\ T \cup {x} = S
  BY FS_RemoveElement
<1>2. \A y \in T \cup {x} : f[y] \in Int
  BY <1>1
<1> HIDE DEF T
<1>3. /\ SumFunctionOnSet(f, T) \in Int
      /\ SumFunctionOnSet(f, T \cup {x}) = SumFunctionOnSet(f, T) + f[x]
  BY <1>1, <1>2, SumaCon
<1> QED BY <1>1, <1>3 DEF T

\* Sums of what cannot be negative: they grow with the set.
LEMMA SumaMenor ==
  ASSUME NEW S, IsFiniteSet(S), NEW T \in SUBSET S, NEW f, \A y \in S : f[y] \in Nat
  PROVE  /\ SumFunctionOnSet(f, S) \in Nat /\ SumFunctionOnSet(f, T) \in Nat
         /\ SumFunctionOnSet(f, T) <= SumFunctionOnSet(f, S)
<1> DEFINE Crece(V) == /\ SumFunctionOnSet(f, V) \in Nat
                       /\ \A U \in SUBSET V : /\ SumFunctionOnSet(f, U) \in Nat
                                              /\ SumFunctionOnSet(f, U) <= SumFunctionOnSet(f, V)
           K == {V \in SUBSET S : Crece(V)}
<1>1. {} \in K
  <2>1. Crece({})
    BY SumaCero
  <2> HIDE DEF Crece
  <2> QED BY <2>1
<1>2. ASSUME NEW V \in SUBSET S, NEW x \in S \ V, V \in K
      PROVE  V \cup {x} \in K
  <2>1. IsFiniteSet(V) /\ \A y \in V \cup {x} : f[y] \in Int
    BY FS_Subset
  <2>2. SumFunctionOnSet(f, V \cup {x}) = SumFunctionOnSet(f, V) + f[x]
    BY <2>1, SumaCon
  <2>3. SumFunctionOnSet(f, V) \in Nat /\ f[x] \in Nat
    BY <1>2
  <2>4. ASSUME NEW U \in SUBSET (V \cup {x})
        PROVE  /\ SumFunctionOnSet(f, U) \in Nat
               /\ SumFunctionOnSet(f, U) <= SumFunctionOnSet(f, V \cup {x})
    <3>1. CASE x \notin U
      <4>1. U \in SUBSET V BY <3>1
      <4>2. SumFunctionOnSet(f, U) \in Nat /\ SumFunctionOnSet(f, U) <= SumFunctionOnSet(f, V)
        BY <4>1, <1>2
      <4> QED BY ONLY <4>2, <2>2, <2>3
    <3>2. CASE x \in U
      <4>1. U \ {x} \in SUBSET V BY <3>2
      <4>2. /\ SumFunctionOnSet(f, U \ {x}) \in Nat
            /\ SumFunctionOnSet(f, U \ {x}) <= SumFunctionOnSet(f, V)
        BY <4>1, <1>2
      <4>3. IsFiniteSet(U) /\ \A y \in U : f[y] \in Int
        <5>1. IsFiniteSet(V \cup {x}) BY <2>1, FS_AddElement
        <5> QED BY <5>1, <2>1, FS_Subset
      <4>4. SumFunctionOnSet(f, U) = SumFunctionOnSet(f, U \ {x}) + f[x]
        BY <3>2, <4>3, SumaSin
      <4> QED BY ONLY <4>2, <4>4, <2>2, <2>3
    <3> QED BY <3>1, <3>2
  <2>5. SumFunctionOnSet(f, V \cup {x}) \in Nat
    BY <2>2, <2>3
  <2>6. Crece(V \cup {x})
    BY <2>4, <2>5
  <2> HIDE DEF Crece
  <2> QED BY <2>6
<1>3. SUBSET S \subseteq K
  <2> HIDE DEF K
  <2> QED BY <1>1, <1>2, InduccionConjunto
<1>4. Crece(S)
  <2> HIDE DEF Crece
  <2>1. S \in SUBSET S OBVIOUS
  <2> QED BY <2>1, <1>3
<1> QED BY <1>4

\* Of two sets with nothing in common.
LEMMA SumaUnion ==
  ASSUME NEW S, IsFiniteSet(S), NEW T, IsFiniteSet(T), S \cap T = {},
         NEW f, \A y \in S \cup T : f[y] \in Int
  PROVE  /\ SumFunctionOnSet(f, S) \in Int /\ SumFunctionOnSet(f, T) \in Int
         /\ SumFunctionOnSet(f, S \cup T) = SumFunctionOnSet(f, S) + SumFunctionOnSet(f, T)
<1> DEFINE Parte(V) == /\ SumFunctionOnSet(f, V) \in Int
                       /\ SumFunctionOnSet(f, S \cup V)
                            = SumFunctionOnSet(f, S) + SumFunctionOnSet(f, V)
           K == {V \in SUBSET T : Parte(V)}
<1>0. SumFunctionOnSet(f, S) \in Int
  <2> DEFINE W == {V \in SUBSET S : SumFunctionOnSet(f, V) \in Int}
  <2>1. {} \in W BY SumaCero
  <2>2. ASSUME NEW V \in SUBSET S, NEW x \in S \ V, V \in W
        PROVE  V \cup {x} \in W
    <3>1. IsFiniteSet(V) /\ \A y \in V \cup {x} : f[y] \in Int
      BY FS_Subset
    <3>2. SumFunctionOnSet(f, V \cup {x}) = SumFunctionOnSet(f, V) + f[x]
      BY <3>1, SumaCon
    <3>3. SumFunctionOnSet(f, V) \in Int /\ f[x] \in Int
      BY <2>2
    <3> QED BY <3>2, <3>3
  <2>3. SUBSET S \subseteq W
    <3> HIDE DEF W
    <3> QED BY <2>1, <2>2, InduccionConjunto
  <2> QED BY <2>3
<1>1. {} \in K
  <2>1. S \cup {} = S OBVIOUS
  <2>2. Parte({})
    BY <2>1, <1>0, SumaCero
  <2> HIDE DEF Parte
  <2> QED BY <2>2
<1>2. ASSUME NEW V \in SUBSET T, NEW x \in T \ V, V \in K
      PROVE  V \cup {x} \in K
  <2>1. IsFiniteSet(V) /\ \A y \in V \cup {x} : f[y] \in Int
    BY FS_Subset
  <2>2. SumFunctionOnSet(f, V \cup {x}) = SumFunctionOnSet(f, V) + f[x]
    BY <2>1, SumaCon
  <2>3. IsFiniteSet(S \cup V) /\ x \notin S \cup V /\ \A y \in (S \cup V) \cup {x} : f[y] \in Int
    BY <2>1, FS_Union
  <2>4. SumFunctionOnSet(f, (S \cup V) \cup {x}) = SumFunctionOnSet(f, S \cup V) + f[x]
    BY <2>3, SumaCon
  <2>5. (S \cup V) \cup {x} = S \cup (V \cup {x})
    OBVIOUS
  <2>6. /\ SumFunctionOnSet(f, V) \in Int /\ f[x] \in Int
        /\ SumFunctionOnSet(f, S \cup V) = SumFunctionOnSet(f, S) + SumFunctionOnSet(f, V)
    BY <1>2
  <2>7. Parte(V \cup {x})
    <3>1. PICK a \in Int, b \in Int, c \in Int :
            /\ a = SumFunctionOnSet(f, S) /\ b = SumFunctionOnSet(f, V) /\ c = f[x]
      BY <1>0, <2>6
    <3>2. SumFunctionOnSet(f, V \cup {x}) = b + c
      BY ONLY <2>2, <3>1
    <3>3. SumFunctionOnSet(f, S \cup (V \cup {x})) = (a + b) + c
      BY ONLY <2>4, <2>5, <2>6, <3>1
    <3>4. (a + b) + c = a + (b + c) /\ b + c \in Int
      BY ONLY a \in Int, b \in Int, c \in Int
    <3> QED BY <3>1, <3>2, <3>3, <3>4
  <2> HIDE DEF Parte
  <2> QED BY <2>7
<1>3. SUBSET T \subseteq K
  <2> HIDE DEF K
  <2>1. \A V \in SUBSET T : \A x \in T \ V : V \in K => V \cup {x} \in K
    BY <1>2
  <2> QED BY ONLY IsFiniteSet(T), <1>1, <2>1, InduccionConjunto
<1>4. Parte(T)
  <2> HIDE DEF Parte
  <2>1. T \in SUBSET T OBVIOUS
  <2> QED BY <2>1, <1>3
<1> QED BY <1>0, <1>4

\* An element put before another.
ConInsertado(r, s, i, e) ==
  /\ Len(r) = Len(s) + 1
  /\ \A j \in 1..Len(s)+1 : r[j] = IF j < i THEN s[j] ELSE IF j = i THEN e ELSE s[j-1]

\* A list with one more element somewhere.
LEMMA InsertarSeq ==
  ASSUME NEW S, NEW s \in Seq(S), NEW i \in DOMAIN s, NEW e \in S
  PROVE  /\ InsertAt(s, i, e) \in Seq(S) /\ ConInsertado(InsertAt(s, i, e), s, i, e)
         /\ ToSet(InsertAt(s, i, e)) = ToSet(s) \cup {e}
         /\ IsInjective(s) /\ e \notin ToSet(s) => IsInjective(InsertAt(s, i, e))
<1> DEFINE a == SubSeq(s, 1, i-1)
           b == SubSeq(s, i, Len(s))
           r == InsertAt(s, i, e)
<1>1. /\ DOMAIN s = 1..Len(s) /\ Len(s) \in Nat /\ i \in 1..Len(s)
      /\ \A j \in 1..Len(s) : s[j] \in S
  BY LenProperties
<1>2. a \in Seq(S) /\ Len(a) = i-1 /\ \A j \in 1..i-1 : a[j] = s[j]
  <2>1. \A j \in 1..i-1 : s[j] \in S BY <1>1
  <2> QED BY <2>1, <1>1, SubSeqProperties
<1>3. b \in Seq(S) /\ Len(b) = Len(s)-i+1 /\ \A j \in 1..Len(s)-i+1 : b[j] = s[i+j-1]
  <2>1. \A j \in i..Len(s) : s[j] \in S BY <1>1
  <2> QED BY <2>1, <1>1, SubSeqProperties
<1>4. r = (a \o <<e>>) \o b
  BY DEF InsertAt
<1> HIDE DEF a, b, r
<1>5. <<e>> \in Seq(S) /\ Len(<<e>>) = 1 /\ <<e>>[1] = e
  OBVIOUS
<1>6. /\ a \o <<e>> \in Seq(S) /\ Len(a \o <<e>>) = i
      /\ \A j \in 1..i : (a \o <<e>>)[j] = IF j <= i-1 THEN s[j] ELSE e
  <2>1. /\ a \o <<e>> \in Seq(S) /\ Len(a \o <<e>>) = Len(a) + 1
        /\ \A j \in 1..Len(a)+1 : (a \o <<e>>)[j] = IF j <= Len(a) THEN a[j] ELSE <<e>>[j-Len(a)]
    BY <1>2, <1>5, ConcatProperties
  <2>2. Len(a) + 1 = i
    BY <1>1, <1>2
  <2>3. ASSUME NEW j \in 1..i
        PROVE  (a \o <<e>>)[j] = IF j <= i-1 THEN s[j] ELSE e
    <3>1. CASE j <= i-1
      BY <2>1, <2>2, <1>1, <1>2, <3>1
    <3>2. CASE ~(j <= i-1)
      <4>1. j = i /\ j - Len(a) = 1
        BY <3>2, <1>1, <1>2
      <4> QED BY <2>1, <2>2, <1>1, <1>2, <1>5, <3>2, <4>1
    <3> QED BY <3>1, <3>2
  <2> QED BY <2>1, <2>2, <2>3
<1>7. /\ r \in Seq(S) /\ Len(r) = Len(s) + 1
      /\ \A j \in 1..Len(s)+1 : r[j] = IF j < i THEN s[j] ELSE IF j = i THEN e ELSE s[j-1]
  <2> DEFINE c == a \o <<e>>
  <2>0. c \in Seq(S) /\ Len(c) = i /\ \A j \in 1..i : c[j] = IF j <= i-1 THEN s[j] ELSE e
    BY <1>6
  <2> HIDE DEF c
  <2>1. /\ c \o b \in Seq(S) /\ Len(c \o b) = Len(c) + Len(b)
        /\ \A j \in 1..Len(c)+Len(b) : (c \o b)[j] = IF j <= Len(c) THEN c[j] ELSE b[j-Len(c)]
    BY <2>0, <1>3, ConcatProperties
  <2>2. Len(c) + Len(b) = Len(s) + 1
    BY <1>1, <1>3, <2>0
  <2>3. ASSUME NEW j \in 1..Len(s)+1
        PROVE  (c \o b)[j] = IF j < i THEN s[j] ELSE IF j = i THEN e ELSE s[j-1]
    <3>0. (c \o b)[j] = IF j <= i THEN c[j] ELSE b[j-i]
      BY <2>0, <2>1, <2>2
    <3>1. CASE j < i
      BY <3>0, <3>1, <2>0, <1>1
    <3>2. CASE j = i
      BY <3>0, <3>2, <2>0, <1>1
    <3>3. CASE j > i
      <4>1. j-i \in 1..Len(s)-i+1 /\ i+(j-i)-1 = j-1 /\ ~(j <= i)
        BY <3>3, <1>1
      <4>2. b[j-i] = s[j-1]
        BY <4>1, <1>3
      <4> QED BY <3>0, <3>3, <4>1, <4>2, <1>1
    <3>4. j \in Int /\ i \in Int
      BY <1>1
    <3>5. j < i \/ j = i \/ j > i
      BY ONLY <3>4
    <3> QED BY <3>1, <3>2, <3>3, <3>5
  <2> QED BY <2>1, <2>2, <2>3, <1>4 DEF c
<1>8. DOMAIN r = 1..Len(s)+1
  BY <1>7, LenProperties
<1>9. ToSet(r) = ToSet(s) \cup {e}
  <2>1. ASSUME NEW j \in 1..Len(s)+1
        PROVE  r[j] \in ToSet(s) \cup {e}
    <3>0. r[j] = IF j < i THEN s[j] ELSE IF j = i THEN e ELSE s[j-1]
      BY <1>7
    <3>1. j < i => j \in 1..Len(s)
      BY <1>1
    <3>2. ~(j < i) /\ j # i => j-1 \in 1..Len(s)
      BY <1>1
    <3>3. \A k \in 1..Len(s) : s[k] \in ToSet(s)
      BY <1>1 DEF ToSet
    <3> QED BY ONLY <3>0, <3>1, <3>2, <3>3
  <2>2. ASSUME NEW j \in 1..Len(s)
        PROVE  s[j] \in ToSet(r)
    <3>1. CASE j < i
      BY <3>1, <1>1, <1>7, <1>8 DEF ToSet
    <3>2. CASE ~(j < i)
      <4>1. j+1 \in 1..Len(s)+1 /\ ~(j+1 < i) /\ j+1 # i /\ (j+1)-1 = j
        BY <3>2, <1>1
      <4>2. r[j+1] = s[j]
        BY <4>1, <1>7
      <4> QED BY <4>1, <4>2, <1>8 DEF ToSet
    <3> QED BY <3>1, <3>2
  <2>3. e \in ToSet(r)
    <3>1. i \in 1..Len(s)+1 /\ r[i] = e BY <1>1, <1>7
    <3> QED BY <3>1, <1>8 DEF ToSet
  <2> QED BY <2>1, <2>2, <2>3, <1>1, <1>8 DEF ToSet
<1>10. ASSUME IsInjective(s), e \notin ToSet(s)
       PROVE  IsInjective(r)
  <2>1. \A x, y \in 1..Len(s) : s[x] = s[y] => x = y
    BY <1>1, <1>10 DEF IsInjective
  <2>2. \A x \in 1..Len(s) : s[x] # e
    BY <1>1, <1>10 DEF ToSet
  <2>3. ASSUME NEW x \in 1..Len(s)+1, NEW y \in 1..Len(s)+1, r[x] = r[y]
        PROVE  x = y
    <3> DEFINE o(j) == IF j < i THEN j ELSE j-1
    <3>1. \A j \in 1..Len(s)+1 : j # i => o(j) \in 1..Len(s) /\ r[j] = s[o(j)]
      BY <1>1, <1>7
    <3>2. CASE x = i
      BY <3>1, <3>2, <2>2, <2>3, <1>1, <1>7
    <3>3. CASE y = i
      BY <3>1, <3>3, <2>2, <2>3, <1>1, <1>7
    <3>4. CASE x # i /\ y # i
      <4>1. o(x) = o(y)
        <5> HIDE DEF o
        <5> QED BY <3>1, <3>4, <2>1, <2>3
      <4> QED BY <4>1, <3>4, <1>1
    <3> QED BY <3>2, <3>3, <3>4
  <2> QED BY <2>3, <1>8 DEF IsInjective
<1> QED BY <1>7, <1>9, <1>10 DEF r, ConInsertado

\* The elements of a list are finitely many.
LEMMA ElementosFinitos ==
  ASSUME NEW S, NEW s \in Seq(S)
  PROVE  /\ IsFiniteSet(ToSet(s)) /\ ToSet(s) \subseteq S
         /\ IsInjective(s) => Cardinality(ToSet(s)) = Len(s)
<1>1. DOMAIN s = 1..Len(s) /\ Len(s) \in Nat /\ s \in [1..Len(s) -> S]
  BY LenProperties
<1>2. s \in [1..Len(s) -> ToSet(s)] /\ ToSet(s) \subseteq S
  BY <1>1 DEF ToSet
<1>3. s \in Surjection(1..Len(s), ToSet(s))
  BY <1>1, <1>2 DEF Surjection, ToSet
<1>4. IsFiniteSet(1..Len(s)) /\ Cardinality(1..Len(s)) = Len(s)
  BY <1>1, FS_Interval, SMTT(20)
<1>5. IsFiniteSet(ToSet(s))
  BY <1>3, <1>4, FS_Surjection
<1>6. IsInjective(s) => Cardinality(ToSet(s)) = Len(s)
  <2>1. Cardinality(ToSet(s)) = Cardinality(1..Len(s)) <=> s \in Injection(1..Len(s), ToSet(s))
    BY <1>3, <1>4, FS_Surjection
  <2>2. IsInjective(s) => s \in Injection(1..Len(s), ToSet(s))
    BY <1>1, <1>2 DEF Injection
  <2> QED BY <2>1, <2>2, <1>4
<1> QED BY <1>2, <1>5, <1>6

\* Sorting finitely many things by numbers that tell them apart: the k-th is the one
\* with k - 1 before it.
LEMMA OrdenPorLugar ==
  ASSUME NEW S, IsFiniteSet(S), NEW f, \A x \in S : f[x] \in Int,
         \A x, y \in S : f[x] = f[y] => x = y,
         NEW D, \A x \in S : D[x] = {y \in S : f[y] < f[x]}
  PROVE  /\ \A x \in S : Cardinality(D[x]) \in 0..Cardinality(S)-1
         /\ \A x, y \in S : f[x] < f[y] => Cardinality(D[x]) < Cardinality(D[y])
         /\ \A x, y \in S : Cardinality(D[x]) = Cardinality(D[y]) => x = y
         /\ \A k \in 0..Cardinality(S)-1 : \E x \in S : Cardinality(D[x]) = k
<1> DEFINE n == Cardinality(S)
           c == [x \in S |-> Cardinality(D[x])]
<1>0. n \in Nat
  BY FS_CardinalityType
<1>1. \A x \in S : D[x] \in SUBSET S /\ IsFiniteSet(D[x]) /\ Cardinality(D[x]) \in Nat
  BY FS_Subset, FS_CardinalityType
<1>2. ASSUME NEW x \in S
      PROVE  Cardinality(D[x]) \in 0..n-1
  <2>1. D[x] \in SUBSET (S \ {x}) /\ IsFiniteSet(S \ {x}) /\ Cardinality(S \ {x}) = n - 1
    BY <1>1, FS_RemoveElement
  <2>2. Cardinality(D[x]) <= n - 1
    BY <2>1, FS_Subset
  <2> QED BY <1>0, <1>1, <2>2
<1>3. ASSUME NEW x \in S, NEW y \in S, f[x] < f[y]
      PROVE  Cardinality(D[x]) < Cardinality(D[y])
  <2>1. D[x] \in SUBSET (D[y] \ {x}) /\ x \in D[y]
    <3>1. \A z \in S : f[z] < f[x] => f[z] < f[y] /\ z # x
      BY <1>3
    <3> QED BY <1>3, <3>1
  <2>2. IsFiniteSet(D[y] \ {x}) /\ Cardinality(D[y] \ {x}) = Cardinality(D[y]) - 1
    BY <1>1, <2>1, FS_RemoveElement
  <2>3. Cardinality(D[x]) <= Cardinality(D[y]) - 1
    BY <2>1, <2>2, FS_Subset
  <2> QED BY <2>3, <1>1
<1>4. ASSUME NEW x \in S, NEW y \in S, Cardinality(D[x]) = Cardinality(D[y])
      PROVE  x = y
  <2>1. ~(f[x] < f[y]) /\ ~(f[y] < f[x])
    BY <1>3, <1>4, <1>1
  <2> QED BY <2>1
<1>5. c \in Injection(S, 0..n-1)
  <2>1. c \in [S -> 0..n-1]
    BY <1>2
  <2>2. IsInjective(c)
    BY <1>4 DEF IsInjective
  <2> QED BY <2>1, <2>2 DEF Injection
<1>6. IsFiniteSet(0..n-1) /\ Cardinality(0..n-1) = n
  <2>1. IsFiniteSet(0..n-1) /\ Cardinality(0..n-1) = IF 0 > n-1 THEN 0 ELSE n-1-0+1
    <3>1. 0 \in Int /\ n-1 \in Int BY <1>0
    <3> HIDE DEF n
    <3> QED BY ONLY <3>1, FS_Interval
  <2> HIDE DEF n
  <2> QED BY ONLY <1>0, <2>1
<1>7. c \in Surjection(S, 0..n-1)
  <2> HIDE DEF c, n
  <2> QED BY <1>5, <1>6, FS_Injection DEF n
<1>8. \A k \in 0..n-1 : \E x \in S : Cardinality(D[x]) = k
  BY <1>7 DEF Surjection
<1> QED BY <1>2, <1>3, <1>4, <1>8

\* Of the same number for each.
LEMMA SumaConstante ==
  ASSUME NEW S, IsFiniteSet(S), NEW f, NEW c \in Int, \A x \in S : f[x] = c
  PROVE  SumFunctionOnSet(f, S) = Cardinality(S) * c
<1> DEFINE K == {V \in SUBSET S : SumFunctionOnSet(f, V) = Cardinality(V) * c}
<1>1. {} \in K
  <2>1. Cardinality({}) = 0 BY FS_EmptySet
  <2>2. 0 * c = 0 OBVIOUS
  <2> QED BY <2>1, <2>2, SumaCero
<1>2. ASSUME NEW V \in SUBSET S, NEW x \in S \ V, V \in K
      PROVE  V \cup {x} \in K
  <2>1. IsFiniteSet(V) /\ Cardinality(V) \in Nat /\ \A y \in V \cup {x} : f[y] \in Int
    BY FS_Subset, FS_CardinalityType
  <2>2. SumFunctionOnSet(f, V \cup {x}) = SumFunctionOnSet(f, V) + f[x]
    BY <2>1, SumaCon
  <2>3. Cardinality(V \cup {x}) = Cardinality(V) + 1
    BY <2>1, FS_AddElement
  <2>4. SumFunctionOnSet(f, V) = Cardinality(V) * c /\ f[x] = c
    BY <1>2
  <2>5. PICK n \in Nat : n = Cardinality(V)
    BY <2>1
  <2>6. (n + 1) * c = n * c + c
    BY ONLY n \in Nat, c \in Int
  <2>7. SumFunctionOnSet(f, V \cup {x}) = Cardinality(V \cup {x}) * c
    BY ONLY <2>2, <2>3, <2>4, <2>5, <2>6
  <2> QED BY <2>7
<1>3. SUBSET S \subseteq K
  <2> HIDE DEF K
  <2>1. \A V \in SUBSET S : \A x \in S \ V : V \in K => V \cup {x} \in K
    BY <1>2
  <2> QED BY ONLY IsFiniteSet(S), <1>1, <2>1, InduccionConjunto
<1> QED BY <1>3

\* The same, of the set of the elements of a list.
LEMMA SacarToSet ==
  ASSUME NEW S, NEW s \in Seq(S), NEW i \in DOMAIN s
  PROVE  /\ s[i] \in S /\ s[i] \in ToSet(s) /\ RemoveAt(s, i) \in Seq(S)
         /\ ToSet(RemoveAt(s, i)) \subseteq ToSet(s)
         /\ IsInjective(s) => /\ IsInjective(RemoveAt(s, i))
                              /\ s[i] \notin ToSet(RemoveAt(s, i))
<1>1. \A r : ToSet(r) = Range(r)
  BY DEF ToSet, Range
<1> QED BY ONLY <1>1, SacarSeq, s \in Seq(S), i \in DOMAIN s

\* The elements at the other places are still there.
LEMMA SacarDeja ==
  ASSUME NEW S, NEW s \in Seq(S), NEW i \in DOMAIN s, NEW k \in DOMAIN s, k # i
  PROVE  s[k] \in ToSet(RemoveAt(s, i))
<1>1. /\ DOMAIN s = 1..Len(s) /\ Len(s) \in Nat /\ \A j \in 1..Len(s) : s[j] \in S
  BY LenProperties
<1> DEFINE a == SubSeq(s, 1, i-1)
           b == SubSeq(s, i+1, Len(s))
<1>2. a \in Seq(S) /\ Len(a) = i-1 /\ \A j \in 1..i-1 : a[j] = s[j]
  <2>1. \A j \in 1..i-1 : s[j] \in S BY <1>1
  <2> QED BY <2>1, <1>1, SubSeqProperties
<1>3. b \in Seq(S) /\ Len(b) = Len(s)-i /\ \A j \in 1..Len(s)-i : b[j] = s[i+j]
  <2>1. \A j \in i+1..Len(s) : s[j] \in S BY <1>1
  <2> QED BY <2>1, <1>1, SubSeqProperties
<1>4. RemoveAt(s, i) = a \o b
  BY DEF RemoveAt
<1> HIDE DEF a, b
<1>5. /\ DOMAIN (a \o b) = 1..Len(a) + Len(b) /\ Len(a) \in Nat /\ Len(b) \in Nat
      /\ \A j \in 1..Len(a) + Len(b) : (a \o b)[j] = IF j <= Len(a) THEN a[j] ELSE b[j - Len(a)]
  <2>1. a \in Seq(S) /\ b \in Seq(S)
    BY <1>2, <1>3
  <2>2. /\ a \o b \in Seq(S) /\ Len(a \o b) = Len(a) + Len(b)
        /\ \A j \in 1..Len(a) + Len(b) :
             (a \o b)[j] = IF j <= Len(a) THEN a[j] ELSE b[j - Len(a)]
    BY ONLY <2>1, ConcatProperties
  <2>3. /\ Len(a) \in Nat /\ Len(b) \in Nat /\ DOMAIN (a \o b) = 1..Len(a \o b)
    BY ONLY <2>1, <2>2, LenProperties
  <2> QED BY ONLY <2>2, <2>3
<1>6. \A e \in 1..Len(a) + Len(b) : (a \o b)[e] \in ToSet(a \o b)
  BY <1>5 DEF ToSet
<1>7. PICK n \in Nat, x \in Nat, y \in Nat, la \in Nat, lb \in Nat :
        /\ n = Len(s) /\ x = i /\ y = k /\ la = Len(a) /\ lb = Len(b)
        /\ 1 <= x /\ x <= n /\ 1 <= y /\ y <= n /\ x # y /\ la = x-1 /\ lb = n-x
  <2>1. Len(s) \in Nat /\ i \in 1..Len(s) /\ k \in 1..Len(s)
    BY <1>1
  <2>2. /\ i \in Nat /\ k \in Nat /\ i-1 \in Nat /\ Len(s)-i \in Nat
        /\ 1 <= i /\ i <= Len(s) /\ 1 <= k /\ k <= Len(s)
    BY ONLY <2>1
  <2>3. Len(a) \in Nat /\ Len(b) \in Nat /\ Len(a) = i-1 /\ Len(b) = Len(s)-i
    BY <1>2, <1>3, <2>2
  <2> QED BY ONLY <2>1, <2>2, <2>3, k # i
<1>8. CASE k < i
  <2>1. k \in 1..i-1 /\ k \in 1..Len(a) + Len(b) /\ k <= Len(a)
    BY <1>7, <1>8
  <2>2. (a \o b)[k] = s[k]
    BY <1>2, <1>5, <2>1
  <2> QED BY <1>4, <1>6, <2>1, <2>2
<1>9. CASE ~(k < i)
  <2>0. ~(y < x)
    BY <1>7, <1>9
  <2>1. /\ k-1 \in 1..Len(a) + Len(b) /\ ~(k-1 <= Len(a)) /\ (k-1) - Len(a) = k-i
        /\ k-i \in 1..n-i /\ i + (k-i) = k
    <3>1. /\ y-1 \in 1..la+lb /\ ~(y-1 <= la) /\ (y-1)-la = y-x
          /\ y-x \in 1..n-x /\ x + (y-x) = y
      <4>1. x < y /\ 1 <= x /\ y <= n /\ la = x-1 /\ lb = n-x
        BY <1>7, <2>0
      <4>2. y-1 \in 1..la+lb
        BY ONLY <4>1, n \in Nat, x \in Nat, y \in Nat, la \in Nat, lb \in Nat
      <4>3. ~(y-1 <= la) /\ (y-1)-la = y-x /\ y-x \in 1..n-x /\ x + (y-x) = y
        BY ONLY <4>1, n \in Nat, x \in Nat, y \in Nat, la \in Nat, lb \in Nat
      <4> QED BY <4>2, <4>3
    <3> QED BY ONLY <1>7, <3>1
  <2>2. b[k-i] = s[k]
    BY <1>3, <1>7, <2>1
  <2>3. (a \o b)[k-1] = b[(k-1) - Len(a)]
    BY ONLY <1>5, <2>1
  <2> QED BY <1>4, <1>6, <2>1, <2>2, <2>3
<1> QED BY <1>8, <1>9

\* The first of a list and the others.
LEMMA CabezaYCola ==
  ASSUME NEW S, NEW s \in Seq(S), s # <<>>
  PROVE  /\ Head(s) \in S /\ Tail(s) \in Seq(S) /\ ToSet(s) = ToSet(Tail(s)) \cup {Head(s)}
         /\ IsInjective(s) => IsInjective(Tail(s)) /\ Head(s) \notin ToSet(Tail(s))
<1>0. \A r : ToSet(r) = Range(r)
  BY DEF ToSet, Range
<1>1. /\ Head(s) \in S /\ Head(s) \in ToSet(s) /\ Tail(s) \in Seq(S)
      /\ ToSet(Tail(s)) \subseteq ToSet(s)
      /\ IsInjective(s) => IsInjective(Tail(s)) /\ Head(s) \notin ToSet(Tail(s))
  BY ONLY <1>0, QuitarSeq, s \in Seq(S), s # <<>>
<1>2. ToSet(s) \subseteq ToSet(Tail(s)) \cup {Head(s)}
  <2>1. /\ DOMAIN s = 1..Len(s) /\ Len(s) \in Nat \ {0} /\ Head(s) = s[1]
        /\ DOMAIN Tail(s) = 1..Len(s)-1 /\ \A i \in 1..Len(s)-1 : Tail(s)[i] = s[i+1]
    BY HeadTailProperties, LenProperties, EmptySeq
  <2>2. ASSUME NEW i \in 1..Len(s)
        PROVE  s[i] \in ToSet(Tail(s)) \cup {Head(s)}
    <3>1. CASE i = 1
      BY <2>1, <3>1
    <3>2. CASE i # 1
      <4>1. i-1 \in 1..Len(s)-1 /\ (i-1)+1 = i
        BY <2>1, <3>2
      <4>2. Tail(s)[i-1] = s[i]
        BY <2>1, <4>1
      <4> QED BY <2>1, <4>1, <4>2 DEF ToSet
    <3> QED BY <3>1, <3>2
  <2> QED BY <2>1, <2>2 DEF ToSet
<1> QED BY <1>1, <1>2

\* What FlattenSeq builds, one list after another.
EsAplanado(g, t) ==
  g = [i \in 1..Len(t) |-> IF i = 1 THEN t[i] ELSE g[i - 1] \o t[i]]

\* The lists of a list, put together; with nothing in it nothing is.
LEMMA AplanarSeq ==
  ASSUME NEW S, NEW t \in Seq(Seq(S)), t # <<>>
  PROVE  FlattenSeq(t) \in Seq(S) /\ Len(FlattenSeq(t)) >= Len(t[Len(t)])
<1>1. PICK n \in Nat \ {0} : n = Len(t)
  BY EmptySeq
<1>2. \A i \in 1..n : t[i] \in Seq(S)
  BY <1>1, ElementOfSeq
<1> DEFINE Va(g, k) == /\ g \in [1..k -> Seq(S)]
                       /\ \A i \in 1..k : g[i] = IF i = 1 THEN t[i] ELSE g[i - 1] \o t[i]
           K == {k \in Nat : k <= n => \E g : Va(g, k)}
<1> HIDE DEF Va
<1>3. 0 \in K
  <2>1. Va([i \in 1..0 |-> t[i]], 0)
    BY DEF Va
  <2> QED BY <2>1
<1>4. ASSUME NEW k \in Nat, k \in K PROVE k + 1 \in K
  <2>1. SUFFICES ASSUME k + 1 <= n PROVE \E h : Va(h, k + 1)
    OBVIOUS
  <2>2. PICK g : Va(g, k)
    <3>1. k <= n
      BY <1>1, <2>1
    <3> QED BY <1>4, <3>1
  <2> DEFINE e == IF k = 0 THEN t[1] ELSE g[k] \o t[k + 1]
             h == [i \in 1..k+1 |-> IF i = k + 1 THEN e ELSE g[i]]
  <2>3. e \in Seq(S)
    <3>1. k + 1 \in 1..n /\ 1 \in 1..n
      BY <1>1, <2>1
    <3>2. k # 0 => g[k] \in Seq(S)
      BY <2>2 DEF Va
    <3> QED BY <1>2, <3>1, <3>2, ConcatProperties
  <2>4. h \in [1..k+1 -> Seq(S)]
    <3>1. \A i \in 1..k+1 : i # k + 1 => i \in 1..k
      OBVIOUS
    <3> HIDE DEF e
    <3> QED BY <2>2, <2>3, <3>1 DEF Va
  <2>5. ASSUME NEW i \in 1..k+1 PROVE h[i] = IF i = 1 THEN t[i] ELSE h[i - 1] \o t[i]
    <3>1. CASE i = k + 1
      <4>1. i # 1 => k # 0 /\ i - 1 = k /\ k \in 1..k+1 /\ h[k] = g[k]
        BY <3>1
      <4> QED BY <3>1, <4>1
    <3>2. CASE i # k + 1
      <4>1. i \in 1..k /\ h[i] = g[i]
        BY <3>2
      <4>2. i # 1 => i - 1 \in 1..k /\ h[i - 1] = g[i - 1]
        BY <4>1
      <4> QED BY <2>2, <4>1, <4>2 DEF Va
    <3> QED BY <3>1, <3>2
  <2> HIDE DEF h, e
  <2>6. Va(h, k + 1)
    BY <2>4, <2>5 DEF Va
  <2> QED BY <2>6
<1>5. n \in K
  <2> HIDE DEF K
  <2>1. Nat \subseteq K
    BY <1>3, <1>4, Induccion
  <2> QED BY <2>1
<1>6. \E g : EsAplanado(g, t)
  <2>1. PICK g : Va(g, n)
    BY <1>5
  <2>2. g = [i \in 1..n |-> IF i = 1 THEN t[i] ELSE g[i - 1] \o t[i]]
    BY <2>1 DEF Va
  <2> QED BY <1>1, <2>2 DEF EsAplanado
<1> DEFINE f == CHOOSE g : EsAplanado(g, t)
<1>7. EsAplanado(f, t)
  BY <1>6
<1>8. FlattenSeq(t) = f[n]
  BY <1>1 DEF FlattenSeq, EsAplanado
<1> HIDE DEF f
<1>9. f = [i \in 1..n |-> IF i = 1 THEN t[i] ELSE f[i - 1] \o t[i]]
  BY <1>1, <1>7 DEF EsAplanado
<1>10. \A i \in 1..n : f[i] = IF i = 1 THEN t[i] ELSE f[i - 1] \o t[i]
  <2> DEFINE w == [i \in 1..n |-> IF i = 1 THEN t[i] ELSE f[i - 1] \o t[i]]
  <2>1. f = w
    BY <1>9
  <2>2. \A i \in 1..n : w[i] = IF i = 1 THEN t[i] ELSE f[i - 1] \o t[i]
    OBVIOUS
  <2> HIDE DEF w
  <2> QED BY <2>1, <2>2
<1>11. \A i \in 1..n : f[i] \in Seq(S)
  <2> DEFINE J == {k \in Nat : k \in 1..n => f[k] \in Seq(S)}
  <2>1. 0 \in J
    OBVIOUS
  <2>2. ASSUME NEW k \in Nat, k \in J PROVE k + 1 \in J
    <3>1. SUFFICES ASSUME k + 1 \in 1..n PROVE f[k + 1] \in Seq(S)
      OBVIOUS
    <3>2. CASE k = 0
      BY <1>2, <1>10, <3>1, <3>2
    <3>3. CASE k # 0
      <4>1. f[k] \in Seq(S)
        BY <2>2, <3>1, <3>3
      <4>2. f[k + 1] = f[k] \o t[k + 1]
        <5>1. PICK i \in 1..n : i = k + 1
          BY <3>1
        <5>2. i # 1 /\ i - 1 = k
          BY <3>3, <5>1
        <5>3. f[i] = f[i - 1] \o t[i]
          BY <1>10, <5>2
        <5> QED BY <5>1, <5>2, <5>3
      <4> QED BY <1>2, <3>1, <4>1, <4>2, ConcatProperties
    <3> QED BY <3>2, <3>3
  <2> HIDE DEF J
  <2>3. Nat \subseteq J
    BY <2>1, <2>2, Induccion
  <2> QED BY <2>3 DEF J
<1>12. Len(f[n]) >= Len(t[n])
  <2>1. Len(t[n]) \in Nat
    BY <1>1, <1>2, LenProperties
  <2>2. CASE n = 1
    BY <1>10, <2>1, <2>2
  <2>3. CASE n # 1
    <3>1. n - 1 \in 1..n /\ n \in 1..n
      BY <1>1, <2>3
    <3>2. f[n] = f[n - 1] \o t[n] /\ f[n - 1] \in Seq(S) /\ t[n] \in Seq(S)
      BY <1>2, <1>10, <1>11, <2>3, <3>1
    <3>3. Len(f[n]) = Len(f[n - 1]) + Len(t[n]) /\ Len(f[n - 1]) \in Nat
      BY <3>2, ConcatProperties, LenProperties
    <3>4. PICK a \in Nat, b \in Nat : a = Len(f[n - 1]) /\ b = Len(t[n])
      BY <2>1, <3>3
    <3>5. Len(f[n]) = a + b
      BY <3>3, <3>4
    <3>6. a + b >= b
      OBVIOUS
    <3> QED BY ONLY <3>4, <3>5, <3>6
  <2> QED BY <2>2, <2>3
<1> QED BY <1>1, <1>8, <1>11, <1>12
====
