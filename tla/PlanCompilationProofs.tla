------------------------ MODULE PlanCompilationProofs ------------------------
(***************************************************************************)
(* That the compiler loses no combination and makes none twice, for every  *)
(* scenario and experiment.  The lemmas before it say what the operators   *)
(* on sequences compute; they are proved by induction over the numbers, in *)
(* the form that a set of numbers has a least element.                     *)
(***************************************************************************)
EXTENDS PlanCompilation, FiniteSetTheorems, SequenceTheorems, TLAPS

Distinct(s) == \A i, j \in DOMAIN s : s[i] = s[j] => i = j

\* A list is a sequence of its own elements.
LEMMA Listed ==
  ASSUME NEW s, IsSequence(s)
  PROVE  s \in Seq(ToSet(s)) /\ DOMAIN s = 1..Len(s) /\ Len(s) \in Nat
<1>1. Len(s) \in Nat /\ s = [i \in 1..Len(s) |-> s[i]]
  BY DEF IsSequence
<1>2. \A i \in 1..Len(s) : s[i] \in ToSet(s)
  BY <1>1 DEF ToSet
<1>3. s \in [1..Len(s) -> ToSet(s)]
  BY <1>1, <1>2
<1> QED BY <1>1, <1>3

-----------------------------------------------------------------------------
(* Induction *)

\* A set of numbers has a least one: the finite intervals 0..n shrink no longer
\* than there are elements.
LEMMA Least ==
  ASSUME NEW T \in SUBSET Nat, T # {}
  PROVE  \E x \in T : \A y \in T : x <= y
<1> DEFINE U == {0..n : n \in T}
<1>1. \A n \in Nat : IsFiniteSet(0..n) /\ 0..n \in SUBSET Nat
  BY FS_Interval
<1>2. U \subseteq FiniteSubsetsOf(Nat) /\ U # {}
  BY <1>1 DEF FiniteSubsetsOf
<1>3. PICK x \in U : \A y \in U : <<y, x>> \notin StrictSubsetOrdering(Nat)
  BY <1>2, FS_StrictSubsetOrderingWellFounded, WFMin, Zenon
<1>4. PICK n \in T : x = 0..n
  BY <1>3
<1>5. ASSUME NEW m \in T, m < n PROVE FALSE
  <2>1. (0..m) \subseteq (0..n) /\ n \in 0..n /\ n \notin 0..m
    BY <1>5
  <2>2. <<0..m, 0..n>> \in StrictSubsetOrdering(Nat)
    BY <2>1 DEF StrictSubsetOrdering
  <2> QED BY <2>2, <1>3, <1>4
<1> QED BY <1>4, <1>5

\* What holds of 0, and of n + 1 when it holds of n, holds of all numbers.
LEMMA Induction ==
  ASSUME NEW N, 0 \in N, \A n \in Nat : n \in N => n + 1 \in N
  PROVE  Nat \subseteq N
<1> SUFFICES ASSUME Nat \ N # {} PROVE FALSE
  OBVIOUS
<1>1. PICK x \in Nat \ N : \A y \in Nat \ N : x <= y
  BY Least
<1>2. x # 0 /\ x - 1 \in Nat /\ x - 1 \in N
  BY <1>1
<1> QED BY <1>1, <1>2

-----------------------------------------------------------------------------
(* Flattened sequences *)

\* The function that FlattenSeq chooses: its n-th value is the first n
\* sequences in one.
Concats(ss, n, f) == f = [i \in 1..n |-> IF i = 1 THEN ss[i] ELSE f[i - 1] \o ss[i]]

\* The concatenations of the first n lists exist, for every n.
LEMMA PrefixesExist ==
  ASSUME NEW ss, NEW n \in Nat
  PROVE  \E f : Concats(ss, n, f)
<1> DEFINE N == {m \in Nat : \E f : Concats(ss, m, f)}
<1>1. 0 \in N
  <2>1. Concats(ss, 0, << >>)
    BY DEF Concats
  <2> QED BY <2>1
<1>2. ASSUME NEW m \in Nat, m \in N PROVE m + 1 \in N
  <2>1. PICK f : Concats(ss, m, f)
    BY <1>2
  <2> DEFINE g == [i \in 1..(m + 1) |->
                     IF i = 1 THEN ss[i] ELSE IF i <= m THEN f[i] ELSE f[m] \o ss[i]]
             h == [i \in 1..(m + 1) |-> IF i = 1 THEN ss[i] ELSE g[i - 1] \o ss[i]]
  <2>2. ASSUME NEW i \in 1..(m + 1) PROVE g[i] = h[i]
    <3>1. CASE i = 1
      BY <3>1
    <3>2. CASE i # 1 /\ i <= m
      <4>1. i \in 1..m /\ i - 1 \in 1..m /\ i - 1 \in 1..(m + 1) /\ i - 1 <= m
        BY <3>2
      <4>2. f[i] = f[i - 1] \o ss[i]
        BY <2>1, <3>2, <4>1 DEF Concats
      <4>3. g[i - 1] = f[i - 1]
        BY <2>1, <4>1 DEF Concats
      <4> QED BY <3>2, <4>2, <4>3
    <3>3. CASE i # 1 /\ i = m + 1
      <4>1. m \in 1..m /\ m \in 1..(m + 1) /\ i - 1 = m /\ ~(i <= m)
        BY <3>3
      <4>2. g[m] = f[m]
        BY <2>1, <4>1 DEF Concats
      <4>3. g[i - 1] = f[m]
        BY <4>1, <4>2
      <4> QED BY <3>3, <4>1, <4>3
    <3> QED BY <3>1, <3>2, <3>3
  <2>3. g = h
    BY <2>2
  <2>4. Concats(ss, m + 1, g)
    BY <2>3 DEF Concats
  <2> QED BY <2>4
<1> HIDE DEF N
<1>3. n \in N
  BY <1>1, <1>2, Induction
<1> QED BY <1>3 DEF N

\* FlattenSeq is the concatenation of all of them.
LEMMA FlattenIsLastPrefix ==
  ASSUME NEW S, NEW ss \in Seq(S), ss # << >>
  PROVE  \E f : Concats(ss, Len(ss), f) /\ FlattenSeq(ss) = f[Len(ss)]
<1>1. Len(ss) \in Nat /\ Len(ss) # 0
  BY EmptySeq
<1>2. Concats(ss, Len(ss), CHOOSE f : Concats(ss, Len(ss), f))
  BY <1>1, PrefixesExist
<1>3. FlattenSeq(ss) = (CHOOSE f : Concats(ss, Len(ss), f))[Len(ss)]
  BY <1>1 DEF FlattenSeq, Concats
<1> QED BY <1>2, <1>3

\* No element of one of the sequences is there twice, nor in another one.
Apart(ss) ==
  \A i, j \in DOMAIN ss : \A k \in DOMAIN ss[i], l \in DOMAIN ss[j] :
    ss[i][k] = ss[j][l] => i = j /\ k = l

\* What the first n sequences are in one.
FlatUpTo(S, ss, n, s) ==
  /\ s \in Seq(S)
  /\ \A m \in DOMAIN s : \E i \in 1..n : \E k \in DOMAIN ss[i] : s[m] = ss[i][k]
  /\ \A i \in 1..n : \A k \in DOMAIN ss[i] : \E m \in DOMAIN s : s[m] = ss[i][k]
  /\ Apart(ss) => Distinct(s)

\* The first list alone is the first concatenation ...
LEMMA FlatOnce ==
  ASSUME NEW S, NEW ss \in Seq(Seq(S)), ss # << >>
  PROVE  FlatUpTo(S, ss, 1, ss[1])
<1>1. 1 \in DOMAIN ss /\ ss[1] \in Seq(S)
  BY EmptySeq, LenProperties
<1> QED BY <1>1 DEF FlatUpTo, Apart, Distinct

\* ... and a list appended to one concatenation gives the next.
LEMMA FlatNext ==
  ASSUME NEW S, NEW ss \in Seq(Seq(S)), NEW n \in 1..Len(ss), n + 1 <= Len(ss),
         NEW s, FlatUpTo(S, ss, n, s)
  PROVE  FlatUpTo(S, ss, n + 1, s \o ss[n + 1])
<1> DEFINE t == ss[n + 1]
           u == s \o t
<1>1. n + 1 \in 1..Len(ss) /\ n + 1 \in DOMAIN ss /\ t \in Seq(S) /\ s \in Seq(S)
  BY LenProperties DEF FlatUpTo
<1>2. /\ u \in Seq(S) /\ DOMAIN u = 1..(Len(s) + Len(t))
      /\ \A m \in 1..(Len(s) + Len(t)) : u[m] = IF m <= Len(s) THEN s[m] ELSE t[m - Len(s)]
      /\ Len(s) \in Nat /\ Len(t) \in Nat /\ DOMAIN s = 1..Len(s) /\ DOMAIN t = 1..Len(t)
  BY <1>1, ConcatProperties, LenProperties
<1> HIDE DEF u, t
<1>3. ASSUME NEW m \in DOMAIN u PROVE \/ m \in DOMAIN s /\ u[m] = s[m]
                                      \/ m > Len(s) /\ m - Len(s) \in DOMAIN t /\ u[m] = t[m - Len(s)]
  BY <1>2
<1>4. \A m \in DOMAIN u : \E i \in 1..(n + 1) : \E k \in DOMAIN ss[i] : u[m] = ss[i][k]
  <2> TAKE m \in DOMAIN u
  <2>1. CASE m \in DOMAIN s /\ u[m] = s[m]
    <3>1. PICK i \in 1..n : \E k \in DOMAIN ss[i] : s[m] = ss[i][k]
      BY <2>1 DEF FlatUpTo
    <3>2. i \in 1..(n + 1)
      OBVIOUS
    <3> QED BY <2>1, <3>1, <3>2
  <2>2. CASE m - Len(s) \in DOMAIN t /\ u[m] = t[m - Len(s)]
    <3>1. n + 1 \in 1..(n + 1)
      OBVIOUS
    <3> QED BY <2>2, <3>1 DEF t
  <2> QED BY <1>3, <2>1, <2>2
<1>5. \A i \in 1..(n + 1) : \A k \in DOMAIN ss[i] : \E m \in DOMAIN u : u[m] = ss[i][k]
  <2> TAKE i \in 1..(n + 1)
  <2> TAKE k \in DOMAIN ss[i]
  <2>1. CASE i \in 1..n
    <3>1. PICK m \in DOMAIN s : s[m] = ss[i][k]
      BY <2>1 DEF FlatUpTo
    <3>2. m \in DOMAIN u /\ u[m] = s[m]
      BY <1>2
    <3> QED BY <3>1, <3>2
  <2>2. CASE i = n + 1
    <3>1. k \in 1..Len(t)
      BY <2>2, <1>2 DEF t
    <3>2. /\ k + Len(s) \in 1..(Len(s) + Len(t)) /\ ~(k + Len(s) <= Len(s))
          /\ (k + Len(s)) - Len(s) = k
      BY <1>2, <3>1
    <3>3. k + Len(s) \in DOMAIN u /\ u[k + Len(s)] = t[k]
      BY <1>2, <3>2
    <3> QED BY <3>3, <2>2 DEF t
  <2> QED BY <2>1, <2>2
<1>6. ASSUME Apart(ss) PROVE Distinct(u)
  <2>1. SUFFICES ASSUME NEW m \in DOMAIN u, NEW o \in DOMAIN u, u[m] = u[o] PROVE m = o
    BY DEF Distinct
  <2>2. CASE m \in DOMAIN s /\ u[m] = s[m] /\ o \in DOMAIN s /\ u[o] = s[o]
    BY <1>6, <2>1, <2>2 DEF FlatUpTo, Distinct
  <2>3. ASSUME NEW x \in DOMAIN s, NEW y \in DOMAIN t, s[x] = t[y] PROVE FALSE
    <3>1. PICK i \in 1..n : \E k \in DOMAIN ss[i] : s[x] = ss[i][k]
      BY DEF FlatUpTo
    <3>2. i \in DOMAIN ss /\ i # n + 1
      BY <1>1, LenProperties
    <3> QED BY <1>1, <1>6, <2>3, <3>1, <3>2 DEF Apart, t
  <2>4. CASE /\ m > Len(s) /\ m - Len(s) \in DOMAIN t /\ u[m] = t[m - Len(s)]
             /\ o > Len(s) /\ o - Len(s) \in DOMAIN t /\ u[o] = t[o - Len(s)]
    <3>1. \A x, y \in DOMAIN t : t[x] = t[y] => x = y
      BY <1>1, <1>6 DEF Apart, t
    <3>2. m - Len(s) = o - Len(s)
      BY <2>1, <2>4, <3>1
    <3> QED BY <1>2, <3>2
  <2> QED BY <1>3, <2>1, <2>2, <2>3, <2>4
<1> QED BY <1>2, <1>4, <1>5, <1>6 DEF FlatUpTo, u, t

\* A flattened sequence has the elements of its sequences and no others, and
\* has none twice if none is at two places of them.
LEMMA Flattened ==
  ASSUME NEW S, NEW ss \in Seq(Seq(S))
  PROVE  /\ FlattenSeq(ss) \in Seq(S)
         /\ \A m \in DOMAIN FlattenSeq(ss) : \E i \in DOMAIN ss : \E k \in DOMAIN ss[i] :
              FlattenSeq(ss)[m] = ss[i][k]
         /\ \A i \in DOMAIN ss : \A k \in DOMAIN ss[i] : \E m \in DOMAIN FlattenSeq(ss) :
              FlattenSeq(ss)[m] = ss[i][k]
         /\ Apart(ss) => Distinct(FlattenSeq(ss))
<1>1. CASE ss = << >>
  <2>1. FlattenSeq(ss) = << >>
    BY <1>1, EmptySeq DEF FlattenSeq
  <2>2. << >> \in Seq(S) /\ Len(<< >>) = 0 /\ DOMAIN << >> = 1..0
    BY EmptySeq, LenProperties
  <2>3. 1..0 = {}
    OBVIOUS
  <2>4. << >> \in Seq(S) /\ DOMAIN << >> = {}
    BY <2>2, <2>3
  <2>5. FlattenSeq(ss) \in Seq(S) /\ DOMAIN FlattenSeq(ss) = {} /\ DOMAIN ss = {}
    BY <1>1, <2>1, <2>4, Zenon
  <2> QED BY <2>5 DEF Distinct
<1>2. CASE ss # << >>
  <2>1. PICK f : Concats(ss, Len(ss), f) /\ FlattenSeq(ss) = f[Len(ss)]
    BY <1>2, FlattenIsLastPrefix
  <2>2. Len(ss) \in Nat \ {0} /\ DOMAIN ss = 1..Len(ss)
    BY <1>2, EmptySeq, LenProperties
  <2> DEFINE N == {n \in Nat : n + 1 \in 1..Len(ss) => FlatUpTo(S, ss, n + 1, f[n + 1])}
  <2>3. 0 \in N
    <3>1. f[1] = ss[1]
      BY <2>1, <2>2 DEF Concats
    <3>2. FlatUpTo(S, ss, 1, f[1])
      BY <1>2, <3>1, FlatOnce
    <3>3. 0 \in Nat /\ 0 + 1 = 1
      OBVIOUS
    <3> QED BY <3>2, <3>3
  <2>4. ASSUME NEW n \in Nat, n \in N PROVE n + 1 \in N
    <3>1. SUFFICES ASSUME (n + 1) + 1 \in 1..Len(ss)
                   PROVE  FlatUpTo(S, ss, (n + 1) + 1, f[(n + 1) + 1])
      OBVIOUS
    <3>2. n + 1 \in 1..Len(ss) /\ FlatUpTo(S, ss, n + 1, f[n + 1])
      BY <2>2, <2>4, <3>1
    <3>3. /\ (n + 1) + 1 # 1 /\ ((n + 1) + 1) - 1 = n + 1 /\ (n + 1) + 1 <= Len(ss)
      BY <2>2, <3>1
    <3>4. f[(n + 1) + 1] = f[n + 1] \o ss[(n + 1) + 1]
      BY <2>1, <3>1, <3>3 DEF Concats
    <3> QED BY <3>2, <3>3, <3>4, FlatNext
  <2>5. Len(ss) - 1 \in N
    <3> HIDE DEF N
    <3>1. Nat \subseteq N
      BY <2>3, <2>4, Induction
    <3>2. Len(ss) - 1 \in Nat
      BY <2>2
    <3> QED BY <3>1, <3>2
  <2>6. FlatUpTo(S, ss, Len(ss), FlattenSeq(ss))
    BY <2>1, <2>2, <2>5
  <2> QED BY <2>2, <2>6 DEF FlatUpTo
<1> QED BY <1>1, <1>2

-----------------------------------------------------------------------------
(* Sorted and selected *)

Rank(S, x) == Cardinality({y \in S : y < x})

\* In a finite set of numbers each has a rank of its own, in order.
LEMMA Ranks ==
  ASSUME NEW S \in SUBSET Nat, IsFiniteSet(S)
  PROVE  /\ Cardinality(S) \in Nat
         /\ \A x \in S : Rank(S, x) \in 0..(Cardinality(S) - 1)
         /\ \A x, z \in S : x < z => Rank(S, x) < Rank(S, z)
         /\ \A k \in 0..(Cardinality(S) - 1) : \E x \in S : Rank(S, x) = k
<1> DEFINE Below(x) == {y \in S : y < x}
           n == Cardinality(S)
           R == [x \in S |-> Rank(S, x)]
<1>1. n \in Nat
  BY FS_CardinalityType
<1>2. ASSUME NEW x \in S
      PROVE  IsFiniteSet(Below(x)) /\ Rank(S, x) \in Nat /\ Rank(S, x) < n
  <2>1. Below(x) \in SUBSET S /\ Below(x) # S
    OBVIOUS
  <2>2. IsFiniteSet(Below(x)) /\ Cardinality(Below(x)) <= n /\ Cardinality(Below(x)) # n
    BY <2>1, FS_Subset
  <2>3. Cardinality(Below(x)) \in Nat
    BY <2>2, FS_CardinalityType
  <2> QED BY <1>1, <2>2, <2>3 DEF Rank
<1>3. ASSUME NEW x \in S, NEW z \in S, x < z PROVE Rank(S, x) < Rank(S, z)
  <2>1. x \in Below(z) /\ x \notin Below(x) /\ \A y \in Below(x) : y \in Below(z)
    BY <1>3
  <2> DEFINE B == Below(x)
             C == Below(z)
  <2>2. B \in SUBSET C /\ B # C /\ IsFiniteSet(C) /\ Cardinality(B) \in Nat /\ Cardinality(C) \in Nat
    BY <1>2, <2>1 DEF Rank
  <2>3. Cardinality(B) <= Cardinality(C) /\ Cardinality(B) # Cardinality(C)
    <3> HIDE DEF B, C
    <3> QED BY <2>2, FS_Subset
  <2> QED BY <2>2, <2>3 DEF Rank
<1>4. \A x \in S : Rank(S, x) \in 0..(n - 1)
  <2> TAKE x \in S
  <2>1. Rank(S, x) \in Nat /\ Rank(S, x) < n
    BY <1>2
  <2> HIDE DEF n
  <2> QED BY <1>1, <2>1
<1>5. R \in Injection(S, 0..(n - 1))
  <2>1. R \in [S -> 0..(n - 1)]
    BY <1>4
  <2>2. ASSUME NEW x \in S, NEW z \in S, R[x] = R[z] PROVE x = z
    <3>1. Rank(S, x) = Rank(S, z) /\ Rank(S, x) \in Nat
      BY <1>2, <2>2
    <3>2. ~(x < z) /\ ~(z < x)
      BY <1>3, <3>1
    <3> QED BY <3>2
  <2> QED BY <2>1, <2>2 DEF Injection, IsInjective
<1>6. IsFiniteSet(0..(n - 1)) /\ Cardinality(0..(n - 1)) = n
  <2> HIDE DEF n
  <2>1. 0 \in Int /\ n - 1 \in Int
    BY <1>1
  <2>2. /\ IsFiniteSet(0..(n - 1))
        /\ Cardinality(0..(n - 1)) = IF 0 > n - 1 THEN 0 ELSE (n - 1) - 0 + 1
    BY <2>1, FS_Interval, Zenon
  <2> QED BY <1>1, <2>2
<1>7. R \in Surjection(S, 0..(n - 1))
  BY <1>5, <1>6, FS_Injection
<1>8. \A k \in 0..(n - 1) : \E x \in S : R[x] = k
  BY <1>7 DEF Surjection
<1> QED BY <1>1, <1>3, <1>4, <1>8

\* Sorting a finite set of numbers gives each of them once, the smaller first.
LEMMA Sorted ==
  ASSUME NEW S \in SUBSET Nat, IsFiniteSet(S)
  PROVE  /\ Ascending(S) \in Seq(S)
         /\ Len(Ascending(S)) = Cardinality(S) /\ DOMAIN Ascending(S) = 1..Cardinality(S)
         /\ \A x \in S : \E k \in DOMAIN Ascending(S) : Ascending(S)[k] = x
         /\ \A k, l \in DOMAIN Ascending(S) : k < l => Ascending(S)[k] < Ascending(S)[l]
         /\ Distinct(Ascending(S))
<1> DEFINE n == Cardinality(S)
           s == Ascending(S)
<1>1. s = [k \in 1..n |-> CHOOSE x \in S : Rank(S, x) = k - 1]
  BY DEF Ascending, Rank
<1> HIDE DEF s
<1>2. n \in Nat
  BY Ranks
<1>3. ASSUME NEW k \in 1..n PROVE s[k] \in S /\ Rank(S, s[k]) = k - 1
  <2>1. k - 1 \in 0..(n - 1)
    BY <1>2
  <2>2. \E x \in S : Rank(S, x) = k - 1
    BY <2>1, Ranks
  <2> QED BY <1>1, <2>2
<1>4. s \in [1..n -> S]
  BY <1>1, <1>3
<1>5. s \in Seq(S) /\ Len(s) = n /\ DOMAIN s = 1..n
  BY <1>2, <1>4
<1>6. ASSUME NEW x \in S PROVE \E k \in 1..n : s[k] = x
  <2>1. Rank(S, x) + 1 \in 1..n /\ (Rank(S, x) + 1) - 1 = Rank(S, x)
    BY <1>2, Ranks
  <2>2. s[Rank(S, x) + 1] \in S /\ Rank(S, s[Rank(S, x) + 1]) = Rank(S, x)
    BY <1>3, <2>1
  <2>3. \A y, z \in S : Rank(S, y) = Rank(S, z) => y = z
    BY Ranks
  <2> QED BY <2>1, <2>2, <2>3
<1>7. ASSUME NEW k \in 1..n, NEW l \in 1..n, k < l PROVE s[k] < s[l]
  <2>1. s[k] \in S /\ s[l] \in S /\ Rank(S, s[k]) = k - 1 /\ Rank(S, s[l]) = l - 1
    BY <1>3
  <2>2. k \in Nat /\ l \in Nat
    BY <1>2
  <2>3. ~(s[l] < s[k])
    <3>1. s[l] < s[k] => Rank(S, s[l]) < Rank(S, s[k])
      BY <2>1, Ranks
    <3> QED BY <1>7, <2>1, <2>2, <3>1
  <2>4. s[l] # s[k]
    BY <1>7, <2>1, <2>2
  <2>5. s[l] \in Nat /\ s[k] \in Nat
    BY <2>1
  <2> QED BY <2>3, <2>4, <2>5
<1>8. Distinct(s)
  BY <1>3, <1>5 DEF Distinct
<1> QED BY <1>5, <1>6, <1>7, <1>8 DEF s

\* A selection has what the sequence has at the selected places, and has
\* nothing twice when the sequence has not.
LEMMA Selection ==
  ASSUME NEW T, NEW s \in Seq(T), NEW places \in SUBSET DOMAIN s
  PROVE  /\ Selected(s, places) \in Seq(T)
         /\ DOMAIN Selected(s, places) = 1..Cardinality(places) /\ Cardinality(places) \in Nat
         /\ \A k \in DOMAIN Selected(s, places) : \E p \in places : Selected(s, places)[k] = s[p]
         /\ \A p \in places : \E k \in DOMAIN Selected(s, places) : Selected(s, places)[k] = s[p]
         /\ Distinct(s) => Distinct(Selected(s, places))
<1> DEFINE a == Ascending(places)
           t == Selected(s, places)
<1>1. Len(s) \in Nat /\ DOMAIN s = 1..Len(s) /\ \A p \in DOMAIN s : s[p] \in T
  BY LenProperties, ElementOfSeq
<1>2. places \in SUBSET Nat /\ IsFiniteSet(places)
  <2>1. IsFiniteSet(1..Len(s))
    BY <1>1, FS_Interval
  <2> QED BY <1>1, <2>1, FS_Subset
<1>3. /\ a \in Seq(places) /\ DOMAIN a = 1..Cardinality(places) /\ Cardinality(places) \in Nat
      /\ \A p \in places : \E k \in DOMAIN a : a[k] = p
      /\ Distinct(a)
  BY <1>2, Sorted, Ranks
<1>4. \A k \in DOMAIN a : a[k] \in places
  BY <1>3
<1>5. t = [k \in 1..Cardinality(places) |-> s[a[k]]]
  BY <1>3 DEF Selected
<1> HIDE DEF a, t
<1>6. t \in [1..Cardinality(places) -> T]
  BY <1>1, <1>3, <1>4, <1>5
<1>7. t \in Seq(T) /\ DOMAIN t = 1..Cardinality(places)
  BY <1>3, <1>6
<1>8. \A k \in DOMAIN t : \E p \in places : t[k] = s[p]
  BY <1>3, <1>4, <1>5, <1>7
<1>9. \A p \in places : \E k \in DOMAIN t : t[k] = s[p]
  BY <1>3, <1>5, <1>7
<1>10. ASSUME Distinct(s) PROVE Distinct(t)
  BY <1>3, <1>4, <1>5, <1>7, <1>10 DEF Distinct
<1> QED BY <1>3, <1>7, <1>8, <1>9, <1>10 DEF t

-----------------------------------------------------------------------------
(* The product of the axes *)

Stages(axes, names, n, f) ==
  f = [i \in 0..n |-> IF i = 0 THEN <<NoAxes>> ELSE Widen(axes, f[i - 1], names[i])]

\* The products of the first n axes exist, for every n.
LEMMA StagesExist ==
  ASSUME NEW axes, NEW names, NEW n \in Nat
  PROVE  \E f : Stages(axes, names, n, f)
<1> DEFINE N == {m \in Nat : \E f : Stages(axes, names, m, f)}
<1>1. 0 \in N
  <2> DEFINE f == [i \in 0..0 |-> <<NoAxes>>]
  <2>1. f = [i \in 0..0 |-> IF i = 0 THEN <<NoAxes>> ELSE Widen(axes, f[i - 1], names[i])]
    <3>1. \A i \in 0..0 : i = 0
      OBVIOUS
    <3> QED BY <3>1, Zenon
  <2>2. Stages(axes, names, 0, f)
    BY <2>1 DEF Stages
  <2> QED BY <2>2
<1>2. ASSUME NEW m \in Nat, m \in N PROVE m + 1 \in N
  <2>1. PICK f : Stages(axes, names, m, f)
    BY <1>2
  <2> DEFINE g == [i \in 0..(m + 1) |-> IF i <= m THEN f[i] ELSE Widen(axes, f[m], names[i])]
             h == [i \in 0..(m + 1) |->
                     IF i = 0 THEN <<NoAxes>> ELSE Widen(axes, g[i - 1], names[i])]
  <2>2. ASSUME NEW i \in 0..(m + 1) PROVE g[i] = h[i]
    <3>1. CASE i = 0
      <4>1. i \in 0..m /\ i <= m
        BY <3>1
      <4>2. f[i] = <<NoAxes>>
        BY <2>1, <3>1, <4>1 DEF Stages
      <4> QED BY <3>1, <4>1, <4>2
    <3>2. CASE i # 0 /\ i <= m
      <4>1. i \in 0..m /\ i - 1 \in 0..m /\ i - 1 \in 0..(m + 1) /\ i - 1 <= m
        BY <3>2
      <4>2. f[i] = Widen(axes, f[i - 1], names[i])
        BY <2>1, <3>2, <4>1 DEF Stages
      <4>3. g[i - 1] = f[i - 1]
        BY <4>1
      <4> QED BY <3>2, <4>2, <4>3
    <3>3. CASE i # 0 /\ i = m + 1
      <4>1. m \in 0..(m + 1) /\ i - 1 = m /\ ~(i <= m) /\ m <= m
        BY <3>3
      <4>2. g[i - 1] = f[m]
        BY <4>1
      <4> QED BY <3>3, <4>1, <4>2
    <3> QED BY <3>1, <3>2, <3>3
  <2>3. g = h
    BY <2>2
  <2>4. Stages(axes, names, m + 1, g)
    BY <2>3 DEF Stages
  <2> QED BY <2>4
<1> HIDE DEF N
<1>3. n \in N
  BY <1>1, <1>2, Induction
<1> QED BY <1>3 DEF N

\* Product is the product of all axes in ascending order.
LEMMA ProductIsLastStep ==
  ASSUME NEW axes, NEW names, names = Ascending(DOMAIN axes), Len(names) \in Nat
  PROVE  \E f : Stages(axes, names, Len(names), f) /\ Product(axes) = f[Len(names)]
<1>1. Stages(axes, names, Len(names), CHOOSE f : Stages(axes, names, Len(names), f))
  BY StagesExist
<1>2. Product(axes) = (CHOOSE f : Stages(axes, names, Len(names), f))[Len(names)]
  BY DEF Product, Stages
<1> QED BY <1>1, <1>2

Values(axes) == UNION {ToSet(axes[a]) : a \in DOMAIN axes}

\* The combinations of the axes in D, each in vs, once if no axis has a value twice.
Chosen(axes, D) == {v \in [D -> Values(axes)] : \A a \in D : v[a] \in ToSet(axes[a])}
Combines(axes, D, vs) ==
  /\ vs \in Seq(Chosen(axes, D))
  /\ \A v \in Chosen(axes, D) : \E i \in DOMAIN vs : vs[i] = v
  /\ (\A a \in D : Distinct(axes[a])) => Distinct(vs)

With(a, x, v) == Merged([b \in {a} |-> x], v)

\* A choice widened by a value of one more axis is a choice.
LEMMA WithValue ==
  ASSUME NEW axes, NEW D, NEW a \in DOMAIN axes, a \notin D, NEW v \in Chosen(axes, D),
         NEW x \in ToSet(axes[a])
  PROVE  /\ With(a, x, v) \in Chosen(axes, D \cup {a})
         /\ With(a, x, v) = [b \in D \cup {a} |-> IF b = a THEN x ELSE v[b]]
<1>1. v \in [D -> Values(axes)] /\ \A b \in D : v[b] \in ToSet(axes[b])
  BY DEF Chosen
<1>2. With(a, x, v) = [b \in D \cup {a} |-> IF b = a THEN x ELSE v[b]]
  BY <1>1 DEF Merged, With
<1>3. x \in Values(axes)
  BY DEF Values
<1>4. /\ With(a, x, v) \in [D \cup {a} -> Values(axes)]
      /\ \A b \in D \cup {a} : With(a, x, v)[b] \in ToSet(axes[b])
  BY <1>1, <1>2, <1>3
<1> QED BY <1>2, <1>4 DEF Chosen

\* Choices widened in two ways to the same come from the same.
LEMMA WithValueTwice ==
  ASSUME NEW axes, NEW D, NEW a \in DOMAIN axes, a \notin D,
         NEW v \in Chosen(axes, D), NEW w \in Chosen(axes, D),
         NEW x \in ToSet(axes[a]), NEW y \in ToSet(axes[a]),
         With(a, x, v) = With(a, y, w)
  PROVE  x = y /\ v = w
<1>1. v \in [D -> Values(axes)] /\ w \in [D -> Values(axes)]
  BY DEF Chosen
<1>2. With(a, x, v)[a] = x /\ \A b \in D : With(a, x, v)[b] = v[b]
  BY <1>1 DEF With, Merged
<1>3. With(a, y, w)[a] = y /\ \A b \in D : With(a, y, w)[b] = w[b]
  BY <1>1 DEF With, Merged
<1> QED BY <1>1, <1>2, <1>3

\* One axis more: each combination is continued by each of its values.
LEMMA WidenCombines ==
  ASSUME NEW axes, WellFormedAxes(axes), NEW D, NEW a \in DOMAIN axes, a \notin D,
         NEW vs, Combines(axes, D, vs)
  PROVE  Combines(axes, D \cup {a}, Widen(axes, vs, a))
<1> DEFINE E == D \cup {a}
           Row(i) == [k \in DOMAIN axes[a] |-> With(a, axes[a][k], vs[i])]
           ss == [i \in DOMAIN vs |-> Row(i)]
<1>1. Widen(axes, vs, a) = FlattenSeq(ss)
  BY DEF Widen, With
<1>2. /\ DOMAIN axes[a] = 1..Len(axes[a]) /\ Len(axes[a]) \in Nat
      /\ \A k \in DOMAIN axes[a] : axes[a][k] \in ToSet(axes[a])
  BY Listed DEF WellFormedAxes, ToSet
<1>3. /\ DOMAIN vs = 1..Len(vs) /\ Len(vs) \in Nat
      /\ \A i \in DOMAIN vs : vs[i] \in Chosen(axes, D)
  BY LenProperties, ElementOfSeq DEF Combines
<1>4. \A x \in ToSet(axes[a]), v \in Chosen(axes, D) : With(a, x, v) \in Chosen(axes, E)
  BY WithValue
<1>5. \A x, y \in ToSet(axes[a]), v, w \in Chosen(axes, D) : With(a, x, v) = With(a, y, w) => x = y /\ v = w
  BY WithValueTwice
<1>6. \A i \in DOMAIN vs : /\ Row(i) \in Seq(Chosen(axes, E)) /\ DOMAIN Row(i) = DOMAIN axes[a]
                           /\ \A k \in DOMAIN axes[a] : Row(i)[k] = With(a, axes[a][k], vs[i])
  <2> TAKE i \in DOMAIN vs
  <2>1. \A k \in DOMAIN axes[a] : With(a, axes[a][k], vs[i]) \in Chosen(axes, E)
    BY <1>2, <1>3, <1>4
  <2> HIDE DEF E
  <2>2. Row(i) \in [1..Len(axes[a]) -> Chosen(axes, E)]
    BY <1>2, <2>1
  <2> QED BY <1>2, <2>2
<1>7. ss \in Seq(Seq(Chosen(axes, E))) /\ DOMAIN ss = DOMAIN vs /\ \A i \in DOMAIN vs : ss[i] = Row(i)
  <2>1. \A i \in DOMAIN vs : Row(i) \in Seq(Chosen(axes, E))
    BY <1>6
  <2> HIDE DEF Row, E
  <2>2. ss \in [1..Len(vs) -> Seq(Chosen(axes, E))]
    BY <1>3, <2>1
  <2> QED BY <1>3, <2>2
<1>8. \A i \in DOMAIN ss : /\ DOMAIN ss[i] = DOMAIN axes[a]
                           /\ \A k \in DOMAIN axes[a] : ss[i][k] = With(a, axes[a][k], vs[i])
  BY <1>6, <1>7
<1>9. ASSUME NEW v \in Chosen(axes, E)
      PROVE  \E i \in DOMAIN ss : \E k \in DOMAIN ss[i] : ss[i][k] = v
  <2> DEFINE u == [b \in D |-> v[b]]
  <2>1. v \in [E -> Values(axes)] /\ \A b \in E : v[b] \in ToSet(axes[b])
    BY DEF Chosen
  <2>2. u \in Chosen(axes, D)
    BY <2>1 DEF Chosen
  <2>3. PICK i \in DOMAIN vs : vs[i] = u
    BY <2>2 DEF Combines
  <2>4. PICK k \in DOMAIN axes[a] : axes[a][k] = v[a]
    BY <2>1 DEF ToSet
  <2>5. With(a, axes[a][k], vs[i]) = [b \in E |-> IF b = a THEN v[a] ELSE u[b]]
    <3>1. v[a] \in ToSet(axes[a])
      BY <2>1
    <3>2. With(a, v[a], u) = [b \in E |-> IF b = a THEN v[a] ELSE u[b]]
      <4> HIDE DEF u
      <4> QED BY <2>2, <3>1, WithValue
    <3> HIDE DEF u
    <3> QED BY <2>3, <2>4, <3>2
  <2>6. With(a, axes[a][k], vs[i]) = v
    BY <2>1, <2>5
  <2> QED BY <1>7, <1>8, <2>3, <2>4, <2>6
<1>10. ASSUME \A b \in E : Distinct(axes[b]) PROVE Apart(ss)
  <2>1. SUFFICES ASSUME NEW i \in DOMAIN ss, NEW j \in DOMAIN ss, NEW k \in DOMAIN ss[i], NEW l \in DOMAIN ss[j],
                        ss[i][k] = ss[j][l]
                 PROVE  i = j /\ k = l
    BY DEF Apart
  <2>2. /\ i \in DOMAIN vs /\ j \in DOMAIN vs /\ k \in DOMAIN axes[a] /\ l \in DOMAIN axes[a]
        /\ With(a, axes[a][k], vs[i]) = With(a, axes[a][l], vs[j])
    BY <1>7, <1>8, <2>1
  <2>3. axes[a][k] = axes[a][l] /\ vs[i] = vs[j]
    BY <1>2, <1>3, <1>5, <2>2
  <2>4. Distinct(axes[a]) /\ Distinct(vs)
    BY <1>10 DEF Combines
  <2> QED BY <2>2, <2>3, <2>4 DEF Distinct
<1> HIDE DEF E, ss
<1>11. /\ FlattenSeq(ss) \in Seq(Chosen(axes, E))
       /\ \A i \in DOMAIN ss : \A k \in DOMAIN ss[i] : \E m \in DOMAIN FlattenSeq(ss) :
            FlattenSeq(ss)[m] = ss[i][k]
       /\ Apart(ss) => Distinct(FlattenSeq(ss))
  BY <1>7, Flattened
<1>12. \A v \in Chosen(axes, E) : \E m \in DOMAIN FlattenSeq(ss) : FlattenSeq(ss)[m] = v
  BY <1>9, <1>11
<1> QED BY <1>1, <1>10, <1>11, <1>12 DEF Combines, E

\* The product of the axes has each combination, and none twice if no axis has
\* a value twice.
LEMMA ProductCombines ==
  ASSUME NEW axes, WellFormedAxes(axes)
  PROVE  Combines(axes, DOMAIN axes, Product(axes))
<1> DEFINE names == Ascending(DOMAIN axes)
           n == Len(names)
           Up(m) == {names[k] : k \in 1..m}
<1>1. /\ n \in Nat /\ DOMAIN names = 1..n /\ Distinct(names)
      /\ \A k \in 1..n : names[k] \in DOMAIN axes
      /\ \A a \in DOMAIN axes : \E k \in 1..n : names[k] = a
  BY Sorted, Ranks, ElementOfSeq DEF WellFormedAxes
<1>2. PICK f : Stages(axes, names, n, f) /\ Product(axes) = f[n]
  BY <1>1, ProductIsLastStep
<1> HIDE DEF names, n
<1> DEFINE N == {m \in Nat : m <= n => Combines(axes, Up(m), f[m])}
<1>3. 0 \in N
  <2>1. f[0] = <<NoAxes>> /\ 0 \in 0..n
    BY <1>1, <1>2 DEF Stages
  <2>2. Up(0) = {}
    OBVIOUS
  <2>3. Chosen(axes, {}) = {NoAxes}
    <3>1. NoAxes \in [{} -> Values(axes)]
      BY DEF NoAxes
    <3>2. \A v \in [{} -> Values(axes)] : v = NoAxes
      BY <3>1
    <3> QED BY <3>1, <3>2 DEF Chosen
  <2>4. <<NoAxes>> \in Seq({NoAxes}) /\ DOMAIN <<NoAxes>> = {1} /\ <<NoAxes>>[1] = NoAxes
    OBVIOUS
  <2>5. Combines(axes, {}, <<NoAxes>>)
    BY <2>3, <2>4 DEF Combines, Distinct
  <2> QED BY <2>1, <2>2, <2>5
<1>4. ASSUME NEW m \in Nat, m \in N PROVE m + 1 \in N
  <2>1. SUFFICES ASSUME m + 1 <= n PROVE Combines(axes, Up(m + 1), f[m + 1])
    OBVIOUS
  <2>2. Combines(axes, Up(m), f[m])
    BY <1>1, <1>4, <2>1
  <2>3. m + 1 \in 1..n /\ m + 1 \in 0..n /\ m + 1 # 0 /\ (m + 1) - 1 = m
    BY <1>1, <2>1
  <2>4. f[m + 1] = Widen(axes, f[m], names[m + 1])
    BY <1>2, <2>3 DEF Stages
  <2>5. Up(m + 1) = Up(m) \cup {names[m + 1]}
    BY <1>4
  <2>6. names[m + 1] \in DOMAIN axes /\ names[m + 1] \notin Up(m)
    BY <1>1, <2>3 DEF Distinct
  <2> HIDE DEF Up
  <2> QED BY <2>2, <2>4, <2>5, <2>6, WidenCombines
<1>5. n \in N
  <2> HIDE DEF N
  <2> QED BY <1>1, <1>3, <1>4, Induction
<1>6. Up(n) = DOMAIN axes
  BY <1>1
<1> QED BY <1>1, <1>2, <1>5, <1>6

-----------------------------------------------------------------------------
(* Variants and edges *)

\* A sequence with as many elements as places has none of them twice.
LEMMA FullRange ==
  ASSUME NEW s, NEW n \in Nat, DOMAIN s = 1..n, Cardinality({s[i] : i \in 1..n}) = n
  PROVE  Distinct(s)
<1> DEFINE T == {s[i] : i \in 1..n}
           f == [i \in 1..n |-> s[i]]
<1>1. IsFiniteSet(1..n) /\ Cardinality(1..n) = n
  <2>1. 1 \in Int /\ n \in Int
    OBVIOUS
  <2>2. IsFiniteSet(1..n) /\ Cardinality(1..n) = IF 1 > n THEN 0 ELSE n - 1 + 1
    BY <2>1, FS_Interval, Zenon
  <2> QED BY <2>2
<1>2. f \in Surjection(1..n, T)
  BY DEF Surjection
<1>3. f \in Injection(1..n, T)
  <2> HIDE DEF f
  <2> QED BY <1>1, <1>2, FS_SurjSameCardinalityImpliesInj
<1> QED BY <1>3 DEF Injection, IsInjective, Distinct

\* What a sequence has is all of its own elements.
LEMMA OfItsOwn ==
  ASSUME NEW S, NEW s \in Seq(S)
  PROVE  s \in Seq(ToSet(s)) /\ \A i \in DOMAIN s : s[i] \in ToSet(s)
<1>1. Len(s) \in Nat /\ s \in [1..Len(s) -> S]
  BY LenProperties
<1>2. s \in [1..Len(s) -> ToSet(s)]
  BY <1>1 DEF ToSet
<1> QED BY <1>1, <1>2 DEF ToSet

\* The axes of an edge, its group's over the global ones, are well formed.
LEMMA MergedWellFormed ==
  ASSUME NEW spec, WellFormedAxesOf(spec), NEW edge
  PROVE  WellFormedAxes(MergedAxes(spec, edge))
<1> DEFINE own == {spec.groups[g].axes : g \in Exploring(spec, edge)}
           a == CHOOSE x \in own : TRUE
<1>1. CASE own = {}
  BY <1>1 DEF MergedAxes, WellFormedAxesOf
<1>2. CASE own # {}
  <2>1. WellFormedAxes(a)
    BY <1>2 DEF WellFormedAxesOf, Exploring
  <2>2. MergedAxes(spec, edge) = Merged(a, spec.axes)
    BY <1>2 DEF MergedAxes
  <2> HIDE DEF a
  <2>3. /\ DOMAIN Merged(a, spec.axes) = DOMAIN a \cup DOMAIN spec.axes
        /\ \A x \in DOMAIN a \cup DOMAIN spec.axes :
             Merged(a, spec.axes)[x] = IF x \in DOMAIN a THEN a[x] ELSE spec.axes[x]
    BY DEF Merged
  <2>4. IsFiniteSet(DOMAIN a \cup DOMAIN spec.axes)
    BY <2>1, FS_Union DEF WellFormedAxesOf, WellFormedAxes
  <2> QED BY <2>1, <2>2, <2>3, <2>4 DEF WellFormedAxesOf, WellFormedAxes
<1> QED BY <1>1, <1>2

\* The variants of an edge are its combinations that pass the filters, and all
\* of them.
LEMMA VariantsCombine ==
  ASSUME NEW spec, WellFormedAxesOf(spec), NEW edge
  PROVE  /\ Variants(spec, edge) \in Seq(Combinations(spec, edge))
         /\ \A v \in Combinations(spec, edge) :
              \E i \in DOMAIN Variants(spec, edge) : Variants(spec, edge)[i] = v
         /\ DistinctValues(MergedAxes(spec, edge)) => Distinct(Variants(spec, edge))
<1> DEFINE axes == MergedAxes(spec, edge)
           D == DOMAIN axes
           all == Product(axes)
           places == {i \in DOMAIN all : Kept(spec, all[i])}
           kept == Selected(all, places)
<1>1. Variants(spec, edge) = kept
  BY DEF Variants, KeptOf
<1>2. Combinations(spec, edge) = {v \in Chosen(axes, D) : Kept(spec, v)}
  BY DEF Combinations, Chosen, Values
<1>3. WellFormedAxes(axes)
  BY MergedWellFormed
<1> HIDE DEF axes
<1>4. Combines(axes, D, all)
  BY <1>3, ProductCombines
<1>5. all \in Seq(Chosen(axes, D)) /\ \A i \in DOMAIN all : all[i] \in Chosen(axes, D)
  BY <1>4, ElementOfSeq, LenProperties DEF Combines
<1>6. /\ kept \in Seq(Chosen(axes, D))
      /\ \A k \in DOMAIN kept : \E p \in places : kept[k] = all[p]
      /\ \A p \in places : \E k \in DOMAIN kept : kept[k] = all[p]
      /\ Distinct(all) => Distinct(kept)
  <2>1. places \in SUBSET DOMAIN all
    OBVIOUS
  <2> HIDE DEF places, all
  <2> QED BY <1>5, <2>1, Selection
<1>7. \A k \in DOMAIN kept : kept[k] \in Combinations(spec, edge)
  BY <1>2, <1>5, <1>6
<1>8. \A v \in Combinations(spec, edge) : \E k \in DOMAIN kept : kept[k] = v
  <2> TAKE v \in Combinations(spec, edge)
  <2>1. PICK p \in DOMAIN all : all[p] = v
    BY <1>2, <1>4 DEF Combines
  <2>2. p \in places
    BY <1>2, <2>1
  <2> QED BY <1>6, <2>1, <2>2
<1> HIDE DEF kept
<1>9. kept \in Seq(Combinations(spec, edge))
  <2>1. Len(kept) \in Nat /\ DOMAIN kept = 1..Len(kept) /\ kept \in [1..Len(kept) -> Chosen(axes, D)]
    BY <1>6, LenProperties
  <2>2. kept \in [1..Len(kept) -> Combinations(spec, edge)]
    BY <1>7, <2>1
  <2> QED BY <2>1, <2>2
<1>10. ASSUME DistinctValues(axes) PROVE Distinct(kept)
  <2>1. ASSUME NEW b \in D PROVE Distinct(axes[b])
    <3>1. Len(axes[b]) \in Nat /\ DOMAIN axes[b] = 1..Len(axes[b])
      BY <1>3, <2>1, Listed DEF WellFormedAxes
    <3>2. ToSet(axes[b]) = {axes[b][i] : i \in 1..Len(axes[b])}
      BY <3>1 DEF ToSet
    <3>3. Cardinality(ToSet(axes[b])) = Len(axes[b])
      BY <1>10 DEF DistinctValues
    <3> QED BY <3>1, <3>2, <3>3, FullRange
  <2> QED BY <1>4, <1>6, <2>1 DEF Combines
<1> QED BY <1>1, <1>8, <1>9, <1>10 DEF axes

\* Each edge is run once, and so is the one edge of an experiment that names none.
LEMMA EdgesOnce ==
  ASSUME NEW spec, GraphIsSound
  PROVE  /\ RunEdges(spec) \in Seq(ToSet(RunEdges(spec)))
         /\ \A i, j \in DOMAIN RunEdges(spec) :
              RunEdges(spec)[i].name = RunEdges(spec)[j].name => i = j
<1> DEFINE places == {i \in DOMAIN Edges : Edges[i].name \in Referenced(spec)}
           names == [i \in DOMAIN Edges |-> Edges[i].name]
<1>1. CASE Referenced(spec) = {}
  <2>1. RunEdges(spec) = <<NoEdge>>
    BY <1>1 DEF RunEdges
  <2>2. <<NoEdge>> \in Seq({NoEdge}) /\ DOMAIN <<NoEdge>> = {1}
    OBVIOUS
  <2>3. RunEdges(spec) \in Seq({NoEdge}) /\ DOMAIN RunEdges(spec) = {1}
    BY <2>1, <2>2
  <2>4. RunEdges(spec) \in Seq(ToSet(RunEdges(spec)))
    BY <2>3, OfItsOwn
  <2>5. \A i, j \in DOMAIN RunEdges(spec) : i = j
    BY <2>3
  <2> QED BY <2>4, <2>5
<1>2. CASE Referenced(spec) # {}
  <2>1. RunEdges(spec) = Selected(Edges, places) /\ places \in SUBSET DOMAIN Edges
    BY <1>2 DEF RunEdges
  <2>2. Len(Edges) \in Nat /\ DOMAIN Edges = 1..Len(Edges)
    BY EdgesAssumption, Listed
  <2>3. Distinct(names)
    <3>1. DOMAIN names = 1..Len(Edges) /\ {names[i] : i \in 1..Len(Edges)} = EdgeNames
      BY <2>2 DEF EdgeNames
    <3> HIDE DEF names
    <3> QED BY <2>2, <3>1, FullRange DEF GraphIsSound
  <2>4. \A i, j \in DOMAIN Edges : Edges[i].name = Edges[j].name => i = j
    BY <2>3 DEF Distinct
  <2>5. Distinct(Edges)
    BY <2>4 DEF Distinct
  <2> HIDE DEF places
  <2>6. /\ RunEdges(spec) \in Seq(ToSet(Edges))
        /\ \A k \in DOMAIN RunEdges(spec) : \E p \in places : RunEdges(spec)[k] = Edges[p]
        /\ Distinct(RunEdges(spec))
    BY <2>1, <2>5, EdgesAssumption, Listed, Selection
  <2>7. \A i, j \in DOMAIN RunEdges(spec) : RunEdges(spec)[i].name = RunEdges(spec)[j].name => i = j
    BY <2>1, <2>4, <2>6 DEF Distinct
  <2> QED BY <2>6, <2>7, OfItsOwn
<1> QED BY <1>1, <1>2

-----------------------------------------------------------------------------
(* The runs of a plan *)

EdgeOf(spec, e) == RunEdges(spec)[e]
VariantOf(spec, e, i) == Variants(spec, EdgeOf(spec, e))[i]
Places(spec) == {x \in (DOMAIN RunEdges(spec)) \X Nat : x[2] \in DOMAIN Variants(spec, EdgeOf(spec, x[1]))}
MadeAt(spec, x) == RunOf(spec, EdgeOf(spec, x[1]), x[2])

\* The plan has a run for each edge and place among its variants, and no other.
LEMMA RunsMade ==
  ASSUME NEW spec, WellFormedAxesOf(spec), GraphIsSound
  PROVE  /\ RunsOf(spec) \in Seq({MadeAt(spec, x) : x \in Places(spec)})
         /\ \A m \in DOMAIN RunsOf(spec) : \E x \in Places(spec) : RunsOf(spec)[m] = MadeAt(spec, x)
         /\ \A x \in Places(spec) : \E m \in DOMAIN RunsOf(spec) : RunsOf(spec)[m] = MadeAt(spec, x)
         /\ Distinct(RunsOf(spec))
<1> DEFINE edges == RunEdges(spec)
           Made == {MadeAt(spec, x) : x \in Places(spec)}
           Of(e) == [i \in DOMAIN Variants(spec, edges[e]) |-> RunOf(spec, edges[e], i)]
           ss == [e \in DOMAIN edges |-> Of(e)]
<1>1. RunsOf(spec) = FlattenSeq(ss)
  BY DEF RunsOf
<1>2. /\ edges \in Seq(ToSet(edges)) /\ DOMAIN edges = 1..Len(edges) /\ Len(edges) \in Nat
      /\ \A i, j \in DOMAIN edges : edges[i].name = edges[j].name => i = j
  BY EdgesOnce, LenProperties
<1>3. \A e \in DOMAIN edges : /\ DOMAIN Variants(spec, edges[e]) = 1..Len(Variants(spec, edges[e]))
                              /\ Len(Variants(spec, edges[e])) \in Nat
  BY VariantsCombine, LenProperties
<1>4. \A e \in DOMAIN edges : Of(e) \in Seq(Made)
  <2> TAKE e \in DOMAIN edges
  <2>1. \A i \in DOMAIN Variants(spec, edges[e]) : RunOf(spec, edges[e], i) \in Made
    <3> TAKE i \in DOMAIN Variants(spec, edges[e])
    <3>1. <<e, i>> \in Places(spec)
      BY <1>3 DEF Places, EdgeOf
    <3>2. MadeAt(spec, <<e, i>>) = RunOf(spec, edges[e], i)
      BY DEF MadeAt, EdgeOf
    <3> QED BY <3>1, <3>2
  <2> HIDE DEF Made
  <2>2. Of(e) \in [1..Len(Variants(spec, edges[e])) -> Made]
    BY <1>3, <2>1
  <2> QED BY <1>3, <2>2
<1>5. ss \in Seq(Seq(Made))
  <2> HIDE DEF Of, Made, edges
  <2>1. ss \in [1..Len(edges) -> Seq(Made)]
    BY <1>2, <1>4
  <2> QED BY <1>2, <2>1
<1>6. /\ DOMAIN ss = DOMAIN edges
      /\ \A e \in DOMAIN ss : /\ DOMAIN ss[e] = DOMAIN Variants(spec, edges[e])
                              /\ \A i \in DOMAIN ss[e] : ss[e][i] = RunOf(spec, edges[e], i)
  OBVIOUS
<1> HIDE DEF ss
<1>7. Apart(ss)
  <2>1. SUFFICES ASSUME NEW i \in DOMAIN ss, NEW j \in DOMAIN ss, NEW k \in DOMAIN ss[i], NEW l \in DOMAIN ss[j],
                        ss[i][k] = ss[j][l]
                 PROVE  i = j /\ k = l
    BY DEF Apart
  <2>2. RunOf(spec, edges[i], k) = RunOf(spec, edges[j], l)
    BY <1>6, <2>1
  <2>3. edges[i].name = edges[j].name /\ k = l
    <3>1. \A e, n : RunOf(spec, e, n).edge = e.name /\ RunOf(spec, e, n).index = n
      BY DEF RunOf
    <3> HIDE DEF edges
    <3> QED BY <2>2, <3>1
  <2> QED BY <1>2, <1>6, <2>3
<1>8. /\ FlattenSeq(ss) \in Seq(Made)
      /\ \A m \in DOMAIN FlattenSeq(ss) : \E i \in DOMAIN ss : \E k \in DOMAIN ss[i] :
           FlattenSeq(ss)[m] = ss[i][k]
      /\ \A i \in DOMAIN ss : \A k \in DOMAIN ss[i] : \E m \in DOMAIN FlattenSeq(ss) :
           FlattenSeq(ss)[m] = ss[i][k]
      /\ Distinct(FlattenSeq(ss))
  <2> HIDE DEF Made
  <2> QED BY <1>5, <1>7, Flattened
<1>9. \A m \in DOMAIN FlattenSeq(ss) : \E x \in Places(spec) : FlattenSeq(ss)[m] = MadeAt(spec, x)
  <2> TAKE m \in DOMAIN FlattenSeq(ss)
  <2>1. PICK e \in DOMAIN ss : \E k \in DOMAIN ss[e] : FlattenSeq(ss)[m] = ss[e][k]
    BY <1>8
  <2>2. PICK k \in DOMAIN ss[e] : FlattenSeq(ss)[m] = ss[e][k]
    BY <2>1
  <2>3. <<e, k>> \in Places(spec)
    BY <1>3, <1>6 DEF Places, EdgeOf
  <2>4. MadeAt(spec, <<e, k>>) = ss[e][k]
    BY <1>6 DEF MadeAt, EdgeOf
  <2> QED BY <2>2, <2>3, <2>4
<1>10. \A x \in Places(spec) : \E m \in DOMAIN FlattenSeq(ss) : FlattenSeq(ss)[m] = MadeAt(spec, x)
  <2> TAKE x \in Places(spec)
  <2>1. x[1] \in DOMAIN ss /\ x[2] \in DOMAIN ss[x[1]]
    BY <1>6 DEF Places, EdgeOf
  <2>2. ss[x[1]][x[2]] = MadeAt(spec, x)
    BY <1>6, <2>1 DEF MadeAt, EdgeOf
  <2> QED BY <1>8, <2>1, <2>2
<1> QED BY <1>1, <1>8, <1>9, <1>10

\* Of axes without repeated values the compiler makes each combination that
\* passes the filters once for each edge, and no other run.
THEOREM CompilesEachOnce ==
  ASSUME NEW spec, WellFormedAxesOf(spec), GraphIsSound,
         \A e \in ToSet(RunEdges(spec)) : DistinctValues(MergedAxes(spec, e))
  PROVE  RunsOwedOnce(spec, CompiledPlan(spec).runs)
<1> DEFINE edges == RunEdges(spec)
           runs == RunsOf(spec)
           n == Len(runs)
           planned == CompiledPlan(spec).runs
           Key(i) == <<runs[i].edge, runs[i].variant>>
           f == [i \in 1..n |-> Key(i)]
<1>1. DOMAIN runs = 1..n /\ n \in Nat
  BY RunsMade, LenProperties
<1>2. /\ DOMAIN planned = 1..n
      /\ \A i \in 1..n : planned[i].id = i /\ planned[i].edge = runs[i].edge /\ planned[i].variant = runs[i].variant
  BY <1>1 DEF CompiledPlan
<1>3. \A x \in Places(spec) : /\ x[1] \in DOMAIN edges /\ EdgeOf(spec, x[1]) \in ToSet(edges)
                              /\ x[2] \in DOMAIN Variants(spec, EdgeOf(spec, x[1]))
                              /\ MadeAt(spec, x).edge = EdgeOf(spec, x[1]).name
                              /\ MadeAt(spec, x).variant = VariantOf(spec, x[1], x[2])
  BY DEF Places, EdgeOf, VariantOf, MadeAt, RunOf, ToSet
<1>4. ASSUME NEW i \in 1..n PROVE f[i] \in Owed(spec)
  <2>1. PICK x \in Places(spec) : runs[i] = MadeAt(spec, x)
    BY <1>1, RunsMade
  <2>2. f[i] = <<EdgeOf(spec, x[1]).name, VariantOf(spec, x[1], x[2])>>
    BY <1>3, <2>1
  <2>3. VariantOf(spec, x[1], x[2]) \in Combinations(spec, EdgeOf(spec, x[1]))
    BY <1>3, VariantsCombine, ElementOfSeq, LenProperties DEF VariantOf
  <2> QED BY <1>3, <2>2, <2>3 DEF Owed
<1>5. ASSUME NEW o \in Owed(spec) PROVE \E i \in 1..n : f[i] = o
  <2>1. PICK e \in ToSet(edges) : \E v \in Combinations(spec, e) : o = <<e.name, v>>
    BY DEF Owed
  <2>2. PICK v \in Combinations(spec, e) : o = <<e.name, v>>
    BY <2>1
  <2>3. PICK j \in DOMAIN edges : edges[j] = e
    BY DEF ToSet
  <2>4. PICK k \in DOMAIN Variants(spec, e) : Variants(spec, e)[k] = v
    BY VariantsCombine
  <2>5. <<j, k>> \in Places(spec)
    <3>1. k \in Nat
      BY VariantsCombine, LenProperties
    <3> QED BY <2>3, <3>1 DEF Places, EdgeOf
  <2>6. PICK i \in DOMAIN runs : runs[i] = MadeAt(spec, <<j, k>>)
    BY <2>5, RunsMade
  <2>7. f[i] = <<e.name, v>>
    BY <1>1, <1>3, <2>3, <2>4, <2>5, <2>6 DEF EdgeOf, VariantOf
  <2> QED BY <1>1, <2>2, <2>7
<1>6. ASSUME NEW i \in 1..n, NEW l \in 1..n, f[i] = f[l] PROVE i = l
  <2>1. PICK x \in Places(spec) : runs[i] = MadeAt(spec, x)
    BY <1>1, RunsMade
  <2>2. PICK y \in Places(spec) : runs[l] = MadeAt(spec, y)
    BY <1>1, RunsMade
  <2>3. /\ EdgeOf(spec, x[1]).name = EdgeOf(spec, y[1]).name
        /\ VariantOf(spec, x[1], x[2]) = VariantOf(spec, y[1], y[2])
    BY <1>3, <1>6, <2>1, <2>2
  <2>4. x[1] = y[1]
    BY <1>3, <2>3, EdgesOnce DEF EdgeOf
  <2>5. x[2] = y[2]
    <3>1. Distinct(Variants(spec, EdgeOf(spec, x[1])))
      BY <1>3, VariantsCombine
    <3> QED BY <1>3, <2>3, <2>4, <3>1 DEF Distinct, VariantOf
  <2>6. runs[i] = runs[l]
    BY <2>1, <2>2, <2>4, <2>5 DEF MadeAt
  <2>7. Distinct(runs)
    BY RunsMade
  <2> QED BY <1>1, <2>6, <2>7 DEF Distinct
<1>7. f \in Bijection(1..n, Owed(spec))
  BY <1>4, <1>5, <1>6 DEF Bijection, Injection, Surjection, IsInjective
<1>8. Cardinality(Owed(spec)) = n
  <2>1. 1 \in Int /\ n \in Int
    BY <1>1
  <2> HIDE DEF n, f
  <2>2. IsFiniteSet(1..n) /\ Cardinality(1..n) = IF 1 > n THEN 0 ELSE n - 1 + 1
    BY <2>1, FS_Interval, Zenon
  <2>3. Cardinality(1..n) = Cardinality(Owed(spec))
    BY <1>7, <2>2, FS_Bijection DEF ExistsBijection
  <2> QED BY <1>1, <2>2, <2>3
<1>9. Len(planned) = n
  <2>1. planned \in [1..n -> {planned[i] : i \in 1..n}]
    <3> DEFINE g == [i \in DOMAIN runs |-> [id |-> i, edge |-> runs[i].edge, variant |-> runs[i].variant,
                       index |-> runs[i].index, env |-> runs[i].env, phases |-> runs[i].phases]]
    <3>1. planned = g
      BY DEF CompiledPlan
    <3>2. g \in [1..n -> {g[i] : i \in 1..n}]
      BY <1>1
    <3> QED BY <3>1, <3>2
  <2> HIDE DEF planned, n
  <2> QED BY <1>1, <2>1
<1>10. {<<planned[i].edge, planned[i].variant>> : i \in DOMAIN planned} = Owed(spec)
  <2>1. {<<planned[i].edge, planned[i].variant>> : i \in DOMAIN planned} = {f[i] : i \in 1..n}
    BY <1>2
  <2> HIDE DEF f
  <2> QED BY <1>4, <1>5, <2>1
<1> QED BY <1>2, <1>8, <1>9, <1>10 DEF RunsOwedOnce

-----------------------------------------------------------------------------
(* The form of a plan *)

GroupEntries(spec) ==
  UNION {{Inherit(spec.groups[g].phases[p], spec.groups[g].refs) : p \in DOMAIN spec.groups[g].phases}
           : g \in DOMAIN spec.groups}
AllEntries(spec) == ToSet(spec.phases) \cup GroupEntries(spec)

\* The lists of actions an experiment has in its phases, in its groups and in
\* the templates.
PhaseLists(spec) == {spec.phases[p].actions : p \in DOMAIN spec.phases}
GroupLists(spec) ==
  UNION {{spec.groups[g].phases[p].actions : p \in DOMAIN spec.groups[g].phases} : g \in DOMAIN spec.groups}
TemplateLists == {Templates[t] : t \in DOMAIN Templates}
ActionLists(spec) == PhaseLists(spec) \cup GroupLists(spec) \cup TemplateLists

\* The phases of an experiment and of its groups are one list.
LEMMA EntriesListed ==
  ASSUME NEW spec, WellFormed(spec)
  PROVE  Entries(spec) \in Seq(AllEntries(spec))
<1> DEFINE Row(g) == [p \in DOMAIN spec.groups[g].phases |->
                        Inherit(spec.groups[g].phases[p], spec.groups[g].refs)]
           ss == [g \in DOMAIN spec.groups |-> Row(g)]
           All == AllEntries(spec)
<1>1. \A g \in DOMAIN spec.groups : Row(g) \in Seq(All)
  <2> TAKE g \in DOMAIN spec.groups
  <2>1. /\ DOMAIN spec.groups[g].phases = 1..Len(spec.groups[g].phases)
        /\ Len(spec.groups[g].phases) \in Nat
    BY Listed DEF WellFormed, WellFormedEntries
  <2>2. \A p \in DOMAIN spec.groups[g].phases : Inherit(spec.groups[g].phases[p], spec.groups[g].refs) \in All
    BY DEF AllEntries, GroupEntries
  <2> HIDE DEF All
  <2>3. Row(g) \in [1..Len(spec.groups[g].phases) -> All]
    BY <2>1, <2>2
  <2> QED BY <2>1, <2>3
<1>2. DOMAIN spec.groups = 1..Len(spec.groups) /\ Len(spec.groups) \in Nat
  BY Listed DEF WellFormed
<1>3. ss \in Seq(Seq(All))
  <2> HIDE DEF Row, All
  <2>1. ss \in [1..Len(spec.groups) -> Seq(All)]
    BY <1>1, <1>2
  <2> QED BY <1>2, <2>1
<1>4. FlattenSeq(ss) \in Seq(All)
  <2> HIDE DEF ss, All
  <2> QED BY <1>3, Flattened
<1>5. spec.phases \in Seq(All)
  <2>1. spec.phases \in Seq(ToSet(spec.phases))
    BY Listed DEF WellFormed, WellFormedEntries
  <2> QED BY <2>1, SeqMonotonic DEF AllEntries
<1>6. Entries(spec) = spec.phases \o FlattenSeq(ss)
  BY DEF Entries
<1> HIDE DEF ss, All
<1>7. Entries(spec) \in Seq(All)
  BY <1>4, <1>5, <1>6, ConcatProperties
<1> QED BY <1>7 DEF All

\* An entry's actions are one of the lists, or none.
LEMMA EntryGiven ==
  ASSUME NEW spec, WellFormed(spec), NEW e \in AllEntries(spec)
  PROVE  /\ e.cleanup \in BOOLEAN
         /\ DOMAIN EntryActions(e) = 1..Len(EntryActions(e)) /\ Len(EntryActions(e)) \in Nat
         /\ EntryActions(e) # << >> => EntryActions(e) \in ActionLists(spec)
<1>1. e.cleanup \in BOOLEAN /\ IsSequence(e.actions) /\ e.actions \in PhaseLists(spec) \cup GroupLists(spec)
  <2>1. CASE e \in ToSet(spec.phases)
    BY <2>1 DEF WellFormed, WellFormedEntries, ToSet, PhaseLists
  <2>2. CASE e \in GroupEntries(spec)
    <3>1. \E g \in DOMAIN spec.groups : \E p \in DOMAIN spec.groups[g].phases :
            e = Inherit(spec.groups[g].phases[p], spec.groups[g].refs)
      BY <2>2 DEF GroupEntries
    <3>2. PICK g \in DOMAIN spec.groups : \E p \in DOMAIN spec.groups[g].phases :
            e = Inherit(spec.groups[g].phases[p], spec.groups[g].refs)
      BY <3>1
    <3>3. PICK p \in DOMAIN spec.groups[g].phases : e = Inherit(spec.groups[g].phases[p], spec.groups[g].refs)
      BY <3>2
    <3> DEFINE f == spec.groups[g].phases[p]
    <3>4. DOMAIN f = {"use", "actions", "refs", "cleanup"} /\ IsSequence(f.actions) /\ f.cleanup \in BOOLEAN
      BY DEF WellFormed, WellFormedEntries
    <3>5. f.actions \in GroupLists(spec)
      BY DEF GroupLists
    <3> HIDE DEF f
    <3>6. e.actions = f.actions /\ e.cleanup = f.cleanup
      BY <3>3, <3>4 DEF Inherit, f
    <3> QED BY <3>4, <3>5, <3>6
  <2> QED BY <2>1, <2>2 DEF AllEntries
<1>2. CASE e.actions # << >>
  BY <1>1, <1>2, Listed DEF EntryActions, ActionLists
<1>3. CASE e.actions = << >> /\ e.use \in DOMAIN Templates
  <2>1. EntryActions(e) = Templates[e.use]
    BY <1>3 DEF EntryActions
  <2> QED BY <1>1, <1>3, <2>1, TemplatesAssumption, Listed DEF ActionLists, TemplateLists
<1>4. CASE e.actions = << >> /\ e.use \notin DOMAIN Templates
  <2>1. EntryActions(e) = << >>
    BY <1>4 DEF EntryActions
  <2>2. DOMAIN << >> = 1..Len(<< >>) /\ Len(<< >>) \in Nat
    OBVIOUS
  <2> QED BY <1>1, <2>1, <2>2
<1> QED BY <1>2, <1>3, <1>4

VmNames == {n.name : n \in VmNodes}

\* What an action becomes on each node it is meant for.
Rendered(action, variant, edge) ==
  {[type |-> action.type, preset |-> action.preset, target |-> node, cleanup_only |-> action.cleanup_only,
    value |-> IF action.axis = 0 THEN action.value ELSE variant[action.axis]]
     : node \in IF action.type \in Untargeted THEN {0} ELSE Resolve(action, variant, edge)}

\* An action is rendered to actions on VMs of the scenario.
LEMMA RenderMakes ==
  ASSUME NEW action, NEW variant, NEW edge, VmNames \in SUBSET Nat, IsFiniteSet(VmNames)
  PROVE  /\ Render(action, variant, edge) \in Seq(Rendered(action, variant, edge))
         /\ Resolve(action, variant, edge) \subseteq VmNames
<1> DEFINE value == IF action.axis = 0 THEN action.value ELSE variant[action.axis]
           On(node) == [type |-> action.type, preset |-> action.preset, target |-> node,
                       cleanup_only |-> action.cleanup_only, value |-> value]
           targets == Resolve(action, variant, edge)
           nodes == Ascending(targets)
           Made == Rendered(action, variant, edge)
<1>1. targets \subseteq VmNames
  BY DEF Resolve, VmNames
<1>2. targets \in SUBSET Nat /\ IsFiniteSet(targets)
  BY <1>1, FS_Subset
<1>3. Made = {On(node) : node \in IF action.type \in Untargeted THEN {0} ELSE targets}
  BY DEF Rendered
<1>4. Render(action, variant, edge) =
        IF action.type \in Untargeted THEN <<On(0)>> ELSE [i \in DOMAIN nodes |-> On(nodes[i])]
  BY DEF Render
<1> HIDE DEF targets, Made, On
<1>5. ASSUME action.type \in Untargeted PROVE Render(action, variant, edge) \in Seq(Made)
  <2>1. On(0) \in Made /\ Render(action, variant, edge) = <<On(0)>>
    BY <1>3, <1>4, <1>5
  <2> QED BY <2>1
<1>6. ASSUME action.type \notin Untargeted PROVE Render(action, variant, edge) \in Seq(Made)
  <2>1. nodes \in Seq(targets)
    BY <1>2, Sorted
  <2> HIDE DEF nodes
  <2>2. Len(nodes) \in Nat /\ DOMAIN nodes = 1..Len(nodes) /\ \A i \in 1..Len(nodes) : nodes[i] \in targets
    BY <2>1, LenProperties, ElementOfSeq
  <2>3. \A i \in 1..Len(nodes) : On(nodes[i]) \in Made
    BY <1>3, <1>6, <2>2
  <2>4. [i \in DOMAIN nodes |-> On(nodes[i])] \in [1..Len(nodes) -> Made]
    BY <2>2, <2>3
  <2>5. Render(action, variant, edge) = [i \in DOMAIN nodes |-> On(nodes[i])]
    BY <1>4, <1>6
  <2> QED BY <2>2, <2>4, <2>5
<1>7. Render(action, variant, edge) \in Seq(Made)
  BY <1>5, <1>6
<1> QED BY <1>1, <1>7 DEF Made, targets

\* Where an action of a plan comes from: it was found sound and rendered for a
\* node it is meant for.
ComesFrom(spec, a) ==
  \E list \in ActionLists(spec) : \E k \in DOMAIN list : \E variant, edge :
    ActionIsSound(list[k], variant, edge) /\ a \in Rendered(list[k], variant, edge)

PhaseIsFormed(spec, phase) ==
  /\ phase.cleanup \in BOOLEAN
  /\ DOMAIN phase.actions = 1..Len(phase.actions) /\ Len(phase.actions) \in Nat
  /\ \A a \in DOMAIN phase.actions : ComesFrom(spec, phase.actions[a])

\* A phase that compiles is rendered to a list of actions made from its own.
LEMMA PhaseFormed ==
  ASSUME NEW spec, WellFormed(spec), NEW e \in AllEntries(spec), NEW variant, NEW edge,
         \A i \in DOMAIN EntryActions(e) : ActionIsSound(EntryActions(e)[i], variant, edge),
         VmNames \in SUBSET Nat, IsFiniteSet(VmNames)
  PROVE  PhaseIsFormed(spec, RenderPhase(e, variant, edge))
<1> DEFINE list == EntryActions(e)
           Made == UNION {Rendered(list[i], variant, edge) : i \in DOMAIN list}
           ss == [i \in DOMAIN list |-> Render(list[i], variant, edge)]
           phase == RenderPhase(e, variant, edge)
<1>1. phase.cleanup = e.cleanup /\ phase.actions = FlattenSeq(ss)
  BY DEF RenderPhase
<1>2. /\ e.cleanup \in BOOLEAN
      /\ DOMAIN list = 1..Len(list) /\ Len(list) \in Nat
      /\ list # << >> => list \in ActionLists(spec)
  BY EntryGiven
<1>3. \A i \in DOMAIN list : Render(list[i], variant, edge) \in Seq(Made)
  <2> TAKE i \in DOMAIN list
  <2>1. Render(list[i], variant, edge) \in Seq(Rendered(list[i], variant, edge))
    BY RenderMakes
  <2>2. Rendered(list[i], variant, edge) \subseteq Made
    OBVIOUS
  <2> HIDE DEF Made
  <2> QED BY <2>1, <2>2, SeqMonotonic
<1>4. ss \in Seq(Seq(Made))
  <2> HIDE DEF list, Made
  <2>1. ss \in [1..Len(list) -> Seq(Made)]
    BY <1>2, <1>3
  <2> QED BY <1>2, <2>1
<1>5. FlattenSeq(ss) \in Seq(Made)
  <2> HIDE DEF ss, Made
  <2> QED BY <1>4, Flattened
<1>6. \A m \in DOMAIN FlattenSeq(ss) : FlattenSeq(ss)[m] \in Made
  <2> HIDE DEF ss, Made
  <2> QED BY <1>5, LenProperties, ElementOfSeq
<1>7. \A a \in Made : ComesFrom(spec, a)
  <2> TAKE a \in Made
  <2>1. PICK i \in DOMAIN list : a \in Rendered(list[i], variant, edge)
    OBVIOUS
  <2>2. list # << >>
    <3>1. DOMAIN << >> = {}
      OBVIOUS
    <3> QED BY <2>1, <3>1
  <2> QED BY <1>2, <2>1, <2>2 DEF ComesFrom
<1>8. DOMAIN FlattenSeq(ss) = 1..Len(FlattenSeq(ss)) /\ Len(FlattenSeq(ss)) \in Nat
  <2> HIDE DEF ss, Made
  <2> QED BY <1>5, LenProperties
<1> HIDE DEF ss, Made, phase
<1> QED BY <1>1, <1>2, <1>6, <1>7, <1>8 DEF PhaseIsFormed, phase

RunIsFormed(spec, run) ==
  /\ DOMAIN run.phases = 1..Len(run.phases) /\ Len(run.phases) \in Nat \ {0}
  /\ \A p \in DOMAIN run.phases : PhaseIsFormed(spec, run.phases[p])

\* A run has a list of such phases.
LEMMA RunFormed ==
  ASSUME NEW spec, WellFormed(spec), NEW edge, EdgeCompiles(spec, edge),
         NEW index \in DOMAIN Variants(spec, edge), VmNames \in SUBSET Nat, IsFiniteSet(VmNames)
  PROVE  RunIsFormed(spec, RunOf(spec, edge, index))
<1> DEFINE entries == PhasesOf(spec, edge)
           variant == Variants(spec, edge)[index]
           phases == [p \in DOMAIN entries |-> RenderPhase(entries[p], variant, edge)]
<1>1. RunOf(spec, edge, index).phases = phases
  BY DEF RunOf
<1>2. entries \in Seq(AllEntries(spec))
  <2> DEFINE all == Entries(spec)
             places == {i \in DOMAIN all : all[i].refs = << >> \/ edge.name \in ToSet(all[i].refs)}
  <2>1. entries = Selected(all, places) /\ places \in SUBSET DOMAIN all
    BY DEF PhasesOf
  <2>2. all \in Seq(AllEntries(spec))
    BY EntriesListed
  <2> HIDE DEF all, places, entries
  <2> QED BY <2>1, <2>2, Selection
<1>3. DOMAIN entries = 1..Len(entries) /\ Len(entries) \in Nat /\ \A p \in DOMAIN entries : entries[p] \in AllEntries(spec)
  <2> HIDE DEF entries
  <2> QED BY <1>2, LenProperties, ElementOfSeq
<1>4. Len(entries) # 0
  <2>1. entries # << >>
    BY DEF EdgeCompiles
  <2> HIDE DEF entries
  <2> QED BY <1>2, <2>1, EmptySeq
<1>5. \A p \in DOMAIN entries : \A i \in DOMAIN EntryActions(entries[p]) :
        ActionIsSound(EntryActions(entries[p])[i], variant, edge)
  <2>1. variant \in ToSet(Variants(spec, edge)) /\ \A p \in DOMAIN entries : entries[p] \in ToSet(entries)
    BY DEF ToSet
  <2> HIDE DEF variant
  <2> QED BY <2>1 DEF EdgeCompiles
<1>6. \A p \in DOMAIN entries : PhaseIsFormed(spec, RenderPhase(entries[p], variant, edge))
  BY <1>3, <1>5, PhaseFormed
<1>7. DOMAIN phases = 1..Len(entries) /\ Len(phases) = Len(entries)
  <2> HIDE DEF entries, variant
  <2>1. phases \in [1..Len(entries) -> {phases[p] : p \in 1..Len(entries)}]
    BY <1>3
  <2> QED BY <1>3, <2>1
<1>8. \A p \in DOMAIN phases : PhaseIsFormed(spec, phases[p])
  BY <1>6
<1> HIDE DEF phases
<1> QED BY <1>1, <1>3, <1>4, <1>7, <1>8 DEF RunIsFormed

PlanIsFormed(spec, plan) ==
  /\ DOMAIN plan.runs = 1..Len(plan.runs) /\ Len(plan.runs) \in Nat \ {0}
  /\ \A i \in DOMAIN plan.runs : RunIsFormed(spec, plan.runs[i])

\* An edge that an entry names is an edge of the graph, so that there is one to run.
LEMMA SomeEdge ==
  ASSUME NEW spec, WellFormed(spec), Compiles(spec)
  PROVE  1 \in DOMAIN RunEdges(spec)
<1> DEFINE places == {i \in DOMAIN Edges : Edges[i].name \in Referenced(spec)}
<1>1. CASE Referenced(spec) = {}
  BY <1>1 DEF RunEdges
<1>2. CASE Referenced(spec) # {}
  <2>1. PICK i \in DOMAIN Entries(spec) : ToSet(Entries(spec)[i].refs) # {}
    BY <1>2 DEF Referenced
  <2>2. PICK name \in ToSet(Entries(spec)[i].refs) : TRUE
    BY <2>1
  <2>3. name \in EdgeNames
    BY <2>2 DEF Compiles, EntryIsSound
  <2>4. PICK j \in DOMAIN Edges : Edges[j].name = name
    BY <2>3 DEF EdgeNames
  <2>5. j \in places
    BY <2>2, <2>4 DEF Referenced
  <2>6. RunEdges(spec) = Selected(Edges, places) /\ places \in SUBSET DOMAIN Edges
    BY <1>2 DEF RunEdges
  <2> HIDE DEF places
  <2>7. /\ DOMAIN RunEdges(spec) = 1..Cardinality(places) /\ Cardinality(places) \in Nat
        /\ \E k \in DOMAIN RunEdges(spec) : RunEdges(spec)[k] = Edges[j]
    BY <2>5, <2>6, EdgesAssumption, Listed, Selection
  <2> QED BY <2>7
<1> QED BY <1>1, <1>2

\* The plan of an experiment that compiles is a list of such runs
\* (compile_experiment_plan), which is what RunExecution needs to know of it.
LEMMA PlanFormed ==
  ASSUME NEW spec, WellFormed(spec), Compiles(spec), VmNames \in SUBSET Nat, IsFiniteSet(VmNames)
  PROVE  PlanIsFormed(spec, CompiledPlan(spec))
<1> DEFINE runs == RunsOf(spec)
           planned == CompiledPlan(spec).runs
<1>1. WellFormedAxesOf(spec) /\ GraphIsSound
  BY DEF WellFormed, Compiles
<1>2. DOMAIN runs = 1..Len(runs) /\ Len(runs) \in Nat
  BY <1>1, RunsMade, LenProperties
<1>3. \A e \in DOMAIN RunEdges(spec) : EdgeCompiles(spec, RunEdges(spec)[e])
  BY DEF Compiles
<1>4. Len(runs) # 0
  <2>1. 1 \in DOMAIN RunEdges(spec)
    BY SomeEdge
  <2>2. Variants(spec, RunEdges(spec)[1]) # << >>
    BY <1>3, <2>1 DEF EdgeCompiles
  <2>3. 1 \in DOMAIN Variants(spec, RunEdges(spec)[1])
    <3> DEFINE vs == Variants(spec, RunEdges(spec)[1])
    <3>1. vs \in Seq(Combinations(spec, RunEdges(spec)[1]))
      BY <1>1, VariantsCombine
    <3> HIDE DEF vs
    <3>2. Len(vs) # 0 /\ Len(vs) \in Nat /\ DOMAIN vs = 1..Len(vs)
      BY <2>2, <3>1, EmptySeq, LenProperties DEF vs
    <3> QED BY <3>2 DEF vs
  <2>4. <<1, 1>> \in Places(spec)
    BY <2>1, <2>3 DEF Places, EdgeOf
  <2>5. \E m \in DOMAIN runs : runs[m] = MadeAt(spec, <<1, 1>>)
    BY <1>1, <2>4, RunsMade
  <2> QED BY <1>2, <2>5
<1>5. /\ DOMAIN planned = 1..Len(runs) /\ Len(planned) = Len(runs)
      /\ \A i \in 1..Len(runs) : planned[i].phases = runs[i].phases
  <2> DEFINE g == [i \in DOMAIN runs |-> [id |-> i, edge |-> runs[i].edge, variant |-> runs[i].variant,
                     index |-> runs[i].index, env |-> runs[i].env, phases |-> runs[i].phases]]
  <2>1. planned = g
    BY DEF CompiledPlan
  <2>2. \A i \in 1..Len(runs) : g[i].phases = runs[i].phases
    BY <1>2
  <2>3. g \in [1..Len(runs) -> {g[i] : i \in 1..Len(runs)}]
    BY <1>2
  <2> HIDE DEF g, runs, planned
  <2> QED BY <1>2, <2>1, <2>2, <2>3
<1>6. \A i \in DOMAIN runs : RunIsFormed(spec, runs[i])
  <2> TAKE i \in DOMAIN runs
  <2>1. PICK x \in Places(spec) : runs[i] = MadeAt(spec, x)
    BY <1>1, RunsMade
  <2>2. /\ x[1] \in DOMAIN RunEdges(spec) /\ x[2] \in DOMAIN Variants(spec, RunEdges(spec)[x[1]])
        /\ runs[i] = RunOf(spec, RunEdges(spec)[x[1]], x[2])
    BY <2>1 DEF Places, MadeAt, EdgeOf
  <2> QED BY <1>3, <2>2, RunFormed
<1> HIDE DEF runs, planned
<1>7. \A i \in DOMAIN planned : RunIsFormed(spec, planned[i])
  BY <1>2, <1>5, <1>6 DEF RunIsFormed
<1> QED BY <1>2, <1>4, <1>5, <1>7 DEF PlanIsFormed, planned

=============================================================================
