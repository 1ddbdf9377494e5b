------------------------- MODULE SubsequenceProofs -------------------------
(***************************************************************************)
(* What Keep returns, for every sequence and set.  The proofs are by       *)
(* induction on the length, which Induction states for sets of numbers     *)
(* that are written as such.                                               *)
(***************************************************************************)
EXTENDS Subsequence, Integers, FiniteSetTheorems, SequenceTheorems, TLAPS

\* Induction on the numbers, for a set: FS_Injection says that a finite set is not
\* mapped one to one into a smaller one.
LEMMA Induction ==
  ASSUME NEW Z \in SUBSET Nat, 0 \in Z, \A n \in Z : n + 1 \in Z
  PROVE  Z = Nat
<1> SUFFICES ASSUME NEW n \in Nat, n \notin Z PROVE FALSE
  OBVIOUS
<1> DEFINE T == {x \in Z : x <= n}
           next == [x \in T |-> x + 1]
<1>1. IsFiniteSet(T) /\ 0 \in T
  <2>1. IsFiniteSet(0..n)
    BY FS_Interval
  <2>2. \A x \in T : x \in 0..n
    OBVIOUS
  <2>3. T \subseteq 0..n
    BY <2>2
  <2> QED
    BY <2>1, <2>3, FS_Subset
<1>2. IsFiniteSet(T \ {0}) /\ Cardinality(T \ {0}) = Cardinality(T) - 1
  BY <1>1, FS_RemoveElement
<1>3. next \in Injection(T, T \ {0})
  <2>1. \A x \in T : x + 1 \in T \ {0}
    OBVIOUS
  <2>2. \A x, y \in T : x + 1 = y + 1 => x = y
    OBVIOUS
  <2> HIDE DEF T
  <2> QED
    BY <2>1, <2>2 DEF Injection, IsInjective, next
<1>4. Cardinality(T) <= Cardinality(T \ {0}) /\ Cardinality(T) \in Nat
  <2> HIDE DEF T, next
  <2> QED
    BY <1>1, <1>2, <1>3, FS_Injection, FS_CardinalityType
<1> HIDE DEF T
<1> QED
  BY <1>2, <1>4

\* The function that Keep takes its value from is there.
LEMMA KeepUnfolds ==
  ASSUME NEW T, NEW s \in Seq(T), NEW S
  PROVE  \E f : /\ Keep(s, S) = f[Len(s)] /\ f[0] = <<>>
                /\ \A i \in 1..Len(s) :
                     f[i] = IF s[i] \in S THEN Append(f[i - 1], s[i]) ELSE f[i - 1]
<1> DEFINE n == Len(s)
           Step(f, i) == IF i = 0 THEN <<>>
                         ELSE IF s[i] \in S THEN Append(f[i - 1], s[i]) ELSE f[i - 1]
           Upto(m) == \E f : f = [i \in 0..m |-> Step(f, i)]
           Z == {m \in Nat : Upto(m)}
<1>0. n \in Nat
  OBVIOUS
<1>1. 0 \in Z
  <2> DEFINE f == [i \in 0..0 |-> <<>>]
  <2>1. f = [i \in 0..0 |-> Step(f, i)]
    OBVIOUS
  <2> QED
    BY <2>1
<1>2. ASSUME NEW m \in Z PROVE m + 1 \in Z
  <2>1. PICK f : f = [i \in 0..m |-> Step(f, i)]
    OBVIOUS
  <2> DEFINE g == [i \in 0..(m + 1) |-> Step(f, i)]
  <2>2. \A i \in 0..m : g[i] = f[i]
    <3>1. 0..m \subseteq 0..(m + 1)
      OBVIOUS
    <3> HIDE DEF Step
    <3>2. \A i \in 0..m : f[i] = Step(f, i)
      BY <2>1, Zenon
    <3> QED
      BY <3>1, <3>2
  <2>3. \A i \in 0..(m + 1) : i # 0 => i - 1 \in 0..m
    OBVIOUS
  <2>4. \A i \in 0..(m + 1) : Step(f, i) = Step(g, i)
    <3> HIDE DEF g
    <3> QED
      BY <2>2, <2>3
  <2>5. g = [i \in 0..(m + 1) |-> Step(g, i)]
    <3> HIDE DEF Step
    <3> QED BY <2>4
  <2>6. Upto(m + 1)
    <3> HIDE DEF Step, g
    <3> QED
      BY <2>5
  <2> HIDE DEF Upto
  <2> QED
    BY <2>6
<1>3. Z = Nat
  <2> HIDE DEF Upto
  <2> QED
    BY <1>1, <1>2, Induction
<1>4. Upto(n)
  BY <1>0, <1>3
<1> DEFINE kept == CHOOSE f : f = [i \in 0..n |-> Step(f, i)]
<1>5. kept = [i \in 0..n |-> Step(kept, i)]
  BY <1>4
<1>6. Keep(s, S) = kept[n]
  BY DEF Keep
<1>7. kept[0] = <<>> /\ \A i \in 1..n : kept[i] = Step(kept, i)
  <2>1. \A i \in 0..n : kept[i] = Step(kept, i)
    <3> HIDE DEF kept, Step
    <3> QED
      BY <1>5, Zenon
  <2> HIDE DEF kept
  <2> QED
    BY <2>1, <1>0
<1>8. \A i \in 1..n : i # 0
  OBVIOUS
<1> HIDE DEF kept
<1> QED
  BY <1>6, <1>7, <1>8

\* What Keep returns: the places of s whose element is in S, in their order.
Picks(k, s, S, n) ==
  \E place \in [1..Len(k) -> 1..n] :
    /\ \A i \in 1..Len(k) : k[i] = s[place[i]] /\ k[i] \in S
    /\ \A i, j \in 1..Len(k) : i < j => place[i] < place[j]
    /\ \A p \in 1..n : s[p] \in S => \E i \in 1..Len(k) : place[i] = p

LEMMA KeepPicks ==
  ASSUME NEW T, NEW s \in Seq(T), NEW S
  PROVE  Keep(s, S) \in Seq(T) /\ Picks(Keep(s, S), s, S, Len(s))
<1>1. PICK f : /\ Keep(s, S) = f[Len(s)] /\ f[0] = <<>>
               /\ \A i \in 1..Len(s) :
                    f[i] = IF s[i] \in S THEN Append(f[i - 1], s[i]) ELSE f[i - 1]
  BY KeepUnfolds
<1> DEFINE Z == {n \in Nat : n <= Len(s) => f[n] \in Seq(T) /\ Picks(f[n], s, S, n)}
<1>2. 0 \in Z
  <2>1. f[0] = <<>> /\ <<>> \in Seq(T) /\ Len(<<>>) = 0
    BY <1>1
  <2>2. Picks(<<>>, s, S, 0)
    <3> DEFINE place == [i \in 1..0 |-> 1]
    <3>1. place \in [1..Len(<<>>) -> 1..0] /\ \A i \in 1..Len(<<>>) : FALSE
      OBVIOUS
    <3>2. \A i \in 1..0 : FALSE
      OBVIOUS
    <3> HIDE DEF place
    <3> QED
      BY <3>1, <3>2, Zenon DEF Picks
  <2> QED
    BY <2>1, <2>2
<1>3. ASSUME NEW n \in Z PROVE n + 1 \in Z
  <2> SUFFICES ASSUME n + 1 <= Len(s)
               PROVE  f[n + 1] \in Seq(T) /\ Picks(f[n + 1], s, S, n + 1)
    OBVIOUS
  <2>1. n \in Nat /\ f[n] \in Seq(T) /\ Picks(f[n], s, S, n)
    OBVIOUS
  <2>2. n + 1 \in 1..Len(s) /\ s[n + 1] \in T
    BY <2>1
  <2>3. f[n + 1] = IF s[n + 1] \in S THEN Append(f[n], s[n + 1]) ELSE f[n]
    BY <1>1, <2>1, <2>2
  <2>4. PICK place \in [1..Len(f[n]) -> 1..n] :
          /\ \A i \in 1..Len(f[n]) : f[n][i] = s[place[i]] /\ f[n][i] \in S
          /\ \A i, j \in 1..Len(f[n]) : i < j => place[i] < place[j]
          /\ \A p \in 1..n : s[p] \in S => \E i \in 1..Len(f[n]) : place[i] = p
    BY <2>1 DEF Picks
  <2>5. CASE s[n + 1] \notin S
    <3>1. f[n + 1] = f[n] /\ place \in [1..Len(f[n]) -> 1..(n + 1)]
      BY <2>1, <2>3, <2>4, <2>5
    <3>2. \A p \in 1..(n + 1) : s[p] \in S => p \in 1..n
      BY <2>1, <2>5
    <3> QED
      BY <2>1, <2>4, <3>1, <3>2 DEF Picks
  <2>6. CASE s[n + 1] \in S
    <3> DEFINE k == f[n]  m == Len(k)
               wider == [i \in 1..(m + 1) |-> IF i = m + 1 THEN n + 1 ELSE place[i]]
    <3>1. f[n + 1] = Append(k, s[n + 1]) /\ f[n + 1] \in Seq(T) /\ Len(f[n + 1]) = m + 1
      BY <2>1, <2>2, <2>3, <2>6
    <3>2. /\ \A i \in 1..m : f[n + 1][i] = k[i]
          /\ f[n + 1][m + 1] = s[n + 1]
      BY <2>1, <2>2, <3>1
    <3>3. m \in Nat /\ \A i \in 1..(m + 1) : i = m + 1 \/ i \in 1..m
      BY <2>1
    <3>4. wider \in [1..(m + 1) -> 1..(n + 1)]
      BY <2>1, <2>4, <3>3
    <3>5. wider[m + 1] = n + 1 /\ \A i \in 1..m : wider[i] = place[i] /\ place[i] \in 1..n
      <4>1. m + 1 \in 1..(m + 1) /\ \A i \in 1..m : i \in 1..(m + 1) /\ i # m + 1
        BY <3>3
      <4>2. \A i \in 1..m : place[i] \in 1..n
        OBVIOUS
      <4> QED
        BY <4>1, <4>2
    <3> HIDE DEF wider, k
    <3>6. \A i \in 1..(m + 1) : f[n + 1][i] = s[wider[i]] /\ f[n + 1][i] \in S
      BY <2>4, <2>6, <3>2, <3>3, <3>5 DEF k
    <3>7. \A i, j \in 1..(m + 1) : i < j => wider[i] < wider[j]
      <4> SUFFICES ASSUME NEW i \in 1..(m + 1), NEW j \in 1..(m + 1), i < j
                   PROVE  wider[i] < wider[j]
        OBVIOUS
      <4>1. i \in 1..m
        BY <3>3
      <4>2. CASE j = m + 1
        BY <4>1, <4>2, <3>5, <2>1
      <4>3. CASE j \in 1..m
        BY <4>1, <4>3, <3>5, <2>4 DEF k
      <4> QED
        BY <4>2, <4>3, <3>3
    <3>8. \A p \in 1..(n + 1) : s[p] \in S => \E i \in 1..(m + 1) : wider[i] = p
      <4> SUFFICES ASSUME NEW p \in 1..(n + 1), s[p] \in S
                   PROVE  \E i \in 1..(m + 1) : wider[i] = p
        OBVIOUS
      <4>1. CASE p = n + 1
        BY <4>1, <3>5, <3>3
      <4>2. CASE p \in 1..n
        <5>1. PICK i \in 1..m : place[i] = p
          BY <4>2, <2>4 DEF k
        <5>2. i \in 1..(m + 1)
          BY <3>3
        <5> QED
          BY <5>1, <5>2, <3>5
      <4> QED
        BY <4>1, <4>2, <2>1
    <3>9. Picks(f[n + 1], s, S, n + 1)
      <4> DEFINE h == f[n + 1]
      <4>1. Len(h) = m + 1
        BY <3>1
      <4> HIDE DEF h, m
      <4>2. /\ wider \in [1..Len(h) -> 1..(n + 1)]
            /\ \A i \in 1..Len(h) : h[i] = s[wider[i]] /\ h[i] \in S
            /\ \A i, j \in 1..Len(h) : i < j => wider[i] < wider[j]
            /\ \A p \in 1..(n + 1) : s[p] \in S => \E i \in 1..Len(h) : wider[i] = p
        BY <4>1, <3>4, <3>6, <3>7, <3>8 DEF h
      <4>3. Picks(h, s, S, n + 1)
        BY <4>2, Zenon DEF Picks
      <4> QED
        BY <4>3 DEF h
    <3> QED
      BY <3>1, <3>9
  <2> QED
    BY <2>5, <2>6
<1>4. Len(s) \in Z
  <2>1. Len(s) \in Nat
    OBVIOUS
  <2> HIDE DEF Z
  <2>2. Z \in SUBSET Nat
    BY DEF Z
  <2> QED
    BY <1>2, <1>3, <2>1, <2>2, Induction
<1> QED
  BY <1>1, <1>4

\* The elements that are kept, once each if they were there once.
LEMMA KeepElements ==
  ASSUME NEW T, NEW s \in Seq(T), NEW S
  PROVE  /\ Keep(s, S) \in Seq(T)
         /\ Elements(Keep(s, S)) = Elements(s) \cap S
         /\ (\A i, j \in DOMAIN s : s[i] = s[j] => i = j)
            => \A i, j \in DOMAIN Keep(s, S) : Keep(s, S)[i] = Keep(s, S)[j] => i = j
<1> DEFINE k == Keep(s, S)
<1>1. k \in Seq(T) /\ Picks(k, s, S, Len(s))
  BY KeepPicks
<1>2. PICK place \in [1..Len(k) -> 1..Len(s)] :
        /\ \A i \in 1..Len(k) : k[i] = s[place[i]] /\ k[i] \in S
        /\ \A i, j \in 1..Len(k) : i < j => place[i] < place[j]
        /\ \A p \in 1..Len(s) : s[p] \in S => \E i \in 1..Len(k) : place[i] = p
  BY <1>1 DEF Picks
<1>3. DOMAIN k = 1..Len(k) /\ DOMAIN s = 1..Len(s) /\ Len(k) \in Nat /\ Len(s) \in Nat
  BY <1>1
<1> HIDE DEF k
<1>4. Elements(k) = Elements(s) \cap S
  BY <1>2, <1>3 DEF Elements
<1>5. \A i, j \in 1..Len(k) : place[i] = place[j] => i = j
  BY <1>2, <1>3
<1>6. (\A i, j \in DOMAIN s : s[i] = s[j] => i = j)
      => \A i, j \in DOMAIN k : k[i] = k[j] => i = j
  BY <1>2, <1>3, <1>5
<1> QED
  BY <1>1, <1>4, <1>6 DEF k

\* The first n of a list that names nobody twice are n.
LEMMA FirstOnes ==
  ASSUME NEW T, NEW s \in Seq(T), NEW n \in Nat, n <= Len(s),
         \A i, j \in DOMAIN s : s[i] = s[j] => i = j
  PROVE  IsFiniteSet({s[i] : i \in 1..n}) /\ Cardinality({s[i] : i \in 1..n}) = n
<1> DEFINE F == {s[i] : i \in 1..n}
           f == [i \in 1..n |-> s[i]]
<1>1. DOMAIN s = 1..Len(s) /\ Len(s) \in Nat
  OBVIOUS
<1>2. f \in Bijection(1..n, F)
  <2>1. f \in [1..n -> F] /\ \A x \in F : \E i \in 1..n : f[i] = x
    OBVIOUS
  <2>2. \A i, j \in 1..n : f[i] = f[j] => i = j
    BY <1>1
  <2> QED
    BY <2>1, <2>2 DEF Bijection, Injection, Surjection, IsInjective
<1>3. IsFiniteSet(1..n) /\ Cardinality(1..n) = n
  BY FS_Interval
<1>4. ExistsBijection(1..n, F)
  BY <1>2 DEF ExistsBijection
<1> HIDE DEF F, f
<1>5. IsFiniteSet(F) /\ Cardinality(F) = n
  BY <1>3, <1>4, FS_Bijection
<1> QED
  BY <1>5 DEF F
=============================================================================
