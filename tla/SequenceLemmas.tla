--------------------------- MODULE SequenceLemmas ---------------------------
(***************************************************************************)
(* Induction on the natural numbers, stated of a set, and what flattening a *)
(* sequence of sequences returns.  The induction theorems of the library    *)
(* take an operator as a parameter; a set can be given to the provers.      *)
(***************************************************************************)
EXTENDS Integers, SequencesExt, SequenceTheorems, FiniteSetTheorems,
        WellFoundedInduction, TLAPS

\* A set that has 0, and with every i the next one, has all numbers up to n.
LEMMA UpTo ==
  ASSUME NEW n \in Nat, NEW S, 0 \in S, \A i \in 0..n-1 : i \in S => i + 1 \in S
  PROVE  0..n \subseteq S
<1> DEFINE T == (0..n) \ S
           R == {ss \in Nat \X Nat : ss[1] < ss[2]}
<1>1. OpToRel(<, Nat) = R
  BY DEF OpToRel
<1>2. IsWellFoundedOn(R, Nat)
  BY <1>1, NatLessThanWellFounded, Zenon
<1>3. T \subseteq Nat
  OBVIOUS
<1> SUFFICES ASSUME T # {} PROVE FALSE
  OBVIOUS
<1> HIDE DEF R, T
<1>4. PICK x \in T : \A y \in T : ~ (<<y, x>> \in R)
  BY <1>2, <1>3, WFMin, Zenon
<1>5. x \in 1..n /\ x - 1 \in 0..n-1
  BY <1>4 DEF T
<1>6. x - 1 \in T
  BY <1>4, <1>5 DEF T
<1>7. <<x - 1, x>> \in Nat \X Nat /\ <<x - 1, x>>[1] = x - 1 /\ <<x - 1, x>>[2] = x
  BY <1>5
<1>8. x - 1 < x
  BY <1>5
<1>9. <<x - 1, x>> \in R
  BY <1>7, <1>8, Zenon DEF R
<1> QED
  BY <1>4, <1>6, <1>9

-----------------------------------------------------------------------------
(* FlattenSeq                                                              *)

\* The recursion of FlattenSeq up to position n has a solution.
LEMMA FlattenSolution ==
  ASSUME NEW ss, NEW n \in Nat
  PROVE  \E f : f = [i \in 1..n |-> IF i = 1 THEN ss[i] ELSE f[i-1] \o ss[i]]
<1> DEFINE Solved(m) == \E f : f = [i \in 1..m |-> IF i = 1 THEN ss[i] ELSE f[i-1] \o ss[i]]
           S == {m \in 0..n : Solved(m)}
<1>1. 0 \in S
  <2> DEFINE e == [i \in 1..0 |-> 0]
  <2>1. e = [i \in 1..0 |-> IF i = 1 THEN ss[i] ELSE e[i-1] \o ss[i]]
    <3>1. 1..0 = {}
      OBVIOUS
    <3> QED
      BY <3>1
  <2> HIDE DEF e
  <2>2. Solved(0)
    BY <2>1, Zenon
  <2> HIDE DEF Solved
  <2> QED
    BY <2>2
<1>2. ASSUME NEW m \in 0..n-1, m \in S PROVE m + 1 \in S
  <2>1. PICK f : f = [i \in 1..m |-> IF i = 1 THEN ss[i] ELSE f[i-1] \o ss[i]]
    BY <1>2
  <2> HIDE DEF S
  <2> DEFINE last == IF m = 0 THEN ss[1] ELSE f[m] \o ss[m+1]
             g == [i \in 1..m+1 |-> IF i = m + 1 THEN last ELSE f[i]]
  <2>2. \A i \in 1..m : f[i] = IF i = 1 THEN ss[i] ELSE f[i-1] \o ss[i]
    BY <2>1
  <2>3. \A i \in 1..m : i \in 1..m+1 /\ i # m + 1 /\ (i # 1 => i - 1 \in 1..m+1 /\ i - 1 # m + 1)
    OBVIOUS
  <2>4. m # 0 => m \in 1..m /\ m + 1 # 1 /\ (m + 1) - 1 = m
    OBVIOUS
  <2>5. m + 1 \in 1..m+1 /\ \A i \in 1..m+1 : i = m + 1 \/ i \in 1..m
    OBVIOUS
  <2>6. \A i \in 1..m : g[i] = f[i] /\ (i # 1 => g[i-1] = f[i-1])
    BY <2>3
  <2>7. g[m+1] = last
    BY <2>5
  <2>8. g = [i \in 1..m+1 |-> g[i]]
    OBVIOUS
  <2> HIDE DEF g
  <2>9. ASSUME NEW i \in 1..m+1
        PROVE  g[i] = IF i = 1 THEN ss[i] ELSE g[i-1] \o ss[i]
    <3>1. CASE i \in 1..m
      BY <2>2, <2>6, <3>1
    <3>2. CASE i = m + 1
      <4>1. CASE m = 0
        BY <2>7, <3>2, <4>1
      <4>2. CASE m # 0
        BY <2>4, <2>6, <2>7, <3>2, <4>2
      <4> QED
        BY <4>1, <4>2
    <3> QED
      BY <2>5, <3>1, <3>2
  <2>10. g = [i \in 1..m+1 |-> IF i = 1 THEN ss[i] ELSE g[i-1] \o ss[i]]
    BY <2>8, <2>9
  <2>11. m + 1 \in 0..n
    OBVIOUS
  <2> QED
    BY <2>10, <2>11 DEF S
<1> HIDE DEF S
<1>3. 0..n \subseteq S
  BY <1>1, <1>2, UpTo
<1>4. n \in S
  BY <1>3
<1> QED
  BY <1>4 DEF S

\* FlattenSeq joins its parts one after another: run[i] is what the first i of
\* them give.
LEMMA FlattenRun ==
  ASSUME NEW A, NEW ss \in Seq(Seq(A))
  PROVE  \E run \in [0..Len(ss) -> Seq(A)] :
           /\ run[0] = <<>>
           /\ \A i \in 1..Len(ss) : run[i] = run[i-1] \o ss[i]
           /\ FlattenSeq(ss) = run[Len(ss)]
<1> DEFINE n == Len(ss)
           Flat == CHOOSE f : f = [i \in 1..n |-> IF i = 1 THEN ss[i] ELSE f[i-1] \o ss[i]]
           run == [i \in 0..n |-> IF i = 0 THEN <<>> ELSE Flat[i]]
<1>1. n \in Nat
  OBVIOUS
<1>2. Flat = [i \in 1..n |-> IF i = 1 THEN ss[i] ELSE Flat[i-1] \o ss[i]]
  BY <1>1, FlattenSolution
<1>3. n # 0 => FlattenSeq(ss) = Flat[n]
  BY DEF FlattenSeq
<1>4. n = 0 => FlattenSeq(ss) = <<>>
  BY DEF FlattenSeq
<1> HIDE DEF Flat
<1>5. \A i \in 1..n : Flat[i] = IF i = 1 THEN ss[i] ELSE Flat[i-1] \o ss[i]
  BY <1>2
<1>6. \A i \in 1..n : ss[i] \in Seq(A)
  OBVIOUS
<1>7. \A i \in 1..n : run[i] = run[i-1] \o ss[i]
  <2> SUFFICES ASSUME NEW i \in 1..n PROVE run[i] = run[i-1] \o ss[i]
    OBVIOUS
  <2>1. CASE i = 1
    <3>1. run[i] = ss[i] /\ run[i-1] = <<>>
      BY <1>1, <1>5, <2>1
    <3> HIDE DEF run
    <3> QED
      BY <1>6, <3>1
  <2>2. CASE i # 1
    <3>1. i \in 0..n /\ i # 0 /\ i - 1 \in 0..n /\ i - 1 # 0
      BY <1>1, <2>2
    <3>2. run[i] = Flat[i] /\ run[i-1] = Flat[i-1]
      BY <3>1
    <3> HIDE DEF run
    <3> QED
      BY <1>5, <2>2, <3>2
  <2> QED
    BY <2>1, <2>2
<1>8. run[0] = <<>> /\ FlattenSeq(ss) = run[n] /\ run = [i \in 0..n |-> run[i]]
  BY <1>1, <1>3, <1>4
<1> HIDE DEF run
<1>9. \A i \in 0..n : run[i] \in Seq(A)
  <2> DEFINE S == {i \in 0..n : run[i] \in Seq(A)}
  <2>1. 0 \in S
    BY <1>1, <1>8
  <2>2. ASSUME NEW i \in 0..n-1, i \in S PROVE i + 1 \in S
    <3>1. i + 1 \in 1..n /\ (i + 1) - 1 = i
      BY <1>1
    <3>2. run[i+1] = run[i] \o ss[i+1]
      BY <1>7, <3>1
    <3>3. run[i] \in Seq(A) /\ ss[i+1] \in Seq(A)
      BY <1>6, <2>2, <3>1
    <3>4. run[i+1] \in Seq(A)
      BY <3>2, <3>3
    <3>5. i + 1 \in 0..n
      BY <1>1
    <3> QED
      BY <3>4, <3>5
  <2> HIDE DEF S
  <2>3. 0..n \subseteq S
    BY <1>1, <2>1, <2>2, UpTo
  <2> QED
    BY <2>3 DEF S
<1> QED
  BY <1>7, <1>8, <1>9

\* What \o keeps of the left and of the right.
LEMMA ConcatAt ==
  ASSUME NEW A, NEW s \in Seq(A), NEW t \in Seq(A), NEW u, u = s \o t
  PROVE  /\ u \in Seq(A) /\ Len(u) \in Nat /\ Len(s) \in Nat /\ Len(t) \in Nat
         /\ Len(u) = Len(s) + Len(t)
         /\ Len(s) <= Len(u)
         /\ \A k \in 1..Len(s) : u[k] = s[k]
         /\ \A k \in 1..Len(t) : Len(s) + k \in 1..Len(u) /\ u[Len(s) + k] = t[k]
<1>1. /\ u \in Seq(A) /\ Len(s) \in Nat /\ Len(t) \in Nat /\ Len(u) = Len(s) + Len(t)
      /\ \A i \in 1..Len(s) + Len(t) : u[i] = IF i <= Len(s) THEN s[i] ELSE t[i - Len(s)]
  BY ConcatProperties, LenProperties
<1>2. ASSUME NEW k \in 1..Len(s) PROVE u[k] = s[k]
  <2>1. k \in 1..Len(s) + Len(t) /\ k <= Len(s)
    BY <1>1
  <2> QED
    BY <1>1, <2>1
<1>3. ASSUME NEW k \in 1..Len(t)
      PROVE  Len(s) + k \in 1..Len(u) /\ u[Len(s) + k] = t[k]
  <2>1. Len(s) + k \in 1..Len(s) + Len(t) /\ ~(Len(s) + k <= Len(s)) /\ (Len(s) + k) - Len(s) = k
    BY <1>1
  <2> QED
    BY <1>1, <2>1
<1> QED
  BY <1>1, <1>2, <1>3

\* Where FlattenSeq puts each part: start[i] keys come before part i+1.
StartsOf(ss, start) ==
  /\ start \in [0..Len(ss) -> Nat]
  /\ \A i, j \in 0..Len(ss) : i <= j => start[i] <= start[j]
  /\ \A i \in 1..Len(ss) : start[i] = start[i-1] + Len(ss[i])
  /\ Len(FlattenSeq(ss)) = start[Len(ss)]
  /\ \A i \in 1..Len(ss) : \A k \in 1..Len(ss[i]) :
       /\ start[i-1] + k \in 1..Len(FlattenSeq(ss))
       /\ FlattenSeq(ss)[start[i-1] + k] = ss[i][k]

\* Every key of every part is found in the flattened sequence, in the order of
\* the parts.
LEMMA FlattenAt ==
  ASSUME NEW A, NEW ss \in Seq(Seq(A))
  PROVE  FlattenSeq(ss) \in Seq(A) /\ \E start : StartsOf(ss, start)
<1> DEFINE n == Len(ss)
<1>1. n \in Nat /\ \A i \in 1..n : ss[i] \in Seq(A)
  OBVIOUS
<1>2. PICK run \in [0..n -> Seq(A)] :
        /\ run[0] = <<>>
        /\ \A i \in 1..n : run[i] = run[i-1] \o ss[i]
        /\ FlattenSeq(ss) = run[n]
  BY FlattenRun
<1> HIDE DEF n
<1>3. \A i \in 0..n : run[i] \in Seq(A) /\ Len(run[i]) \in Nat
  BY <1>2
<1>4. ASSUME NEW i \in 1..n
      PROVE  /\ Len(ss[i]) \in Nat
             /\ Len(run[i]) = Len(run[i-1]) + Len(ss[i])
             /\ \A k \in 1..Len(run[i-1]) : run[i][k] = run[i-1][k]
             /\ \A k \in 1..Len(ss[i]) : /\ Len(run[i-1]) + k \in 1..Len(run[i])
                                          /\ run[i][Len(run[i-1]) + k] = ss[i][k]
  <2>1. i - 1 \in 0..n /\ i \in 0..n
    BY <1>1
  <2>2. PICK s \in Seq(A), t \in Seq(A), u \in Seq(A) : s = run[i-1] /\ t = ss[i] /\ u = run[i]
    BY <1>1, <1>3, <2>1
  <2>3. u = s \o t
    BY <1>2, <2>2
  <2>4. /\ Len(t) \in Nat /\ Len(u) = Len(s) + Len(t)
        /\ \A k \in 1..Len(s) : u[k] = s[k]
        /\ \A k \in 1..Len(t) : Len(s) + k \in 1..Len(u) /\ u[Len(s) + k] = t[k]
    BY <2>3, ConcatAt
  <2> QED
    BY <2>2, <2>4
\* a run is a prefix of every later one
<1>5. ASSUME NEW i \in 0..n, NEW m \in i..n
      PROVE  /\ Len(run[i]) <= Len(run[m])
             /\ \A k \in 1..Len(run[i]) : run[m][k] = run[i][k]
  <2> DEFINE Kept(l) == \A k \in 1..Len(run[i]) : run[l][k] = run[i][k]
             S == {l \in 0..n : i <= l => Len(run[i]) <= Len(run[l]) /\ Kept(l)}
  <2>1. 0 \in S
    <3>1. i <= 0 => i = 0
      BY <1>1
    <3> QED
      BY <1>1, <1>3, <3>1
  <2>2. ASSUME NEW l \in 0..n-1, l \in S PROVE l + 1 \in S
    <3>1. l \in 0..n /\ l + 1 \in 1..n /\ l + 1 \in 0..n /\ (l + 1) - 1 = l
      BY <1>1
    <3>2. /\ Len(ss[l+1]) \in Nat
          /\ Len(run[l+1]) = Len(run[l]) + Len(ss[l+1])
          /\ \A k \in 1..Len(run[l]) : run[l+1][k] = run[l][k]
      <4>1. PICK h \in 1..n : h = l + 1 /\ h - 1 = l
        BY <3>1
      <4>2. /\ Len(ss[h]) \in Nat
            /\ Len(run[h]) = Len(run[h-1]) + Len(ss[h])
            /\ \A k \in 1..Len(run[h-1]) : run[h][k] = run[h-1][k]
        BY <1>4
      <4>3. h - 1 = l /\ l + 1 = h
        BY <4>1
      <4> QED
        BY <4>2, <4>3
    <3>3. Len(run[i]) \in Nat /\ Len(run[l]) \in Nat /\ Len(run[l+1]) \in Nat
      BY <1>3, <3>1
    <3>4. CASE i = l + 1
      BY <3>1, <3>3, <3>4
    <3>5. CASE i <= l
      <4>1. Len(run[i]) <= Len(run[l]) /\ Kept(l)
        BY <2>2, <3>5
      <4>2. Len(run[i]) <= Len(run[l+1])
        <5>1. \A a, b, c, d \in Nat : a <= b /\ c = b + d => a <= c
          OBVIOUS
        <5> QED
          BY <3>2, <3>3, <4>1, <5>1, Zenon
      <4>3. 1..Len(run[i]) \subseteq 1..Len(run[l])
        BY <3>3, <4>1
      <4>4. Kept(l+1)
        BY <3>2, <4>1, <4>3
      <4> QED
        BY <3>1, <4>2, <4>4
    <3>6. CASE i > l + 1
      BY <1>1, <3>1, <3>6
    <3> QED
      BY <1>1, <3>4, <3>5, <3>6
  <2> HIDE DEF S
  <2>3. 0..n \subseteq S
    BY <1>1, <2>1, <2>2, UpTo
  <2>4. m \in S /\ i <= m
    BY <1>1, <2>3
  <2> QED
    BY <2>4 DEF S
<1> DEFINE start == [i \in 0..n |-> Len(run[i])]
<1>6. \A i \in 0..n : start[i] = Len(run[i])
  OBVIOUS
<1>7. start \in [0..n -> Nat]
  BY <1>3
<1> HIDE DEF start
<1>8. \A i, j \in 0..n : i <= j => start[i] <= start[j]
  BY <1>1, <1>5, <1>6
<1>9. ASSUME NEW i \in 1..n
      PROVE  /\ start[i] = start[i-1] + Len(ss[i])
             /\ \A k \in 1..Len(ss[i]) : /\ start[i-1] + k \in 1..Len(FlattenSeq(ss))
                                         /\ FlattenSeq(ss)[start[i-1] + k] = ss[i][k]
  <2>1. i \in 0..n /\ i - 1 \in 0..n /\ n \in i..n /\ n \in 0..n
    BY <1>1
  <2>2. /\ Len(run[i]) = Len(run[i-1]) + Len(ss[i])
        /\ \A k \in 1..Len(ss[i]) : /\ Len(run[i-1]) + k \in 1..Len(run[i])
                                    /\ run[i][Len(run[i-1]) + k] = ss[i][k]
    BY <1>4
  <2>3. ASSUME NEW k \in 1..Len(ss[i])
        PROVE  /\ start[i-1] + k \in 1..Len(FlattenSeq(ss))
               /\ FlattenSeq(ss)[start[i-1] + k] = ss[i][k]
    <3>1. run[n][Len(run[i-1]) + k] = run[i][Len(run[i-1]) + k]
      BY <1>5, <2>1, <2>2
    <3>2. Len(run[i]) <= Len(run[n]) /\ Len(run[i]) \in Nat /\ Len(run[n]) \in Nat
      BY <1>3, <1>5, <2>1
    <3>3. Len(run[i-1]) + k \in 1..Len(run[n])
      <4>1. \A a, b \in Nat : \A x \in 1..a : a <= b => x \in 1..b
        OBVIOUS
      <4> QED
        BY <2>2, <3>2, <4>1, Zenon
    <3> QED
      BY <1>2, <1>6, <2>1, <2>2, <3>1, <3>3
  <2> QED
    BY <1>6, <2>1, <2>2, <2>3
<1>10. FlattenSeq(ss) \in Seq(A) /\ Len(FlattenSeq(ss)) = start[n]
  BY <1>1, <1>2, <1>3, <1>6
<1>11. \A i \in 1..n :
         /\ start[i] = start[i-1] + Len(ss[i])
         /\ \A k \in 1..Len(ss[i]) : /\ start[i-1] + k \in 1..Len(FlattenSeq(ss))
                                     /\ FlattenSeq(ss)[start[i-1] + k] = ss[i][k]
  BY <1>9
<1>12. StartsOf(ss, start)
  BY <1>7, <1>8, <1>10, <1>11, Zenon DEF n, StartsOf
<1> QED
  BY <1>10, <1>12

-----------------------------------------------------------------------------
(* Counting                                                                *)

\* How many members of a set of positions come up to each position.
LEMMA CountUpTo ==
  ASSUME NEW m \in Nat, NEW S \in SUBSET (1..m)
  PROVE  \E count \in [0..m -> Nat] :
           /\ count[0] = 0
           /\ \A n \in 1..m : count[n] = IF n \in S THEN count[n-1] + 1 ELSE count[n-1]
           /\ \A n \in 0..m : Cardinality({j \in S : j <= n}) = count[n]
           /\ Cardinality(S) = count[m]
<1> DEFINE below(n) == {j \in S : j <= n}
           count == [n \in 0..m |-> Cardinality(below(n))]
<1>1. \A n \in 0..m : IsFiniteSet(below(n)) /\ Cardinality(below(n)) \in Nat
  <2>1. IsFiniteSet(1..m)
    BY FS_Interval
  <2>2. \A n \in 0..m : below(n) \in SUBSET (1..m)
    OBVIOUS
  <2> HIDE DEF below
  <2> QED
    BY <2>1, <2>2, FS_Subset, FS_CardinalityType
<1>2. below(0) = {} /\ below(m) = S
  <2>1. \A j \in S : ~(j <= 0) /\ j <= m
    OBVIOUS
  <2> QED
    BY <2>1
<1>3. ASSUME NEW n \in 1..m
      PROVE  Cardinality(below(n)) = IF n \in S THEN Cardinality(below(n-1)) + 1
                                     ELSE Cardinality(below(n-1))
  <2>1. n - 1 \in 0..m /\ n \notin below(n-1)
    OBVIOUS
  <2>2. \A j \in S : j <= n <=> j <= n - 1 \/ j = n
    OBVIOUS
  <2>3. CASE n \in S
    <3>1. below(n) = below(n-1) \cup {n}
      BY <2>3, <2>2
    <3> HIDE DEF below
    <3> QED
      BY <1>1, <2>1, <2>3, <3>1, FS_AddElement
  <2>4. CASE n \notin S
    <3>1. below(n) = below(n-1)
      BY <2>4, <2>2
    <3> QED
      BY <2>4, <3>1
  <2> QED
    BY <2>3, <2>4
<1> HIDE DEF below
<1>4. \A n \in 0..m : count[n] = Cardinality(below(n))
  OBVIOUS
<1>5. count \in [0..m -> Nat]
  BY <1>1
<1>6. \A n \in 1..m : n \in 0..m /\ n - 1 \in 0..m
  OBVIOUS
<1>7. 0 \in 0..m /\ m \in 0..m
  OBVIOUS
<1> HIDE DEF count
<1>8. count[0] = 0 /\ Cardinality(S) = count[m]
  BY <1>2, <1>4, <1>7, FS_EmptySet
<1>9. \A n \in 1..m : count[n] = IF n \in S THEN count[n-1] + 1 ELSE count[n-1]
  BY <1>3, <1>4, <1>6
<1> QED
  BY <1>4, <1>5, <1>8, <1>9 DEF below

=============================================================================
