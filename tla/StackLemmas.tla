---------------------------- MODULE StackLemmas ----------------------------
(***************************************************************************)
(* Facts about sequences used as stacks, for the proofs of the modules     *)
(* that keep one, and about counting: least numbers, induction and         *)
(* recursion up to a number.                                               *)
(***************************************************************************)
EXTENDS Integers, SequenceTheorems, FiniteSetTheorems, WellFoundedInduction, TLAPS

\* Popping a nonempty stack removes its last element and nothing else.
LEMMA PopFacts ==
  ASSUME NEW S, NEW s \in Seq(S), s # <<>>
  PROVE  /\ SubSeq(s, 1, Len(s) - 1) \in Seq(S)
         /\ Len(SubSeq(s, 1, Len(s) - 1)) = Len(s) - 1
         /\ \A i \in 1..(Len(s) - 1) : SubSeq(s, 1, Len(s) - 1)[i] = s[i]
<1>1. Len(s) \in Nat /\ Len(s) > 0
  OBVIOUS
<1> DEFINE n == Len(s) - 1
<1>2. n \in Nat
  BY <1>1
<1>3. \A i \in 1..n : s[i] \in S
  BY <1>1
<1> HIDE DEF n
<1>4. /\ SubSeq(s, 1, n) \in Seq(S)
      /\ Len(SubSeq(s, 1, n)) = IF 1 <= n THEN n - 1 + 1 ELSE 0
      /\ \A i \in 1..(n - 1 + 1) : SubSeq(s, 1, n)[i] = s[1 + i - 1]
  BY <1>2, <1>3, SubSeqProperties
<1>5. n - 1 + 1 = n /\ (~ (1 <= n) => n = 0) /\ \A i \in 1..n : 1 + i - 1 = i
  BY <1>2
<1>6. QED
  BY <1>2, <1>4, <1>5 DEF n

\* Popping what was just pushed leaves the stack as it was.
LEMMA PopUndoesPush ==
  ASSUME NEW S, NEW s \in Seq(S), NEW x \in S
  PROVE  SubSeq(Append(s, x), 1, Len(Append(s, x)) - 1) = s
<1> DEFINE t == Append(s, x)
<1>1. /\ t \in Seq(S) /\ t # <<>> /\ Len(t) = Len(s) + 1 /\ Len(s) \in Nat
      /\ \A i \in 1..Len(s) : t[i] = s[i]
  BY AppendProperties
<1> HIDE DEF t
<1>2. Len(t) - 1 = Len(s)
  BY <1>1
<1>3. /\ SubSeq(t, 1, Len(t) - 1) \in Seq(S)
      /\ Len(SubSeq(t, 1, Len(t) - 1)) = Len(s)
      /\ \A i \in 1..Len(s) : SubSeq(t, 1, Len(t) - 1)[i] = s[i]
  BY <1>1, <1>2, PopFacts
<1>4. QED
  BY <1>3, SeqEqual DEF t

\* A nonempty set of naturals has a least element.
LEMMA LeastElement ==
  ASSUME NEW T \in SUBSET Nat, T # {}
  PROVE  \E x \in T : \A y \in T : x <= y
<1> DEFINE R == {p \in Nat \X Nat : p[1] < p[2]}
<1>1. IsWellFoundedOn(R, Nat)
  BY NatLessThanWellFounded DEF OpToRel
<1>2. \A x, y \in Nat : x < y => <<x, y>> \in R
  OBVIOUS
<1> HIDE DEF R
<1>3. PICK x \in T : \A y \in T : ~ (<<y, x>> \in R)
  BY <1>1, WFMin
<1>4. \A y \in T : ~ (y < x)
  BY <1>2, <1>3
<1>5. \A y \in T : x \in Nat /\ y \in Nat
  OBVIOUS
<1>6. QED
  BY <1>4, <1>5

\* What holds of 0, and of a number when it holds of the one before, holds up
\* to n.
LEMMA CountUp ==
  ASSUME NEW n \in Nat, NEW S, 0 \in S, \A k \in 1..n : k - 1 \in S => k \in S
  PROVE  \A k \in 0..n : k \in S
<1> SUFFICES ASSUME NEW x \in 0..n, x \notin S PROVE FALSE
  OBVIOUS
<1> DEFINE T == {k \in 0..n : k \notin S}
<1>1. T \in SUBSET Nat /\ T # {}
  OBVIOUS
<1>2. PICK k \in T : \A j \in T : k <= j
  BY <1>1, LeastElement
<1>3. k # 0 /\ k \in 1..n /\ k - 1 \in 0..n /\ ~(k <= k - 1)
  OBVIOUS
<1>4. k - 1 \in S
  BY <1>2, <1>3
<1>5. QED
  BY <1>3, <1>4

\* f goes from first by step, within X.
Iterates(f, n, X, first, step) ==
  f \in [0..n -> X] /\ f[0] = first /\ \A k \in 1..n : f[k] = step[k][f[k - 1]]

\* A function can be defined by recursion on 0..n.
LEMMA RecursionExists ==
  ASSUME NEW n \in Nat, NEW X, NEW first \in X, NEW step \in [1..n -> [X -> X]]
  PROVE  \E f : Iterates(f, n, X, first, step)
<1> DEFINE Fits(f, m) == /\ f \in [0..m -> X] /\ f[0] = first
                         /\ \A k \in 1..m : f[k] = step[k][f[k - 1]]
           S == {m \in 0..n : \E f : Fits(f, m)}
<1>1. 0 \in S
  <2> DEFINE g == [k \in 0..0 |-> first]
  <2>1. g \in [0..0 -> X] /\ g[0] = first
    OBVIOUS
  <2> HIDE DEF g
  <2>2. Fits(g, 0)
    BY <2>1
  <2> HIDE DEF Fits
  <2>3. QED
    BY <2>2
<1>2. ASSUME NEW m \in 1..n, m - 1 \in S
      PROVE  m \in S
  <2>1. PICK f : Fits(f, m - 1)
    BY <1>2
  <2> DEFINE g == [k \in 0..m |-> IF k = m THEN step[m][f[m - 1]] ELSE f[k]]
  <2>2. step[m][f[m - 1]] \in X
    <3>1. m - 1 \in 0..(m - 1) /\ step[m] \in [X -> X]
      OBVIOUS
    <3>2. f[m - 1] \in X
      BY <2>1, <3>1
    <3>3. QED
      BY <3>1, <3>2
  <2>3. g \in [0..m -> X] /\ g[0] = first
    BY <2>1, <2>2
  <2>4. \A k \in 1..m : g[k] = step[k][g[k - 1]]
    BY <2>1
  <2> HIDE DEF g
  <2>5. Fits(g, m)
    BY <2>3, <2>4
  <2> HIDE DEF Fits
  <2>6. QED
    BY <2>5
<1> HIDE DEF S
<1>3. \A m \in 0..n : m \in S
  BY <1>1, <1>2, CountUp
<1>4. n \in S
  BY <1>3
<1>5. PICK f : Fits(f, n)
  BY <1>4 DEF S
<1>6. QED
  BY <1>5 DEF Iterates

\* One with an upper bound has a greatest element.
LEMMA GreatestElement ==
  ASSUME NEW n \in Nat, NEW T \in SUBSET (0..n), T # {}
  PROVE  \E x \in T : \A y \in T : y <= x
<1> DEFINE U == {n - x : x \in T}
<1>1. U \in SUBSET Nat /\ U # {}
  <2>1. \A x \in T : x \in 0..n
    OBVIOUS
  <2>2. \A x \in 0..n : n - x \in Nat
    OBVIOUS
  <2>3. \A x \in T : n - x \in Nat
    BY <2>1, <2>2
  <2>4. PICK x \in T : TRUE
    OBVIOUS
  <2>5. n - x \in U
    OBVIOUS
  <2>6. QED
    BY <2>3, <2>5
<1>2. PICK u \in U : \A w \in U : u <= w
  BY <1>1, LeastElement
<1>3. PICK x \in T : u = n - x
  OBVIOUS
<1>4. \A y \in T : n - x <= n - y
  BY <1>2, <1>3
<1>5. \A y \in T : y <= x
  BY <1>4
<1>6. QED
  BY <1>5

\* A strictly increasing list has as many elements as the set it lists.
LEMMA ListCounts ==
  ASSUME NEW S \in SUBSET Nat, NEW s \in Seq(Nat),
         \A k \in 1..Len(s) : s[k] \in S,
         \A x \in S : \E k \in 1..Len(s) : s[k] = x,
         \A k, l \in 1..Len(s) : k < l => s[k] < s[l]
  PROVE  Len(s) = Cardinality(S)
<1> DEFINE f == [k \in 1..Len(s) |-> s[k]]
<1>1. f \in [1..Len(s) -> S]
  OBVIOUS
<1>2. \A k, l \in 1..Len(s) : f[k] = f[l] => k = l
  OBVIOUS
<1>3. \A x \in S : \E k \in 1..Len(s) : f[k] = x
  OBVIOUS
<1>4. DOMAIN f = 1..Len(s)
  OBVIOUS
<1> HIDE DEF f
<1>5. IsInjective(f)
  BY <1>2, <1>4 DEF IsInjective
<1>6. f \in Bijection(1..Len(s), S)
  BY <1>1, <1>3, <1>5 DEF Bijection, Injection, Surjection
<1>7. Len(s) \in Nat
  OBVIOUS
<1>8. IsFiniteSet(1..Len(s)) /\ Cardinality(1..Len(s)) = Len(s)
  <2>1. ASSUME NEW n \in Nat
        PROVE  IsFiniteSet(1..n) /\ Cardinality(1..n) = n
    <3>1. IsFiniteSet(1..n) /\ Cardinality(1..n) = IF 1 > n THEN 0 ELSE n - 1 + 1
      BY FS_Interval
    <3>2. QED
      BY <3>1
  <2>2. QED
    BY <1>7, <2>1
<1>9. ExistsBijection(1..Len(s), S)
  BY <1>6 DEF ExistsBijection
<1>10. QED
  BY <1>8, <1>9, FS_Bijection
=============================================================================
