-------------------------- MODULE CompactionProofs --------------------------
(***************************************************************************)
(* What is proved of Compaction.  The invariant of the session says what   *)
(* the transcript looks like (every checkpoint stands for the messages     *)
(* before the tail it names, an answer is followed by a prompt), where a   *)
(* turn has got to in it, and what the request that is out carries.  From  *)
(* the sums, the ascending sequences and the texts of the model up, the    *)
(* lemmas show that cutting a history loses no message, that a request     *)
(* projected from a readable transcript is in a legal order, that the      *)
(* adapter keeps that order, and that a forced compaction drops the first  *)
(* message behind the checkpoint before.                                   *)
(***************************************************************************)
EXTENDS Compaction, FiniteSetTheorems, SequenceTheorems, WellFoundedInduction, TLAPS

Less == OpToRel(<, Nat)

\* A set of numbers that is not empty has a least element.
LEMMA NatMin ==
  ASSUME NEW S \in SUBSET Nat, S # {}
  PROVE  \E n \in S : \A m \in S : n <= m
<1>1. IsWellFoundedOn(Less, Nat)
  <2>1. IsWellFoundedOn(OpToRel(<, Nat), Nat) BY NatLessThanWellFounded, Zenon
  <2> QED BY <2>1, Zenon DEF Less
<1>2. PICK n \in S : \A m \in S : ~(<<m, n>> \in Less) BY <1>1, WFMin
<1>3. \A m \in S : n <= m
  <2> SUFFICES ASSUME NEW m \in S, m < n PROVE FALSE OBVIOUS
  <2>1. <<m, n>> \in Less BY DEF Less, OpToRel
  <2> QED BY <1>2, <2>1
<1> QED BY <1>3

-----------------------------------------------------------------------------
(* Sums. *)

\* The sum of f on s from h, its sums on what is left of s without an element.
SumStep(f, h, s) == IF s = {} THEN 0 ELSE LET x == CHOOSE x \in s : TRUE IN f[x] + h[s \ {x}]
SumsOn(f, D, h) == h = [s \in D |-> SumStep(f, h, s)]
Small(S, n) == {s \in SUBSET S : Cardinality(s) <= n}

\* A sum is the value, on the domain, of the function that sums every subset.
LEMMA SumIs ==
  ASSUME NEW f
  PROVE  SumFunction(f) = (CHOOSE h : SumsOn(f, SUBSET DOMAIN f, h))[DOMAIN f]
  BY Zenon DEF SumFunction, SumFunctionOnSet, FoldFunctionOnSet, MapThenFoldSet, SumsOn, SumStep

\* A set is its first element and a smaller set.
LEMMA TakeAway ==
  ASSUME NEW S, IsFiniteSet(S), NEW s \in SUBSET S, s # {}
  PROVE  LET x == CHOOSE x \in s : TRUE
         IN /\ x \in s /\ s \ {x} \in SUBSET S
            /\ Cardinality(s) \in Nat /\ Cardinality(s \ {x}) = Cardinality(s) - 1 /\ Cardinality(s) # 0
<1> DEFINE x == CHOOSE x \in s : TRUE
<1>1. x \in s OBVIOUS
<1>2. IsFiniteSet(s) BY FS_Subset
<1>3. Cardinality(s) \in Nat BY <1>2, FS_CardinalityType
<1> HIDE DEF x
<1>4. Cardinality(s \ {x}) = Cardinality(s) - 1 BY <1>1, <1>2, FS_RemoveElement
<1>5. Cardinality(s) # 0 BY <1>1, <1>2, FS_EmptySet
<1>6. s \ {x} \in SUBSET S OBVIOUS
<1> QED BY <1>1, <1>3, <1>4, <1>5, <1>6 DEF x

\* The sums on the sets of up to n elements give those on one more.
LEMMA SumsNext ==
  ASSUME NEW S, IsFiniteSet(S), NEW f, NEW n \in Nat, NEW h, SumsOn(f, Small(S, n), h)
  PROVE  \E g : SumsOn(f, Small(S, n + 1), g)
<1> DEFINE D == Small(S, n + 1)
           g == [s \in D |-> SumStep(f, h, s)]
<1>1. ASSUME NEW s \in D PROVE SumStep(f, h, s) = SumStep(f, g, s)
  <2>1. CASE s = {} BY <2>1 DEF SumStep
  <2>2. CASE s # {}
    <3> DEFINE x == CHOOSE x \in s : TRUE
               r == s \ {x}
    <3>1. s \in SUBSET S /\ Cardinality(s) <= n + 1 BY DEF Small
    <3>2. /\ r \in SUBSET S /\ Cardinality(s) \in Nat /\ Cardinality(r) = Cardinality(s) - 1
      BY <2>2, <3>1, TakeAway
    <3> HIDE DEF r
    <3>3. Cardinality(r) <= n /\ Cardinality(r) <= n + 1 BY <3>1, <3>2
    <3>4. r \in Small(S, n) /\ r \in D BY <3>2, <3>3 DEF Small
    <3>5. h[r] = SumStep(f, h, r) BY <3>4 DEF SumsOn
    <3>6. g[r] = SumStep(f, h, r) BY <3>4
    <3> HIDE DEF g
    <3>7. h[r] = g[r] BY <3>5, <3>6
    <3>8. SumStep(f, h, s) = f[x] + h[r] /\ SumStep(f, g, s) = f[x] + g[r] BY <2>2, Zenon DEF SumStep, r
    <3> QED BY <3>7, <3>8
  <2> QED BY <2>1, <2>2
<1>2. g = [s \in D |-> SumStep(f, g, s)]
  <2>1. \A s \in D : SumStep(f, h, s) = SumStep(f, g, s) BY <1>1
  <2> DEFINE k == g
  <2>2. \A s \in D : SumStep(f, h, s) = SumStep(f, k, s) BY <2>1
  <2> HIDE DEF k, D
  <2>3. [s \in D |-> SumStep(f, h, s)] = [s \in D |-> SumStep(f, k, s)] BY <2>2
  <2> QED BY <2>3, Zenon DEF k
<1> HIDE DEF g, D
<1>3. SumsOn(f, D, g) BY <1>2, Zenon DEF SumsOn
<1> QED BY <1>3 DEF D

\* There is such a function when the domain is finite.
LEMMA SumsExist ==
  ASSUME NEW S, IsFiniteSet(S), NEW f
  PROVE  \E h : SumsOn(f, SUBSET S, h)
<1> DEFINE has(n) == \E h : SumsOn(f, Small(S, n), h)
           c == Cardinality(S)
<1>1. c \in Nat BY FS_CardinalityType
<1>2. Small(S, c) = SUBSET S
  <2> SUFFICES ASSUME NEW s \in SUBSET S PROVE Cardinality(s) <= c BY DEF Small
  <2> QED BY FS_Subset
<1>3. has(0)
  <2>1. \A s \in Small(S, 0) : s = {}
    <3> SUFFICES ASSUME NEW s \in Small(S, 0), s # {} PROVE FALSE OBVIOUS
    <3>1. s \in SUBSET S /\ Cardinality(s) <= 0 BY DEF Small
    <3>2. Cardinality(s) \in Nat /\ Cardinality(s) # 0 BY <3>1, TakeAway
    <3> QED BY <3>1, <3>2
  <2> DEFINE h == [s \in Small(S, 0) |-> 0]
  <2>2. \A s \in Small(S, 0) : SumStep(f, h, s) = 0 BY <2>1 DEF SumStep
  <2>3. SumsOn(f, Small(S, 0), h)
    <3> DEFINE k == h
    <3>1. \A s \in Small(S, 0) : SumStep(f, k, s) = 0 BY <2>2
    <3> HIDE DEF k
    <3>2. [s \in Small(S, 0) |-> SumStep(f, k, s)] = [s \in Small(S, 0) |-> 0] BY <3>1
    <3> QED BY <3>2, Zenon DEF SumsOn, k
  <2> QED BY <2>3
<1>4. has(c)
  <2> SUFFICES ASSUME ~has(c) PROVE FALSE OBVIOUS
  <2> DEFINE L == {n \in Nat : ~has(n)}
  <2> HIDE DEF has
  <2>1. L \in SUBSET Nat /\ c \in L BY <1>1
  <2>2. PICK n \in L : \A m \in L : n <= m
    <3> HIDE DEF L
    <3> QED BY <2>1, NatMin
  <2>3. n \in Nat /\ ~has(n) OBVIOUS
  <2>4. n # 0 BY <1>3, <2>3
  <2>5. n - 1 \in Nat /\ (n - 1) + 1 = n /\ ~(n <= n - 1) BY <2>3, <2>4
  <2>6. has(n - 1) BY <2>2, <2>5
  <2>7. PICK h : SumsOn(f, Small(S, n - 1), h) BY <2>6 DEF has
  <2>8. \E g : SumsOn(f, Small(S, (n - 1) + 1), g) BY <2>5, <2>7, SumsNext
  <2> QED BY <2>3, <2>5, <2>8 DEF has
<1> QED BY <1>2, <1>4 DEF has

\* The sum of numbers is one, that of none is 0, and none is more than the sum.
LEMMA SumBounds ==
  ASSUME NEW S, IsFiniteSet(S), NEW f \in [S -> Nat]
  PROVE  /\ SumFunction(f) \in Nat /\ \A x \in S : f[x] <= SumFunction(f)
         /\ S = {} => SumFunction(f) = 0
<1> DEFINE h == CHOOSE h : SumsOn(f, SUBSET S, h)
           good(s) == h[s] \in Nat /\ \A x \in s : f[x] <= h[s]
<1>1. SumsOn(f, SUBSET S, h) BY SumsExist, Zenon
<1>2. DOMAIN f = S OBVIOUS
<1>3. SumFunction(f) = h[S] BY <1>2, SumIs
<1> HIDE DEF h
<1>4. \A s \in SUBSET S : h[s] = SumStep(f, h, s) BY <1>1 DEF SumsOn
<1>5. h[{}] = 0 BY <1>4 DEF SumStep
<1>6. \A s \in SUBSET S : good(s)
  <2> SUFFICES ASSUME NEW t \in SUBSET S, ~good(t) PROVE FALSE OBVIOUS
  <2> DEFINE L == {Cardinality(s) : s \in {u \in SUBSET S : ~good(u)}}
  <2>1. \A s \in SUBSET S : IsFiniteSet(s) /\ Cardinality(s) \in Nat BY FS_Subset, FS_CardinalityType
  <2>2. L \in SUBSET Nat /\ Cardinality(t) \in L
    <3> HIDE DEF good
    <3> QED BY <2>1
  <2>3. PICK n \in L : \A m \in L : n <= m
    <3> HIDE DEF L
    <3> QED BY <2>2, NatMin
  <2>4. PICK s \in SUBSET S : ~good(s) /\ Cardinality(s) = n
    <3> HIDE DEF good
    <3> QED OBVIOUS
  <2>5. s # {} BY <1>5, <2>4
  <2> DEFINE x == CHOOSE x \in s : TRUE
             r == s \ {x}
  <2>6. /\ x \in s /\ r \in SUBSET S /\ Cardinality(s) \in Nat
        /\ Cardinality(r) = Cardinality(s) - 1
    BY <2>5, TakeAway
  <2>7. h[s] = f[x] + h[r] BY <1>4, <2>5, Zenon DEF SumStep
  <2> HIDE DEF x
  <2>8. good(r)
    <3> SUFFICES ASSUME ~good(r) PROVE FALSE OBVIOUS
    <3> HIDE DEF good, r
    <3>1. Cardinality(r) \in L BY <2>6
    <3>2. n <= Cardinality(r) BY <2>3, <3>1
    <3> QED BY <2>4, <2>6, <3>2
  <2>9. f[x] \in Nat /\ h[r] \in Nat /\ \A y \in r : f[y] <= h[r] /\ f[y] \in Nat BY <2>6, <2>8
  <2>10. \A y \in s : y = x \/ y \in r OBVIOUS
  <2> HIDE DEF r
  <2>11. h[s] \in Nat /\ f[x] <= h[s] BY <2>7, <2>9
  <2>12. \A y \in r : f[y] <= h[s] BY <2>7, <2>9
  <2>13. good(s) BY <2>10, <2>11, <2>12
  <2> QED BY <2>4, <2>13
<1>7. good(S) BY <1>6
<1> QED BY <1>3, <1>5, <1>7

-----------------------------------------------------------------------------
(* Sets of numbers in ascending order. *)

Below(S, i) == {j \in S : j < i}
Rank(S, i) == Cardinality(Below(S, i))

\* The ranks of a finite set go up from 0 without a gap.
LEMMA Ranks ==
  ASSUME NEW S \in SUBSET Nat, IsFiniteSet(S)
  PROVE  /\ Cardinality(S) \in Nat
         /\ \A i \in S : Rank(S, i) \in 0..(Cardinality(S) - 1)
         /\ \A i, j \in S : i < j => Rank(S, i) < Rank(S, j)
         /\ \A r \in 0..(Cardinality(S) - 1) : \E i \in S : Rank(S, i) = r
<1> DEFINE n == Cardinality(S)
           T == 0..(n - 1)
           f == [i \in S |-> Rank(S, i)]
<1>1. n \in Nat BY FS_CardinalityType
<1>2. \A i : /\ IsFiniteSet(Below(S, i)) /\ Rank(S, i) \in Nat /\ Rank(S, i) <= n
             /\ Rank(S, i) = n => Below(S, i) = S
  <2> SUFFICES ASSUME NEW i
               PROVE  /\ IsFiniteSet(Below(S, i)) /\ Rank(S, i) \in Nat /\ Rank(S, i) <= n
                      /\ Rank(S, i) = n => Below(S, i) = S
    OBVIOUS
  <2>1. Below(S, i) \in SUBSET S BY DEF Below
  <2>2. /\ IsFiniteSet(Below(S, i)) /\ Cardinality(Below(S, i)) <= n
        /\ n = Cardinality(Below(S, i)) => S = Below(S, i)
    BY <2>1, FS_Subset
  <2>3. Cardinality(Below(S, i)) \in Nat BY <2>2, FS_CardinalityType
  <2> QED BY <2>2, <2>3 DEF Rank
<1>3. \A i \in S : i \notin Below(S, i) BY DEF Below
<1>4. \A i \in S : Rank(S, i) \in T
  <2> SUFFICES ASSUME NEW i \in S PROVE Rank(S, i) \in T OBVIOUS
  <2>1. Rank(S, i) # n BY <1>2, <1>3
  <2>2. Rank(S, i) \in Nat /\ Rank(S, i) <= n BY <1>2
  <2> HIDE DEF n
  <2> QED BY <1>1, <2>1, <2>2
<1>5. ASSUME NEW i \in S, NEW j \in S, i < j PROVE Rank(S, i) < Rank(S, j)
  <2>1. Below(S, i) \in SUBSET Below(S, j) /\ i \in Below(S, j) /\ i \notin Below(S, i)
    <3>1. \A x, y, z \in Nat : (x < y /\ y < z => x < z) /\ ~(x < x) OBVIOUS
    <3>2. \A x \in S : x < i => x < j BY <1>5, <3>1
    <3>3. Below(S, i) \subseteq Below(S, j) BY <3>2 DEF Below
    <3>4. i \in Below(S, j) /\ i \notin Below(S, i) BY <1>3, <1>5 DEF Below
    <3> QED BY <3>3, <3>4
  <2>2. IsFiniteSet(Below(S, j)) BY <1>2
  <2>3. /\ Cardinality(Below(S, i)) <= Cardinality(Below(S, j))
        /\ Cardinality(Below(S, j)) = Cardinality(Below(S, i)) => Below(S, j) = Below(S, i)
    BY <2>1, <2>2, FS_Subset
  <2>4. Cardinality(Below(S, i)) # Cardinality(Below(S, j)) BY <2>1, <2>3
  <2>5. Rank(S, i) \in Nat /\ Rank(S, j) \in Nat BY <1>2
  <2> QED BY <2>3, <2>4, <2>5 DEF Rank
<1>6. \A i, j \in S : i # j => Rank(S, i) # Rank(S, j)
  <2> SUFFICES ASSUME NEW i \in S, NEW j \in S, i # j PROVE Rank(S, i) # Rank(S, j) OBVIOUS
  <2>1. i < j \/ j < i OBVIOUS
  <2>2. Rank(S, i) \in Nat /\ Rank(S, j) \in Nat BY <1>2
  <2>3. Rank(S, i) < Rank(S, j) \/ Rank(S, j) < Rank(S, i) BY <1>5, <2>1
  <2> QED BY <2>2, <2>3
<1>7. f \in Injection(S, T)
  <2> HIDE DEF T
  <2>1. f \in [S -> T] BY <1>4
  <2>2. \A i, j \in S : f[i] = f[j] => i = j BY <1>6
  <2> HIDE DEF f
  <2> QED BY <2>1, <2>2 DEF Injection, IsInjective
<1>8. IsFiniteSet(T) /\ Cardinality(T) = n
  <2> HIDE DEF n
  <2>1. 0 \in Int /\ n - 1 \in Int BY <1>1
  <2>2. IsFiniteSet(0..(n - 1)) /\ Cardinality(0..(n - 1)) = IF 0 > n - 1 THEN 0 ELSE (n - 1) - 0 + 1
    BY <2>1, FS_Interval
  <2> QED BY <1>1, <2>2
<1>9. f \in Surjection(S, T)
  <2> HIDE DEF f, T
  <2> QED BY <1>7, <1>8, FS_Injection
<1>10. \A r \in T : \E i \in S : f[i] = r
  <2> HIDE DEF f, T
  <2>1. Surjection(S, T) = {g \in [S -> T] : \A r \in T : \E i \in S : g[i] = r}
    BY Zenon DEF Surjection
  <2> QED BY <1>9, <2>1
<1>11. \A r \in T : \E i \in S : Rank(S, i) = r BY <1>10
<1> QED BY <1>1, <1>4, <1>5, <1>11

\* They are picked in order, each once.
LEMMA Picked ==
  ASSUME NEW S \in SUBSET Nat, IsFiniteSet(S)
  PROVE  /\ Cardinality(S) \in Nat
         /\ \A k \in 1..Cardinality(S) : Ranked(S, k) \in S
         /\ \A k, l \in 1..Cardinality(S) : k < l => Ranked(S, k) < Ranked(S, l)
         /\ \A i \in S : \E k \in 1..Cardinality(S) : Ranked(S, k) = i
<1> DEFINE n == Cardinality(S)
<1>1. /\ n \in Nat
      /\ \A i \in S : Rank(S, i) \in 0..(n - 1)
      /\ \A i, j \in S : i < j => Rank(S, i) < Rank(S, j)
      /\ \A r \in 0..(n - 1) : \E i \in S : Rank(S, i) = r
  BY Ranks
<1> HIDE DEF n
<1>2. ASSUME NEW k \in 1..n PROVE Ranked(S, k) \in S /\ Rank(S, Ranked(S, k)) = k - 1
  <2>1. k - 1 \in 0..(n - 1) BY <1>1
  <2>2. \E i \in S : Rank(S, i) = k - 1 BY <1>1, <2>1
  <2> QED BY <2>2, Zenon DEF Ranked, Rank, Below
<1>3. ASSUME NEW k \in 1..n, NEW l \in 1..n, k < l PROVE Ranked(S, k) < Ranked(S, l)
  <2> DEFINE a == Ranked(S, k)
             b == Ranked(S, l)
  <2>1. /\ a \in S /\ Rank(S, a) = k - 1
        /\ b \in S /\ Rank(S, b) = l - 1
    BY <1>2
  <2> HIDE DEF a, b
  <2>2. a \in Nat /\ b \in Nat /\ k - 1 < l - 1 /\ k - 1 \in Int /\ l - 1 \in Int BY <1>1, <1>3, <2>1
  <2>3. a # b BY <2>1, <2>2
  <2>4. ~(b < a)
    <3> SUFFICES ASSUME b < a PROVE FALSE OBVIOUS
    <3>1. l - 1 < k - 1 BY <1>1, <2>1
    <3> QED BY <2>2, <3>1
  <2>5. a < b BY <2>2, <2>3, <2>4
  <2> QED BY <2>5 DEF a, b
<1>4. ASSUME NEW i \in S PROVE \E k \in 1..n : Ranked(S, k) = i
  <2>1. Rank(S, i) \in 0..(n - 1) BY <1>1
  <2>2. Rank(S, i) + 1 \in 1..n /\ (Rank(S, i) + 1) - 1 = Rank(S, i) BY <1>1, <2>1
  <2> DEFINE k == Rank(S, i) + 1
             p == Ranked(S, k)
  <2>3. p \in S /\ Rank(S, p) = k - 1 BY <1>2, <2>2
  <2>4. Rank(S, p) = Rank(S, i) BY <2>2, <2>3
  <2> HIDE DEF p
  <2>5. p \in Nat /\ i \in Nat /\ Rank(S, i) \in Int BY <2>1, <2>3
  <2>6. ~(p < i) /\ ~(i < p) BY <1>1, <2>3, <2>4, <2>5
  <2>7. p = i BY <2>5, <2>6
  <2> QED BY <2>2, <2>7 DEF p
<1> QED BY <1>1, <1>2, <1>3, <1>4 DEF n
\* The ascending sequence of a finite set lists all of it, in order.
LEMMA Ordered ==
  ASSUME NEW S \in SUBSET Nat, IsFiniteSet(S)
  PROVE  /\ Cardinality(S) \in Nat /\ InOrder(S) \in [1..Cardinality(S) -> S]
         /\ \A k, l \in 1..Cardinality(S) : k < l => InOrder(S)[k] < InOrder(S)[l]
         /\ \A i \in S : \E k \in 1..Cardinality(S) : InOrder(S)[k] = i
<1> DEFINE n == Cardinality(S)
<1>1. /\ n \in Nat /\ \A k \in 1..n : Ranked(S, k) \in S
      /\ \A k, l \in 1..n : k < l => Ranked(S, k) < Ranked(S, l)
      /\ \A i \in S : \E k \in 1..n : Ranked(S, k) = i
  BY Picked
<1>2. InOrder(S) = [k \in 1..n |-> Ranked(S, k)] BY Zenon DEF InOrder
<1> HIDE DEF n
<1>3. \A k \in 1..n : InOrder(S)[k] = Ranked(S, k) BY <1>2
<1>4. InOrder(S) \in [1..n -> S] BY <1>1, <1>2
<1> QED BY <1>1, <1>3, <1>4 DEF n

\* A function that goes up and reaches all of S.
Listing(e, n, S) ==
  /\ n \in Nat /\ S \in SUBSET Nat /\ e \in [1..n -> S]
  /\ \A k, l \in 1..n : k < l => e[k] < e[l]
  /\ \A i \in S : \E k \in 1..n : e[k] = i

\* The same as a listing.
LEMMA Listed ==
  ASSUME NEW S \in SUBSET Nat, IsFiniteSet(S)
  PROVE  Listing(InOrder(S), Cardinality(S), S)
  BY Ordered DEF Listing

\* Neighbours in S are neighbours in its listing.
LEMMA Adjacent ==
  ASSUME NEW e, NEW n, NEW S, Listing(e, n, S), NEW k \in 1..n, NEW l \in 1..n, e[l] = e[k] + 1
  PROVE  l = k + 1
<1>1. n \in Nat /\ \A i \in 1..n : e[i] \in Nat BY DEF Listing
<1>2. \A i, j \in 1..n : i < j => e[i] < e[j] BY DEF Listing
<1>3. e[k] \in Nat /\ e[l] \in Nat BY <1>1
<1>4. ~(l < k) /\ l # k BY <1>2, <1>3
<1>5. ~(k + 1 < l)
  <2> SUFFICES ASSUME k + 1 < l PROVE FALSE OBVIOUS
  <2>1. k + 1 \in 1..n /\ k < k + 1 BY <1>1
  <2>2. e[k] < e[k + 1] /\ e[k + 1] < e[l] /\ e[k + 1] \in Nat BY <1>1, <1>2, <2>1
  <2> QED BY <1>3, <2>2
<1> QED BY <1>1, <1>4, <1>5

\* So is a run of numbers of S.
LEMMA Block ==
  ASSUME NEW e, NEW n, NEW S, Listing(e, n, S), NEW k \in 1..n, NEW c \in Nat,
         \A d \in 0..c : e[k] + d \in S
  PROVE  \A d \in 0..c : k + d \in 1..n /\ e[k + d] = e[k] + d
<1> DEFINE ok(d) == k + d \in 1..n /\ e[k + d] = e[k] + d
           L == {d \in 0..c : ~ok(d)}
<1> SUFFICES ASSUME L # {} PROVE FALSE OBVIOUS
<1>1. L \in SUBSET Nat OBVIOUS
<1>2. PICK d \in L : \A m \in L : d <= m
  <2> HIDE DEF L
  <2> QED BY <1>1, NatMin
<1>3. d \in 0..c /\ ~ok(d) OBVIOUS
<1>4. n \in Nat /\ \A i \in 1..n : e[i] \in Nat BY DEF Listing
<1>5. ok(0) BY <1>4
<1>6. d # 0 BY <1>3, <1>5
<1>7. d - 1 \in 0..c /\ ~(d <= d - 1) /\ d \in Nat BY <1>3, <1>6
<1>8. ok(d - 1) BY <1>2, <1>7
<1> HIDE DEF L
<1>9. e[k] + d \in S BY <1>3
<1>10. PICK l \in 1..n : e[l] = e[k] + d BY <1>9 DEF Listing
<1>11. k + (d - 1) \in 1..n /\ e[l] = e[k + (d - 1)] + 1 BY <1>4, <1>7, <1>8, <1>10
<1>12. l = (k + (d - 1)) + 1 BY <1>11, Adjacent
<1>13. l = k + d BY <1>7, <1>12
<1> QED BY <1>3, <1>10, <1>13

\* The numbers from 1 to n in order are themselves.
LEMMA InOrderOfAll ==
  ASSUME NEW n \in Nat
  PROVE  InOrder(1..n) = [k \in 1..n |-> k]
<1>1. IsFiniteSet(1..n) /\ Cardinality(1..n) = n
  <2>1. IsFiniteSet(1..n) /\ Cardinality(1..n) = IF 1 > n THEN 0 ELSE n - 1 + 1 BY FS_Interval
  <2> QED BY <2>1
<1> DEFINE e == InOrder(1..n)
<1>2. Listing(e, n, 1..n)
  <2>1. 1..n \in SUBSET Nat OBVIOUS
  <2> QED BY <1>1, <2>1, Listed
<1> HIDE DEF e
<1>3. e \in [1..n -> 1..n] BY <1>2 DEF Listing
<1>4. ASSUME NEW k \in 1..n PROVE e[k] = k
  <2>1. 1 \in 1..n OBVIOUS
  <2>2. PICK l \in 1..n : e[l] = 1 BY <1>2, <2>1 DEF Listing
  <2>3. ~(1 < l)
    <3> SUFFICES ASSUME 1 < l PROVE FALSE OBVIOUS
    <3>1. e[1] < e[l] BY <1>2, <2>1 DEF Listing
    <3>2. e[1] \in 1..n BY <1>3, <2>1
    <3> QED BY <2>2, <3>1, <3>2
  <2>4. e[1] = 1 BY <2>2, <2>3
  <2>5. \A d \in 0..(n - 1) : e[1] + d \in 1..n BY <2>4
  <2>6. n - 1 \in Nat BY <2>1
  <2>7. \A d \in 0..(n - 1) : 1 + d \in 1..n /\ e[1 + d] = e[1] + d
    <3> DEFINE c == n - 1
               S == 1..n
               one == 1
    <3>1. /\ c \in Nat /\ one \in 1..n /\ Listing(e, n, S)
          /\ \A d \in 0..c : e[one] + d \in S
      BY <1>2, <2>1, <2>5, <2>6
    <3> HIDE DEF c, S, one
    <3>2. \A d \in 0..c : one + d \in 1..n /\ e[one + d] = e[one] + d BY <3>1, Block
    <3> QED BY <3>2 DEF c, one
  <2>8. k - 1 \in 0..(n - 1) /\ 1 + (k - 1) = k BY <2>6
  <2> QED BY <2>4, <2>7, <2>8
<1>5. e = [k \in 1..n |-> k] BY <1>3, <1>4
<1> QED BY <1>5 DEF e

-----------------------------------------------------------------------------
(* Texts.  One that is blank carries no message. *)

Text == [ascii : Nat, other : Nat, of : SUBSET Nat]
HonestText == {t \in Text : Blank(t) => t.of = {}}

\* The parts of a text.
LEMMA TextFields ==
  ASSUME NEW t \in Text
  PROVE  t.ascii \in Nat /\ t.other \in Nat /\ t.of \in SUBSET Nat
  BY DEF Text

\* A text that carries messages is not blank, if it is an honest one.
LEMMA TextOf ==
  ASSUME NEW a \in Nat, NEW o \in Nat, NEW s \in SUBSET Nat
  PROVE  /\ [ascii |-> a, other |-> o, of |-> s] \in Text
         /\ (a > 0 \/ o > 0) => [ascii |-> a, other |-> o, of |-> s] \in HonestText
  BY DEF Text, HonestText, Blank

\* The empty text carries nothing.
LEMMA EmptyText ==
  Empty \in HonestText /\ Empty.of = {} /\ Blank(Empty)
  BY DEF Empty, Text, HonestText, Blank

\* A text of the program itself carries nothing.
LEMMA AsciiText ==
  ASSUME NEW n \in Nat
  PROVE  Ascii(n) \in HonestText /\ Ascii(n).of = {} /\ Ascii(n).ascii = n
  BY DEF Ascii, Empty, Text, HonestText, Blank

\* Two texts one after the other.
LEMMA CatText ==
  ASSUME NEW t \in Text, NEW u \in Text
  PROVE  /\ Cat(t, u) \in Text
         /\ Cat(t, u).of = t.of \cup u.of
         /\ Cat(t, u).ascii = t.ascii + u.ascii
         /\ Cat(t, u).other = t.other + u.other
<1>1. /\ t.ascii \in Nat /\ t.other \in Nat /\ t.of \in SUBSET Nat
      /\ u.ascii \in Nat /\ u.other \in Nat /\ u.of \in SUBSET Nat
  BY TextFields
<1>2. t.ascii + u.ascii \in Nat /\ t.other + u.other \in Nat /\ t.of \cup u.of \in SUBSET Nat BY <1>1
<1> QED BY <1>2 DEF Cat, Text

\* The tokens of a text are a number.
LEMMA Tokenized ==
  ASSUME NEW t \in Text
  PROVE  genericTextTokens(t) \in Nat
<1>1. t.ascii \in Nat /\ t.other \in Nat BY TextFields
<1> QED BY <1>1 DEF genericTextTokens

\* Finitely many texts one after the other.
LEMMA CatAllText ==
  ASSUME NEW S, IsFiniteSet(S), NEW ts \in [S -> Text]
  PROVE  /\ CatAll(ts) \in Text
         /\ CatAll(ts).of = UNION {ts[i].of : i \in S}
         /\ \A i \in S : ts[i].ascii <= CatAll(ts).ascii /\ ts[i].other <= CatAll(ts).other
<1> DEFINE a == [i \in S |-> ts[i].ascii]
           o == [i \in S |-> ts[i].other]
           s == UNION {ts[i].of : i \in S}
<1>1. \A i \in S : ts[i].ascii \in Nat /\ ts[i].other \in Nat /\ ts[i].of \in SUBSET Nat
  BY TextFields
<1>2. a \in [S -> Nat] /\ o \in [S -> Nat] BY <1>1
<1>3. s \in SUBSET Nat BY <1>1
<1>4. CatAll(ts) = [ascii |-> SumFunction(a), other |-> SumFunction(o), of |-> s]
  <2>1. DOMAIN ts = S OBVIOUS
  <2> QED BY <2>1, Zenon DEF CatAll
<1>5. \A i \in S : ts[i].ascii = a[i] /\ ts[i].other = o[i] OBVIOUS
<1> HIDE DEF a, o, s
<1>6. /\ SumFunction(a) \in Nat /\ \A i \in S : a[i] <= SumFunction(a)
      /\ SumFunction(o) \in Nat /\ \A i \in S : o[i] <= SumFunction(o)
  BY <1>2, SumBounds
<1>7. CatAll(ts) \in Text BY <1>3, <1>4, <1>6, TextOf
<1>8. CatAll(ts).ascii = SumFunction(a) /\ CatAll(ts).other = SumFunction(o) /\ CatAll(ts).of = s
  BY <1>4
<1> QED BY <1>5, <1>6, <1>7, <1>8 DEF s

\* Dropping the blank parts forgets nothing.
LEMMA JoinedText ==
  ASSUME NEW S, IsFiniteSet(S), NEW parts \in [S -> HonestText]
  PROVE  /\ joinCompactionContext(parts) \in HonestText
         /\ joinCompactionContext(parts).of = UNION {parts[i].of : i \in S}
<1> DEFINE P == {i \in DOMAIN parts : ~Blank(parts[i])}
           kept == [i \in P |-> parts[i]]
           gap == 2 * Higher(0, Cardinality(P) - 1)
<1>1. P \in SUBSET S /\ IsFiniteSet(P)
  <2>1. P \in SUBSET S OBVIOUS
  <2> HIDE DEF P
  <2> QED BY <2>1, FS_Subset
<1>2. gap \in Nat
  <2> HIDE DEF P
  <2>1. Cardinality(P) \in Nat BY <1>1, FS_CardinalityType
  <2> QED BY <2>1 DEF Higher
<1>3. \A i \in S : parts[i] \in Text /\ (Blank(parts[i]) => parts[i].of = {}) BY DEF HonestText
<1>4. kept \in [P -> Text] BY <1>1, <1>3
<1>5. /\ CatAll(kept) \in Text /\ CatAll(kept).of = UNION {kept[i].of : i \in P}
      /\ \A i \in P : kept[i].ascii <= CatAll(kept).ascii /\ kept[i].other <= CatAll(kept).other
  <2> HIDE DEF P, kept
  <2> QED BY <1>1, <1>4, CatAllText
<1>6. joinCompactionContext(parts) = Cat(CatAll(kept), Ascii(gap)) BY Zenon DEF joinCompactionContext
<1>7. UNION {kept[i].of : i \in P} = UNION {parts[i].of : i \in S}
  <2>1. \A i \in S : i \in P \/ parts[i].of = {} BY <1>3
  <2>2. \A i \in P : i \in S /\ kept[i] = parts[i] BY <1>1
  <2> HIDE DEF P, kept
  <2> QED BY <2>1, <2>2
<1>8. \A i \in P : kept[i] = parts[i] /\ ~Blank(parts[i]) OBVIOUS
<1>9. Ascii(gap) \in Text /\ Ascii(gap).of = {} BY <1>2, AsciiText DEF HonestText
<1> HIDE DEF P, kept, gap
<1> DEFINE j == joinCompactionContext(parts)
           c == CatAll(kept)
<1>10. /\ j \in Text /\ j.of = c.of \cup {} /\ j.ascii = c.ascii + Ascii(gap).ascii
       /\ j.other = c.other + Ascii(gap).other
  BY <1>5, <1>6, <1>9, CatText
<1>11. c.of # {} => ~Blank(j)
  <2> SUFFICES ASSUME c.of # {} PROVE ~Blank(j) OBVIOUS
  <2>1. P # {} BY <1>5
  <2>2. PICK i \in P : TRUE BY <2>1
  <2>3. ~Blank(kept[i]) /\ kept[i] \in Text BY <1>4, <1>8
  <2>4. kept[i].ascii <= c.ascii /\ kept[i].other <= c.other BY <1>5
  <2> HIDE DEF c, j
  <2>5. /\ kept[i].ascii \in Nat /\ kept[i].other \in Nat /\ c.ascii \in Nat /\ c.other \in Nat
        /\ Ascii(gap).ascii \in Nat /\ Ascii(gap).other \in Nat
    BY <1>5, <1>9, <2>3, TextFields DEF c
  <2>6. kept[i].ascii + kept[i].other # 0 BY <2>3 DEF Blank
  <2>7. j.ascii + j.other # 0
    <3>1. \A a, o, x, y, g, h \in Nat : x <= a /\ y <= o /\ x + y # 0 => (a + g) + (o + h) # 0 OBVIOUS
    <3>2. (c.ascii + Ascii(gap).ascii) + (c.other + Ascii(gap).other) # 0 BY <2>4, <2>5, <2>6, <3>1
    <3>3. j.ascii = c.ascii + Ascii(gap).ascii /\ j.other = c.other + Ascii(gap).other BY <1>10
    <3> QED BY <3>2, <3>3
  <2> QED BY <2>7 DEF Blank
<1> HIDE DEF j
<1>12. j.of = c.of BY <1>10
<1>13. j \in HonestText BY <1>10, <1>11, <1>12 DEF HonestText
<1> QED BY <1>5, <1>7, <1>12, <1>13 DEF j, c

\* A text that is cut still carries what it carried.
LEMMA TruncatedText ==
  ASSUME NEW t \in Text, NEW limit \in Nat, limit >= 3 \/ t.ascii + t.other <= limit
  PROVE  truncateText(t, limit) \in Text /\ truncateText(t, limit).of = t.of
<1>1. t.ascii \in Nat /\ t.other \in Nat /\ t.of \in SUBSET Nat BY TextFields
<1>2. CASE t.ascii + t.other <= limit BY <1>2 DEF truncateText
<1>3. CASE ~(t.ascii + t.other <= limit)
  <2> DEFINE kept == Lower(t.ascii, limit - 3)
  <2>1. kept \in Nat /\ limit - kept \in Nat BY <1>1, <1>3 DEF Lower
  <2>2. truncateText(t, limit) = [ascii |-> kept, other |-> limit - kept, of |-> t.of]
    BY <1>3, Zenon DEF truncateText
  <2> HIDE DEF kept
  <2> QED BY <1>1, <2>1, <2>2, TextOf
<1> QED BY <1>2, <1>3

\* Cutting a text within a budget leaves nothing out, and what it leaves to
\* the left of the cut is not blank.
LEMMA SplitText ==
  ASSUME NEW t \in HonestText, NEW budget \in Nat
  PROVE  LET s == splitGenericTokenSuffix(t, budget)
         IN s.prefix \in HonestText /\ s.suffix \in HonestText /\ s.prefix.of \cup s.suffix.of = t.of
<1> DEFINE runes == RuneBytes * (Lower(t.other, budget) \div RuneBytes)
           plain == IF runes < t.other THEN 0 ELSE Lower(t.ascii, 3 * (budget - runes))
           whole == genericTextTokens(t) <= budget
           s == splitGenericTokenSuffix(t, budget)
           p == [ascii |-> t.ascii - plain, other |-> t.other - runes, of |-> t.of]
           q == [ascii |-> plain, other |-> runes, of |-> IF plain + runes > 0 THEN t.of ELSE {}]
<1>1. t \in Text BY DEF HonestText
<1>2. t.ascii \in Nat /\ t.other \in Nat /\ t.of \in SUBSET Nat BY <1>1, TextFields
<1>3. CASE whole
  <2>1. s = [prefix |-> Empty, suffix |-> t] BY <1>3, Zenon DEF splitGenericTokenSuffix
  <2> HIDE DEF s
  <2>2. s.prefix = Empty /\ s.suffix = t BY <2>1
  <2>3. Empty \in HonestText /\ Empty.of = {} BY EmptyText
  <2> QED BY <2>2, <2>3 DEF s
<1>4. CASE ~whole
  <2>1. s = [prefix |-> p, suffix |-> q] BY <1>4, Zenon DEF splitGenericTokenSuffix
  <2>2. s.prefix = p /\ s.suffix = q
    <3> HIDE DEF s, p, q
    <3> QED BY <2>1
  <2>3. runes \in Nat /\ runes <= t.other /\ runes <= budget BY <1>2 DEF Lower, RuneBytes
  <2>4. plain \in Nat /\ plain <= t.ascii
    <3> HIDE DEF runes
    <3> QED BY <1>2, <2>3 DEF Lower
  <2>5. ~(plain = t.ascii /\ runes = t.other)
    <3> SUFFICES ASSUME plain = t.ascii, runes = t.other PROVE FALSE OBVIOUS
    <3> HIDE DEF runes
    <3>1. t.ascii <= 3 * (budget - t.other) BY <1>2, <2>3 DEF Lower
    <3>2. (t.ascii + 2) \div 3 + t.other <= budget BY <1>2, <2>3, <3>1
    <3> QED BY <1>4, <3>2 DEF genericTextTokens
  <2> HIDE DEF runes, plain
  <2>6. t.ascii - plain \in Nat /\ t.other - runes \in Nat /\ (t.ascii - plain > 0 \/ t.other - runes > 0)
    BY <1>2, <2>3, <2>4, <2>5
  <2>7. p \in HonestText BY <1>2, <2>6, TextOf
  <2>8. q \in HonestText
    <3>1. CASE plain + runes > 0
      <4>1. plain > 0 \/ runes > 0 BY <2>3, <2>4, <3>1
      <4>2. q = [ascii |-> plain, other |-> runes, of |-> t.of] BY <3>1
      <4> QED BY <1>2, <2>3, <2>4, <4>1, <4>2, TextOf
    <3>2. CASE ~(plain + runes > 0)
      <4>1. q = [ascii |-> plain, other |-> runes, of |-> {}] BY <3>2
      <4>2. q \in Text BY <2>3, <2>4, <4>1, TextOf
      <4> QED BY <4>1, <4>2 DEF HonestText
    <3> QED BY <3>1, <3>2
  <2>9. p.of \cup q.of = t.of OBVIOUS
  <2> HIDE DEF s, p, q
  <2> QED BY <2>2, <2>7, <2>8, <2>9 DEF s
<1> QED BY <1>3, <1>4

-----------------------------------------------------------------------------
(* Messages and their serialized units. *)

PromptTypes == {"user", "runtime_event"}
SpokenTypes == PromptTypes \cup {"assistant", "tool_call", "tool_result"}
MessageTypes == SpokenTypes \cup {"compaction_checkpoint"}
StoredMessage ==
  [type : MessageTypes, text : Text, calls : Nat, call : Nat,
   summary : Text, recent : Text, covers : Nat, tail : Nat]
SpokenMessage == {m \in StoredMessage : m.type \in SpokenTypes}

\* The parts of a message.
LEMMA MessageFields ==
  ASSUME NEW m \in StoredMessage
  PROVE  /\ m.type \in MessageTypes /\ m.text \in Text /\ m.calls \in Nat /\ m.call \in Nat
         /\ m.summary \in Text /\ m.recent \in Text /\ m.covers \in Nat /\ m.tail \in Nat
  BY DEF StoredMessage

\* A message with the fields its type does not use left empty.
LEMMA MessageIs ==
  ASSUME NEW type \in MessageTypes, NEW t \in Text
  PROVE  /\ Message(type, t) \in StoredMessage
         /\ Message(type, t).type = type /\ Message(type, t).text = t
         /\ Message(type, t).calls = 0 /\ Message(type, t).call = 0
<1>1. Empty \in Text BY EmptyText DEF HonestText
<1> QED BY <1>1 DEF Message, StoredMessage

\* The positions of a sequence are finitely many.
LEMMA SeqDomain ==
  ASSUME NEW X, NEW s \in Seq(X)
  PROVE  /\ Len(s) \in Nat /\ DOMAIN s = 1..Len(s) /\ s \in [1..Len(s) -> X]
         /\ IsFiniteSet(1..Len(s)) /\ \A i \in 1..Len(s) : s[i] \in X
<1>1. Len(s) \in Nat /\ DOMAIN s = 1..Len(s) /\ s \in [1..Len(s) -> X] OBVIOUS
<1>2. IsFiniteSet(1..Len(s)) BY <1>1, FS_Interval
<1> QED BY <1>1, <1>2

\* The cost of a message is a number.
LEMMA CostIs ==
  ASSUME NEW m \in SpokenMessage
  PROVE  Cost(m) \in Nat
<1>1. m.type \in SpokenTypes /\ m.text \in Text BY DEF SpokenMessage, StoredMessage
<1>2. Framing(m.type) \in Nat BY <1>1 DEF Framing, SpokenTypes, PromptTypes
<1>3. genericTextTokens(m.text) \in Nat BY <1>1, Tokenized
<1> QED BY <1>2, <1>3 DEF Cost

\* The estimate of a request is a number.
LEMMA EstimateIs ==
  ASSUME NEW ms \in Seq(SpokenMessage)
  PROVE  Estimate(ms) \in Nat
<1> DEFINE f == [i \in DOMAIN ms |-> Cost(ms[i])]
<1>1. DOMAIN ms = 1..Len(ms) /\ IsFiniteSet(1..Len(ms)) /\ \A i \in 1..Len(ms) : ms[i] \in SpokenMessage
  BY SeqDomain
<1>2. f \in [1..Len(ms) -> Nat] BY <1>1, CostIs
<1> HIDE DEF f
<1>3. SumFunction(f) \in Nat BY <1>1, <1>2, SumBounds
<1>4. Estimate(ms) = BaseCost + SumFunction(f) BY Zenon DEF Estimate, f
<1> QED BY <1>3, <1>4, CompactionAssumption

\* Three texts one after the other.
LEMMA ThreeTexts ==
  ASSUME NEW t \in Text, NEW u \in Text, NEW v \in Text
  PROVE  /\ CatAll(<<t, u, v>>) \in Text
         /\ CatAll(<<t, u, v>>).of = t.of \cup u.of \cup v.of
         /\ t.ascii <= CatAll(<<t, u, v>>).ascii
<1> DEFINE s == <<t, u, v>>
<1>1. s \in Seq(Text) /\ Len(s) = 3 OBVIOUS
<1>2. s[1] = t /\ s[2] = u /\ s[3] = v OBVIOUS
<1> HIDE DEF s
<1>3. s \in [1..3 -> Text] /\ IsFiniteSet(1..3) BY <1>1, SeqDomain
<1>4. /\ CatAll(s) \in Text /\ CatAll(s).of = UNION {s[i].of : i \in 1..3}
      /\ \A i \in 1..3 : s[i].ascii <= CatAll(s).ascii
  BY <1>3, CatAllText
<1>5. 1..3 = {1, 2, 3} OBVIOUS
<1>6. UNION {s[i].of : i \in {1, 2, 3}} = s[1].of \cup s[2].of \cup s[3].of OBVIOUS
<1>7. s[1].ascii <= CatAll(s).ascii BY <1>4, <1>5
<1>8. CatAll(s).of = t.of \cup u.of \cup v.of BY <1>2, <1>4, <1>5, <1>6, Zenon
<1> QED BY <1>2, <1>4, <1>7, <1>8 DEF s

\* A serialized message carries that message and is not blank.
LEMMA SerializedMessage ==
  ASSUME NEW m \in StoredMessage
  PROVE  /\ serializeMessage(m) \in Text /\ serializeMessage(m).of = m.text.of
         /\ 24 <= serializeMessage(m).ascii
<1> DEFINE cut == m.type = "tool_result" /\ m.text.ascii + m.text.other > 2000
           limit == IF cut THEN 2000 ELSE m.text.ascii + m.text.other
           note == IF cut THEN Ascii(12) ELSE Empty
           body == truncateText(m.text, limit)
<1>1. m.text \in Text BY MessageFields
<1>2. m.text.ascii \in Nat /\ m.text.other \in Nat BY <1>1, TextFields
<1>3. limit \in Nat /\ (limit >= 3 \/ m.text.ascii + m.text.other <= limit) BY <1>2
<1>4. note \in Text /\ note.of = {} BY AsciiText, EmptyText DEF HonestText
<1>5. serializeMessage(m) = CatAll(<<Ascii(24), body, note>>) BY Zenon DEF serializeMessage
<1> HIDE DEF cut, limit, note
<1>6. body \in Text /\ body.of = m.text.of BY <1>1, <1>3, TruncatedText
<1> HIDE DEF body
<1>7. Ascii(24) \in Text /\ Ascii(24).of = {} /\ Ascii(24).ascii = 24 BY AsciiText DEF HonestText
<1> DEFINE head == Ascii(24)
           all == CatAll(<<head, body, note>>)
<1>8. head \in Text /\ head.of = {} /\ head.ascii = 24 BY <1>7
<1> HIDE DEF head
<1>9. all \in Text /\ all.of = head.of \cup body.of \cup note.of /\ head.ascii <= all.ascii
  BY <1>4, <1>6, <1>8, ThreeTexts, ZenonT(40)
<1>10. serializeMessage(m) = all BY <1>5 DEF head
<1> HIDE DEF all
<1>11. all.of = m.text.of /\ 24 <= all.ascii BY <1>4, <1>6, <1>8, <1>9
<1> QED BY <1>9, <1>10, <1>11

Unit(ms, i) == {k \in i..Len(ms) : \A j \in conversationUnits(ms) : j <= k => j <= i}

\* A serialized unit carries the messages of the unit.
LEMMA SerializedUnit ==
  ASSUME NEW ms \in Seq(StoredMessage), NEW i \in conversationUnits(ms)
  PROVE  /\ serializeCompactionUnit(ms, i) \in HonestText
         /\ serializeCompactionUnit(ms, i).of = UNION {ms[k].text.of : k \in Unit(ms, i)}
<1> DEFINE S == Unit(ms, i)
           f == [k \in S |-> serializeMessage(ms[k])]
           u == serializeCompactionUnit(ms, i)
<1>1. /\ DOMAIN ms = 1..Len(ms) /\ IsFiniteSet(1..Len(ms)) /\ Len(ms) \in Nat
      /\ \A k \in 1..Len(ms) : ms[k] \in StoredMessage
  BY SeqDomain
<1>2. i \in 1..Len(ms) BY <1>1 DEF conversationUnits
<1>3. S \in SUBSET (1..Len(ms)) BY <1>2 DEF Unit
<1>4. i \in S BY <1>2 DEF Unit
<1>5. u = CatAll(f) BY Zenon DEF serializeCompactionUnit, Unit
<1> HIDE DEF S
<1>6. IsFiniteSet(S) BY <1>1, <1>3, FS_Subset
<1>7. \A k \in S : ms[k] \in StoredMessage BY <1>1, <1>3
<1>8. \A k \in S : /\ f[k] = serializeMessage(ms[k]) /\ f[k] \in Text /\ f[k].of = ms[k].text.of
                   /\ 24 <= f[k].ascii
  BY <1>7, SerializedMessage
<1>9. f \in [S -> Text] BY <1>8
<1>10. UNION {f[k].of : k \in S} = UNION {ms[k].text.of : k \in S}
  <2> HIDE DEF f
  <2> QED BY <1>8
<1> HIDE DEF f, u
<1>11. CatAll(f) \in Text /\ CatAll(f).of = UNION {f[k].of : k \in S} /\ f[i].ascii <= CatAll(f).ascii
  BY <1>4, <1>6, <1>9, CatAllText
<1>12. ~Blank(CatAll(f))
  <2>1. CatAll(f).ascii \in Nat /\ CatAll(f).other \in Nat /\ f[i].ascii \in Nat
    BY <1>4, <1>8, <1>11, TextFields
  <2>2. 24 <= f[i].ascii BY <1>4, <1>8
  <2>3. \A a, o, x \in Nat : 24 <= x /\ x <= a => a + o # 0 OBVIOUS
  <2>4. CatAll(f).ascii + CatAll(f).other # 0 BY <1>11, <2>1, <2>2, <2>3
  <2> QED BY <2>4 DEF Blank
<1>13. u \in HonestText BY <1>5, <1>11, <1>12 DEF HonestText
<1> QED BY <1>5, <1>10, <1>11, <1>13 DEF u, S

\* A set of numbers up to n that is not empty has a greatest element.
LEMMA NatMax ==
  ASSUME NEW n \in Nat, NEW S \in SUBSET (1..n), S # {}
  PROVE  \E m \in S : \A k \in S : k <= m
<1> DEFINE D == {n - k : k \in S}
<1>1. D \in SUBSET Nat /\ D # {}
  <2>1. \A k \in S : n - k \in Nat OBVIOUS
  <2> QED BY <2>1
<1>2. PICK d \in D : \A x \in D : d <= x
  <2> HIDE DEF D
  <2> QED BY <1>1, NatMin
<1>3. PICK m \in S : d = n - m OBVIOUS
<1>4. ASSUME NEW k \in S PROVE k <= m
  <2>1. d <= n - k BY <1>2
  <2> QED BY <1>3, <2>1
<1> QED BY <1>4

\* Every message is in a unit, if the first one is no tool result.
LEMMA UnitsCover ==
  ASSUME NEW ms \in Seq(StoredMessage), ms # <<>> => ms[1].type # "tool_result",
         NEW k \in 1..Len(ms)
  PROVE  \E i \in conversationUnits(ms) : k \in Unit(ms, i)
<1>1. Len(ms) \in Nat /\ DOMAIN ms = 1..Len(ms) OBVIOUS
<1> DEFINE L == {j \in conversationUnits(ms) : j <= k}
<1>2. 1 \in L
  <2>1. 1 \in 1..Len(ms) /\ 1 <= k /\ ms # <<>> BY <1>1
  <2> QED BY <1>1, <2>1 DEF conversationUnits
<1>3. L \in SUBSET (1..Len(ms)) BY <1>1 DEF conversationUnits
<1>4. PICK i \in L : \A j \in L : j <= i
  <2> HIDE DEF L
  <2> QED BY <1>1, <1>2, <1>3, NatMax
<1>5. i \in conversationUnits(ms) /\ i <= k OBVIOUS
<1>6. k \in i..Len(ms)
  <2>1. i \in 1..Len(ms) BY <1>3
  <2> QED BY <1>1, <1>5, <2>1
<1>7. \A j \in conversationUnits(ms) : j <= k => j <= i BY <1>4
<1>8. k \in Unit(ms, i) BY <1>6, <1>7 DEF Unit
<1> QED BY <1>5, <1>8

-----------------------------------------------------------------------------
(* The history that a compaction cuts in two. *)

Carried(ts, n) == UNION {ts[i].of : i \in 1..n}

\* The entries of a history carry all of its messages.
LEMMA EntriesText ==
  ASSUME NEW ms \in Seq(StoredMessage), ms # <<>> => ms[1].type # "tool_result"
  PROVE  LET e == Entries(ms, InOrder(conversationUnits(ms)))
         IN e \in Seq(HonestText) /\ Carried(e, Len(e)) = UNION {ms[k].text.of : k \in 1..Len(ms)}
<1> DEFINE S == conversationUnits(ms)
           n == Cardinality(S)
           p == InOrder(S)
           e == [i \in DOMAIN p |-> serializeCompactionUnit(ms, p[i])]
           whole == UNION {ms[k].text.of : k \in 1..Len(ms)}
<1>1. DOMAIN ms = 1..Len(ms) /\ IsFiniteSet(1..Len(ms)) /\ Len(ms) \in Nat BY SeqDomain
<1>2. S \in SUBSET (1..Len(ms)) BY <1>1 DEF conversationUnits
<1>3. Listing(p, n, S)
  <2> HIDE DEF S
  <2>1. IsFiniteSet(S) BY <1>1, <1>2, FS_Subset
  <2>2. S \in SUBSET Nat BY <1>1, <1>2
  <2> QED BY <2>1, <2>2, Listed
<1> HIDE DEF S, n, p
<1>4. n \in Nat /\ p \in [1..n -> S] /\ \A i \in S : \E k \in 1..n : p[k] = i BY <1>3 DEF Listing
<1>5. \A i \in 1..n : /\ p[i] \in S /\ serializeCompactionUnit(ms, p[i]) \in HonestText
                      /\ serializeCompactionUnit(ms, p[i]).of = UNION {ms[k].text.of : k \in Unit(ms, p[i])}
  <2> SUFFICES ASSUME NEW i \in 1..n
               PROVE  /\ p[i] \in S /\ serializeCompactionUnit(ms, p[i]) \in HonestText
                      /\ serializeCompactionUnit(ms, p[i]).of = UNION {ms[k].text.of : k \in Unit(ms, p[i])}
    OBVIOUS
  <2>1. p[i] \in S BY <1>4
  <2>2. p[i] \in conversationUnits(ms) BY <2>1 DEF S
  <2> QED BY <2>1, <2>2, SerializedUnit
<1>6. DOMAIN p = 1..n BY <1>4
<1>7. \A i \in 1..n : e[i] = serializeCompactionUnit(ms, p[i]) BY <1>6
<1>8. e \in [1..n -> HonestText]
  <2>1. DOMAIN e = 1..n BY <1>6
  <2> HIDE DEF e
  <2>2. \A i \in 1..n : e[i] \in HonestText BY <1>5, <1>7
  <2>3. e = [i \in 1..n |-> e[i]]
    <3>1. e = [i \in DOMAIN p |-> serializeCompactionUnit(ms, p[i])] BY Zenon DEF e
    <3>2. \A i \in 1..n : serializeCompactionUnit(ms, p[i]) = e[i] BY <1>7
    <3> QED BY <1>6, <3>1, <3>2
  <2> QED BY <2>2, <2>3
<1> HIDE DEF e
<1>9. e \in Seq(HonestText) /\ Len(e) = n BY <1>4, <1>8
<1>10. \A i \in 1..n : e[i].of = UNION {ms[k].text.of : k \in Unit(ms, p[i])} BY <1>5, <1>7
<1>11. Carried(e, n) \subseteq whole
  <2> SUFFICES ASSUME NEW x \in Carried(e, n) PROVE x \in whole OBVIOUS
  <2>1. PICK i \in 1..n : x \in e[i].of BY DEF Carried
  <2>2. PICK k \in Unit(ms, p[i]) : x \in ms[k].text.of BY <1>10, <2>1
  <2>3. p[i] \in 1..Len(ms) BY <1>2, <1>4
  <2>4. k \in p[i]..Len(ms) BY DEF Unit
  <2>5. k \in 1..Len(ms) BY <1>1, <2>3, <2>4
  <2> QED BY <2>2, <2>5
<1>12. whole \subseteq Carried(e, n)
  <2> SUFFICES ASSUME NEW x \in whole PROVE x \in Carried(e, n) OBVIOUS
  <2>1. PICK k \in 1..Len(ms) : x \in ms[k].text.of OBVIOUS
  <2>2. PICK j \in conversationUnits(ms) : k \in Unit(ms, j) BY UnitsCover
  <2>3. PICK i \in 1..n : p[i] = j BY <1>4, <2>2 DEF S
  <2>4. x \in e[i].of BY <1>10, <2>1, <2>2, <2>3
  <2> QED BY <2>4 DEF Carried
<1>13. Entries(ms, InOrder(conversationUnits(ms))) = e BY Zenon DEF Entries, e, p, S
<1> QED BY <1>9, <1>11, <1>12, <1>13

\* A sequence of texts, joined.
LEMMA JoinedSeq ==
  ASSUME NEW s \in Seq(HonestText)
  PROVE  joinCompactionContext(s) \in HonestText /\ joinCompactionContext(s).of = Carried(s, Len(s))
<1>1. s \in [1..Len(s) -> HonestText] /\ IsFiniteSet(1..Len(s)) BY SeqDomain
<1>2. joinCompactionContext(s) \in HonestText
  BY <1>1, JoinedText
<1>3. joinCompactionContext(s).of = UNION {s[i].of : i \in 1..Len(s)}
  BY <1>1, JoinedText
<1> QED BY <1>2, <1>3 DEF Carried

\* What follows in a sequence from the i-th element on.
LEMMA SuffixIs ==
  ASSUME NEW X, NEW s \in Seq(X), NEW i \in 1..(Len(s) + 1)
  PROVE  /\ Suffix(s, i) \in Seq(X) /\ Len(Suffix(s, i)) = Len(s) - i + 1
         /\ \A k \in 1..(Len(s) - i + 1) : Suffix(s, i)[k] = s[k + i - 1]
<1>1. Len(s) \in Nat OBVIOUS
<1>2. \A j \in i..Len(s) : s[j] \in X BY <1>1
<1> DEFINE t == SubSeq(s, i, Len(s))
<1>3. /\ t \in Seq(X) /\ Len(t) = IF i <= Len(s) THEN Len(s) - i + 1 ELSE 0
      /\ \A k \in 1..(Len(s) - i + 1) : t[k] = s[i + k - 1]
  BY <1>1, <1>2, SubSeqProperties
<1>4. t = Suffix(s, i) BY DEF Suffix
<1> HIDE DEF t
<1>5. Len(t) = Len(s) - i + 1 BY <1>1, <1>3
<1>6. \A k \in 1..(Len(s) - i + 1) : i + k - 1 = k + i - 1 BY <1>1
<1> QED BY <1>3, <1>4, <1>5, <1>6

\* The tokens of the entries are a number.
LEMMA TokensIs ==
  ASSUME NEW s \in Seq(HonestText)
  PROVE  Tokens(s) \in Nat /\ (Len(s) = 0 => Tokens(s) = 0)
<1> DEFINE f == [i \in DOMAIN s |-> genericTextTokens(s[i])]
<1>1. DOMAIN s = 1..Len(s) /\ Len(s) \in Nat /\ IsFiniteSet(1..Len(s)) /\ \A i \in 1..Len(s) : s[i] \in HonestText
  BY SeqDomain
<1>2. \A i \in 1..Len(s) : s[i] \in Text BY <1>1 DEF HonestText
<1>3. f \in [1..Len(s) -> Nat] BY <1>1, <1>2, Tokenized
<1> HIDE DEF f
<1>4. SumFunction(f) \in Nat /\ (1..Len(s) = {} => SumFunction(f) = 0) BY <1>1, <1>3, SumBounds
<1>5. Tokens(s) = SumFunction(f) BY Zenon DEF Tokens, f
<1>6. Len(s) = 0 => 1..Len(s) = {} OBVIOUS
<1> QED BY <1>4, <1>5, <1>6

\* The greatest of finitely many numbers.
LEMMA LastIs ==
  ASSUME NEW n \in Nat, NEW S \in SUBSET (1..n), S # {}
  PROVE  LastOf(S) \in S /\ \A j \in S : j <= LastOf(S)
<1>1. \E i \in S : \A j \in S : j <= i BY NatMax
<1> QED BY <1>1, Zenon DEF LastOf

\* Cutting the entries in two leaves nothing out.
LEMMA CutText ==
  ASSUME NEW entries \in Seq(HonestText), NEW budget \in Nat
  PROVE  LET c == CutEntries(entries, budget)
         IN /\ c.older \in HonestText /\ c.recent \in HonestText
            /\ c.older.of \cup c.recent.of = Carried(entries, Len(entries))
<1> DEFINE n == Len(entries)
           over == {i \in DOMAIN entries : Tokens(Suffix(entries, i)) > budget}
           c == CutEntries(entries, budget)
           all == Carried(entries, Len(entries))
<1>1. n \in Nat /\ DOMAIN entries = 1..n /\ \A i \in 1..n : entries[i] \in HonestText BY SeqDomain
<1>2. over \in SUBSET (1..n) BY <1>1
<1>3. c = CutWhere(entries, over, budget) BY Zenon DEF CutEntries
<1>4. CASE over = {}
  <2>1. c = [older |-> Empty, recent |-> joinCompactionContext(entries)]
    BY <1>3, <1>4, Zenon DEF CutWhere
  <2>2. c.older = Empty /\ c.recent = joinCompactionContext(entries) BY <2>1
  <2>3. Empty \in HonestText /\ Empty.of = {} BY EmptyText
  <2>4. joinCompactionContext(entries) \in HonestText /\ joinCompactionContext(entries).of = all BY JoinedSeq
  <2> HIDE DEF c, all
  <2> QED BY <2>2, <2>3, <2>4 DEF c, all
<1>5. CASE over # {}
  <2> DEFINE cut == LastOf(over)
             rest == Suffix(entries, cut + 1)
             left == budget - Tokens(rest)
             s == splitGenericTokenSuffix(entries[cut], left)
             o == Append(SubSeq(entries, 1, cut - 1), s.prefix)
             r == <<s.suffix>> \o rest
  <2>1. cut \in over /\ \A j \in over : j <= cut
    <3> HIDE DEF over
    <3> QED BY <1>1, <1>2, <1>5, LastIs
  <2>2. c = [older |-> joinCompactionContext(o), recent |-> joinCompactionContext(r)]
    BY <1>3, <1>5, Zenon DEF CutWhere, CutAt, SplitAt
  <2>3. cut + 1 \in DOMAIN entries => ~(Tokens(rest) > budget)
    <3> SUFFICES ASSUME cut + 1 \in DOMAIN entries, Tokens(rest) > budget PROVE FALSE OBVIOUS
    <3>1. cut + 1 \in over BY Zenon
    <3>2. cut + 1 <= cut BY <2>1, <3>1
    <3>3. cut \in Nat BY <1>1, <1>2, <2>1
    <3> QED BY <3>2, <3>3
  <2>4. cut \in 1..n BY <1>2, <2>1
  <2> HIDE DEF cut, over, n
  <2>5. cut + 1 \in 1..(Len(entries) + 1) BY <1>1, <2>4 DEF n
  <2>6. /\ rest \in Seq(HonestText) /\ Len(rest) = Len(entries) - (cut + 1) + 1
        /\ \A k \in 1..(Len(entries) - (cut + 1) + 1) : rest[k] = entries[k + (cut + 1) - 1]
    BY <2>5, SuffixIs
  <2> HIDE DEF rest
  <2>7. Len(rest) = n - cut /\ \A k \in 1..(n - cut) : rest[k] = entries[cut + k]
    <3>1. Len(entries) - (cut + 1) + 1 = n - cut BY <1>1, <2>4 DEF n
    <3>2. \A k \in 1..(n - cut) : k + (cut + 1) - 1 = cut + k BY <1>1, <2>4
    <3> QED BY <2>6, <3>1, <3>2
  <2>8. left \in Nat
    <3>1. Tokens(rest) \in Nat /\ (Len(rest) = 0 => Tokens(rest) = 0) BY <2>6, TokensIs
    <3>2. CASE cut + 1 \in DOMAIN entries BY <2>3, <3>1, <3>2
    <3>3. CASE cut + 1 \notin DOMAIN entries
      <4>1. cut = n BY <1>1, <2>4, <3>3
      <4>2. Len(rest) = 0 BY <1>1, <2>7, <4>1
      <4> QED BY <3>1, <4>2
    <3> QED BY <3>2, <3>3
  <2> HIDE DEF left
  <2>9. entries[cut] \in HonestText BY <1>1, <2>4
  <2>10. /\ s.prefix \in HonestText /\ s.suffix \in HonestText
         /\ s.prefix.of \cup s.suffix.of = entries[cut].of
    BY <2>8, <2>9, SplitText
  <2> HIDE DEF s
  <2> DEFINE before == SubSeq(entries, 1, cut - 1)
  <2>11. /\ before \in Seq(HonestText) /\ Len(before) = cut - 1
         /\ \A k \in 1..(cut - 1) : before[k] = entries[k]
    <3>1. /\ 1 \in 1..(Len(entries) + 1) /\ cut - 1 \in (1 - 1)..Len(entries)
          /\ \A k \in 1..(cut - 1) : entries[k] \in HonestText
      BY <1>1, <2>4 DEF n
    <3>2. entries \in Seq(HonestText) /\ \A k \in 1..(cut - 1) : k + 1 - 1 = k BY <1>1, <2>4
    <3> QED BY <1>1, <2>4, <3>1, <3>2, SubSeqProperties DEF n
  <2> HIDE DEF before
  <2>12. o = Append(before, s.prefix) BY DEF before
  <2>13. /\ o \in Seq(HonestText) /\ Len(o) = cut /\ o[cut] = s.prefix
         /\ \A k \in 1..(cut - 1) : o[k] = entries[k]
    BY <1>1, <2>4, <2>10, <2>11, <2>12, AppendProperties
  <2>14. /\ r \in Seq(HonestText) /\ Len(r) = n - cut + 1 /\ r[1] = s.suffix
         /\ \A k \in 1..(n - cut) : r[k + 1] = entries[cut + k]
    <3>1. <<s.suffix>> \in Seq(HonestText) /\ Len(<<s.suffix>>) = 1 BY <2>10
    <3>2. /\ r \in Seq(HonestText) /\ Len(r) = 1 + Len(rest)
          /\ \A k \in 1..Len(r) : r[k] = IF k <= 1 THEN <<s.suffix>>[k] ELSE rest[k - 1]
      BY <2>6, <3>1, ConcatProperties
    <3> HIDE DEF r
    <3>3. Len(r) = n - cut + 1 BY <1>1, <2>4, <2>7, <3>2
    <3>4. 1 \in 1..Len(r) BY <1>1, <2>4, <3>3
    <3>5. r[1] = s.suffix BY <3>2, <3>4
    <3>6. ASSUME NEW k \in 1..(n - cut) PROVE r[k + 1] = entries[cut + k]
      <4>1. k + 1 \in 1..Len(r) /\ ~(k + 1 <= 1) /\ (k + 1) - 1 = k BY <1>1, <2>4, <3>3
      <4>2. r[k + 1] = rest[k] BY <3>2, <4>1
      <4> QED BY <2>7, <4>2
    <3> QED BY <3>2, <3>3, <3>5, <3>6
  <2> HIDE DEF o, r
  <2>15. /\ joinCompactionContext(o) \in HonestText /\ joinCompactionContext(o).of = Carried(o, cut)
         /\ joinCompactionContext(r) \in HonestText
         /\ joinCompactionContext(r).of = Carried(r, n - cut + 1)
    BY <2>13, <2>14, JoinedSeq
  <2>16. c.older = joinCompactionContext(o) /\ c.recent = joinCompactionContext(r) BY <2>2
  <2>17. Carried(o, cut) \cup Carried(r, n - cut + 1) \subseteq all
    <3>1. ASSUME NEW x \in Carried(o, cut) PROVE x \in all
      <4>1. PICK k \in 1..cut : x \in o[k].of BY DEF Carried
      <4>2. k \in 1..n BY <1>1, <2>4
      <4>3. x \in entries[k].of
        <5>1. CASE k = cut BY <2>10, <2>13, <4>1, <5>1
        <5>2. CASE k # cut
          <6>1. k \in 1..(cut - 1) BY <2>4, <5>2
          <6> QED BY <2>13, <4>1, <6>1
        <5> QED BY <5>1, <5>2
      <4> QED BY <4>2, <4>3 DEF Carried, n
    <3>2. ASSUME NEW x \in Carried(r, n - cut + 1) PROVE x \in all
      <4>1. PICK k \in 1..(n - cut + 1) : x \in r[k].of BY DEF Carried
      <4>2. CASE k = 1 BY <2>4, <2>10, <2>14, <4>1, <4>2 DEF Carried, n
      <4>3. CASE k # 1
        <5>1. k - 1 \in 1..(n - cut) /\ (k - 1) + 1 = k BY <1>1, <2>4, <4>3
        <5>2. r[k] = entries[cut + (k - 1)] BY <2>14, <5>1
        <5>3. cut + (k - 1) \in 1..n BY <1>1, <2>4, <5>1
        <5> QED BY <4>1, <5>2, <5>3 DEF Carried, n
      <4> QED BY <4>2, <4>3
    <3> QED BY <3>1, <3>2
  <2>18. all \subseteq Carried(o, cut) \cup Carried(r, n - cut + 1)
    <3> SUFFICES ASSUME NEW x \in all PROVE x \in Carried(o, cut) \cup Carried(r, n - cut + 1) OBVIOUS
    <3>1. PICK k \in 1..n : x \in entries[k].of BY DEF Carried, n
    <3>2. CASE k < cut
      <4>1. k \in 1..(cut - 1) /\ k \in 1..cut BY <2>4, <3>2
      <4>2. x \in o[k].of BY <2>13, <3>1, <4>1
      <4> QED BY <4>1, <4>2 DEF Carried
    <3>3. CASE k = cut
      <4>1. x \in s.prefix.of \/ x \in s.suffix.of BY <2>10, <3>1, <3>3
      <4>2. cut \in 1..cut /\ 1 \in 1..(n - cut + 1) BY <1>1, <2>4
      <4>3. x \in o[cut].of \/ x \in r[1].of BY <2>13, <2>14, <4>1
      <4> QED BY <4>2, <4>3 DEF Carried
    <3>4. CASE cut < k
      <4>1. k - cut \in 1..(n - cut) /\ cut + (k - cut) = k /\ (k - cut) + 1 \in 1..(n - cut + 1)
        BY <1>1, <2>4, <3>4
      <4>2. x \in r[(k - cut) + 1].of BY <2>14, <3>1, <4>1
      <4> QED BY <4>1, <4>2 DEF Carried
    <3> QED BY <2>4, <3>2, <3>3, <3>4
  <2> HIDE DEF c, all
  <2> QED BY <2>15, <2>16, <2>17, <2>18 DEF c, all
<1> QED BY <1>4, <1>5

\* The history of messages that do not begin with a tool result.
LEMMA HistoryText ==
  ASSUME NEW ms \in Seq(StoredMessage), ms # <<>> => ms[1].type # "tool_result", NEW budget \in Nat
  PROVE  LET c == selectCompactionHistory(ms, budget)
         IN /\ c.older \in HonestText /\ c.recent \in HonestText
            /\ c.older.of \cup c.recent.of = UNION {ms[k].text.of : k \in 1..Len(ms)}
<1> DEFINE e == Entries(ms, InOrder(conversationUnits(ms)))
           c == CutEntries(e, budget)
<1>1. e \in Seq(HonestText) /\ Carried(e, Len(e)) = UNION {ms[k].text.of : k \in 1..Len(ms)}
  BY EntriesText
<1> HIDE DEF e
<1>2. /\ c.older \in HonestText /\ c.recent \in HonestText
      /\ c.older.of \cup c.recent.of = Carried(e, Len(e))
  BY <1>1, CutText
<1>3. selectCompactionHistory(ms, budget) = c BY Zenon DEF selectCompactionHistory, e
<1> HIDE DEF c
<1> QED BY <1>1, <1>2, <1>3

-----------------------------------------------------------------------------
(* The transcript and what a request projects of it. *)

\* A checkpoint stands for every message before the tail it names.
Accounts(ms, m) ==
  /\ m.tail \in Effective(ms) /\ ms[m.tail].type # "tool_result"
  /\ m.recent \in HonestText /\ m.call = 0
  /\ m.summary.of \cup m.recent.of = {k \in Effective(ms) : k < m.tail}

TranscriptInv(ms) ==
  /\ ms \in Seq(StoredMessage)
  /\ \A i \in DOMAIN ms : ValidateMessage(ms[i])
  /\ \A i \in Effective(ms) : ms[i].text.of = {i}
  /\ \A i \in Checkpoints(ms) : Accounts(ms, ms[i])
  /\ 1 \in DOMAIN ms => ms[1].type \in PromptTypes
  /\ \A i \in DOMAIN ms : i + 1 \in DOMAIN ms /\ ms[i].type = "assistant" => ms[i + 1].type \in PromptTypes

\* The messages of a transcript, without the checkpoints.
LEMMA EffectiveIs ==
  ASSUME NEW ms \in Seq(StoredMessage)
  PROVE  /\ Len(ms) \in Nat /\ DOMAIN ms = 1..Len(ms)
         /\ Effective(ms) \in SUBSET (1..Len(ms)) /\ Checkpoints(ms) \in SUBSET (1..Len(ms))
         /\ \A i \in 1..Len(ms) : ms[i] \in StoredMessage
         /\ \A i \in Effective(ms) : ms[i] \in SpokenMessage
         /\ \A i \in 1..Len(ms) : i \in Effective(ms) <=> ms[i].type # "compaction_checkpoint"
<1>1. /\ Len(ms) \in Nat /\ DOMAIN ms = 1..Len(ms) /\ \A i \in 1..Len(ms) : ms[i] \in StoredMessage
  BY SeqDomain
<1>2. Effective(ms) \in SUBSET (1..Len(ms)) /\ Checkpoints(ms) \in SUBSET (1..Len(ms))
  BY <1>1 DEF Effective, Checkpoints
<1>3. \A i \in 1..Len(ms) : i \in Effective(ms) <=> ms[i].type # "compaction_checkpoint"
  BY <1>1 DEF Effective, Checkpoints
<1>4. ASSUME NEW i \in Effective(ms) PROVE ms[i] \in SpokenMessage
  <2>1. ms[i].type \in MessageTypes /\ ms[i].type # "compaction_checkpoint" /\ ms[i] \in StoredMessage
    BY <1>1, <1>2, <1>3, MessageFields
  <2> QED BY <2>1 DEF MessageTypes, SpokenMessage
<1> QED BY <1>1, <1>2, <1>3, <1>4

\* The latest checkpoint is there or there is none.
LEMMA LatestIs ==
  ASSUME NEW ms, TranscriptInv(ms)
  PROVE  /\ Checkpoints(ms) = {} => latestCheckpoint(ms) = NoCheckpoint
         /\ Checkpoints(ms) # {} => /\ latestCheckpoint(ms) # NoCheckpoint
                                    /\ \E i \in Checkpoints(ms) : latestCheckpoint(ms) = ms[i]
<1>0. ms \in Seq(StoredMessage) BY DEF TranscriptInv
<1>1. Checkpoints(ms) = {} => latestCheckpoint(ms) = NoCheckpoint BY DEF latestCheckpoint
<1>2. ASSUME Checkpoints(ms) # {}
      PROVE  /\ latestCheckpoint(ms) # NoCheckpoint
             /\ \E i \in Checkpoints(ms) : latestCheckpoint(ms) = ms[i]
  <2>1. Checkpoints(ms) \in SUBSET (1..Len(ms)) /\ Len(ms) \in Nat /\ DOMAIN ms = 1..Len(ms)
    BY <1>0, EffectiveIs
  <2>2. \E i \in Checkpoints(ms) : \A j \in Checkpoints(ms) : j <= i BY <1>2, <2>1, NatMax
  <2> DEFINE l == CHOOSE i \in Checkpoints(ms) : \A j \in Checkpoints(ms) : j <= i
  <2>3. l \in Checkpoints(ms) BY <2>2, Zenon
  <2>4. latestCheckpoint(ms) = ms[l] BY <1>2, Zenon DEF latestCheckpoint
  <2> HIDE DEF l
  <2>5. ms[l].type = "compaction_checkpoint" /\ l \in DOMAIN ms BY <2>3 DEF Checkpoints
  <2>6. ValidateMessage(ms[l]) BY <2>5 DEF TranscriptInv
  <2>7. ~Blank(ms[l].summary) BY <2>5, <2>6 DEF ValidateMessage
  <2>8. Blank(NoCheckpoint.summary) BY EmptyText DEF NoCheckpoint, Message
  <2> QED BY <2>3, <2>4, <2>7, <2>8
<1> QED BY <1>1, <1>2

From(ms, s) == {i \in Effective(ms) : s <= i}

\* What a request projects of the transcript from s on.
LEMMA ProjectedTail ==
  ASSUME NEW ms, TranscriptInv(ms), NEW s \in Nat
  PROVE  LET p == InOrder(From(ms, s))
             b == projectTail(ms, s)
         IN /\ Listing(p, Len(b), From(ms, s)) /\ b \in Seq(SpokenMessage)
            /\ \A k \in 1..Len(b) : b[k] = ms[p[k]] /\ b[k].text.of = {p[k]} /\ p[k] \in Effective(ms)
<1> DEFINE S == From(ms, s)
           p == InOrder(S)
           n == Cardinality(S)
           b == projectTail(ms, s)
<1>1. ms \in Seq(StoredMessage) /\ \A i \in Effective(ms) : ms[i].text.of = {i} BY DEF TranscriptInv
<1>2. /\ Len(ms) \in Nat /\ Effective(ms) \in SUBSET (1..Len(ms))
      /\ \A i \in Effective(ms) : ms[i] \in SpokenMessage
  BY <1>1, EffectiveIs
<1>3. S \in SUBSET Effective(ms) /\ S \in SUBSET Nat /\ IsFiniteSet(S)
  <2>1. S \in SUBSET Effective(ms) BY DEF From
  <2> HIDE DEF S
  <2>2. S \in SUBSET (1..Len(ms)) BY <1>2, <2>1
  <2>3. IsFiniteSet(1..Len(ms)) BY <1>2, FS_Interval
  <2>4. IsFiniteSet(S) BY <2>2, <2>3, FS_Subset
  <2> QED BY <1>2, <2>1, <2>2, <2>4
<1>4. b = [k \in DOMAIN p |-> ms[p[k]]] BY Zenon DEF projectTail, From
<1> HIDE DEF S
<1>5. Listing(p, n, S) BY <1>3, Listed
<1> HIDE DEF p, n, b
<1>6. n \in Nat /\ p \in [1..n -> S] BY <1>5 DEF Listing
<1>7. DOMAIN p = 1..n /\ \A k \in 1..n : p[k] \in S BY <1>6
<1>8. \A k \in 1..n : p[k] \in Effective(ms) /\ ms[p[k]] \in SpokenMessage /\ ms[p[k]].text.of = {p[k]}
  BY <1>1, <1>2, <1>3, <1>7
<1>9. b = [k \in 1..n |-> ms[p[k]]] BY <1>4, <1>7
<1>10. b \in Seq(SpokenMessage) /\ Len(b) = n BY <1>6, <1>8, <1>9
<1>11. \A k \in 1..n : b[k] = ms[p[k]] BY <1>9
<1> QED BY <1>5, <1>8, <1>10, <1>11 DEF b, p, S

\* Where the tail of the latest checkpoint begins.
LEMMA TailStart ==
  ASSUME NEW ms, TranscriptInv(ms), ms # <<>>
  PROVE  LET s == tailStart(ms)
             c == latestCheckpoint(ms)
         IN /\ s \in Nat /\ s \in Effective(ms) /\ ms[s].type # "tool_result"
            /\ c.summary \in Text /\ c.recent \in HonestText
            /\ c.summary.of \cup c.recent.of = {k \in Effective(ms) : k < s}
            /\ c.covers \in Nat
<1> DEFINE s == tailStart(ms)
           c == latestCheckpoint(ms)
<1>1. ms \in Seq(StoredMessage) BY DEF TranscriptInv
<1>2. /\ Len(ms) \in Nat /\ DOMAIN ms = 1..Len(ms) /\ Effective(ms) \in SUBSET (1..Len(ms))
      /\ \A i \in 1..Len(ms) : i \in Effective(ms) <=> ms[i].type # "compaction_checkpoint"
      /\ \A i \in 1..Len(ms) : ms[i] \in StoredMessage
  BY <1>1, EffectiveIs
<1>3. s = Higher(1, c.tail) BY Zenon DEF tailStart
<1>4. CASE Checkpoints(ms) = {}
  <2>1. c = NoCheckpoint BY <1>4, LatestIs
  <2>2. c.summary = Empty /\ c.recent = Empty /\ c.tail = 0 /\ c.covers = 0
    BY <2>1 DEF NoCheckpoint, Message
  <2>3. s = 1 BY <1>3, <2>2 DEF Higher
  <2>4. 1 \in DOMAIN ms BY <1>1, <1>2
  <2>5. ms[1].type \in PromptTypes BY <2>4 DEF TranscriptInv
  <2>6. 1 \in Effective(ms) /\ ms[1].type # "tool_result" BY <1>2, <2>4, <2>5 DEF PromptTypes
  <2>7. {k \in Effective(ms) : k < 1} = {} BY <1>2
  <2>8. Empty \in HonestText /\ Empty \in Text /\ Empty.of = {} BY EmptyText DEF HonestText
  <2> HIDE DEF s, c
  <2>9. c.summary.of \cup c.recent.of = {k \in Effective(ms) : k < s} BY <2>2, <2>3, <2>7, <2>8
  <2> QED BY <2>2, <2>3, <2>6, <2>8, <2>9 DEF s, c
<1>5. CASE Checkpoints(ms) # {}
  <2>1. PICK i \in Checkpoints(ms) : c = ms[i] BY <1>5, LatestIs
  <2>2. Accounts(ms, ms[i]) /\ i \in DOMAIN ms BY DEF TranscriptInv, Checkpoints
  <2>3. ms[i].summary \in Text /\ ms[i].covers \in Nat BY <1>2, <2>2, MessageFields
  <2>4. ms[i].tail \in Effective(ms) /\ ms[i].tail \in Nat /\ ms[i].tail >= 1 BY <1>2, <2>2 DEF Accounts
  <2>5. s = ms[i].tail BY <1>3, <2>1, <2>4 DEF Higher
  <2> HIDE DEF s, c
  <2> QED BY <2>1, <2>2, <2>3, <2>4, <2>5 DEF Accounts, s, c
<1> QED BY <1>4, <1>5

\* What the messages behind the latest checkpoint are.
BaseOf(ms) == projectTail(ms, tailStart(ms))
Places(ms) == InOrder(From(ms, tailStart(ms)))

\* The messages behind the latest checkpoint, and where they are stored.
LEMMA BaseIs ==
  ASSUME NEW ms, TranscriptInv(ms), ms # <<>>
  PROVE  LET p == Places(ms)
             b == BaseOf(ms)
         IN /\ Listing(p, Len(b), From(ms, tailStart(ms))) /\ b \in Seq(SpokenMessage) /\ b # <<>>
            /\ Len(b) \in Nat /\ 1 \in 1..Len(b)
            /\ \A k \in 1..Len(b) : b[k] = ms[p[k]] /\ b[k].text.of = {p[k]} /\ p[k] \in Effective(ms)
            /\ p[1] = tailStart(ms) /\ b[1].type # "tool_result"
<1> DEFINE s == tailStart(ms)
           S == From(ms, s)
           p == Places(ms)
           b == BaseOf(ms)
<1>1. s \in Nat /\ s \in Effective(ms) /\ ms[s].type # "tool_result" BY TailStart
<1>2. p = InOrder(From(ms, s)) /\ b = projectTail(ms, s) BY DEF Places, BaseOf
<1> HIDE DEF p, b, s
<1>3. /\ Listing(p, Len(b), S) /\ b \in Seq(SpokenMessage)
      /\ \A k \in 1..Len(b) : b[k] = ms[p[k]] /\ b[k].text.of = {p[k]} /\ p[k] \in Effective(ms)
  <2>1. LET q == InOrder(From(ms, s))
            c == projectTail(ms, s)
        IN /\ Listing(q, Len(c), From(ms, s)) /\ c \in Seq(SpokenMessage)
           /\ \A k \in 1..Len(c) : c[k] = ms[q[k]] /\ c[k].text.of = {q[k]} /\ q[k] \in Effective(ms)
    BY <1>1, ProjectedTail
  <2> QED BY <1>2, <2>1
<1>4. s \in S BY <1>1 DEF From
<1>5. \A x \in S : s <= x BY DEF From
<1> HIDE DEF S
<1>6. Len(b) \in Nat /\ S \in SUBSET Nat /\ p \in [1..Len(b) -> S] BY <1>3 DEF Listing
<1>7. PICK l \in 1..Len(b) : p[l] = s BY <1>3, <1>4 DEF Listing
<1>8. 1 \in 1..Len(b) BY <1>6, <1>7
<1>9. p[1] = s
  <2>1. ~(1 < l)
    <3> SUFFICES ASSUME 1 < l PROVE FALSE OBVIOUS
    <3>1. p[1] < p[l] BY <1>3, <1>8 DEF Listing
    <3>2. p[1] \in S /\ s <= p[1] /\ p[1] \in Nat BY <1>5, <1>6, <1>8
    <3> QED BY <1>1, <1>7, <3>1, <3>2
  <2> QED BY <1>6, <1>7, <2>1
<1>10. b # <<>> BY <1>3, <1>8
<1>11. b[1].type # "tool_result" BY <1>1, <1>3, <1>8, <1>9
<1> QED BY <1>3, <1>6, <1>8, <1>9, <1>10, <1>11 DEF s, S, p, b

-----------------------------------------------------------------------------
(* Projected requests. *)

Offset(tail) == IF isActiveTurnBoundary(Head(tail)) THEN 2 ELSE 1

\* The compacted context carries what the summary and the recent context carry.
LEMMA PromptOfContext ==
  ASSUME NEW summary \in Text, NEW recent \in HonestText
  PROVE  LET t == compactedContextPrompt(summary, recent)
         IN t \in Text /\ ~Blank(t) /\ t.of = summary.of \cup recent.of
<1> DEFINE more == IF Blank(recent) THEN Empty ELSE Cat(Ascii(37), recent)
           head == Ascii(174)
           t == CatAll(<<head, summary, more>>)
<1>1. head \in Text /\ head.of = {} /\ head.ascii = 174 BY AsciiText DEF HonestText
<1>2. recent \in Text /\ (Blank(recent) => recent.of = {}) BY DEF HonestText
<1>3. more \in Text /\ more.of = recent.of
  <2>1. CASE Blank(recent) BY <1>2, <2>1, EmptyText DEF HonestText
  <2>2. CASE ~Blank(recent)
    <3>1. Ascii(37) \in Text /\ Ascii(37).of = {} BY AsciiText DEF HonestText
    <3>2. Cat(Ascii(37), recent) \in Text /\ Cat(Ascii(37), recent).of = Ascii(37).of \cup recent.of
      BY <1>2, <3>1, CatText
    <3>3. more = Cat(Ascii(37), recent) BY <2>2
    <3> HIDE DEF more
    <3> QED BY <3>1, <3>2, <3>3
  <2> QED BY <2>1, <2>2
<1>4. compactedContextPrompt(summary, recent) = t BY Zenon DEF compactedContextPrompt
<1> HIDE DEF head, more
<1>5. t \in Text /\ t.of = head.of \cup summary.of \cup more.of /\ head.ascii <= t.ascii
  BY <1>1, <1>3, ThreeTexts
<1> HIDE DEF t
<1>6. t.ascii \in Nat /\ t.other \in Nat BY <1>5, TextFields
<1>7. t.ascii + t.other # 0 BY <1>1, <1>5, <1>6
<1>8. t.of = summary.of \cup recent.of BY <1>1, <1>3, <1>5
<1> QED BY <1>4, <1>5, <1>7, <1>8 DEF Blank

\* The compacted context, the event that the tail may need, and the tail.
LEMMA ProjectedForm ==
  ASSUME NEW summary \in Text, NEW recent \in HonestText, NEW tail \in Seq(SpokenMessage), tail # <<>>
  PROVE  LET c == projectCompactedMessages(summary, recent, tail)
             off == Offset(tail)
         IN /\ c \in Seq(SpokenMessage) /\ off \in {1, 2} /\ Len(c) = off + Len(tail)
            /\ c[1].type = "assistant" /\ ~Blank(c[1].text) /\ c[1].text.of = summary.of \cup recent.of
            /\ ValidateMessage(c[1]) /\ (off = 2 => ValidateMessage(c[2]))
            /\ off = 2 <=> isActiveTurnBoundary(Head(tail))
            /\ off = 2 => c[2].type = "runtime_event" /\ ~Blank(c[2].text) /\ c[2].text.of = {}
            /\ \A k \in 1..Len(tail) : c[off + k] = tail[k]
<1> DEFINE c == projectCompactedMessages(summary, recent, tail)
           off == Offset(tail)
           t == compactedContextPrompt(summary, recent)
           h == Message("assistant", t)
           v == Message("runtime_event", Ascii(93))
           mid == IF tail # <<>> /\ isActiveTurnBoundary(Head(tail)) THEN <<v>> ELSE <<>>
<1>1. t \in Text /\ ~Blank(t) /\ t.of = summary.of \cup recent.of BY PromptOfContext
<1> HIDE DEF t
<1>2. h \in SpokenMessage /\ h.type = "assistant" /\ h.text = t /\ ValidateMessage(h)
  <2>1. "assistant" \in MessageTypes /\ "assistant" \in SpokenTypes BY DEF MessageTypes, SpokenTypes
  <2>2. h \in StoredMessage /\ h.type = "assistant" /\ h.text = t /\ h.calls = 0 /\ h.call = 0
    BY <1>1, <2>1, MessageIs
  <2> HIDE DEF h
  <2>3. ValidateMessage(h) BY <2>2 DEF ValidateMessage
  <2> QED BY <2>1, <2>2, <2>3 DEF SpokenMessage
<1>3. /\ v \in SpokenMessage /\ v.type = "runtime_event" /\ ~Blank(v.text) /\ v.text.of = {}
      /\ ValidateMessage(v)
  <2>1. "runtime_event" \in MessageTypes /\ "runtime_event" \in SpokenTypes
    BY DEF MessageTypes, SpokenTypes, PromptTypes
  <2>2. Ascii(93) \in Text /\ Ascii(93).of = {} /\ ~Blank(Ascii(93))
    BY AsciiText DEF HonestText, Ascii, Empty, Blank
  <2> DEFINE a == Ascii(93)
  <2>3. a \in Text /\ a.of = {} /\ ~Blank(a) BY <2>2
  <2> HIDE DEF a
  <2>4. Message("runtime_event", a) \in StoredMessage /\ Message("runtime_event", a).type = "runtime_event"
        /\ Message("runtime_event", a).text = a
        /\ Message("runtime_event", a).calls = 0 /\ Message("runtime_event", a).call = 0
    BY <2>1, <2>3, MessageIs
  <2>5. v = Message("runtime_event", a) BY DEF a
  <2> HIDE DEF v
  <2>6. ValidateMessage(v) BY <2>3, <2>4, <2>5 DEF ValidateMessage
  <2> QED BY <2>1, <2>3, <2>4, <2>5, <2>6 DEF SpokenMessage
<1>4. c = <<h>> \o mid \o tail BY Zenon DEF projectCompactedMessages, appendCompactedTail, t
<1> HIDE DEF h, v, c
<1>5. Len(tail) \in Nat /\ Len(tail) >= 1 OBVIOUS
<1>6. <<h>> \in Seq(SpokenMessage) /\ Len(<<h>>) = 1 /\ <<h>>[1] = h BY <1>2
<1>7. CASE isActiveTurnBoundary(Head(tail))
  <2>1. off = 2 /\ mid = <<v>> BY <1>7 DEF Offset
  <2> DEFINE hv == <<h>> \o <<v>>
  <2>3. c = hv \o tail BY <1>4, <2>1
  <2>4. hv \in Seq(SpokenMessage) /\ Len(hv) = 2 /\ hv[1] = h /\ hv[2] = v
    <3> DEFINE hs == <<h>>
               es == <<v>>
    <3>1. hs \in Seq(SpokenMessage) /\ Len(hs) = 1 /\ hs[1] = h BY <1>6
    <3>2. es \in Seq(SpokenMessage) /\ Len(es) = 1 /\ es[1] = v BY <1>3
    <3>3. hv = hs \o es OBVIOUS
    <3> HIDE DEF hs, es, hv
    <3>4. /\ hs \o es \in Seq(SpokenMessage) /\ Len(hs \o es) = Len(hs) + Len(es)
          /\ \A i \in 1..(Len(hs) + Len(es)) : (hs \o es)[i] = IF i <= Len(hs) THEN hs[i] ELSE es[i - Len(hs)]
      BY <3>1, <3>2, ConcatProperties, Zenon
    <3>5. 1 \in 1..2 /\ 2 \in 1..2 /\ 1 <= 1 /\ ~(2 <= 1) /\ 2 - 1 = 1 /\ 1 + 1 = 2 OBVIOUS
    <3>6. hv \in Seq(SpokenMessage) /\ Len(hv) = 2 BY <3>1, <3>2, <3>3, <3>4, <3>5
    <3>7. \A i \in 1..2 : hv[i] = IF i <= 1 THEN hs[i] ELSE es[i - 1] BY <3>1, <3>2, <3>3, <3>4, <3>5
    <3>8. hv[1] = hs[1] /\ hv[2] = es[1] BY <3>5, <3>7
    <3> QED BY <3>1, <3>2, <3>6, <3>8
  <2> HIDE DEF hv, off, mid
  <2>5. /\ c \in Seq(SpokenMessage) /\ Len(c) = 2 + Len(tail)
        /\ \A i \in 1..(2 + Len(tail)) : c[i] = IF i <= 2 THEN hv[i] ELSE tail[i - 2]
    <3>1. /\ hv \o tail \in Seq(SpokenMessage) /\ Len(hv \o tail) = Len(hv) + Len(tail)
          /\ \A i \in 1..(Len(hv) + Len(tail)) :
               (hv \o tail)[i] = IF i <= Len(hv) THEN hv[i] ELSE tail[i - Len(hv)]
      BY <2>4, ConcatProperties, Zenon
    <3> QED BY <2>3, <2>4, <3>1
  <2>6. c[1] = h /\ c[2] = v
    <3>1. 1 \in 1..(2 + Len(tail)) /\ 2 \in 1..(2 + Len(tail)) BY <1>5
    <3> QED BY <2>4, <2>5, <3>1
  <2>7. ASSUME NEW k \in 1..Len(tail) PROVE c[2 + k] = tail[k]
    <3>1. 2 + k \in 1..(2 + Len(tail)) /\ ~(2 + k <= 2) /\ (2 + k) - 2 = k BY <1>5
    <3> QED BY <2>5, <3>1
  <2>8. /\ c[1].type = "assistant" /\ ~Blank(c[1].text) /\ c[1].text.of = summary.of \cup recent.of
        /\ ValidateMessage(c[1])
    BY <1>1, <1>2, <2>6
  <2>9. c[2].type = "runtime_event" /\ ~Blank(c[2].text) /\ c[2].text.of = {} /\ ValidateMessage(c[2])
    BY <1>3, <2>6
  <2> QED BY <1>7, <2>1, <2>5, <2>7, <2>8, <2>9 DEF c, off
<1>8. CASE ~isActiveTurnBoundary(Head(tail))
  <2>1. off = 1 /\ mid = <<>> BY <1>8 DEF Offset
  <2>2. <<h>> \o <<>> = <<h>> BY <1>6, ConcatEmptySeq
  <2> DEFINE hs == <<h>>
  <2>3. c = hs \o tail BY <1>4, <2>1, <2>2
  <2>4. hs \in Seq(SpokenMessage) /\ Len(hs) = 1 /\ hs[1] = h BY <1>6
  <2> HIDE DEF hs, off, mid
  <2>5. /\ c \in Seq(SpokenMessage) /\ Len(c) = 1 + Len(tail)
        /\ \A i \in 1..(1 + Len(tail)) : c[i] = IF i <= 1 THEN hs[i] ELSE tail[i - 1]
    <3>1. /\ hs \o tail \in Seq(SpokenMessage) /\ Len(hs \o tail) = Len(hs) + Len(tail)
          /\ \A i \in 1..(Len(hs) + Len(tail)) :
               (hs \o tail)[i] = IF i <= Len(hs) THEN hs[i] ELSE tail[i - Len(hs)]
      BY <2>4, ConcatProperties, Zenon
    <3> QED BY <2>3, <2>4, <3>1
  <2>6. c[1] = h
    <3>1. 1 \in 1..(1 + Len(tail)) BY <1>5
    <3> QED BY <2>4, <2>5, <3>1
  <2>7. ASSUME NEW k \in 1..Len(tail) PROVE c[1 + k] = tail[k]
    <3>1. 1 + k \in 1..(1 + Len(tail)) /\ ~(1 + k <= 1) /\ (1 + k) - 1 = k BY <1>5
    <3> QED BY <2>5, <3>1
  <2>8. /\ c[1].type = "assistant" /\ ~Blank(c[1].text) /\ c[1].text.of = summary.of \cup recent.of
        /\ ValidateMessage(c[1])
    BY <1>1, <1>2, <2>6
  <2>9. off # 2 BY <2>1
  <2> QED BY <1>8, <2>1, <2>5, <2>7, <2>8, <2>9 DEF c, off
<1> QED BY <1>7, <1>8

\* Every message of the transcript, once.
Accounted(ms, stored) ==
  /\ UNION {ms[i].text.of : i \in DOMAIN ms} = Effective(stored)
  /\ \A i, j \in DOMAIN ms : i # j => ms[i].text.of \cap ms[j].text.of = {}

\* t is what follows in b from start on, and p the places of b's messages.
TailOf(t, b, p, start) ==
  /\ t \in Seq(SpokenMessage) /\ t # <<>> /\ Len(t) = Len(b) - start + 1 /\ Head(t) = b[start]
  /\ Len(t) \in Nat /\ Len(b) \in Nat
  /\ \A k \in 1..Len(t) : /\ start + k - 1 \in 1..Len(b) /\ t[k] = b[start + k - 1]
                          /\ t[k].text.of = {p[start + k - 1]}

\* What follows behind the latest checkpoint from the message start on.
LEMMA BaseSuffix ==
  ASSUME NEW ms, TranscriptInv(ms), ms # <<>>, NEW start \in 1..Len(BaseOf(ms))
  PROVE  TailOf(Suffix(BaseOf(ms), start), BaseOf(ms), Places(ms), start)
<1> DEFINE b == BaseOf(ms)
           t == Suffix(b, start)
           p == Places(ms)
<1>1. /\ b \in Seq(SpokenMessage) /\ Len(b) \in Nat
      /\ \A k \in 1..Len(b) : b[k].text.of = {p[k]}
  BY BaseIs
<1> HIDE DEF b, p
<1>2. start \in 1..Len(b) BY DEF b
<1>3. start \in 1..(Len(b) + 1) BY <1>1, <1>2
<1>4. /\ t \in Seq(SpokenMessage) /\ Len(t) = Len(b) - start + 1
      /\ \A k \in 1..(Len(b) - start + 1) : t[k] = b[k + start - 1]
  BY <1>1, <1>3, SuffixIs, ZenonT(40)
<1> HIDE DEF t
<1>5. Len(t) \in Nat /\ 1 \in 1..Len(t) /\ t # <<>> BY <1>1, <1>2, <1>4
<1>6. ASSUME NEW k \in 1..Len(t)
      PROVE  start + k - 1 \in 1..Len(b) /\ t[k] = b[start + k - 1] /\ t[k].text.of = {p[start + k - 1]}
  <2>1. k + start - 1 = start + k - 1 /\ k \in 1..(Len(b) - start + 1) /\ start + k - 1 \in 1..Len(b)
    BY <1>1, <1>2, <1>4
  <2>2. t[k] = b[start + k - 1] BY <1>4, <2>1
  <2> QED BY <1>1, <2>1, <2>2
<1>7. Head(t) = b[start]
  <2>1. Head(t) = t[1] BY <1>4, <1>5
  <2>2. start + 1 - 1 = start BY <1>2
  <2> QED BY <1>5, <1>6, <2>1, <2>2
<1> QED BY <1>1, <1>4, <1>5, <1>6, <1>7 DEF TailOf, b, t, p

\* A request of what was summarized and the tail behind it accounts for all.
LEMMA ProjectionAccounts ==
  ASSUME NEW ms, TranscriptInv(ms), ms # <<>>, NEW start \in 1..Len(BaseOf(ms)),
         NEW summary \in Text, NEW recent \in HonestText,
         summary.of \cup recent.of = {k \in Effective(ms) : k < Places(ms)[start]}
  PROVE  Accounted(projectCompactedMessages(summary, recent, Suffix(BaseOf(ms), start)), ms)
<1> DEFINE b == BaseOf(ms)
           p == Places(ms)
           t == Suffix(b, start)
           c == projectCompactedMessages(summary, recent, t)
           off == Offset(t)
           E == Effective(ms)
<1>1. /\ Listing(p, Len(b), From(ms, tailStart(ms))) /\ Len(b) \in Nat
      /\ \A k \in 1..Len(b) : p[k] \in Effective(ms)
  BY BaseIs
<1>2. /\ t \in Seq(SpokenMessage) /\ t # <<>> /\ Len(t) = Len(b) - start + 1 /\ Len(t) \in Nat
      /\ \A k \in 1..Len(t) : start + k - 1 \in 1..Len(b) /\ t[k].text.of = {p[start + k - 1]}
  <2>1. TailOf(t, b, p, start) BY BaseSuffix
  <2> HIDE DEF t, b, p
  <2> QED BY <2>1 DEF TailOf
<1> HIDE DEF t
<1>3. /\ c \in Seq(SpokenMessage) /\ off \in {1, 2} /\ Len(c) = off + Len(t)
      /\ c[1].text.of = summary.of \cup recent.of
      /\ off = 2 => c[2].text.of = {}
      /\ \A k \in 1..Len(t) : c[off + k] = t[k]
  BY <1>2, ProjectedForm, SMTT(20)
<1> HIDE DEF c, off, b
<1>4. start \in 1..Len(b) BY DEF b
<1>5. tailStart(ms) \in Nat BY TailStart
<1> DEFINE s == tailStart(ms)
<1> HIDE DEF p, s, E
<1>6. /\ p \in [1..Len(b) -> From(ms, s)] /\ From(ms, s) \in SUBSET Nat
      /\ \A k, l \in 1..Len(b) : k < l => p[k] < p[l]
      /\ \A i \in From(ms, s) : \E k \in 1..Len(b) : p[k] = i
  BY <1>1 DEF Listing, s
<1>7. \A k \in 1..Len(b) : p[k] \in Nat /\ s <= p[k] /\ p[k] \in E
  BY <1>1, <1>6 DEF From, E, s
<1>8. E \in SUBSET Nat
  <2>1. ms \in Seq(StoredMessage) BY DEF TranscriptInv
  <2>2. Len(ms) \in Nat /\ E \in SUBSET (1..Len(ms)) BY <2>1, EffectiveIs DEF E
  <2> QED BY <2>2
<1>9. c[1].text.of = {k \in E : k < p[start]} BY <1>3 DEF E, p
<1>10. DOMAIN c = 1..(off + Len(t)) BY <1>3
<1>11. \A k \in 1..Len(t) : c[off + k].text.of = {p[start + k - 1]} BY <1>2, <1>3
<1>12. \A x \in DOMAIN c : x = 1 \/ (x = 2 /\ off = 2) \/ (\E k \in 1..Len(t) : x = off + k)
  <2> SUFFICES ASSUME NEW x \in DOMAIN c, x # 1, ~(x = 2 /\ off = 2)
               PROVE  \E k \in 1..Len(t) : x = off + k
    OBVIOUS
  <2>1. x \in 1..(off + Len(t)) BY <1>10
  <2>2. x - off \in 1..Len(t) /\ x = off + (x - off) BY <1>2, <1>3, <2>1, SMTT(20)
  <2> QED BY <2>2
<1>13. 1 \in DOMAIN c /\ \A k \in 1..Len(t) : off + k \in DOMAIN c
  <2>1. 1 \in 1..(off + Len(t)) /\ \A k \in 1..Len(t) : off + k \in 1..(off + Len(t)) BY <1>2, <1>3, SMTT(20)
  <2> QED BY <1>10, <2>1
<1>14. ASSUME NEW e \in E PROVE \E x \in DOMAIN c : e \in c[x].text.of
  <2>1. CASE e < p[start] BY <1>9, <1>13, <2>1
  <2>2. CASE ~(e < p[start])
    <3>1. e \in Nat /\ p[start] \in Nat /\ s <= p[start] BY <1>4, <1>7, <1>8
    <3>2. s <= e BY <1>5, <2>2, <3>1 DEF s
    <3>3. e \in From(ms, s) BY <3>2 DEF From, E
    <3>4. PICK l \in 1..Len(b) : p[l] = e BY <1>6, <3>3
    <3>5. ~(l < start) BY <1>4, <1>6, <2>2, <3>4
    <3>6. l - start + 1 \in 1..Len(t) /\ start + (l - start + 1) - 1 = l BY <1>1, <1>2, <1>4, <3>5
    <3>7. e \in c[off + (l - start + 1)].text.of BY <1>11, <3>4, <3>6
    <3> QED BY <1>13, <3>6, <3>7
  <2> QED BY <2>1, <2>2
<1>15. ASSUME NEW x \in DOMAIN c PROVE c[x].text.of \subseteq E
  <2>1. CASE x = 1 BY <1>9, <2>1
  <2>2. CASE x = 2 /\ off = 2 BY <1>3, <2>2
  <2>3. CASE \E k \in 1..Len(t) : x = off + k BY <1>2, <1>7, <1>11, <2>3, ZenonT(40)
  <2> QED BY <1>12, <2>1, <2>2, <2>3
<1>16. UNION {c[i].text.of : i \in DOMAIN c} = E BY <1>14, <1>15
<1>17. ASSUME NEW x \in DOMAIN c, NEW y \in DOMAIN c, NEW e, e \in c[x].text.of, e \in c[y].text.of
       PROVE  x = y
  <2>1. \A k \in 1..Len(t) : e \in c[off + k].text.of =>
          e = p[start + k - 1] /\ ~(e < p[start]) /\ start + k - 1 \in 1..Len(b)
    <3> SUFFICES ASSUME NEW k \in 1..Len(t), e \in c[off + k].text.of
                 PROVE  e = p[start + k - 1] /\ ~(e < p[start]) /\ start + k - 1 \in 1..Len(b)
      OBVIOUS
    <3>1. e = p[start + k - 1] /\ start + k - 1 \in 1..Len(b) BY <1>2, <1>11
    <3>2. start = start + k - 1 \/ start < start + k - 1 BY <1>4
    <3>3. p[start] <= p[start + k - 1]
      <4>1. p[start] \in Nat /\ p[start + k - 1] \in Nat BY <1>4, <1>7, <3>1
      <4>2. CASE start = start + k - 1
        <5>1. p[start] = p[start + k - 1] BY <4>2
        <5> QED BY <4>1, <5>1
      <4>3. CASE start < start + k - 1
        <5>1. p[start] < p[start + k - 1] BY <1>4, <1>6, <3>1, <4>3
        <5> QED BY <4>1, <5>1
      <4> QED BY <3>2, <4>2, <4>3
    <3> QED BY <1>4, <1>7, <3>1, <3>3
  <2>2. e \in c[1].text.of => e < p[start] BY <1>9
  <2>3. ~(x = 2 /\ off = 2) /\ ~(y = 2 /\ off = 2) BY <1>3, <1>17
  <2>4. CASE x = 1 \/ y = 1 BY <1>12, <1>17, <2>1, <2>2, <2>3, <2>4
  <2>5. CASE ~(x = 1 \/ y = 1)
    <3>1. PICK k \in 1..Len(t) : x = off + k BY <1>12, <2>3, <2>5
    <3>2. PICK l \in 1..Len(t) : y = off + l BY <1>12, <2>3, <2>5
    <3>3. p[start + k - 1] = p[start + l - 1] /\ start + k - 1 \in 1..Len(b) /\ start + l - 1 \in 1..Len(b)
      BY <1>17, <2>1, <3>1, <3>2
    <3>4. ~(start + k - 1 < start + l - 1) /\ ~(start + l - 1 < start + k - 1)
      <4> DEFINE k_ == start + k - 1
                 l_ == start + l - 1
      <4>1. k_ \in 1..Len(b) /\ l_ \in 1..Len(b) /\ p[k_] = p[l_] BY <3>3
      <4> HIDE DEF k_, l_
      <4>2. p[k_] \in Nat BY <1>7, <4>1
      <4>3. ~(k_ < l_) /\ ~(l_ < k_) BY <1>6, <4>1, <4>2
      <4> QED BY <4>3 DEF k_, l_
    <3>5. k = l BY <1>4, <3>4
    <3> QED BY <3>1, <3>2, <3>5
  <2> QED BY <2>4, <2>5
<1>18. \A i, j \in DOMAIN c : i # j => c[i].text.of \cap c[j].text.of = {} BY <1>17
<1>19. Accounted(c, ms) BY <1>16, <1>18 DEF Accounted, E
<1> QED BY <1>19 DEF c, t, b

-----------------------------------------------------------------------------
(* Storing messages. *)

\* A message that is stored gets the position it is stored at.
LEMMA StoredText ==
  ASSUME NEW m \in StoredMessage, NEW x \in SUBSET Nat
  PROVE  LET n == [m EXCEPT !.text.of = x]
         IN /\ n \in StoredMessage /\ n.text.of = x /\ (Blank(n.text) <=> Blank(m.text))
            /\ n.type = m.type /\ n.calls = m.calls /\ n.call = m.call
            /\ n.summary = m.summary /\ n.recent = m.recent /\ n.covers = m.covers /\ n.tail = m.tail
<1> DEFINE t == [m.text EXCEPT !.of = x]
           n == [m EXCEPT !.text.of = x]
<1>1. m.text \in Text BY MessageFields
<1>2. t \in Text /\ t.of = x /\ (Blank(t) <=> Blank(m.text)) BY <1>1 DEF Text, Blank
<1>3. n = [m EXCEPT !.text = t] BY Zenon
<1> HIDE DEF t, n
<1>4. /\ n \in StoredMessage /\ n.text = t
      /\ n.type = m.type /\ n.calls = m.calls /\ n.call = m.call
      /\ n.summary = m.summary /\ n.recent = m.recent /\ n.covers = m.covers /\ n.tail = m.tail
  BY <1>2, <1>3 DEF StoredMessage
<1> QED BY <1>2, <1>4 DEF n

\* Which leaves it as valid as it was.
LEMMA ValidStored ==
  ASSUME NEW m \in StoredMessage, NEW x \in SUBSET Nat
  PROVE  ValidateMessage([m EXCEPT !.text.of = x]) <=> ValidateMessage(m)
<1> DEFINE n == [m EXCEPT !.text.of = x]
<1>1. /\ (Blank(n.text) <=> Blank(m.text))
      /\ n.type = m.type /\ n.calls = m.calls /\ n.call = m.call
      /\ n.summary = m.summary /\ n.covers = m.covers /\ n.tail = m.tail
  BY StoredText
<1>2. m.type \in MessageTypes BY MessageFields
<1> HIDE DEF n
<1>3. ValidateMessage(n) <=> ValidateMessage(m)
  BY <1>1, <1>2 DEF ValidateMessage, MessageTypes, SpokenTypes, PromptTypes
<1> QED BY <1>3 DEF n

\* new is ms with the messages of batch behind it.
Extends(new, ms, batch) ==
  /\ new \in Seq(StoredMessage) /\ Len(new) = Len(ms) + Len(batch)
  /\ \A i \in 1..Len(ms) : new[i] = ms[i]
  /\ \A i \in 1..Len(batch) : LET n == new[Len(ms) + i] IN
       /\ n.type = batch[i].type /\ n.calls = batch[i].calls /\ n.call = batch[i].call
       /\ n.summary = batch[i].summary /\ n.recent = batch[i].recent /\ n.tail = batch[i].tail
       /\ ValidateMessage(n)
       /\ n.type # "compaction_checkpoint" => n.text.of = {Len(ms) + i}

Marked(ms, batch) ==
  [i \in DOMAIN batch |-> [batch[i] EXCEPT !.text.of =
     IF batch[i].type = "compaction_checkpoint" THEN {} ELSE {Len(ms) + i}]]

\* A batch that is appended is behind the transcript.
LEMMA AppendExtends ==
  ASSUME NEW ms \in Seq(StoredMessage), NEW batch \in Seq(StoredMessage), CanAppend(batch)
  PROVE  Extends(ms \o Marked(ms, batch), ms, batch)
<1> DEFINE mark(i) == IF batch[i].type = "compaction_checkpoint" THEN {} ELSE {Len(ms) + i}
           d == Marked(ms, batch)
           new == ms \o d
<1>1. Len(ms) \in Nat /\ Len(batch) \in Nat /\ DOMAIN batch = 1..Len(batch) OBVIOUS
<1>2. \A i \in 1..Len(batch) : batch[i] \in StoredMessage /\ mark(i) \in SUBSET Nat /\ ValidateMessage(batch[i])
  BY <1>1 DEF CanAppend
<1>3. d = [i \in 1..Len(batch) |-> [batch[i] EXCEPT !.text.of = mark(i)]] BY <1>1 DEF Marked
<1> HIDE DEF mark, d
<1> DEFINE n(i) == [batch[i] EXCEPT !.text.of = mark(i)]
<1>4. ASSUME NEW i \in 1..Len(batch)
      PROVE  /\ n(i) \in StoredMessage /\ n(i).text.of = mark(i) /\ ValidateMessage(n(i))
             /\ n(i).type = batch[i].type /\ n(i).calls = batch[i].calls /\ n(i).call = batch[i].call
             /\ n(i).summary = batch[i].summary /\ n(i).recent = batch[i].recent
             /\ n(i).tail = batch[i].tail
  BY <1>2, StoredText, ValidStored, ZenonT(40)
<1>5. d = [i \in 1..Len(batch) |-> n(i)] BY <1>3
<1> HIDE DEF n
<1>6. d \in Seq(StoredMessage) /\ Len(d) = Len(batch) /\ \A i \in 1..Len(batch) : d[i] = n(i)
  BY <1>1, <1>4, <1>5
<1>7. /\ new \in Seq(StoredMessage) /\ Len(new) = Len(ms) + Len(d)
      /\ \A i \in 1..(Len(ms) + Len(d)) : new[i] = IF i <= Len(ms) THEN ms[i] ELSE d[i - Len(ms)]
  BY <1>6, ConcatProperties, ZenonT(40)
<1> HIDE DEF new
<1>8. \A i \in 1..Len(ms) : new[i] = ms[i]
  <2>1. \A i \in 1..Len(ms) : i \in 1..(Len(ms) + Len(d)) /\ i <= Len(ms) BY <1>1, <1>6
  <2> QED BY <1>7, <2>1
<1>9. \A i \in 1..Len(batch) : new[Len(ms) + i] = n(i)
  <2>1. \A i \in 1..Len(batch) : /\ Len(ms) + i \in 1..(Len(ms) + Len(d)) /\ ~(Len(ms) + i <= Len(ms))
                                  /\ (Len(ms) + i) - Len(ms) = i
    BY <1>1, <1>6
  <2> QED BY <1>6, <1>7, <2>1
<1>10. \A i \in 1..Len(batch) : n(i).type # "compaction_checkpoint" => n(i).text.of = {Len(ms) + i}
  BY <1>4 DEF mark
<1>11. Len(new) = Len(ms) + Len(batch) BY <1>6, <1>7
<1>12. Extends(new, ms, batch) BY <1>4, <1>7, <1>8, <1>9, <1>10, <1>11, ZenonT(40) DEF Extends
<1> QED BY <1>12 DEF new, d

\* What may follow ms.
MayFollow(ms, batch) ==
  /\ \A i \in 1..Len(batch) : batch[i].type = "compaction_checkpoint" => Accounts(ms, batch[i])
  /\ batch # <<>> /\ (ms # <<>> => ms[Len(ms)].type = "assistant") => batch[1].type \in PromptTypes
  /\ \A i \in 1..Len(batch) : batch[i].type = "assistant" => i = Len(batch)

\* Which messages of the extended transcript are no checkpoints.
LEMMA ExtendedEffective ==
  ASSUME NEW ms \in Seq(StoredMessage), NEW batch \in Seq(StoredMessage), NEW new, Extends(new, ms, batch)
  PROVE  /\ \A i \in 1..Len(ms) : i \in Effective(new) <=> i \in Effective(ms)
         /\ \A i \in 1..Len(batch) : Len(ms) + i \in Effective(new) <=> batch[i].type # "compaction_checkpoint"
         /\ Effective(new) \in SUBSET (1..(Len(ms) + Len(batch)))
<1>1. Len(ms) \in Nat /\ Len(batch) \in Nat OBVIOUS
<1>2. new \in Seq(StoredMessage) /\ Len(new) = Len(ms) + Len(batch) BY DEF Extends
<1>3. /\ Effective(new) \in SUBSET (1..Len(new))
      /\ \A i \in 1..Len(new) : i \in Effective(new) <=> new[i].type # "compaction_checkpoint"
  BY <1>2, EffectiveIs
<1>4. \A i \in 1..Len(ms) : i \in Effective(ms) <=> ms[i].type # "compaction_checkpoint" BY EffectiveIs
<1>5. \A i \in 1..Len(ms) : i \in 1..Len(new) /\ new[i] = ms[i]
  <2>1. \A i \in 1..Len(ms) : new[i] = ms[i] BY DEF Extends
  <2> QED BY <1>1, <1>2, <2>1
<1>6. \A i \in 1..Len(batch) : Len(ms) + i \in 1..Len(new) /\ new[Len(ms) + i].type = batch[i].type
  <2>1. \A i \in 1..Len(batch) : new[Len(ms) + i].type = batch[i].type BY DEF Extends
  <2> QED BY <1>1, <1>2, <2>1
<1> QED BY <1>2, <1>3, <1>4, <1>5, <1>6

\* A batch that may follow keeps the transcript as it must be.
LEMMA ExtendedInv ==
  ASSUME NEW ms, TranscriptInv(ms), NEW batch \in Seq(StoredMessage), MayFollow(ms, batch),
         NEW new, Extends(new, ms, batch)
  PROVE  TranscriptInv(new)
<1> DEFINE k == Len(ms)
           l == Len(batch)
<1>1. ms \in Seq(StoredMessage) /\ k \in Nat /\ l \in Nat
  <2>1. ms \in Seq(StoredMessage) BY DEF TranscriptInv
  <2> QED BY <2>1
<1>2. new \in Seq(StoredMessage) /\ Len(new) = k + l /\ \A i \in 1..k : new[i] = ms[i] BY DEF Extends
<1>3. \A i \in 1..l :
        /\ new[k + i].type = batch[i].type /\ new[k + i].summary = batch[i].summary
        /\ new[k + i].recent = batch[i].recent /\ new[k + i].tail = batch[i].tail
        /\ new[k + i].call = batch[i].call
        /\ ValidateMessage(new[k + i])
        /\ new[k + i].type # "compaction_checkpoint" => new[k + i].text.of = {k + i}
  BY DEF Extends
<1>4. DOMAIN new = 1..(k + l) /\ DOMAIN ms = 1..k BY <1>1, <1>2
<1>5. \A i \in DOMAIN new : i \in 1..k \/ \E j \in 1..l : i = k + j
  <2> SUFFICES ASSUME NEW i \in DOMAIN new, i \notin 1..k PROVE \E j \in 1..l : i = k + j OBVIOUS
  <2>1. i - k \in 1..l /\ i = k + (i - k) BY <1>1, <1>4
  <2> QED BY <2>1
<1>6. /\ \A i \in 1..k : i \in Effective(new) <=> i \in Effective(ms)
      /\ \A i \in 1..l : k + i \in Effective(new) <=> batch[i].type # "compaction_checkpoint"
      /\ Effective(new) \in SUBSET (1..(k + l))
  BY <1>1, ExtendedEffective
<1>7. /\ \A i \in 1..k : ValidateMessage(ms[i])
      /\ \A i \in Effective(ms) : ms[i].text.of = {i}
      /\ \A i \in Checkpoints(ms) : Accounts(ms, ms[i])
      /\ 1 \in 1..k => ms[1].type \in PromptTypes
      /\ \A i \in 1..k : i + 1 \in 1..k /\ ms[i].type = "assistant" => ms[i + 1].type \in PromptTypes
  BY <1>4 DEF TranscriptInv
<1>8. Effective(ms) \in SUBSET (1..k) BY <1>1, EffectiveIs
<1>9. /\ \A i \in 1..l : batch[i].type = "compaction_checkpoint" => Accounts(ms, batch[i])
      /\ batch # <<>> /\ (ms # <<>> => ms[k].type = "assistant") => batch[1].type \in PromptTypes
      /\ \A i \in 1..l : batch[i].type = "assistant" => i = l
  BY DEF MayFollow
<1>10. 1 \in 1..l => batch # <<>> BY <1>1
<1>11. k = 0 <=> ms = <<>> BY <1>1
<1> HIDE DEF k, l
<1>12. \A i \in DOMAIN new : ValidateMessage(new[i])
  <2> SUFFICES ASSUME NEW i \in DOMAIN new PROVE ValidateMessage(new[i]) OBVIOUS
  <2>1. CASE i \in 1..k BY <1>2, <1>7, <2>1
  <2>2. CASE \E j \in 1..l : i = k + j BY <1>3, <2>2
  <2> QED BY <1>5, <2>1, <2>2
<1>13. \A i \in Effective(new) : new[i].text.of = {i}
  <2> SUFFICES ASSUME NEW i \in Effective(new) PROVE new[i].text.of = {i} OBVIOUS
  <2>0. i \in DOMAIN new BY <1>4, <1>6
  <2>1. CASE i \in 1..k BY <1>2, <1>6, <1>7, <2>1
  <2>2. CASE \E j \in 1..l : i = k + j
    <3>1. PICK j \in 1..l : i = k + j BY <2>2
    <3>2. new[k + j].type # "compaction_checkpoint" BY <1>3, <1>6, <3>1
    <3> QED BY <1>3, <3>1, <3>2
  <2> QED BY <1>5, <2>0, <2>1, <2>2
<1>14. ASSUME NEW m, Accounts(ms, m) PROVE Accounts(new, m)
  <2>1. /\ m.tail \in Effective(ms) /\ ms[m.tail].type # "tool_result"
        /\ m.recent \in HonestText /\ m.call = 0
        /\ m.summary.of \cup m.recent.of = {i \in Effective(ms) : i < m.tail}
    BY <1>14 DEF Accounts
  <2>2. m.tail \in 1..k /\ m.tail \in Effective(new) /\ new[m.tail] = ms[m.tail] BY <1>2, <1>6, <1>8, <2>1
  <2>3. \A i \in Effective(new) : i < m.tail => i \in 1..k
    <3>1. \A i \in 1..(k + l) : i < m.tail => i \in 1..k BY <1>1, <2>2
    <3> QED BY <1>6, <3>1
  <2>4. \A i \in Effective(ms) : i \in Effective(new) BY <1>6, <1>8
  <2>5. \A i \in Effective(new) : i < m.tail => i \in Effective(ms) BY <1>6, <2>3
  <2>6. {i \in Effective(ms) : i < m.tail} = {i \in Effective(new) : i < m.tail} BY <2>4, <2>5
  <2> QED BY <2>1, <2>2, <2>6 DEF Accounts
<1>15. \A i \in Checkpoints(new) : Accounts(new, new[i])
  <2> SUFFICES ASSUME NEW i \in Checkpoints(new) PROVE Accounts(new, new[i]) OBVIOUS
  <2>0. i \in DOMAIN new /\ new[i].type = "compaction_checkpoint" BY DEF Checkpoints
  <2>1. CASE i \in 1..k
    <3>1. i \in Checkpoints(ms) BY <1>2, <1>4, <2>0, <2>1 DEF Checkpoints
    <3> QED BY <1>2, <1>7, <1>14, <2>1, <3>1
  <2>2. CASE \E j \in 1..l : i = k + j
    <3>1. PICK j \in 1..l : i = k + j BY <2>2
    <3>2. batch[j].type = "compaction_checkpoint" BY <1>3, <2>0, <3>1
    <3>3. Accounts(ms, batch[j]) BY <1>9, <3>2
    <3>4. Accounts(new, batch[j]) BY <1>14, <3>3
    <3> QED BY <1>3, <3>1, <3>4 DEF Accounts
  <2> QED BY <1>5, <2>0, <2>1, <2>2
<1>16. 1 \in DOMAIN new => new[1].type \in PromptTypes
  <2> SUFFICES ASSUME 1 \in DOMAIN new PROVE new[1].type \in PromptTypes OBVIOUS
  <2>1. CASE 1 \in 1..k BY <1>2, <1>7, <2>1
  <2>2. CASE 1 \notin 1..k
    <3>1. k = 0 /\ 1 \in 1..l BY <1>1, <1>4, <2>2
    <3>2. k + 1 = 1 BY <3>1
    <3>3. batch[1].type \in PromptTypes BY <1>9, <1>10, <1>11, <3>1
    <3>4. new[k + 1].type = batch[1].type BY <1>3, <3>1
    <3> QED BY <3>2, <3>3, <3>4
  <2> QED BY <2>1, <2>2
<1>17. \A i \in DOMAIN new : i + 1 \in DOMAIN new /\ new[i].type = "assistant" => new[i + 1].type \in PromptTypes
  <2> SUFFICES ASSUME NEW i \in DOMAIN new, i + 1 \in DOMAIN new, new[i].type = "assistant"
               PROVE  new[i + 1].type \in PromptTypes
    OBVIOUS
  <2>1. CASE i \in 1..k
    <3>0. ms[i].type = "assistant" BY <1>2, <2>1
    <3>1. CASE i + 1 \in 1..k BY <1>2, <1>7, <2>1, <3>0, <3>1
    <3>2. CASE i + 1 \notin 1..k
      <4>1. i = k /\ i + 1 = k + 1 /\ 1 \in 1..l BY <1>1, <1>4, <2>1, <3>2
      <4>2. batch[1].type \in PromptTypes BY <1>9, <1>10, <3>0, <4>1
      <4>3. new[k + 1].type = batch[1].type BY <1>3, <4>1
      <4> QED BY <4>1, <4>2, <4>3
    <3> QED BY <3>1, <3>2
  <2>2. CASE \E j \in 1..l : i = k + j
    <3>1. PICK j \in 1..l : i = k + j BY <2>2
    <3>2. batch[j].type = "assistant" BY <1>3, <3>1
    <3>3. j = l BY <1>9, <3>2
    <3>4. i + 1 \notin 1..(k + l) BY <1>1, <3>1, <3>3
    <3> QED BY <1>4, <3>4
  <2> QED BY <1>5, <2>1, <2>2
<1> QED BY <1>2, <1>12, <1>13, <1>15, <1>16, <1>17 DEF TranscriptInv

-----------------------------------------------------------------------------
(* The tail and the history that a preparation chooses. *)

\* The budgets are numbers.
LEMMA BudgetsAre ==
  ASSUME NEW w \in Nat, w # 0
  PROVE  LET b == deriveCompactionBudgets(w)
         IN /\ b.input \in Nat /\ b.safety \in Nat /\ b.summary \in Nat /\ b.recent \in Nat
            /\ 64 <= b.summary
<1> DEFINE input == Higher(1, w - operationalMaxOutputTokens(w))
           eighth == input \div 8
           b == deriveCompactionBudgets(w)
<1>1. operationalMaxOutputTokens(w) \in Int BY DEF operationalMaxOutputTokens, Higher, Lower
<1>2. input \in Nat BY <1>1, SMTT(30) DEF Higher
<1>3. b = [input |-> input, safety |-> Lower(4096, Higher(1, eighth)),
           summary |-> Lower(4096, Higher(64, eighth)), recent |-> Lower(8192, Higher(64, eighth))]
  BY SMT DEF deriveCompactionBudgets
<1> HIDE DEF input
<1>4. eighth \in Nat BY <1>2
<1> HIDE DEF eighth
<1>5. /\ Lower(4096, Higher(1, eighth)) \in Nat /\ Lower(8192, Higher(64, eighth)) \in Nat
      /\ Lower(4096, Higher(64, eighth)) \in Nat /\ 64 <= Lower(4096, Higher(64, eighth))
  BY <1>4 DEF Lower, Higher
<1> HIDE DEF b
<1>6. b.input = input /\ b.safety = Lower(4096, Higher(1, eighth))
      /\ b.summary = Lower(4096, Higher(64, eighth)) /\ b.recent = Lower(8192, Higher(64, eighth))
  BY <1>3
<1> QED BY <1>2, <1>5, <1>6 DEF b

\* The least of a set of numbers, or zero.
LEMMA FirstIs ==
  ASSUME NEW S \in SUBSET Nat
  PROVE  FirstOf(S) = 0 \/ FirstOf(S) \in S
<1>1. CASE S = {} BY <1>1 DEF FirstOf
<1>2. CASE S # {}
  <2>1. \E i \in S : \A j \in S : i <= j BY <1>2, NatMin
  <2> QED BY <1>2, <2>1, Zenon DEF FirstOf
<1> QED BY <1>1, <1>2

\* A selected tail begins with a unit.
LEMMA SelectedTail ==
  ASSUME NEW ms \in Seq(StoredMessage), NEW template, NEW budgets
  PROVE  selectTail(template, ms, budgets) = 0 \/ selectTail(template, ms, budgets) \in conversationUnits(ms)
<1>1. conversationUnits(ms) \in SUBSET Nat
  <2>1. DOMAIN ms = 1..Len(ms) OBVIOUS
  <2> QED BY <2>1 DEF conversationUnits
<1>2. ASSUME NEW boundary, NEW limit
      PROVE  \/ selectRecentTailAtBoundary(template, ms, budgets, boundary, limit) = 0
             \/ selectRecentTailAtBoundary(template, ms, budgets, boundary, limit) \in conversationUnits(ms)
  <2> DEFINE S == {i \in conversationUnits(ms) :
                /\ ms[i].type \in boundary
                /\ \A j \in conversationUnits(ms) : i <= j =>
                     TailFits(template, Suffix(ms, j), Estimate(template), usableInput(budgets), limit)}
  <2>1. selectRecentTailAtBoundary(template, ms, budgets, boundary, limit) = FirstOf(S)
    BY Zenon DEF selectRecentTailAtBoundary
  <2>2. S \in SUBSET conversationUnits(ms) OBVIOUS
  <2> HIDE DEF S
  <2>3. S \in SUBSET Nat BY <1>1, <2>2
  <2>4. FirstOf(S) = 0 \/ FirstOf(S) \in S BY <2>3, FirstIs
  <2> QED BY <2>1, <2>2, <2>4
<1> DEFINE ok(x) == x = 0 \/ x \in conversationUnits(ms)
           a == selectRecentTail(template, ms, budgets)
           b == selectRecentActiveTurnTail(template, ms, budgets)
           c == selectRecentActiveTurnTailUnbounded(template, ms, budgets)
<1>3. ok(a) BY <1>2 DEF selectRecentTail
<1>4. ok(b) BY <1>2 DEF selectRecentActiveTurnTail
<1>5. ok(c) BY <1>2 DEF selectRecentActiveTurnTailUnbounded
<1>6. selectTail(template, ms, budgets) = Else(a, Else(b, c)) BY Zenon DEF selectTail
<1> HIDE DEF a, b, c, ok
<1>7. Else(a, Else(b, c)) \in {a, b, c} BY DEF Else
<1>8. ok(Else(a, Else(b, c))) BY <1>3, <1>4, <1>5, <1>7
<1> QED BY <1>6, <1>8 DEF ok

\* Where the tail begins: at a unit, past the first message if the compaction
\* is forced, and at the first one only behind an earlier checkpoint.
LEMMA TailIs ==
  ASSUME TranscriptInv(transcript), transcript # <<>>, NEW force \in BOOLEAN,
         NEW start, start = TailAt(force), start # 0
  PROVE  /\ start \in 1..Len(BaseOf(transcript)) /\ BaseOf(transcript)[start].type # "tool_result"
         /\ force => start > 1
         /\ start = 1 => Previous # NoCheckpoint
<1> DEFINE b == BaseOf(transcript)
           units == conversationUnits(b)
           sel == selectTail(selectionTemplate, b, Budgets)
<1>1. b \in Seq(SpokenMessage) /\ Len(b) \in Nat BY BaseIs
<1>2. Base = b BY DEF Base, BaseOf
<1> HIDE DEF b
<1>3. SpokenMessage \in SUBSET StoredMessage BY DEF SpokenMessage
<1>4. b \in Seq(StoredMessage) BY <1>1, <1>3
<1>5. start = Tail_(force, sel, units) BY <1>2 DEF TailAt
<1>6. sel = 0 \/ sel \in units BY <1>4, SelectedTail
<1>7. units \in SUBSET (1..Len(b)) /\ \A i \in units : b[i].type # "tool_result"
  <2>1. DOMAIN b = 1..Len(b) BY <1>1
  <2> QED BY <2>1 DEF conversationUnits
<1> HIDE DEF units, sel
<1>8. IsFiniteSet(units) /\ Cardinality(units) \in Nat
  <2>1. IsFiniteSet(1..Len(b)) BY <1>1, FS_Interval
  <2>2. IsFiniteSet(units) BY <1>7, <2>1, FS_Subset
  <2> QED BY <2>2, FS_CardinalityType
<1>9. CASE force /\ sel = 1
  <2>1. Cardinality(units) > 1 /\ start = LastOf(units) BY <1>5, <1>9 DEF Tail_
  <2>2. units # {}
    <3> SUFFICES ASSUME units = {} PROVE FALSE OBVIOUS
    <3>1. Cardinality(units) = 0 BY FS_EmptySet
    <3> QED BY <2>1, <3>1
  <2>3. start \in units /\ \A j \in units : j <= start BY <1>1, <1>7, <2>1, <2>2, LastIs
  <2>4. start # 1
    <3> SUFFICES ASSUME start = 1 PROVE FALSE OBVIOUS
    <3>1. units \in SUBSET {1}
      <4>1. \A j \in units : j \in 1..Len(b) /\ j <= 1 BY <1>7, <2>3
      <4> QED BY <1>1, <4>1
    <3>2. IsFiniteSet({1}) /\ Cardinality({1}) = 1 BY FS_Singleton
    <3>3. Cardinality(units) <= Cardinality({1}) BY <3>1, <3>2, FS_Subset
    <3> QED BY <1>8, <2>1, <3>2, <3>3
  <2>5. start \in 1..Len(b) /\ start > 1 BY <1>7, <2>3, <2>4
  <2> QED BY <1>7, <2>3, <2>5 DEF b
<1>10. CASE ~(force /\ sel = 1)
  <2>1. start = sel /\ ~(~force /\ sel = 1 /\ Previous = NoCheckpoint)
    <3>1. CASE ~force /\ sel = 1 /\ Previous = NoCheckpoint
      <4>1. start = 0 BY <1>5, <3>1 DEF Tail_
      <4> QED BY <4>1
    <3>2. CASE ~(~force /\ sel = 1 /\ Previous = NoCheckpoint)
      <4>1. start = sel BY <1>5, <1>10, <3>2 DEF Tail_
      <4> QED BY <3>2, <4>1
    <3> QED BY <3>1, <3>2
  <2>2. start \in units BY <1>6, <2>1
  <2>3. start \in 1..Len(b) BY <1>7, <2>2
  <2>4. force => start > 1 BY <1>10, <2>1, <2>3
  <2>5. start = 1 => Previous # NoCheckpoint BY <1>10, <2>1
  <2> QED BY <1>7, <2>2, <2>3, <2>4, <2>5 DEF b
<1> QED BY <1>9, <1>10

\* What is summarized, what was summarized before and what stays as recent
\* context carry every message before the tail.
LEMMA HistoryIs ==
  ASSUME TranscriptInv(transcript), transcript # <<>>, window \in Nat, window # 0,
         NEW start \in 1..Len(BaseOf(transcript)), NEW h, h = History(start)
  PROVE  /\ h.summarized \in HonestText /\ h.recent \in HonestText
         /\ Previous.summary.of \cup h.summarized.of \cup h.recent.of =
              {k \in Effective(transcript) : k < Places(transcript)[start]}
<1> DEFINE T == transcript
           b == BaseOf(T)
           p == Places(T)
           head == SubSeq(b, 1, start - 1)
           parts == selectCompactionHistory(head, Budgets.recent)
           whole == Blank(parts.older) /\ Previous = NoCheckpoint
           E == Effective(T)
           s == tailStart(T)
<1>1. /\ Listing(p, Len(b), From(T, s)) /\ b \in Seq(SpokenMessage) /\ Len(b) \in Nat
      /\ \A k \in 1..Len(b) : b[k].text.of = {p[k]}
      /\ b[1].type # "tool_result"
  BY BaseIs
<1>2. /\ s \in Nat /\ Previous.summary \in Text /\ Previous.recent \in HonestText
      /\ Previous.summary.of \cup Previous.recent.of = {k \in E : k < s}
  BY TailStart DEF Previous
<1>3. h = HistoryParts(parts, whole)
  <2>1. Base = b BY DEF Base, BaseOf
  <2> QED BY <2>1, Zenon DEF History, HistoryOf
<1>4. Budgets.recent \in Nat BY BudgetsAre DEF Budgets
<1>5. E \in SUBSET Nat
  <2>1. T \in Seq(StoredMessage) BY DEF TranscriptInv
  <2>2. Len(T) \in Nat /\ E \in SUBSET (1..Len(T)) BY <2>1, EffectiveIs
  <2> QED BY <2>2
<1> HIDE DEF b, p, s, E
<1>6. start \in 1..Len(b) BY DEF b
<1>7. /\ head \in Seq(StoredMessage) /\ Len(head) = start - 1
      /\ \A k \in 1..(start - 1) : head[k] = b[k]
  <2>1. \A k \in 1..(start - 1) : b[k] \in StoredMessage
    <3>1. \A k \in 1..(start - 1) : k \in 1..Len(b) BY <1>1, <1>6
    <3>2. \A k \in 1..Len(b) : b[k] \in StoredMessage BY <1>1 DEF SpokenMessage
    <3> QED BY <3>1, <3>2
  <2>2. 1 \in Int /\ start - 1 \in Int BY <1>6
  <2>3. /\ head \in Seq(StoredMessage)
        /\ Len(head) = IF 1 <= start - 1 THEN start - 1 - 1 + 1 ELSE 0
        /\ \A k \in 1..(start - 1 - 1 + 1) : head[k] = b[1 + k - 1]
    BY <2>1, <2>2, SubSeqProperties
  <2> HIDE DEF head
  <2>4. Len(head) = start - 1 /\ start - 1 - 1 + 1 = start - 1 /\ \A k \in 1..(start - 1) : 1 + k - 1 = k
    BY <1>6, <2>3
  <2> QED BY <2>3, <2>4
<1> HIDE DEF head
<1>8. head # <<>> => head[1].type # "tool_result"
  <2> SUFFICES ASSUME head # <<>> PROVE head[1].type # "tool_result" OBVIOUS
  <2>1. 1 \in 1..(start - 1) BY <1>6, <1>7
  <2> QED BY <1>1, <1>7, <2>1
<1>9. /\ parts.older \in HonestText /\ parts.recent \in HonestText
      /\ parts.older.of \cup parts.recent.of = UNION {head[k].text.of : k \in 1..Len(head)}
  BY <1>4, <1>7, <1>8, HistoryText
<1> HIDE DEF parts
<1>10. UNION {head[k].text.of : k \in 1..Len(head)} = {p[k] : k \in 1..(start - 1)}
  <2>1. \A k \in 1..(start - 1) : head[k].text.of = {p[k]}
    <3>1. \A k \in 1..(start - 1) : k \in 1..Len(b) BY <1>1, <1>6
    <3> QED BY <1>1, <1>7, <3>1
  <2>2. UNION {head[k].text.of : k \in 1..(start - 1)} = {p[k] : k \in 1..(start - 1)} BY <2>1
  <2> QED BY <1>7, <2>2
<1>11. {p[k] : k \in 1..(start - 1)} \cup {k \in E : k < s} = {k \in E : k < p[start]}
  <2>1. /\ p \in [1..Len(b) -> From(T, s)]
        /\ \A k, l \in 1..Len(b) : k < l => p[k] < p[l]
        /\ \A i \in From(T, s) : \E k \in 1..Len(b) : p[k] = i
    BY <1>1 DEF Listing
  <2>2. \A i : i \in From(T, s) <=> i \in E /\ s <= i BY DEF From, E
  <2>3. \A k \in 1..Len(b) : p[k] \in E /\ s <= p[k] /\ p[k] \in Nat BY <1>5, <2>1, <2>2
  <2>4. ASSUME NEW x \in {p[k] : k \in 1..(start - 1)} PROVE x \in {k \in E : k < p[start]}
    <3>1. PICK k \in 1..(start - 1) : x = p[k] BY <2>4
    <3>2. k \in 1..Len(b) /\ k < start BY <1>1, <1>6
    <3> QED BY <1>6, <2>1, <2>3, <3>1, <3>2
  <2>5. ASSUME NEW x \in {k \in E : k < s} PROVE x \in {k \in E : k < p[start]}
    <3>1. x \in Nat /\ p[start] \in Nat /\ s <= p[start] BY <1>5, <1>6, <2>3
    <3> QED BY <1>2, <2>5, <3>1
  <2>6. ASSUME NEW x \in {k \in E : k < p[start]}, ~(x < s) PROVE x \in {p[k] : k \in 1..(start - 1)}
    <3>1. x \in E /\ x \in Nat /\ x < p[start] BY <1>5
    <3>2. s <= x BY <1>2, <2>6, <3>1
    <3>3. PICK l \in 1..Len(b) : p[l] = x BY <2>1, <2>2, <3>1, <3>2
    <3>4. l < start
      <4> SUFFICES ASSUME ~(l < start) PROVE FALSE OBVIOUS
      <4>1. l = start \/ start < l BY <1>6
      <4>2. p[start] \in Nat BY <1>6, <2>3
      <4>3. CASE l = start
        <5>1. x = p[start] BY <3>3, <4>3
        <5> QED BY <3>1, <4>2, <5>1
      <4>4. CASE start < l
        <5>1. p[start] < x BY <1>6, <2>1, <3>3, <4>4
        <5> QED BY <3>1, <4>2, <5>1
      <4> QED BY <4>1, <4>3, <4>4
    <3>5. l \in 1..(start - 1) BY <1>1, <1>6, <3>4
    <3> QED BY <3>3, <3>5
  <2> QED BY <2>4, <2>5, <2>6
<1> DEFINE older == IF whole THEN parts.recent ELSE parts.older
           both == <<Previous.recent, older>>
<1>12. h = [summarized |-> joinCompactionContext(both), recent |-> IF whole THEN Empty ELSE parts.recent]
  BY <1>3, Zenon DEF HistoryParts
<1>13. older \in HonestText BY <1>9
<1>14. Empty \in HonestText /\ Empty.of = {} BY EmptyText
<1>15. whole => parts.older.of = {} BY <1>9 DEF HonestText
<1> HIDE DEF older
<1>16. both \in Seq(HonestText) /\ Len(both) = 2 /\ both[1] = Previous.recent /\ both[2] = older BY <1>2, <1>13
<1> HIDE DEF both, whole
<1>17. /\ joinCompactionContext(both) \in HonestText
       /\ joinCompactionContext(both).of = Previous.recent.of \cup older.of
  <2>1. joinCompactionContext(both) \in HonestText /\ joinCompactionContext(both).of = Carried(both, Len(both))
    BY <1>16, JoinedSeq
  <2>2. 1..2 = {1, 2} OBVIOUS
  <2>3. Carried(both, 2) = both[1].of \cup both[2].of BY <2>2 DEF Carried
  <2>4. Carried(both, Len(both)) = Carried(both, 2) BY <1>16
  <2> QED BY <1>16, <2>1, <2>3, <2>4
<1>18. h.summarized = joinCompactionContext(both) /\ h.recent = IF whole THEN Empty ELSE parts.recent
  <2> HIDE DEF parts
  <2> QED BY <1>12
<1>19. h.recent \in HonestText BY <1>9, <1>14, <1>18
<1>20. h.summarized.of = Previous.recent.of \cup older.of BY <1>17, <1>18
<1>21. older.of \cup h.recent.of = parts.older.of \cup parts.recent.of
  <2>1. CASE whole
    <3>1. older = parts.recent /\ h.recent.of = {} /\ parts.older.of = {} BY <1>14, <1>15, <1>18, <2>1 DEF older
    <3> QED BY <3>1
  <2>2. CASE ~whole BY <1>18, <2>2 DEF older
  <2> QED BY <2>1, <2>2
<1>22. older.of \cup h.recent.of = {p[k] : k \in 1..(start - 1)} BY <1>9, <1>10, <1>21
<1>23. Previous.summary.of \cup h.summarized.of \cup h.recent.of = {k \in E : k < p[start]}
  <2>1. Previous.summary.of \cup h.summarized.of \cup h.recent.of
          = {p[k] : k \in 1..(start - 1)} \cup (Previous.summary.of \cup Previous.recent.of)
    BY <1>20, <1>22
  <2> QED BY <1>2, <1>11, <2>1
<1> QED BY <1>17, <1>18, <1>19, <1>23 DEF E, p

-----------------------------------------------------------------------------
(* The order of calls, results and answers. *)

\* A round's results follow its calls, the user follows an answer, and the
\* user or a result comes last.
LegalOrder(ms) ==
  /\ \A i \in 1..Len(ms) : i + 1 \in 1..Len(ms) /\ ms[i].type = "assistant" => ms[i + 1].type \in PromptTypes
  /\ \A i \in 1..Len(ms) : ms[i].type = "tool_call" =>
       /\ i + ms[i].calls \in 1..Len(ms)
       /\ \A d \in 1..ms[i].calls : ms[i + d].type = "tool_result"
       /\ {ms[i + d].call : d \in 1..ms[i].calls} = 1..ms[i].calls
  /\ \A i \in 1..Len(ms) : ms[i].type = "tool_call" /\ i + ms[i].calls + 1 \in 1..Len(ms) =>
       ms[i + ms[i].calls + 1].type # "tool_result"
  /\ \A i \in 1..Len(ms) : ms[i].type = "tool_result" =>
       i - 1 \in 1..Len(ms) /\ ms[i - 1].type \in {"tool_call", "tool_result"}
  /\ ms # <<>> /\ ms[Len(ms)].type \in PromptTypes \cup {"tool_result"}

\* The last message that is no checkpoint is the user's or a result.
HeardLast(ms) ==
  \E i \in Effective(ms) : /\ \A j \in Effective(ms) : j <= i
                           /\ ms[i].type \in PromptTypes \cup {"tool_result"}

\* What the calls and results of the transcript look like when it is readable.
CallsIn(T) ==
  /\ \A i \in 1..Len(T) : T[i].type = "tool_call" =>
       /\ T[i].calls \in Nat /\ T[i].calls > 0 /\ i + T[i].calls \in 1..Len(T)
       /\ \A d \in 1..T[i].calls : T[i + d].type = "tool_result"
       /\ {T[i + d].call : d \in 1..T[i].calls} = 1..T[i].calls
  /\ \A i \in 1..Len(T) : T[i].type = "tool_call" /\ i + T[i].calls + 1 \in 1..Len(T) =>
       T[i + T[i].calls + 1].type # "tool_result"
  /\ \A i \in 1..Len(T) : T[i].type = "tool_result" =>
       i - 1 \in 1..Len(T) /\ T[i - 1].type \in {"tool_call", "tool_result"}

\* What the reader checks of a transcript, message by message.
LEMMA ReadableCalls ==
  ASSUME NEW T, TranscriptInv(T), validateCompactionToolAdjacency(T)
  PROVE  CallsIn(T)
<1>1. T \in Seq(StoredMessage) BY DEF TranscriptInv
<1>2. Len(T) \in Nat /\ DOMAIN T = 1..Len(T) /\ \A i \in 1..Len(T) : T[i] \in StoredMessage BY <1>1, SeqDomain
<1>3. \A i \in 1..Len(T) : T[i].type \in MessageTypes /\ T[i].calls \in Nat /\ T[i].call \in Nat
  BY <1>2, MessageFields
<1>4. \A i \in 1..Len(T) : T[i].call > 0 => T[i].type = "tool_result"
  <2> SUFFICES ASSUME NEW i \in 1..Len(T), T[i].call > 0 PROVE T[i].type = "tool_result" OBVIOUS
  <2>1. ValidateMessage(T[i]) BY <1>2 DEF TranscriptInv
  <2>2. T[i].call # 0 BY <1>3
  <2>3. T[i].type # "compaction_checkpoint"
    <3> SUFFICES ASSUME T[i].type = "compaction_checkpoint" PROVE FALSE OBVIOUS
    <3>1. i \in Checkpoints(T) BY <1>2 DEF Checkpoints
    <3>2. Accounts(T, T[i]) BY <3>1 DEF TranscriptInv
    <3> QED BY <2>2, <3>2 DEF Accounts
  <2>4. T[i].type \in {"user", "runtime_event", "assistant", "tool_call", "tool_result"}
    BY <1>3, <2>3 DEF MessageTypes, SpokenTypes, PromptTypes
  <2> QED BY <2>1, <2>2, <2>4 DEF ValidateMessage
<1>5. \A i \in 1..Len(T) : T[i].type = "tool_call" => T[i].calls > 0
  <2> SUFFICES ASSUME NEW i \in 1..Len(T), T[i].type = "tool_call" PROVE T[i].calls > 0 OBVIOUS
  <2>1. ValidateMessage(T[i]) BY <1>2 DEF TranscriptInv
  <2> QED BY <2>1 DEF ValidateMessage
<1>6. \A i \in 1..Len(T) : T[i].type = "tool_call" =>
        i + T[i].calls <= Len(T) /\ {T[i + k].call : k \in 1..T[i].calls} = 1..T[i].calls
  BY <1>2 DEF validateCompactionToolAdjacency
<1>7. \A i \in 1..Len(T) : T[i].type = "tool_result" =>
        \E j \in 1..(i - 1) : T[j].type = "tool_call" /\ i - j <= T[j].calls
  BY <1>2 DEF validateCompactionToolAdjacency
<1>8. \A i \in 1..Len(T) : T[i].type = "tool_call" =>
        /\ T[i].calls \in Nat /\ T[i].calls > 0 /\ i + T[i].calls \in 1..Len(T)
        /\ \A d \in 1..T[i].calls : i + d \in 1..Len(T) /\ T[i + d].type = "tool_result"
        /\ {T[i + d].call : d \in 1..T[i].calls} = 1..T[i].calls
  <2> SUFFICES ASSUME NEW i \in 1..Len(T), T[i].type = "tool_call"
               PROVE  /\ T[i].calls \in Nat /\ T[i].calls > 0 /\ i + T[i].calls \in 1..Len(T)
                      /\ \A d \in 1..T[i].calls : i + d \in 1..Len(T) /\ T[i + d].type = "tool_result"
                      /\ {T[i + d].call : d \in 1..T[i].calls} = 1..T[i].calls
    OBVIOUS
  <2> DEFINE c == T[i].calls
  <2>1. c \in Nat /\ c > 0 /\ i + c <= Len(T) /\ {T[i + k].call : k \in 1..c} = 1..c BY <1>3, <1>5, <1>6
  <2> HIDE DEF c
  <2>2. i + c \in 1..Len(T) BY <1>2, <2>1
  <2>3. ASSUME NEW d \in 1..c PROVE i + d \in 1..Len(T) /\ T[i + d].type = "tool_result"
    <3>1. i + d \in 1..Len(T) BY <1>2, <2>1
    <3>2. T[i + d].call \in 1..c BY <2>1
    <3>3. T[i + d].call > 0 BY <2>1, <3>2
    <3> QED BY <1>4, <3>1, <3>3
  <2> QED BY <2>1, <2>2, <2>3 DEF c
<1>9. \A i \in 1..Len(T) : T[i].type = "tool_call" /\ i + T[i].calls + 1 \in 1..Len(T) =>
        T[i + T[i].calls + 1].type # "tool_result"
  <2> SUFFICES ASSUME NEW i \in 1..Len(T), T[i].type = "tool_call", i + T[i].calls + 1 \in 1..Len(T),
                      T[i + T[i].calls + 1].type = "tool_result"
               PROVE  FALSE
    OBVIOUS
  <2> DEFINE c == T[i].calls
             e == i + c + 1
  <2>1. c \in Nat BY <1>3
  <2>2. e \in 1..Len(T) /\ T[e].type = "tool_result" OBVIOUS
  <2> HIDE DEF c
  <2>3. PICK j \in 1..(e - 1) : T[j].type = "tool_call" /\ e - j <= T[j].calls
    <3> HIDE DEF e
    <3> QED BY <1>7, <2>2
  <2>4. j \in 1..Len(T) /\ T[j].calls \in Nat
    <3>1. j \in 1..Len(T) BY <1>2, <2>1, <2>2
    <3> QED BY <1>3, <3>1
  <2>5. CASE j = i BY <2>1, <2>3, <2>5 DEF c
  <2>6. CASE i < j
    <3>1. j - i \in 1..c /\ i + (j - i) = j BY <2>1, <2>6
    <3>2. T[i + (j - i)].type = "tool_result" BY <1>8, <3>1 DEF c
    <3> QED BY <2>3, <3>1, <3>2
  <2>7. CASE j < i
    <3>1. i - j \in 1..T[j].calls /\ j + (i - j) = i BY <2>1, <2>3, <2>4, <2>7, SMTT(20)
    <3>2. T[j + (i - j)].type = "tool_result" BY <1>8, <2>3, <2>4, <3>1
    <3> QED BY <3>1, <3>2
  <2> QED BY <2>1, <2>5, <2>6, <2>7
<1>10. \A i \in 1..Len(T) : T[i].type = "tool_result" =>
         i - 1 \in 1..Len(T) /\ T[i - 1].type \in {"tool_call", "tool_result"}
  <2> SUFFICES ASSUME NEW i \in 1..Len(T), T[i].type = "tool_result"
               PROVE  i - 1 \in 1..Len(T) /\ T[i - 1].type \in {"tool_call", "tool_result"}
    OBVIOUS
  <2>1. PICK j \in 1..(i - 1) : T[j].type = "tool_call" /\ i - j <= T[j].calls BY <1>7
  <2>2. j \in 1..Len(T) /\ i - 1 \in 1..Len(T) BY <1>2
  <2>3. T[j].calls \in Nat BY <1>3, <2>2
  <2>4. CASE j = i - 1 BY <2>1, <2>2, <2>4
  <2>5. CASE j # i - 1
    <3>1. (i - 1) - j \in 1..T[j].calls /\ j + ((i - 1) - j) = i - 1 BY <2>1, <2>3, <2>5, SMTT(30)
    <3>2. T[j + ((i - 1) - j)].type = "tool_result" BY <1>8, <2>1, <2>2, <3>1
    <3> QED BY <2>2, <3>1, <3>2
  <2> QED BY <2>4, <2>5
<1> QED BY <1>8, <1>9, <1>10 DEF CallsIn

\* A run of c + 1 numbers of S that begins at the k-th stays together.
RunIn(e, k, c, S) == \A d \in 0..c : e[k] + d \in S
Shifted(e, k, c, n) == \A d \in 0..c : k + d \in 1..n /\ e[k + d] = e[k] + d

\* Such a run stays together in the ascending sequence of S.
LEMMA RunListed ==
  ASSUME NEW e, NEW n, NEW S, Listing(e, n, S), NEW k \in 1..n, NEW c \in Nat, RunIn(e, k, c, S)
  PROVE  Shifted(e, k, c, n)
<1>1. \A d \in 0..c : e[k] + d \in S BY DEF RunIn
<1>2. \A d \in 0..c : k + d \in 1..n /\ e[k + d] = e[k] + d BY <1>1, Block
<1> QED BY <1>2 DEF Shifted

\* The messages behind the latest checkpoint keep that order.
LEMMA BaseOrder ==
  ASSUME NEW T, TranscriptInv(T), T # <<>>, CallsIn(T), HeardLast(T)
  PROVE  LegalOrder(BaseOf(T))
<1> DEFINE b == BaseOf(T)
           p == Places(T)
           s == tailStart(T)
           S == From(T, s)
           n == Len(b)
<1>1. /\ Listing(p, n, S) /\ n \in Nat /\ 1 \in 1..n /\ b # <<>>
      /\ \A k \in 1..n : b[k] = T[p[k]] /\ p[k] \in Effective(T)
      /\ p[1] = s /\ b[1].type # "tool_result"
  BY BaseIs
<1>2. s \in Nat /\ s \in Effective(T) BY TailStart
<1>3. T \in Seq(StoredMessage) BY DEF TranscriptInv
<1>4. /\ Len(T) \in Nat /\ DOMAIN T = 1..Len(T) /\ Effective(T) \in SUBSET (1..Len(T))
      /\ \A i \in 1..Len(T) : i \in Effective(T) <=> T[i].type # "compaction_checkpoint"
  BY <1>3, EffectiveIs
<1>5. \A i : i \in S <=> i \in Effective(T) /\ s <= i BY DEF From
<1> HIDE DEF b, p, s, S, n
<1>6. /\ p \in [1..n -> S] /\ \A k, l \in 1..n : k < l => p[k] < p[l]
      /\ \A i \in S : \E k \in 1..n : p[k] = i
  BY <1>1 DEF Listing
<1>7. \A k \in 1..n : p[k] \in 1..Len(T) /\ s <= p[k] /\ p[k] \in Nat /\ p[k] \in S
  BY <1>4, <1>5, <1>6
<1>8. \A i \in 1..Len(T) : T[i].type # "compaction_checkpoint" /\ s <= i => \E k \in 1..n : p[k] = i
  BY <1>4, <1>5, <1>6
<1>9. \A k, l \in 1..n : p[l] = p[k] + 1 => l = k + 1 BY <1>1, Adjacent
<1>10. ASSUME NEW k \in 1..n, k + 1 \in 1..n, b[k].type = "assistant" PROVE b[k + 1].type \in PromptTypes
  <2>1. T[p[k]].type = "assistant" /\ p[k] \in 1..Len(T) /\ s <= p[k] BY <1>1, <1>7, <1>10
  <2>2. p[k] < p[k + 1] /\ p[k + 1] \in 1..Len(T)
    <3>1. k < k + 1 OBVIOUS
    <3> QED BY <1>6, <1>7, <1>10, <3>1
  <2>3. p[k] + 1 \in 1..Len(T) /\ s <= p[k] + 1 BY <1>2, <1>4, <2>1, <2>2
  <2>4. T[p[k] + 1].type \in PromptTypes BY <1>4, <2>1, <2>3 DEF TranscriptInv
  <2>5. PICK l \in 1..n : p[l] = p[k] + 1 BY <1>8, <2>3, <2>4 DEF PromptTypes
  <2>6. l = k + 1 BY <1>9, <2>5
  <2> QED BY <1>1, <2>4, <2>5, <2>6
<1>11. ASSUME NEW k \in 1..n, b[k].type = "tool_call"
       PROVE  /\ b[k].calls = T[p[k]].calls /\ b[k].calls \in Nat
              /\ \A d \in 0..b[k].calls : k + d \in 1..n /\ p[k + d] = p[k] + d
  <2> DEFINE i == p[k]
             c == T[i].calls
  <2>1. T[i].type = "tool_call" /\ i \in 1..Len(T) /\ s <= i /\ b[k] = T[i] BY <1>1, <1>7, <1>11
  <2>2. c \in Nat /\ i + c \in 1..Len(T) /\ \A d \in 1..c : T[i + d].type = "tool_result"
    BY <2>1 DEF CallsIn
  <2> HIDE DEF c
  <2>3. \A d \in 0..c : i + d \in S
    <3> SUFFICES ASSUME NEW d \in 0..c PROVE i + d \in S OBVIOUS
    <3>1. CASE d = 0
      <4>1. i + d = i BY <2>1, <3>1
      <4> QED BY <1>7, <4>1
    <3>2. CASE d # 0
      <4>1. d \in 1..c BY <2>2, <3>2
      <4>2. i + d \in 1..Len(T) /\ s <= i + d BY <1>2, <1>4, <2>1, <2>2, <4>1, SMTT(20)
      <4>3. T[i + d].type # "compaction_checkpoint" BY <2>2, <4>1
      <4> QED BY <1>4, <1>5, <4>2, <4>3
    <3> QED BY <3>1, <3>2
  <2>4. \A d \in 0..c : k + d \in 1..n /\ p[k + d] = p[k] + d
    <3>1. Listing(p, n, S) /\ k \in 1..n /\ c \in Nat BY <1>1, <2>2
    <3>2. RunIn(p, k, c, S) BY <2>3 DEF RunIn
    <3>3. Shifted(p, k, c, n) BY <3>1, <3>2, RunListed
    <3> QED BY <3>3 DEF Shifted
  <2>5. b[k].calls = c BY <2>1 DEF c
  <2> QED BY <2>2, <2>4, <2>5 DEF c
<1>12. \A k \in 1..n : b[k].type = "tool_call" =>
         /\ k + b[k].calls \in 1..n
         /\ \A d \in 1..b[k].calls : b[k + d].type = "tool_result"
         /\ {b[k + d].call : d \in 1..b[k].calls} = 1..b[k].calls
  <2> SUFFICES ASSUME NEW k \in 1..n, b[k].type = "tool_call"
               PROVE  /\ k + b[k].calls \in 1..n
                      /\ \A d \in 1..b[k].calls : b[k + d].type = "tool_result"
                      /\ {b[k + d].call : d \in 1..b[k].calls} = 1..b[k].calls
    OBVIOUS
  <2> DEFINE c == b[k].calls
  <2>1. /\ c = T[p[k]].calls /\ c \in Nat /\ \A d \in 0..c : k + d \in 1..n /\ p[k + d] = p[k] + d
    BY <1>11
  <2> HIDE DEF c
  <2>2. T[p[k]].type = "tool_call" /\ p[k] \in 1..Len(T) BY <1>1, <1>7
  <2>3. /\ \A d \in 1..c : T[p[k] + d].type = "tool_result"
        /\ {T[p[k] + d].call : d \in 1..c} = 1..c
    BY <2>1, <2>2 DEF CallsIn
  <2>4. \A d \in 1..c : d \in 0..c BY <2>1
  <2>5. \A d \in 1..c : k + d \in 1..n /\ b[k + d] = T[p[k] + d] BY <1>1, <2>1, <2>4
  <2>6. {b[k + d].call : d \in 1..c} = {T[p[k] + d].call : d \in 1..c} BY <2>5
  <2>7. \A d \in 1..c : b[k + d].type = "tool_result" BY <2>3, <2>5
  <2>8. c \in 0..c BY <2>1
  <2> QED BY <2>1, <2>3, <2>6, <2>7, <2>8 DEF c
<1>13. \A k \in 1..n : b[k].type = "tool_result" =>
         k - 1 \in 1..n /\ b[k - 1].type \in {"tool_call", "tool_result"} /\ p[k] = p[k - 1] + 1
  <2> SUFFICES ASSUME NEW k \in 1..n, b[k].type = "tool_result"
               PROVE  k - 1 \in 1..n /\ b[k - 1].type \in {"tool_call", "tool_result"} /\ p[k] = p[k - 1] + 1
    OBVIOUS
  <2>1. T[p[k]].type = "tool_result" /\ p[k] \in 1..Len(T) BY <1>1, <1>7
  <2>2. p[k] - 1 \in 1..Len(T) /\ T[p[k] - 1].type \in {"tool_call", "tool_result"} BY <2>1 DEF CallsIn
  <2>3. k # 1 BY <1>1
  <2>4. 1 < k BY <2>3
  <2>5. s < p[k] BY <1>1, <1>6, <2>4
  <2>6. s <= p[k] - 1 BY <1>2, <2>1, <2>5
  <2>7. PICK l \in 1..n : p[l] = p[k] - 1 BY <1>8, <2>2, <2>6
  <2>8. p[k] = p[l] + 1 BY <2>1, <2>7
  <2>9. k = l + 1 BY <1>9, <2>8
  <2>10. l = k - 1 BY <2>9
  <2> QED BY <1>1, <2>2, <2>7, <2>8, <2>10
<1>14. \A k \in 1..n : b[k].type = "tool_call" /\ k + b[k].calls + 1 \in 1..n =>
         b[k + b[k].calls + 1].type # "tool_result"
  <2> SUFFICES ASSUME NEW k \in 1..n, b[k].type = "tool_call", k + b[k].calls + 1 \in 1..n,
                      b[k + b[k].calls + 1].type = "tool_result"
               PROVE  FALSE
    OBVIOUS
  <2> DEFINE c == b[k].calls
             e == k + c + 1
  <2>1. /\ c = T[p[k]].calls /\ c \in Nat /\ \A d \in 0..c : k + d \in 1..n /\ p[k + d] = p[k] + d
    BY <1>11
  <2>2. e \in 1..n /\ b[e].type = "tool_result" OBVIOUS
  <2> HIDE DEF c
  <2>3. e - 1 = k + c /\ c \in 0..c BY <2>1
  <2> HIDE DEF e
  <2>4. p[e] = p[e - 1] + 1 BY <1>13, <2>2
  <2>5. p[e] = (p[k] + c) + 1 BY <2>1, <2>3, <2>4
  <2>6. T[p[k]].type = "tool_call" /\ p[k] \in 1..Len(T) BY <1>1, <1>7
  <2>7. T[p[e]].type = "tool_result" /\ p[e] \in 1..Len(T) BY <1>1, <1>7, <2>2
  <2>8. p[k] + c + 1 \in 1..Len(T) /\ T[p[k] + c + 1].type = "tool_result" BY <2>5, <2>7
  <2> QED BY <2>1, <2>6, <2>8 DEF CallsIn
<1>15. b[n].type \in PromptTypes \cup {"tool_result"}
  <2>1. PICK i \in Effective(T) : /\ \A j \in Effective(T) : j <= i
                                  /\ T[i].type \in PromptTypes \cup {"tool_result"}
    BY DEF HeardLast
  <2>2. i \in S BY <1>2, <1>5, <2>1
  <2>3. PICK l \in 1..n : p[l] = i BY <1>6, <2>2
  <2>4. ~(l < n)
    <3> SUFFICES ASSUME l < n PROVE FALSE OBVIOUS
    <3>1. n \in 1..n BY <1>1
    <3>2. i < p[n] /\ p[n] <= i /\ p[n] \in Nat /\ i \in Nat BY <1>1, <1>6, <1>7, <2>1, <2>3, <3>1
    <3> QED BY <3>2
  <2>5. l = n BY <1>1, <2>4
  <2> QED BY <1>1, <2>1, <2>3, <2>5
<1>16. \A k \in 1..n : k + 1 \in 1..n /\ b[k].type = "assistant" => b[k + 1].type \in PromptTypes
  BY <1>10
<1>17. \A k \in 1..n : b[k].type = "tool_result" =>
         k - 1 \in 1..n /\ b[k - 1].type \in {"tool_call", "tool_result"}
  BY <1>13
<1> QED BY <1>1, <1>12, <1>14, <1>15, <1>16, <1>17 DEF LegalOrder, n, b

\* What follows a legal order from a message that is no result is one.
LEMMA SuffixOrder ==
  ASSUME NEW ms \in Seq(SpokenMessage), LegalOrder(ms), NEW start \in 1..Len(ms),
         ms[start].type # "tool_result",
         NEW t \in Seq(SpokenMessage), Len(t) = Len(ms) - start + 1,
         \A k \in 1..Len(t) : t[k] = ms[start + k - 1]
  PROVE  LegalOrder(t)
<1> DEFINE n == Len(ms)
           m == Len(t)
           at(k) == start + k - 1
<1>1. n \in Nat /\ m \in Nat /\ m = n - start + 1 /\ m >= 1 /\ start \in 1..n OBVIOUS
<1>2. \A k \in 1..m : t[k] = ms[at(k)] OBVIOUS
<1>3. /\ \A i \in 1..n : i + 1 \in 1..n /\ ms[i].type = "assistant" => ms[i + 1].type \in PromptTypes
      /\ \A i \in 1..n : ms[i].type = "tool_call" =>
           /\ i + ms[i].calls \in 1..n
           /\ \A d \in 1..ms[i].calls : ms[i + d].type = "tool_result"
           /\ {ms[i + d].call : d \in 1..ms[i].calls} = 1..ms[i].calls
      /\ \A i \in 1..n : ms[i].type = "tool_call" /\ i + ms[i].calls + 1 \in 1..n =>
           ms[i + ms[i].calls + 1].type # "tool_result"
      /\ \A i \in 1..n : ms[i].type = "tool_result" =>
           i - 1 \in 1..n /\ ms[i - 1].type \in {"tool_call", "tool_result"}
      /\ ms[n].type \in PromptTypes \cup {"tool_result"}
  BY DEF LegalOrder
<1>4. \A i \in 1..n : ms[i].calls \in Nat
  <2>1. \A i \in 1..n : ms[i] \in SpokenMessage BY SeqDomain
  <2>2. \A x \in SpokenMessage : x.calls \in Nat BY DEF SpokenMessage, StoredMessage
  <2> QED BY <2>1, <2>2
<1> HIDE DEF n, m
<1>5. \A k \in 1..m : at(k) \in 1..n BY <1>1
<1>6. \A k \in 1..m, d \in Nat : k + d \in 1..m <=> at(k) + d \in 1..n BY <1>1
<1>7. \A k \in 1..m, d \in Nat : at(k + d) = at(k) + d BY <1>1
<1>8. \A k \in 1..m : k = 1 \/ (k - 1 \in 1..m /\ at(k - 1) = at(k) - 1) BY <1>1
<1>9. at(1) = start /\ at(m) = n /\ m \in 1..m BY <1>1
<1> HIDE DEF at
<1>10. \A k \in 1..m, d \in Nat : k + d \in 1..m => t[k + d] = ms[at(k) + d] BY <1>2, <1>7
<1>11. \A k \in 1..m : k + 1 \in 1..m /\ t[k].type = "assistant" => t[k + 1].type \in PromptTypes
  BY <1>2, <1>3, <1>5, <1>6, <1>10, ZenonT(40)
<1>12. ASSUME NEW k \in 1..m, t[k].type = "tool_call"
       PROVE  /\ k + t[k].calls \in 1..m
              /\ \A d \in 1..t[k].calls : t[k + d].type = "tool_result"
              /\ {t[k + d].call : d \in 1..t[k].calls} = 1..t[k].calls
  <2> DEFINE i == at(k)
             c == ms[i].calls
  <2>1. i \in 1..n /\ ms[i].type = "tool_call" /\ t[k].calls = c BY <1>2, <1>5, <1>12
  <2>2. c \in Nat BY <1>4, <2>1
  <2>3. /\ i + c \in 1..n /\ \A d \in 1..c : ms[i + d].type = "tool_result"
        /\ {ms[i + d].call : d \in 1..c} = 1..c
    BY <1>3, <2>1
  <2> HIDE DEF c
  <2>4. k + c \in 1..m BY <1>6, <2>2, <2>3
  <2>5. \A d \in 1..c : d \in Nat /\ k + d \in 1..m BY <1>1, <2>2, <2>4
  <2>6. \A d \in 1..c : t[k + d] = ms[i + d] BY <1>10, <2>5
  <2>7. {t[k + d].call : d \in 1..c} = {ms[i + d].call : d \in 1..c} BY <2>6, SMTT(30)
  <2> QED BY <2>1, <2>3, <2>4, <2>6, <2>7
<1>13. ASSUME NEW k \in 1..m, t[k].type = "tool_call", k + t[k].calls + 1 \in 1..m
       PROVE  t[k + t[k].calls + 1].type # "tool_result"
  <2> DEFINE i == at(k)
             c == ms[i].calls
  <2>1. i \in 1..n /\ ms[i].type = "tool_call" /\ t[k].calls = c BY <1>2, <1>5, <1>13
  <2>2. c \in Nat /\ i \in Nat BY <1>1, <1>4, <2>1
  <2> HIDE DEF c
  <2>3. c + 1 \in Nat /\ k + c + 1 = k + (c + 1) /\ i + c + 1 = i + (c + 1) BY <2>2
  <2>4. k + (c + 1) \in 1..m BY <1>13, <2>1, <2>3
  <2>5. i + (c + 1) \in 1..n BY <1>6, <2>3, <2>4
  <2>6. ms[i + (c + 1)].type # "tool_result" BY <1>3, <2>1, <2>3, <2>5 DEF c
  <2>7. t[k + (c + 1)] = ms[i + (c + 1)] BY <1>10, <2>3, <2>4
  <2> QED BY <2>1, <2>3, <2>6, <2>7
<1>14. \A k \in 1..m : t[k].type = "tool_result" =>
         k - 1 \in 1..m /\ t[k - 1].type \in {"tool_call", "tool_result"}
  <2> SUFFICES ASSUME NEW k \in 1..m, t[k].type = "tool_result"
               PROVE  k - 1 \in 1..m /\ t[k - 1].type \in {"tool_call", "tool_result"}
    OBVIOUS
  <2>1. at(k) \in 1..n /\ ms[at(k)].type = "tool_result" BY <1>2, <1>5
  <2>2. k # 1 BY <1>9, <2>1
  <2>3. k - 1 \in 1..m /\ t[k - 1] = ms[at(k) - 1] BY <1>2, <1>8, <2>2
  <2> QED BY <1>3, <2>1, <2>3
<1>15. t # <<>> /\ t[m].type \in PromptTypes \cup {"tool_result"}
  <2>1. t[m] = ms[n] BY <1>2, <1>9
  <2>2. t # <<>> BY <1>1 DEF m
  <2> QED BY <1>3, <2>1, <2>2
<1> QED BY <1>11, <1>12, <1>13, <1>14, <1>15 DEF LegalOrder, m

\* The context before a tail, and the event that it may need.
LEMMA ProjectionOrder ==
  ASSUME NEW summary \in Text, NEW recent \in HonestText, NEW t \in Seq(SpokenMessage), LegalOrder(t)
  PROVE  LegalOrder(projectCompactedMessages(summary, recent, t))
<1> DEFINE c == projectCompactedMessages(summary, recent, t)
           off == Offset(t)
           m == Len(t)
           n == off + m
<1>1. t # <<>> /\ m \in Nat /\ m >= 1
  <2>1. t # <<>> BY DEF LegalOrder
  <2> QED BY <2>1
<1>2. /\ c \in Seq(SpokenMessage) /\ off \in {1, 2} /\ Len(c) = off + Len(t)
      /\ c[1].type = "assistant"
      /\ off = 2 <=> isActiveTurnBoundary(Head(t))
      /\ off = 2 => c[2].type = "runtime_event"
      /\ \A k \in 1..Len(t) : c[off + k] = t[k]
  BY <1>1, ProjectedForm
<1>3. /\ \A i \in 1..m : i + 1 \in 1..m /\ t[i].type = "assistant" => t[i + 1].type \in PromptTypes
      /\ \A i \in 1..m : t[i].type = "tool_call" =>
           /\ i + t[i].calls \in 1..m
           /\ \A d \in 1..t[i].calls : t[i + d].type = "tool_result"
           /\ {t[i + d].call : d \in 1..t[i].calls} = 1..t[i].calls
      /\ \A i \in 1..m : t[i].type = "tool_call" /\ i + t[i].calls + 1 \in 1..m =>
           t[i + t[i].calls + 1].type # "tool_result"
      /\ \A i \in 1..m : t[i].type = "tool_result" =>
           i - 1 \in 1..m /\ t[i - 1].type \in {"tool_call", "tool_result"}
      /\ t[m].type \in PromptTypes \cup {"tool_result"}
  BY DEF LegalOrder
<1>4. \A i \in 1..m : t[i].calls \in Nat /\ t[i].type \in SpokenTypes BY DEF SpokenMessage, StoredMessage
<1>5. Head(t) = t[1] BY <1>1
<1> HIDE DEF c, off, m
<1>6. c \in Seq(SpokenMessage) /\ Len(c) = n BY <1>2 DEF m
<1>7. \A k \in 1..m : c[off + k] = t[k] BY <1>2 DEF m
<1>8. \A k \in 1..m : off + k \in 1..n BY <1>1, <1>2
<1>9. \A x \in 1..n : x = 1 \/ (x = 2 /\ off = 2) \/ \E k \in 1..m : x = off + k
  <2> SUFFICES ASSUME NEW x \in 1..n, x # 1, ~(x = 2 /\ off = 2) PROVE \E k \in 1..m : x = off + k OBVIOUS
  <2>1. x - off \in 1..m /\ x = off + (x - off) BY <1>1, <1>2
  <2> QED BY <2>1
<1>10. 2 \in 1..n /\ c[2].type \in PromptTypes
  <2>1. CASE off = 2 BY <1>1, <1>2, <2>1 DEF PromptTypes
  <2>2. CASE off = 1
    <3>1. 1 \in 1..m /\ 2 = off + 1 BY <1>1, <2>2
    <3>2. c[2] = t[1] BY <1>7, <3>1
    <3>3. t[1].type \notin {"assistant", "tool_call"}
      BY <1>2, <1>5, <2>2 DEF isActiveTurnBoundary, ActiveTurnBoundary
    <3>4. t[1].type # "tool_result"
      <4> SUFFICES ASSUME t[1].type = "tool_result" PROVE FALSE OBVIOUS
      <4>1. 1 - 1 \in 1..m BY <1>3, <3>1
      <4> QED BY <1>1, <4>1
    <3>5. t[1].type \in PromptTypes BY <1>4, <3>1, <3>3, <3>4 DEF SpokenTypes
    <3> QED BY <1>1, <2>2, <3>2, <3>5
  <2> QED BY <1>2, <2>1, <2>2
<1>11. \A k \in 1..m, d \in Nat : (off + k) + d \in 1..n <=> k + d \in 1..m BY <1>1, <1>2, SMTT(30)
<1>12. \A k \in 1..m, d \in Nat : k + d \in 1..m => c[(off + k) + d] = t[k + d]
  <2>1. \A k \in 1..m, d \in Nat : (off + k) + d = off + (k + d) BY <1>2
  <2> QED BY <1>7, <2>1
<1>13. "assistant" \notin PromptTypes /\ "tool_call" \notin PromptTypes /\ "tool_result" \notin PromptTypes
  BY DEF PromptTypes
<1>14. \A x \in 1..n : c[x].type \in {"tool_call", "tool_result"} => \E k \in 1..m : x = off + k
  BY <1>2, <1>9, <1>10, <1>13
<1> HIDE DEF n
<1>15. \A x \in 1..n : x + 1 \in 1..n /\ c[x].type = "assistant" => c[x + 1].type \in PromptTypes
  <2> SUFFICES ASSUME NEW x \in 1..n, x + 1 \in 1..n, c[x].type = "assistant"
               PROVE  c[x + 1].type \in PromptTypes
    OBVIOUS
  <2>1. CASE x = 1 BY <1>10, <2>1
  <2>2. CASE x # 1
    <3>1. PICK k \in 1..m : x = off + k BY <1>9, <1>10, <1>13, <2>2
    <3>2. k + 1 \in 1..m BY <1>11, <3>1
    <3>3. c[x + 1] = t[k + 1] BY <1>12, <3>1, <3>2
    <3>4. t[k].type = "assistant" BY <1>7, <3>1
    <3> QED BY <1>3, <3>2, <3>3, <3>4
  <2> QED BY <2>1, <2>2
<1>16. ASSUME NEW x \in 1..n, c[x].type = "tool_call"
       PROVE  /\ x + c[x].calls \in 1..n
              /\ \A d \in 1..c[x].calls : c[x + d].type = "tool_result"
              /\ {c[x + d].call : d \in 1..c[x].calls} = 1..c[x].calls
              /\ x + c[x].calls + 1 \in 1..n => c[x + c[x].calls + 1].type # "tool_result"
  <2>1. PICK k \in 1..m : x = off + k BY <1>14, <1>16
  <2> DEFINE z == t[k].calls
  <2>2. t[k].type = "tool_call" /\ c[x].calls = z /\ z \in Nat BY <1>4, <1>7, <1>16, <2>1
  <2>3. /\ k + z \in 1..m /\ \A d \in 1..z : t[k + d].type = "tool_result"
        /\ {t[k + d].call : d \in 1..z} = 1..z
    BY <1>3, <2>2
  <2>4. k + z + 1 \in 1..m => t[k + z + 1].type # "tool_result" BY <1>3, <2>2
  <2> HIDE DEF z
  <2>5. x + z \in 1..n BY <1>11, <2>1, <2>2, <2>3
  <2>6. \A d \in 1..z : d \in Nat /\ k + d \in 1..m BY <1>1, <2>2, <2>3
  <2>7. \A d \in 1..z : c[x + d] = t[k + d] BY <1>12, <2>1, <2>6
  <2>8. {c[x + d].call : d \in 1..z} = {t[k + d].call : d \in 1..z} BY <2>7
  <2>9. ASSUME x + z + 1 \in 1..n PROVE c[x + z + 1].type # "tool_result"
    <3>1. z + 1 \in Nat /\ x + z + 1 = x + (z + 1) /\ k + z + 1 = k + (z + 1) BY <1>2, <2>1, <2>2
    <3>2. k + (z + 1) \in 1..m BY <1>11, <2>1, <2>9, <3>1
    <3>3. c[x + (z + 1)] = t[k + (z + 1)] BY <1>12, <2>1, <3>1, <3>2
    <3> QED BY <2>4, <3>1, <3>2, <3>3
  <2> QED BY <2>2, <2>3, <2>5, <2>7, <2>8, <2>9
<1>17. \A x \in 1..n : c[x].type = "tool_result" =>
         x - 1 \in 1..n /\ c[x - 1].type \in {"tool_call", "tool_result"}
  <2> SUFFICES ASSUME NEW x \in 1..n, c[x].type = "tool_result"
               PROVE  x - 1 \in 1..n /\ c[x - 1].type \in {"tool_call", "tool_result"}
    OBVIOUS
  <2>1. PICK k \in 1..m : x = off + k BY <1>14
  <2>2. t[k].type = "tool_result" BY <1>7, <2>1
  <2>3. k - 1 \in 1..m /\ t[k - 1].type \in {"tool_call", "tool_result"} BY <1>3, <2>2
  <2>4. x - 1 = off + (k - 1) BY <1>2, <2>1
  <2> QED BY <1>7, <1>8, <2>3, <2>4
<1>18. c # <<>> /\ c[n].type \in PromptTypes \cup {"tool_result"}
  <2>1. m \in 1..m BY <1>1
  <2>2. c[n] = t[m] BY <1>7, <2>1 DEF n
  <2>3. c # <<>> BY <1>1, <1>2, <1>6 DEF n
  <2> QED BY <1>3, <2>2, <2>3
<1>19. LegalOrder(c) BY <1>6, <1>15, <1>16, <1>17, <1>18 DEF LegalOrder
<1> QED BY <1>19 DEF c

-----------------------------------------------------------------------------
(* The request as the provider reads it. *)

WireMessage == [role : {"user", "assistant", "tool"}, calls : SUBSET Nat, answers : SUBSET Nat]

\* The results follow the calls, the user follows an answer, and nobody but
\* the user or a tool has the last word.
WireOrder(wire) ==
  /\ wire \in Seq(WireMessage) /\ wire # <<>>
  /\ \A i \in 1..Len(wire) : wire[i].role = "assistant" =>
       \/ wire[i].calls = {} /\ i + 1 \in 1..Len(wire) /\ wire[i + 1].role = "user"
       \/ \E c \in Nat \ {0} :
            /\ i + c \in 1..Len(wire) /\ \A d \in 1..c : wire[i + d].role = "tool"
            /\ UNION {wire[i + d].answers : d \in 1..c} = wire[i].calls
            /\ i + c + 1 \in 1..Len(wire) => wire[i + c + 1].role # "tool"
  /\ \A i \in 1..Len(wire) : wire[i].role = "tool" =>
       i - 1 \in 1..Len(wire) /\ wire[i - 1].role \in {"assistant", "tool"}
  /\ wire[Len(wire)].role # "assistant"

LegalWire(wire) ==
  LET Answers_(i) == {k \in (i + 1)..Len(wire) : \A j \in (i + 1)..k : wire[j].role = "tool"}
  IN /\ \A i \in DOMAIN wire : wire[i].role = "assistant" =>
          UNION {wire[k].answers : k \in Answers_(i)} = wire[i].calls
     /\ \A i \in DOMAIN wire : wire[i].role = "tool" =>
          i > 1 /\ wire[i - 1].role \in {"assistant", "tool"}
     /\ \A i \in 2..Len(wire) : ~(wire[i].role = "assistant" /\ wire[i - 1].role = "assistant")
     /\ wire # <<>> /\ Last(wire).role # "assistant"

\* A request in that order is one the provider takes.
LEMMA OrderedWire ==
  ASSUME NEW wire, WireOrder(wire)
  PROVE  LegalWire(wire)
<1> DEFINE n == Len(wire)
           A(i) == {k \in (i + 1)..n : \A j \in (i + 1)..k : wire[j].role = "tool"}
<1>0. wire \in Seq(WireMessage) /\ wire # <<>> /\ n \in Nat /\ DOMAIN wire = 1..n
  <2>1. wire \in Seq(WireMessage) /\ wire # <<>> BY Zenon DEF WireOrder
  <2> QED BY <2>1
<1>1. /\ n \in Nat /\ DOMAIN wire = 1..n
      /\ \A i \in 1..n : wire[i].role = "assistant" =>
           \/ wire[i].calls = {} /\ i + 1 \in 1..n /\ wire[i + 1].role = "user"
           \/ \E c \in Nat \ {0} :
                /\ i + c \in 1..n /\ \A d \in 1..c : wire[i + d].role = "tool"
                /\ UNION {wire[i + d].answers : d \in 1..c} = wire[i].calls
                /\ i + c + 1 \in 1..n => wire[i + c + 1].role # "tool"
      /\ \A i \in 1..n : wire[i].role = "tool" =>
           i - 1 \in 1..n /\ wire[i - 1].role \in {"assistant", "tool"}
      /\ wire[n].role # "assistant"
  BY <1>0, Zenon DEF WireOrder
<1>2. Last(wire) = wire[n] BY DEF Last
<1> HIDE DEF n
<1>3. ASSUME NEW i \in 1..n, wire[i].role = "assistant"
      PROVE  UNION {wire[k].answers : k \in A(i)} = wire[i].calls
  <2>1. CASE wire[i].calls = {} /\ i + 1 \in 1..n /\ wire[i + 1].role = "user"
    <3>1. A(i) = {}
      <4> SUFFICES ASSUME NEW k \in A(i) PROVE FALSE OBVIOUS
      <4>1. i + 1 \in (i + 1)..k BY <1>1
      <4>2. wire[i + 1].role = "tool" BY <4>1
      <4> QED BY <2>1, <4>2
    <3> HIDE DEF A
    <3> QED BY <2>1, <3>1
  <2>2. CASE \E c \in Nat \ {0} :
                /\ i + c \in 1..n /\ \A d \in 1..c : wire[i + d].role = "tool"
                /\ UNION {wire[i + d].answers : d \in 1..c} = wire[i].calls
                /\ i + c + 1 \in 1..n => wire[i + c + 1].role # "tool"
    <3>1. PICK c \in Nat \ {0} :
                /\ i + c \in 1..n /\ \A d \in 1..c : wire[i + d].role = "tool"
                /\ UNION {wire[i + d].answers : d \in 1..c} = wire[i].calls
                /\ i + c + 1 \in 1..n => wire[i + c + 1].role # "tool"
      BY <2>2
    <3>2. ASSUME NEW d \in 1..c PROVE i + d \in A(i)
      <4>1. i + d \in (i + 1)..n BY <1>1, <3>1
      <4>2. ASSUME NEW j \in (i + 1)..(i + d) PROVE wire[j].role = "tool"
        <5>1. j - i \in 1..c /\ i + (j - i) = j OBVIOUS
        <5> QED BY <3>1, <5>1
      <4> QED BY <4>1, <4>2
    <3>3. ASSUME NEW k \in A(i) PROVE k - i \in 1..c /\ i + (k - i) = k
      <4>1. k \in (i + 1)..n /\ \A j \in (i + 1)..k : wire[j].role = "tool" OBVIOUS
      <4>2. ~(i + c + 1 <= k)
        <5> SUFFICES ASSUME i + c + 1 <= k PROVE FALSE OBVIOUS
        <5>1. i + c + 1 \in (i + 1)..k /\ i + c + 1 \in 1..n BY <1>1, <4>1
        <5> QED BY <3>1, <4>1, <5>1
      <4> QED BY <1>1, <4>1, <4>2
    <3> HIDE DEF A
    <3>4. UNION {wire[k].answers : k \in A(i)} = UNION {wire[i + d].answers : d \in 1..c}
      <4>1. ASSUME NEW x \in UNION {wire[k].answers : k \in A(i)}
            PROVE  x \in UNION {wire[i + d].answers : d \in 1..c}
        <5>1. PICK k \in A(i) : x \in wire[k].answers BY <4>1
        <5>2. k - i \in 1..c /\ x \in wire[i + (k - i)].answers BY <3>3, <5>1
        <5> QED BY <5>2
      <4>2. ASSUME NEW x \in UNION {wire[i + d].answers : d \in 1..c}
            PROVE  x \in UNION {wire[k].answers : k \in A(i)}
        <5>1. PICK d \in 1..c : x \in wire[i + d].answers BY <4>2
        <5>2. i + d \in A(i) BY <3>2
        <5> QED BY <5>1, <5>2
      <4> QED BY <4>1, <4>2
    <3> QED BY <3>1, <3>4
  <2> QED BY <1>1, <1>3, <2>1, <2>2
<1>4. ASSUME NEW i \in 1..n, wire[i].role = "tool" PROVE i > 1 /\ wire[i - 1].role \in {"assistant", "tool"}
  <2>1. i - 1 \in 1..n /\ wire[i - 1].role \in {"assistant", "tool"} BY <1>1, <1>4
  <2>2. i > 1 BY <1>1, <2>1
  <2> QED BY <2>1, <2>2
<1>5. ASSUME NEW i \in 2..n, wire[i].role = "assistant", wire[i - 1].role = "assistant" PROVE FALSE
  <2> DEFINE k == i - 1
  <2>1. k \in 1..n /\ k + 1 = i BY <1>1
  <2>2. wire[k].role = "assistant" /\ wire[k + 1].role = "assistant" BY <1>5, <2>1
  <2> HIDE DEF k
  <2>3. CASE wire[k].calls = {} /\ k + 1 \in 1..n /\ wire[k + 1].role = "user" BY <2>2, <2>3
  <2>4. CASE \E c \in Nat \ {0} : \A d \in 1..c : wire[k + d].role = "tool"
    <3>1. PICK c \in Nat \ {0} : \A d \in 1..c : wire[k + d].role = "tool" BY <2>4
    <3>2. 1 \in 1..c BY <3>1
    <3>3. wire[k + 1].role = "tool" BY <3>1, <3>2
    <3> QED BY <2>2, <3>3
  <2> QED BY <1>1, <2>1, <2>2, <2>3, <2>4
<1>6. \A i \in 1..n : wire[i].role = "assistant" => UNION {wire[k].answers : k \in A(i)} = wire[i].calls
  <2> HIDE DEF A
  <2> QED BY <1>3
<1>7. /\ \A i \in 1..n : wire[i].role = "tool" => i > 1 /\ wire[i - 1].role \in {"assistant", "tool"}
      /\ \A i \in 2..n : ~(wire[i].role = "assistant" /\ wire[i - 1].role = "assistant")
  BY <1>4, <1>5
<1>8. wire # <<>> /\ Last(wire).role # "assistant" BY <1>0, <1>1, <1>2
<1> QED BY <1>1, <1>6, <1>7, <1>8, Zenon DEF LegalWire, n

\* The user's word behind a request leaves its order as it is.
LEMMA RemindedWire ==
  ASSUME NEW wire, WireOrder(wire), NEW r \in WireMessage, r.role = "user"
  PROVE  WireOrder(Append(wire, r))
<1> DEFINE n == Len(wire)
           w == Append(wire, r)
<1>0. wire \in Seq(WireMessage) /\ n \in Nat
  <2>1. wire \in Seq(WireMessage) BY Zenon DEF WireOrder
  <2> QED BY <2>1
<1>1. /\ wire \in Seq(WireMessage) /\ n \in Nat
      /\ \A i \in 1..n : wire[i].role = "assistant" =>
           \/ wire[i].calls = {} /\ i + 1 \in 1..n /\ wire[i + 1].role = "user"
           \/ \E c \in Nat \ {0} :
                /\ i + c \in 1..n /\ \A d \in 1..c : wire[i + d].role = "tool"
                /\ UNION {wire[i + d].answers : d \in 1..c} = wire[i].calls
                /\ i + c + 1 \in 1..n => wire[i + c + 1].role # "tool"
      /\ \A i \in 1..n : wire[i].role = "tool" =>
           i - 1 \in 1..n /\ wire[i - 1].role \in {"assistant", "tool"}
  BY <1>0, Zenon DEF WireOrder
<1>2. /\ w \in Seq(WireMessage) /\ w # <<>> /\ Len(w) = n + 1
      /\ \A i \in 1..n : w[i] = wire[i]
      /\ w[n + 1] = r
  BY <1>1, AppendProperties
<1> HIDE DEF n, w
<1>3. \A i \in 1..(n + 1) : i \in 1..n \/ i = n + 1 BY <1>1
<1>4. \A i \in 1..n : i \in 1..(n + 1) BY <1>1
<1>5. ASSUME NEW i \in 1..(n + 1), w[i].role = "assistant"
      PROVE  \/ w[i].calls = {} /\ i + 1 \in 1..(n + 1) /\ w[i + 1].role = "user"
             \/ \E c \in Nat \ {0} :
                  /\ i + c \in 1..(n + 1) /\ \A d \in 1..c : w[i + d].role = "tool"
                  /\ UNION {w[i + d].answers : d \in 1..c} = w[i].calls
                  /\ i + c + 1 \in 1..(n + 1) => w[i + c + 1].role # "tool"
  <2>1. i \in 1..n /\ wire[i] = w[i] /\ wire[i].role = "assistant" BY <1>2, <1>3, <1>5
  <2>2. CASE wire[i].calls = {} /\ i + 1 \in 1..n /\ wire[i + 1].role = "user"
    BY <1>2, <1>4, <2>1, <2>2
  <2>3. CASE \E c \in Nat \ {0} :
                /\ i + c \in 1..n /\ \A d \in 1..c : wire[i + d].role = "tool"
                /\ UNION {wire[i + d].answers : d \in 1..c} = wire[i].calls
                /\ i + c + 1 \in 1..n => wire[i + c + 1].role # "tool"
    <3>1. PICK c \in Nat \ {0} :
                /\ i + c \in 1..n /\ \A d \in 1..c : wire[i + d].role = "tool"
                /\ UNION {wire[i + d].answers : d \in 1..c} = wire[i].calls
                /\ i + c + 1 \in 1..n => wire[i + c + 1].role # "tool"
      BY <2>3
    <3>2. \A d \in 1..c : i + d \in 1..n /\ w[i + d] = wire[i + d]
      <4>1. \A d \in 1..c : i + d \in 1..n BY <1>1, <3>1
      <4> QED BY <1>2, <4>1
    <3>3. {w[i + d].answers : d \in 1..c} = {wire[i + d].answers : d \in 1..c} BY <3>2
    <3>4. ASSUME i + c + 1 \in 1..(n + 1) PROVE w[i + c + 1].role # "tool"
      <4>1. CASE i + c + 1 \in 1..n BY <1>2, <3>1, <4>1
      <4>2. CASE i + c + 1 = n + 1 BY <1>2, <4>2
      <4> QED BY <1>3, <3>4, <4>1, <4>2
    <3>5. /\ i + c \in 1..(n + 1) /\ \A d \in 1..c : w[i + d].role = "tool"
          /\ UNION {w[i + d].answers : d \in 1..c} = w[i].calls
          /\ i + c + 1 \in 1..(n + 1) => w[i + c + 1].role # "tool"
      BY <1>4, <2>1, <3>1, <3>2, <3>3, <3>4
    <3> QED BY <3>5
  <2> QED BY <1>1, <2>1, <2>2, <2>3
<1>6. ASSUME NEW i \in 1..(n + 1), w[i].role = "tool"
      PROVE  i - 1 \in 1..(n + 1) /\ w[i - 1].role \in {"assistant", "tool"}
  <2>1. i \in 1..n /\ wire[i].role = "tool" BY <1>2, <1>3, <1>6
  <2>2. i - 1 \in 1..n /\ wire[i - 1].role \in {"assistant", "tool"} BY <1>1, <2>1
  <2> QED BY <1>2, <1>4, <2>2
<1>7. w[n + 1].role # "assistant" BY <1>2
<1>8. WireOrder(w) BY <1>2, <1>5, <1>6, <1>7, ZenonT(40) DEF WireOrder
<1> QED BY <1>8 DEF w

LegalMessages(ms) ==
  ms \in Seq(SpokenMessage) /\ (\A i \in 1..Len(ms) : ValidateMessage(ms[i])) /\ LegalOrder(ms)

Kept(ms) ==
  {i \in DOMAIN ms : ms[i].type \in {"tool_call", "tool_result"} \/ ~Blank(ms[i].text)}
WireOf(m) == [role |-> Role(m), calls |-> transformToolCalls(m), answers |-> transformToolResult(m)]

\* What the adapter makes of one message.
LEMMA WireOfMessage ==
  ASSUME NEW m \in SpokenMessage
  PROVE  /\ WireOf(m) \in WireMessage
         /\ m.type \in PromptTypes => WireOf(m).role = "user"
         /\ m.type \in {"assistant", "tool_call"} => WireOf(m).role = "assistant"
         /\ m.type = "tool_result" => WireOf(m).role = "tool" /\ WireOf(m).answers = {m.call}
         /\ m.type = "tool_call" => WireOf(m).calls = 1..m.calls
         /\ m.type # "tool_call" => WireOf(m).calls = {}
<1> DEFINE r == Role(m)
           c == transformToolCalls(m)
           a == transformToolResult(m)
<1>1. m.type \in SpokenTypes /\ m.calls \in Nat /\ m.call \in Nat BY DEF SpokenMessage, StoredMessage
<1>2. /\ m.type \in PromptTypes => r = "user"
      /\ m.type \in {"assistant", "tool_call"} => r = "assistant"
      /\ m.type = "tool_result" => r = "tool"
  BY DEF Role, PromptTypes
<1>3. r \in {"user", "assistant", "tool"} BY <1>1, <1>2 DEF SpokenTypes
<1>4. /\ c \in SUBSET Nat /\ a \in SUBSET Nat
      /\ m.type = "tool_call" => c = 1..m.calls
      /\ m.type # "tool_call" => c = {}
      /\ m.type = "tool_result" => a = {m.call}
  BY <1>1 DEF transformToolCalls, transformToolResult
<1>5. WireOf(m) = [role |-> r, calls |-> c, answers |-> a] BY DEF WireOf
<1> HIDE DEF r, c, a
<1>6. WireOf(m).role = r /\ WireOf(m).calls = c /\ WireOf(m).answers = a BY <1>5
<1>7. WireOf(m) \in WireMessage BY <1>3, <1>4, <1>5 DEF WireMessage
<1> QED BY <1>2, <1>4, <1>6, <1>7

\* The adapter turns messages in a legal order into a request in one.
LEMMA TransformedOrder ==
  ASSUME NEW ms, LegalMessages(ms)
  PROVE  WireOrder(transformMessages(ms))
<1> DEFINE n == Len(ms)
           K == Kept(ms)
           p == InOrder(K)
           m == Cardinality(K)
           w == transformMessages(ms)
<1>1. ms \in Seq(SpokenMessage) /\ n \in Nat /\ DOMAIN ms = 1..n /\ \A i \in 1..n : ms[i] \in SpokenMessage
  <2>1. ms \in Seq(SpokenMessage) BY DEF LegalMessages
  <2> QED BY <2>1, SeqDomain
<1>2. \A i \in 1..n : ms[i].type \in SpokenTypes /\ ms[i].calls \in Nat
  <2>1. \A x \in SpokenMessage : x.type \in SpokenTypes /\ x.calls \in Nat BY DEF SpokenMessage, StoredMessage
  <2> QED BY <1>1, <2>1
<1>3. /\ \A i \in 1..n : i + 1 \in 1..n /\ ms[i].type = "assistant" => ms[i + 1].type \in PromptTypes
      /\ \A i \in 1..n : ms[i].type = "tool_call" =>
           /\ i + ms[i].calls \in 1..n
           /\ \A d \in 1..ms[i].calls : ms[i + d].type = "tool_result"
           /\ {ms[i + d].call : d \in 1..ms[i].calls} = 1..ms[i].calls
      /\ \A i \in 1..n : ms[i].type = "tool_call" /\ i + ms[i].calls + 1 \in 1..n =>
           ms[i + ms[i].calls + 1].type # "tool_result"
      /\ \A i \in 1..n : ms[i].type = "tool_result" =>
           i - 1 \in 1..n /\ ms[i - 1].type \in {"tool_call", "tool_result"}
      /\ ms # <<>> /\ ms[n].type \in PromptTypes \cup {"tool_result"}
  BY DEF LegalOrder, LegalMessages
<1>4. ASSUME NEW i \in 1..n
      PROVE  /\ ms[i].type \in PromptTypes => ~Blank(ms[i].text)
             /\ ms[i].type = "tool_call" => ms[i].calls > 0
  <2>1. ValidateMessage(ms[i]) BY DEF LegalMessages
  <2> QED BY <2>1 DEF ValidateMessage, PromptTypes
<1>5. \A i \in 1..n : ms[i].type # "assistant" => i \in K
  <2> SUFFICES ASSUME NEW i \in 1..n, ms[i].type # "assistant" PROVE i \in K OBVIOUS
  <2>1. ms[i].type \in PromptTypes \/ ms[i].type \in {"tool_call", "tool_result"} BY <1>2 DEF SpokenTypes
  <2> QED BY <1>1, <1>4, <2>1 DEF Kept
<1>6. K \in SUBSET (1..n) BY <1>1 DEF Kept
<1>7. w = [k \in DOMAIN p |-> WireOf(ms[p[k]])] BY Zenon DEF transformMessages, Kept, WireOf
<1> HIDE DEF K, n
<1>8. Listing(p, m, K)
  <2>1. IsFiniteSet(1..n) BY <1>1, FS_Interval
  <2>2. IsFiniteSet(K) BY <1>6, <2>1, FS_Subset
  <2>3. K \in SUBSET Nat BY <1>1, <1>6
  <2> QED BY <2>2, <2>3, Listed
<1> HIDE DEF p, m, w
<1>9. /\ m \in Nat /\ p \in [1..m -> K] /\ \A k, l \in 1..m : k < l => p[k] < p[l]
      /\ \A i \in K : \E k \in 1..m : p[k] = i
  BY <1>8 DEF Listing
<1>10. \A k \in 1..m : p[k] \in 1..n /\ p[k] \in K /\ p[k] \in Nat
  <2>1. \A k \in 1..m : p[k] \in K BY <1>9
  <2>2. \A i \in K : i \in 1..n /\ i \in Nat BY <1>1, <1>6
  <2> QED BY <2>1, <2>2
<1>11. DOMAIN p = 1..m BY <1>9
<1>12. w = [k \in 1..m |-> WireOf(ms[p[k]])] BY <1>7, <1>11
<1>13. \A k \in 1..m : w[k] = WireOf(ms[p[k]]) /\ ms[p[k]] \in SpokenMessage BY <1>1, <1>10, <1>12
<1>14. \A k \in 1..m :
         /\ w[k] \in WireMessage
         /\ ms[p[k]].type \in PromptTypes => w[k].role = "user"
         /\ ms[p[k]].type \in {"assistant", "tool_call"} => w[k].role = "assistant"
         /\ ms[p[k]].type = "tool_result" => w[k].role = "tool" /\ w[k].answers = {ms[p[k]].call}
         /\ ms[p[k]].type = "tool_call" => w[k].calls = 1..ms[p[k]].calls
         /\ ms[p[k]].type # "tool_call" => w[k].calls = {}
  BY <1>13, WireOfMessage
<1>15. w \in Seq(WireMessage) /\ Len(w) = m
  <2>1. w \in [1..m -> WireMessage]
    <3>1. \A k \in 1..m : WireOf(ms[p[k]]) \in WireMessage BY <1>13, <1>14
    <3> QED BY <1>12, <3>1
  <2> QED BY <1>9, <2>1
<1>16. \A k, l \in 1..m : p[l] = p[k] + 1 => l = k + 1 BY <1>8, Adjacent
<1>17. \A k \in 1..m : w[k].role = "tool" => ms[p[k]].type = "tool_result"
  BY <1>2, <1>10, <1>14 DEF SpokenTypes
<1>18. \A k \in 1..m : w[k].role = "assistant" => ms[p[k]].type \in {"assistant", "tool_call"}
  BY <1>2, <1>10, <1>14 DEF SpokenTypes
<1>19. ASSUME NEW k \in 1..m, ms[p[k]].type = "tool_result"
       PROVE  k - 1 \in 1..m /\ p[k] = p[k - 1] + 1 /\ w[k - 1].role \in {"assistant", "tool"}
  <2>1. p[k] - 1 \in 1..n /\ ms[p[k] - 1].type \in {"tool_call", "tool_result"} BY <1>3, <1>10, <1>19
  <2>2. p[k] - 1 \in K BY <1>5, <2>1
  <2>3. PICK l \in 1..m : p[l] = p[k] - 1 BY <1>9, <2>2
  <2>4. p[k] = p[l] + 1 BY <1>10, <2>3
  <2>5. k = l + 1 BY <1>16, <2>4
  <2>6. l = k - 1 BY <2>5
  <2>7. w[l].role \in {"assistant", "tool"} BY <1>14, <2>1, <2>3
  <2> QED BY <2>4, <2>6, <2>7
<1>20. ASSUME NEW k \in 1..m, ms[p[k]].type = "assistant"
       PROVE  w[k].calls = {} /\ k + 1 \in 1..m /\ w[k + 1].role = "user"
  <2>1. p[k] \in 1..n BY <1>10
  <2>2. p[k] # n
    <3> SUFFICES ASSUME p[k] = n PROVE FALSE OBVIOUS
    <3>1. ms[n].type = "assistant" BY <1>20
    <3> QED BY <1>3, <3>1 DEF PromptTypes
  <2>3. p[k] + 1 \in 1..n BY <1>1, <2>1, <2>2
  <2>4. ms[p[k] + 1].type \in PromptTypes BY <1>3, <1>20, <2>1, <2>3
  <2>5. p[k] + 1 \in K BY <1>5, <2>3, <2>4 DEF PromptTypes
  <2>6. PICK l \in 1..m : p[l] = p[k] + 1 BY <1>9, <2>5
  <2>7. l = k + 1 BY <1>16, <2>6
  <2>8. w[l].role = "user" BY <1>14, <2>4, <2>6
  <2> QED BY <1>14, <1>20, <2>7, <2>8
<1>21. ASSUME NEW k \in 1..m, ms[p[k]].type = "tool_call"
       PROVE  \E c \in Nat \ {0} :
                /\ k + c \in 1..m /\ \A d \in 1..c : w[k + d].role = "tool"
                /\ UNION {w[k + d].answers : d \in 1..c} = w[k].calls
                /\ k + c + 1 \in 1..m => w[k + c + 1].role # "tool"
  <2> DEFINE i == p[k]
             c == ms[i].calls
  <2>1. i \in 1..n /\ ms[i].type = "tool_call" BY <1>10, <1>21
  <2>2. c \in Nat /\ c > 0 BY <1>2, <1>4, <2>1
  <2>3. /\ i + c \in 1..n /\ \A d \in 1..c : ms[i + d].type = "tool_result"
        /\ {ms[i + d].call : d \in 1..c} = 1..c
    BY <1>3, <2>1
  <2>4. i + c + 1 \in 1..n => ms[i + c + 1].type # "tool_result" BY <1>3, <2>1
  <2> HIDE DEF c
  <2>5. \A d \in 0..c : i + d \in K
    <3> SUFFICES ASSUME NEW d \in 0..c PROVE i + d \in K OBVIOUS
    <3>1. CASE d = 0
      <4>1. i + d = i BY <2>1, <3>1
      <4> QED BY <1>10, <4>1
    <3>2. CASE d # 0
      <4>1. d \in 1..c BY <2>2, <3>2
      <4>2. i + d \in 1..n BY <1>1, <2>1, <2>2, <2>3, <4>1
      <4>3. ms[i + d].type # "assistant" BY <2>3, <4>1
      <4> QED BY <1>5, <4>2, <4>3
    <3> QED BY <3>1, <3>2
  <2>6. \A d \in 0..c : k + d \in 1..m /\ p[k + d] = i + d
    <3>1. RunIn(p, k, c, K) BY <2>5 DEF RunIn
    <3>2. Shifted(p, k, c, m) BY <1>8, <2>2, <3>1, RunListed
    <3> QED BY <3>2 DEF Shifted
  <2> HIDE DEF i
  <2>7. \A d \in 1..c : d \in 0..c BY <2>2
  <2>8. \A d \in 1..c : w[k + d].role = "tool" /\ w[k + d].answers = {ms[i + d].call}
    BY <1>14, <2>3, <2>6, <2>7
  <2>9. UNION {w[k + d].answers : d \in 1..c} = {ms[i + d].call : d \in 1..c} BY <2>8
  <2>10. w[k].calls = 1..c BY <1>14, <1>21 DEF c, i
  <2>11. k + c \in 1..m /\ p[k + c] = i + c
    <3>1. c \in 0..c BY <2>2
    <3> QED BY <2>6, <3>1
  <2>12. ASSUME k + c + 1 \in 1..m, w[k + c + 1].role = "tool" PROVE FALSE
    <3> DEFINE e == k + c + 1
    <3>1. e \in 1..m /\ w[e].role = "tool" /\ e - 1 = k + c BY <2>2, <2>12
    <3> HIDE DEF e
    <3>2. ms[p[e]].type = "tool_result" BY <1>17, <3>1
    <3>3. p[e] = p[e - 1] + 1 BY <1>19, <3>1, <3>2
    <3>4. p[e] = i + c + 1 BY <2>11, <3>1, <3>3
    <3>5. p[e] \in 1..n BY <1>10, <3>1
    <3> QED BY <2>4, <3>2, <3>4, <3>5
  <2>13. c \in Nat \ {0} BY <2>2
  <2>14. \A d \in 1..c : w[k + d].role = "tool" BY <2>8
  <2>15. UNION {w[k + d].answers : d \in 1..c} = w[k].calls BY <2>3, <2>9, <2>10
  <2>16. k + c + 1 \in 1..m => w[k + c + 1].role # "tool" BY <2>12
  <2> HIDE DEF c
  <2> QED BY <2>11, <2>13, <2>14, <2>15, <2>16
<1>22. w # <<>> /\ w[m].role # "assistant"
  <2>1. n \in 1..n
    <3>1. n # 0 BY <1>1, <1>3 DEF n
    <3> QED BY <1>1, <3>1
  <2>2. ms[n].type # "assistant" BY <1>3 DEF PromptTypes
  <2>3. n \in K BY <1>5, <2>1, <2>2
  <2>4. PICK l \in 1..m : p[l] = n BY <1>9, <2>3
  <2>5. m \in 1..m BY <1>9
  <2>6. ~(l < m)
    <3> SUFFICES ASSUME l < m PROVE FALSE OBVIOUS
    <3>1. n < p[m] /\ p[m] \in 1..n BY <1>9, <1>10, <2>4, <2>5
    <3> QED BY <1>1, <3>1
  <2>7. l = m BY <1>9, <2>6
  <2>8. ms[p[m]].type \in PromptTypes \cup {"tool_result"} BY <1>3, <2>4, <2>7
  <2>9. w[m].role \in {"user", "tool"} BY <1>14, <2>5, <2>8
  <2>10. w # <<>> BY <1>15, <2>5
  <2> QED BY <2>9, <2>10
<1>23. ASSUME NEW i \in 1..m, w[i].role = "assistant"
       PROVE  \/ w[i].calls = {} /\ i + 1 \in 1..m /\ w[i + 1].role = "user"
              \/ \E c \in Nat \ {0} :
                   /\ i + c \in 1..m /\ \A d \in 1..c : w[i + d].role = "tool"
                   /\ UNION {w[i + d].answers : d \in 1..c} = w[i].calls
                   /\ i + c + 1 \in 1..m => w[i + c + 1].role # "tool"
  <2>1. CASE ms[p[i]].type = "assistant"
    <3>1. w[i].calls = {} /\ i + 1 \in 1..m /\ w[i + 1].role = "user" BY <1>20, <2>1
    <3> QED BY <3>1
  <2>2. CASE ms[p[i]].type = "tool_call"
    <3>1. \E c \in Nat \ {0} :
                   /\ i + c \in 1..m /\ \A d \in 1..c : w[i + d].role = "tool"
                   /\ UNION {w[i + d].answers : d \in 1..c} = w[i].calls
                   /\ i + c + 1 \in 1..m => w[i + c + 1].role # "tool"
      BY <1>21, <2>2
    <3> QED BY <3>1, Zenon
  <2>3. ms[p[i]].type \in {"assistant", "tool_call"} BY <1>18, <1>23
  <2> QED BY <2>1, <2>2, <2>3
<1>24. \A i \in 1..m : w[i].role = "tool" => i - 1 \in 1..m /\ w[i - 1].role \in {"assistant", "tool"}
  BY <1>17, <1>19
<1>25. WireOrder(w) BY <1>15, <1>22, <1>23, <1>24 DEF WireOrder
<1> QED BY <1>25 DEF w

\* With or without reminders, what the adapter sends is legal.
LEMMA AdaptedLegal ==
  ASSUME NEW ms, LegalMessages(ms), NEW reminded \in BOOLEAN
  PROVE  LegalWire(StartAdapter(ms, reminded))
<1> DEFINE w == transformMessages(ms)
           r == [role |-> "user", calls |-> {}, answers |-> {}]
<1>1. WireOrder(w) BY TransformedOrder
<1>2. r \in WireMessage /\ r.role = "user" BY DEF WireMessage
<1>3. StartAdapter(ms, reminded) = w \/ StartAdapter(ms, reminded) = Append(w, r)
  BY Zenon DEF StartAdapter, appendContextRemindersAtConversationTail
<1> HIDE DEF w, r
<1>4. WireOrder(Append(w, r)) BY <1>1, <1>2, RemindedWire
<1>5. WireOrder(StartAdapter(ms, reminded)) BY <1>1, <1>3, <1>4
<1> QED BY <1>5, OrderedWire

-----------------------------------------------------------------------------
(* The requests of a preparation. *)

\* Without a checkpoint the whole transcript is behind the latest one.
LEMMA WholeBase ==
  ASSUME NEW T, TranscriptInv(T), Checkpoints(T) = {}
  PROVE  BaseOf(T) = T /\ T \in Seq(SpokenMessage)
<1>1. T \in Seq(StoredMessage) BY DEF TranscriptInv
<1>2. /\ Len(T) \in Nat /\ DOMAIN T = 1..Len(T)
      /\ \A i \in Effective(T) : T[i] \in SpokenMessage
  BY <1>1, EffectiveIs
<1>3. Effective(T) = 1..Len(T) BY <1>2 DEF Effective
<1>4. latestCheckpoint(T) = NoCheckpoint BY LatestIs
<1>5. tailStart(T) = 1 BY <1>4 DEF tailStart, NoCheckpoint, Message, Higher
<1>6. From(T, 1) = 1..Len(T) BY <1>2, <1>3 DEF From
<1>7. InOrder(1..Len(T)) = [k \in 1..Len(T) |-> k] BY <1>2, InOrderOfAll
<1> DEFINE p == InOrder(From(T, 1))
<1>8. p = [k \in 1..Len(T) |-> k] BY <1>6, <1>7
<1>9. BaseOf(T) = [k \in DOMAIN p |-> T[p[k]]] BY <1>5, Zenon DEF BaseOf, projectTail, From
<1> HIDE DEF p
<1>10. DOMAIN p = 1..Len(T) /\ \A k \in 1..Len(T) : p[k] = k BY <1>8
<1>11. BaseOf(T) = [k \in 1..Len(T) |-> T[k]] BY <1>9, <1>10
<1>12. T = [k \in 1..Len(T) |-> T[k]] BY <1>1, <1>2
<1>13. T \in [1..Len(T) -> SpokenMessage] BY <1>2, <1>3, <1>12
<1> QED BY <1>2, <1>11, <1>12, <1>13

\* A compacted request behind a legal tail is legal.
LEMMA ProjectedLegal ==
  ASSUME NEW summary \in Text, NEW recent \in HonestText, NEW t \in Seq(SpokenMessage), LegalOrder(t),
         \A k \in 1..Len(t) : ValidateMessage(t[k])
  PROVE  LegalMessages(projectCompactedMessages(summary, recent, t))
<1> DEFINE c == projectCompactedMessages(summary, recent, t)
           off == Offset(t)
<1>1. t # <<>> BY DEF LegalOrder
<1>2. /\ c \in Seq(SpokenMessage) /\ off \in {1, 2} /\ Len(c) = off + Len(t)
      /\ ValidateMessage(c[1]) /\ (off = 2 => ValidateMessage(c[2]))
      /\ \A k \in 1..Len(t) : c[off + k] = t[k]
  BY <1>1, ProjectedForm
<1>3. LegalOrder(c) BY ProjectionOrder
<1> HIDE DEF c, off
<1>4. ASSUME NEW x \in 1..Len(c) PROVE ValidateMessage(c[x])
  <2>1. CASE x = 1 BY <1>2, <2>1
  <2>2. CASE x = 2 /\ off = 2 BY <1>2, <2>2
  <2>3. CASE x # 1 /\ ~(x = 2 /\ off = 2)
    <3>1. x - off \in 1..Len(t) /\ off + (x - off) = x BY <1>2, <2>3
    <3>2. c[x] = t[x - off] BY <1>2, <3>1
    <3> QED BY <3>1, <3>2
  <2> QED BY <2>1, <2>2, <2>3
<1>5. LegalMessages(c) BY <1>2, <1>3, <1>4 DEF LegalMessages
<1> QED BY <1>5 DEF c

\* Every tail that does not begin with a result is legal.
LEMMA BaseLegal ==
  ASSUME NEW T, TranscriptInv(T), T # <<>>, validateCompactionToolAdjacency(T), HeardLast(T),
         NEW start \in 1..Len(BaseOf(T)), BaseOf(T)[start].type # "tool_result",
         NEW t, t = Suffix(BaseOf(T), start)
  PROVE  /\ t \in Seq(SpokenMessage) /\ LegalOrder(t)
         /\ \A k \in 1..Len(t) : ValidateMessage(t[k])
<1> DEFINE b == BaseOf(T)
           p == Places(T)
<1>1. LegalOrder(b) BY BaseOrder, ReadableCalls
<1>2. /\ b \in Seq(SpokenMessage)
      /\ \A k \in 1..Len(b) : b[k] = T[p[k]] /\ p[k] \in Effective(T)
  BY BaseIs
<1>3. TailOf(t, b, p, start) BY BaseSuffix
<1>4. DOMAIN T = 1..Len(T) /\ Effective(T) \in SUBSET (1..Len(T))
  <2>1. T \in Seq(StoredMessage) BY DEF TranscriptInv
  <2> QED BY <2>1, EffectiveIs
<1> HIDE DEF b, p
<1>5. /\ t \in Seq(SpokenMessage) /\ Len(t) = Len(b) - start + 1
      /\ \A k \in 1..Len(t) : start + k - 1 \in 1..Len(b) /\ t[k] = b[start + k - 1]
  BY <1>3 DEF TailOf
<1>6. start \in 1..Len(b) /\ b[start].type # "tool_result" BY DEF b
<1>7. LegalOrder(t) BY <1>1, <1>2, <1>5, <1>6, SuffixOrder
<1>8. ASSUME NEW k \in 1..Len(t) PROVE ValidateMessage(t[k])
  <2>1. t[k] = T[p[start + k - 1]] /\ p[start + k - 1] \in DOMAIN T BY <1>2, <1>4, <1>5
  <2> QED BY <2>1 DEF TranscriptInv
<1> QED BY <1>5, <1>7, <1>8

\* All of a sequence follows from its first element on.
LEMMA WholeSuffix ==
  ASSUME NEW X, NEW s \in Seq(X), s # <<>>
  PROVE  Suffix(s, 1) = s
<1>1. Len(s) \in Nat /\ 1 \in 1..(Len(s) + 1) OBVIOUS
<1>2. /\ Suffix(s, 1) \in Seq(X) /\ Len(Suffix(s, 1)) = Len(s) - 1 + 1
      /\ \A k \in 1..(Len(s) - 1 + 1) : Suffix(s, 1)[k] = s[k + 1 - 1]
  BY <1>1, SuffixIs
<1> DEFINE t == Suffix(s, 1)
<1> HIDE DEF t
<1>3. t \in Seq(X) /\ Len(t) = Len(s) BY <1>1, <1>2 DEF t
<1>4. \A k \in 1..Len(s) : t[k] = s[k]
  <2>1. Len(s) - 1 + 1 = Len(s) /\ \A k \in 1..Len(s) : k + 1 - 1 = k BY <1>1
  <2> QED BY <1>2, <2>1 DEF t
<1>5. t = s BY <1>3, <1>4
<1> QED BY <1>5 DEF t

\* A request with the latest checkpoint applied.
LEMMA ProjectionIs ==
  ASSUME TranscriptInv(transcript), transcript # <<>>, HeardLast(transcript), Readable
  PROVE  /\ Accounted(ProjectCompactionCheckpoints, transcript)
         /\ LegalMessages(ProjectCompactionCheckpoints)
<1> DEFINE T == transcript
           b == BaseOf(T)
           c == ProjectCompactionCheckpoints
<1>1. validateCompactionToolAdjacency(T) BY DEF Readable
<1>2. b \in Seq(SpokenMessage) /\ b # <<>> /\ 1 \in 1..Len(b) /\ b[1].type # "tool_result" BY BaseIs
<1>3. Suffix(b, 1) = b BY <1>2, WholeSuffix
<1>4. b \in Seq(SpokenMessage) /\ LegalOrder(b) /\ \A k \in 1..Len(b) : ValidateMessage(b[k])
  BY <1>1, <1>2, <1>3, BaseLegal
<1>5. CASE Previous = NoCheckpoint
  <2>1. Checkpoints(T) = {} BY <1>5, LatestIs DEF Previous
  <2>2. b = T /\ T \in Seq(SpokenMessage) BY <2>1, WholeBase
  <2>3. c = T BY <1>5 DEF ProjectCompactionCheckpoints
  <2>4. \A i \in DOMAIN T : T[i].text.of = {i}
    <3>1. Effective(T) = DOMAIN T BY <2>1 DEF Effective
    <3> QED BY <3>1 DEF TranscriptInv
  <2>5. UNION {T[i].text.of : i \in DOMAIN T} = Effective(T)
    <3>1. Effective(T) = DOMAIN T BY <2>1 DEF Effective
    <3>2. UNION {T[i].text.of : i \in DOMAIN T} = DOMAIN T
      <4>1. ASSUME NEW x PROVE x \in UNION {T[i].text.of : i \in DOMAIN T} <=> \E i \in DOMAIN T : x \in T[i].text.of
        OBVIOUS
      <4>2. ASSUME NEW x PROVE (\E i \in DOMAIN T : x \in T[i].text.of) <=> x \in DOMAIN T BY <2>4
      <4> QED BY <4>1, <4>2
    <3> QED BY <3>1, <3>2
  <2>6. \A i, j \in DOMAIN T : i # j => T[i].text.of \cap T[j].text.of = {} BY <2>4
  <2> HIDE DEF c, b
  <2>7. Accounted(c, T) BY <2>3, <2>5, <2>6 DEF Accounted
  <2>8. LegalMessages(c) BY <1>4, <2>2, <2>3 DEF LegalMessages
  <2> QED BY <2>7, <2>8 DEF c
<1>6. CASE Previous # NoCheckpoint
  <2>1. c = projectCompactedMessages(Previous.summary, Previous.recent, b)
    BY <1>6 DEF ProjectCompactionCheckpoints, Base, BaseOf
  <2>2. /\ Previous.summary \in Text /\ Previous.recent \in HonestText
        /\ Previous.summary.of \cup Previous.recent.of = {k \in Effective(T) : k < tailStart(T)}
    BY TailStart DEF Previous
  <2>3. Places(T)[1] = tailStart(T) BY BaseIs
  <2>4. Accounted(projectCompactedMessages(Previous.summary, Previous.recent, Suffix(b, 1)), T)
    BY <1>2, <2>2, <2>3, ProjectionAccounts
  <2>5. LegalMessages(projectCompactedMessages(Previous.summary, Previous.recent, b))
    BY <1>4, <2>2, ProjectedLegal
  <2> HIDE DEF c, b
  <2> QED BY <1>3, <2>1, <2>4, <2>5 DEF c
<1> QED BY <1>5, <1>6

\* A summary of the history and the one before it.
LEMMA SummaryIs ==
  ASSUME window \in Nat, window # 0, Previous.summary \in Text, NEW history \in Text,
         NEW s \in Nat \X Nat
  PROVE  /\ summarize(history, s) \in Text
         /\ summarize(history, s).of = Previous.summary.of \cup history.of
<1> DEFINE t == [ascii |-> s[1], other |-> s[2], of |-> Previous.summary.of \cup history.of]
           limit == 3 * Budgets.summary
<1>1. Previous.summary.of \in SUBSET Nat /\ history.of \in SUBSET Nat BY TextFields
<1>2. s[1] \in Nat /\ s[2] \in Nat OBVIOUS
<1>3. t \in Text /\ t.of = Previous.summary.of \cup history.of BY <1>1, <1>2 DEF Text
<1>4. Budgets.summary \in Nat /\ 64 <= Budgets.summary BY BudgetsAre DEF Budgets
<1>5. limit \in Nat /\ limit >= 3 BY <1>4
<1>6. summarize(history, s) = truncateText(t, limit) BY Zenon DEF summarize
<1> HIDE DEF t, limit
<1>7. truncateText(t, limit) \in Text /\ truncateText(t, limit).of = t.of BY <1>3, <1>5, TruncatedText
<1> QED BY <1>3, <1>6, <1>7

\* The checkpoint of a compaction stands for what its tail leaves out.
LEMMA CheckpointIs ==
  ASSUME TranscriptInv(transcript), transcript # <<>>,
         NEW start \in 1..Len(BaseOf(transcript)), BaseOf(transcript)[start].type # "tool_result",
         NEW summary \in Text, NEW recent \in HonestText,
         summary.of \cup recent.of = {k \in Effective(transcript) : k < Places(transcript)[start]}
  PROVE  LET c == Checkpoint(start, summary, recent)
         IN c \in StoredMessage /\ c.type = "compaction_checkpoint" /\ Accounts(transcript, c)
<1> DEFINE T == transcript
           b == BaseOf(T)
           p == Places(T)
           cov == Covered(start)
           tl == CHOOSE i \in Base[start].text.of : TRUE
           c == Checkpoint(start, summary, recent)
           e == Message("compaction_checkpoint", Empty)
<1>1. /\ b \in Seq(SpokenMessage) /\ Len(b) \in Nat
      /\ \A k \in 1..Len(b) : b[k] = T[p[k]] /\ b[k].text.of = {p[k]} /\ p[k] \in Effective(T)
  BY BaseIs
<1>2. Base = b BY DEF Base, BaseOf
<1>3. Effective(T) \in SUBSET Nat
  <2>1. T \in Seq(StoredMessage) BY DEF TranscriptInv
  <2>2. Len(T) \in Nat /\ Effective(T) \in SUBSET (1..Len(T)) BY <2>1, EffectiveIs
  <2> QED BY <2>2
<1>4. start \in 1..Len(b) /\ b[start].type # "tool_result" OBVIOUS
<1>5. Previous.covers \in Nat BY TailStart DEF Previous
<1> HIDE DEF b
<1>6. \A k \in 1..Len(b) : (CHOOSE i \in Base[k].text.of : TRUE) = p[k]
  <2>1. \A k \in 1..Len(b) : Base[k].text.of = {p[k]} BY <1>1, <1>2
  <2>2. \A x : (CHOOSE i \in {x} : TRUE) = x OBVIOUS
  <2> QED BY <2>1, <2>2
<1>7. tl = p[start] BY <1>4, <1>6
<1>8. cov \in Nat
  <2>1. CASE start = 1 BY <1>5, <2>1 DEF Covered
  <2>2. CASE start # 1
    <3>1. start - 1 \in 1..Len(b) BY <1>1, <1>4, <2>2
    <3>2. cov = CHOOSE i \in Base[start - 1].text.of : TRUE BY <2>2 DEF Covered
    <3>3. cov = p[start - 1] BY <1>6, <3>1, <3>2
    <3> QED BY <1>1, <1>3, <3>1, <3>3
  <2> QED BY <2>1, <2>2
<1>9. e \in StoredMessage /\ e.type = "compaction_checkpoint" /\ e.call = 0
  <2>1. "compaction_checkpoint" \in MessageTypes BY DEF MessageTypes
  <2>2. Empty \in Text BY EmptyText DEF HonestText
  <2> QED BY <2>1, <2>2, MessageIs
<1>10. c = [e EXCEPT !.summary = summary, !.recent = recent, !.covers = cov, !.tail = tl]
  BY Zenon DEF Checkpoint
<1>11. tl \in Nat /\ tl \in Effective(T) /\ T[tl] = b[start] BY <1>1, <1>3, <1>4, <1>7
<1>12. recent \in Text BY DEF HonestText
<1> HIDE DEF e, cov, tl, c
<1>13. /\ c \in StoredMessage /\ c.type = "compaction_checkpoint" /\ c.call = 0
       /\ c.summary = summary /\ c.recent = recent /\ c.tail = tl
  BY <1>8, <1>9, <1>10, <1>11, <1>12 DEF StoredMessage
<1>14. T[c.tail].type # "tool_result" BY <1>4, <1>11, <1>13
<1>15. summary.of \cup recent.of = {k \in Effective(T) : k < tl} BY <1>7
<1>16. Accounts(T, c) BY <1>11, <1>13, <1>14, <1>15 DEF Accounts
<1> QED BY <1>13, <1>16 DEF c

-----------------------------------------------------------------------------
(* What storing a batch and compacting leave. *)

\* The transcript that ends with the user's word, a result or an answer.
LEMMA EndOf ==
  ASSUME NEW ms \in Seq(StoredMessage), NEW batch \in Seq(StoredMessage), batch # <<>>,
         NEW new, Extends(new, ms, batch)
  PROVE  /\ new # <<>> /\ new[Len(new)].type = batch[Len(batch)].type
         /\ batch[Len(batch)].type \in PromptTypes \cup {"tool_result"} => HeardLast(new)
<1>1. /\ Len(ms) \in Nat /\ Len(batch) \in Nat /\ Len(batch) \in 1..Len(batch)
      /\ \A i \in 1..Len(batch) : batch[i] \in StoredMessage
  OBVIOUS
<1>2. new \in Seq(StoredMessage) /\ Len(new) = Len(ms) + Len(batch) BY DEF Extends
<1>3. new[Len(ms) + Len(batch)].type = batch[Len(batch)].type BY <1>1, Zenon DEF Extends
<1>4. new # <<>> /\ new[Len(new)].type = batch[Len(batch)].type BY <1>1, <1>2, <1>3
<1>5. ASSUME batch[Len(batch)].type \in PromptTypes \cup {"tool_result"} PROVE HeardLast(new)
  <2>1. /\ Effective(new) \in SUBSET (1..Len(new))
        /\ \A i \in 1..Len(new) : i \in Effective(new) <=> new[i].type # "compaction_checkpoint"
    BY <1>2, EffectiveIs
  <2>2. Len(new) \in 1..Len(new) BY <1>1, <1>2
  <2>3. batch[Len(batch)].type # "compaction_checkpoint" BY <1>5 DEF PromptTypes
  <2>4. Len(new) \in Effective(new) BY <1>4, <2>1, <2>2, <2>3
  <2>5. \A j \in Effective(new) : j <= Len(new) BY <1>1, <1>2, <2>1
  <2> QED BY <1>4, <1>5, <2>4, <2>5 DEF HeardLast
<1> QED BY <1>4, <1>5

\* A checkpoint behind the messages changes nothing of what is accounted for.
LEMMA CheckpointBehind ==
  ASSUME NEW ms \in Seq(StoredMessage), NEW c \in StoredMessage, c.type = "compaction_checkpoint",
         NEW new, Extends(new, ms, <<c>>)
  PROVE  /\ Effective(new) = Effective(ms)
         /\ HeardLast(ms) => HeardLast(new)
         /\ \A r : Accounted(r, ms) => Accounted(r, new)
<1> DEFINE batch == <<c>>
<1>1. batch \in Seq(StoredMessage) /\ Len(batch) = 1 /\ batch[1] = c OBVIOUS
<1> HIDE DEF batch
<1>2. Len(ms) \in Nat /\ Effective(ms) \in SUBSET (1..Len(ms)) BY EffectiveIs
<1>3. /\ \A i \in 1..Len(ms) : i \in Effective(new) <=> i \in Effective(ms)
      /\ \A i \in 1..Len(batch) : Len(ms) + i \in Effective(new) <=> batch[i].type # "compaction_checkpoint"
      /\ Effective(new) \in SUBSET (1..(Len(ms) + Len(batch)))
  <2>1. Extends(new, ms, batch) BY DEF batch
  <2> QED BY <1>1, <2>1, ExtendedEffective
<1>4. Len(ms) + 1 \notin Effective(new)
  <2>1. 1 \in 1..Len(batch) BY <1>1
  <2> QED BY <1>1, <1>3, <2>1
<1>5. Effective(new) = Effective(ms)
  <2>1. Effective(new) \in SUBSET (1..(Len(ms) + 1)) BY <1>1, <1>3
  <2>2. Effective(new) \in SUBSET (1..Len(ms)) BY <1>2, <1>4, <2>1
  <2> QED BY <1>2, <1>3, <2>2
<1>6. \A i \in Effective(ms) : new[i] = ms[i] BY <1>2 DEF Extends
<1>7. HeardLast(ms) => HeardLast(new) BY <1>5, <1>6 DEF HeardLast
<1>8. \A r : Accounted(r, ms) => Accounted(r, new) BY <1>5 DEF Accounted
<1> QED BY <1>5, <1>7, <1>8

\* A batch that is stored leaves the transcript as it must be.
LEMMA AppendedIs ==
  ASSUME TranscriptInv(transcript), NEW batch \in Seq(StoredMessage), MayFollow(transcript, batch),
         Append_(batch)
  PROVE  Extends(transcript', transcript, batch) /\ TranscriptInv(transcript')
<1>1. transcript \in Seq(StoredMessage) BY DEF TranscriptInv
<1>2. transcript' = transcript \o Marked(transcript, batch) /\ CanAppend(batch) BY Zenon DEF Append_, Marked
<1>3. Extends(transcript', transcript, batch) BY <1>1, <1>2, AppendExtends
<1> QED BY <1>3, ExtendedInv

\* One message may follow.
LEMMA OneFollows ==
  ASSUME NEW m \in StoredMessage, NEW T,
         \/ m.type \in PromptTypes
         \/ m.type \in SpokenTypes /\ T # <<>> /\ T[Len(T)].type # "assistant"
         \/ m.type = "compaction_checkpoint" /\ Accounts(T, m) /\ T # <<>> /\ T[Len(T)].type # "assistant"
  PROVE  /\ <<m>> \in Seq(StoredMessage) /\ <<m>> # <<>> /\ MayFollow(T, <<m>>)
         /\ Len(<<m>>) = 1 /\ <<m>>[1] = m
<1> DEFINE batch == <<m>>
<1>1. batch \in Seq(StoredMessage) /\ Len(batch) = 1 /\ batch[1] = m /\ batch # <<>> OBVIOUS
<1> HIDE DEF batch
<1>2. \A i \in 1..Len(batch) : i = 1 BY <1>1
<1>3. \A i \in 1..Len(batch) : batch[i].type = "compaction_checkpoint" => Accounts(T, batch[i])
  <2>1. "compaction_checkpoint" \notin SpokenTypes /\ "compaction_checkpoint" \notin PromptTypes
    BY DEF SpokenTypes, PromptTypes
  <2>2. m.type = "compaction_checkpoint" => Accounts(T, m) BY <2>1
  <2> QED BY <1>1, <1>2, <2>2
<1>4. batch # <<>> /\ (T # <<>> => T[Len(T)].type = "assistant") => batch[1].type \in PromptTypes BY <1>1
<1>5. \A i \in 1..Len(batch) : batch[i].type = "assistant" => i = Len(batch) BY <1>1, <1>2
<1>6. MayFollow(T, batch) BY <1>3, <1>4, <1>5 DEF MayFollow
<1> QED BY <1>1, <1>6 DEF batch

\* The request behind a checkpoint, and the checkpoint.
LEMMA CompactedIs ==
  ASSUME TranscriptInv(transcript), transcript # <<>>, HeardLast(transcript), Readable,
         window \in Nat, window # 0, NEW force \in BOOLEAN,
         NEW start, start = TailAt(force), start # 0,
         NEW history, history = History(start), NEW s \in Nat \X Nat,
         NEW summary, summary = summarize(history.summarized, s),
         NEW projected, projected = projectCompactedMessages(summary, history.recent, Suffix(Base, start)),
         NEW c, c = Checkpoint(start, summary, history.recent)
  PROVE  /\ Accounted(projected, transcript) /\ LegalMessages(projected)
         /\ c \in StoredMessage /\ c.type = "compaction_checkpoint" /\ Accounts(transcript, c)
<1> DEFINE T == transcript
           b == BaseOf(T)
           t == Suffix(b, start)
           before == {k \in Effective(T) : k < Places(T)[start]}
<1>1. start \in 1..Len(b) /\ b[start].type # "tool_result" BY TailIs
<1>2. /\ history.summarized \in HonestText /\ history.recent \in HonestText
      /\ Previous.summary.of \cup history.summarized.of \cup history.recent.of = before
  BY <1>1, HistoryIs
<1>3. Previous.summary \in Text BY TailStart DEF Previous
<1>4. history.summarized \in Text BY <1>2 DEF HonestText
<1>5. summary \in Text /\ summary.of = Previous.summary.of \cup history.summarized.of
  BY <1>3, <1>4, SummaryIs
<1>6. summary.of \cup history.recent.of = before BY <1>2, <1>5
<1>7. Base = b BY DEF Base, BaseOf
<1>8. projected = projectCompactedMessages(summary, history.recent, t) BY <1>7
<1>9. Accounted(projected, T) BY <1>1, <1>2, <1>5, <1>6, <1>8, ProjectionAccounts
<1>10. validateCompactionToolAdjacency(T) BY DEF Readable
<1>11. t \in Seq(SpokenMessage) /\ LegalOrder(t) /\ \A k \in 1..Len(t) : ValidateMessage(t[k])
  BY <1>1, <1>10, BaseLegal
<1>12. LegalMessages(projected) BY <1>2, <1>5, <1>8, <1>11, ProjectedLegal
<1>13. c \in StoredMessage /\ c.type = "compaction_checkpoint" /\ Accounts(T, c)
  BY <1>1, <1>2, <1>5, <1>6, CheckpointIs
<1> QED BY <1>9, <1>12, <1>13

-----------------------------------------------------------------------------
(* The invariant. *)

Phases == {"idle", "round", "start", "force", "streaming", "tools"}

SessionTypes ==
  /\ window \in Windows /\ auto \in BOOLEAN /\ calls \in Nat /\ restarts \in Nat
  /\ phase \in Phases /\ (phase = "tools" => calls > 0)

\* A turn that runs has the user's word or a result behind every answer.
TurnInv ==
  /\ phase # "idle" => transcript # <<>> /\ transcript[Len(transcript)].type # "assistant"
  /\ phase \in {"round", "start", "force", "streaming"} => HeardLast(transcript)

\* The request that is sent, and the one that a forced compaction replaces.
RequestInv ==
  /\ Sent => Accounted(request.messages, transcript) /\ LegalMessages(request.messages)
  /\ Sent /\ auto => Fits(request.messages) /\ request.output = operationalMaxOutputTokens(window)
  /\ phase = "start" /\ ~request.compacted => request.messages = ProjectCompactionCheckpoints
  /\ phase = "force" => auto /\ request.messages = ProjectCompactionCheckpoints

SessionInv == SessionTypes /\ TranscriptInv(transcript) /\ TurnInv /\ RequestInv

\* What an unchanged transcript and an unchanged window leave as they are.
LEMMA Unchanged ==
  ASSUME transcript' = transcript
  PROVE  ProjectCompactionCheckpoints' = ProjectCompactionCheckpoints
BY DEF ProjectCompactionCheckpoints, Previous, Base

\* A request that fits still fits after a step that keeps the window.
LEMMA FitsAfter ==
  ASSUME window' = window, Fits(request'.messages)
  PROVE  Fits(request.messages)'
BY DEF Fits, Budgets

\* A window is a positive number.
LEMMA WindowIs ==
  ASSUME window \in Windows
  PROVE  window \in Nat /\ window # 0
BY CompactionAssumption DEF CompactionAssumption

\* No request is out.
LEMMA NotSent ==
  ASSUME phase' \in {"idle", "round", "tools"}
  PROVE  RequestInv'
BY DEF RequestInv, Sent

\* A message of the given size is one that can be stored.
LEMMA SizedIs ==
  ASSUME NEW s \in Nat \X Nat
  PROVE  Sized(s) \in Text
<1> DEFINE a == s[1]
           o == s[2]
<1>1. a \in Nat /\ o \in Nat OBVIOUS
<1>2. Sized(s) = [Empty EXCEPT !.ascii = a, !.other = o] BY DEF Sized
<1> HIDE DEF a, o
<1>3. [Empty EXCEPT !.ascii = a, !.other = o] \in Text BY <1>1 DEF Empty, Text
<1> QED BY <1>2, <1>3

\* A turn that fails leaves the transcript as it is.
LEMMA FailTurnStep ==
  ASSUME SessionInv, FailTurn
  PROVE  SessionInv'
<1>1. phase' = "idle" /\ UNCHANGED <<transcript, window, auto, calls, restarts>> BY DEF FailTurn
<1>2. SessionTypes' BY <1>1 DEF SessionInv, SessionTypes, Phases
<1>3. TranscriptInv(transcript)' BY <1>1 DEF SessionInv
<1>4. TurnInv' BY <1>1 DEF TurnInv
<1>5. RequestInv' BY <1>1, NotSent
<1> QED BY <1>2, <1>3, <1>4, <1>5 DEF SessionInv

\* A turn begins with a prompt.
LEMMA StartTurnStep ==
  ASSUME SessionInv, NEW p \in Prompts, StartTurn(p)
  PROVE  SessionInv'
<1> DEFINE m == Message(p.type, Sized(p.size))
           batch == <<m>>
<1>1. p.type \in PromptTypes /\ p.size \in Nat \X Nat
  BY CompactionAssumption DEF CompactionAssumption, PromptTypes
<1>2. p.type \in MessageTypes BY <1>1 DEF MessageTypes, SpokenTypes
<1>3. m \in StoredMessage /\ m.type = p.type BY <1>1, <1>2, SizedIs, MessageIs
<1>4. Append_(batch) /\ phase' = "round" /\ UNCHANGED <<window, auto, calls, request, restarts>>
  BY DEF StartTurn
<1>5. TranscriptInv(transcript) BY DEF SessionInv
<1> HIDE DEF m
<1>6. batch \in Seq(StoredMessage) /\ batch # <<>> /\ MayFollow(transcript, batch) /\ Len(batch) = 1 /\ batch[1] = m
  BY <1>1, <1>3, OneFollows
<1> HIDE DEF batch
<1>7. Extends(transcript', transcript, batch) /\ TranscriptInv(transcript') BY <1>4, <1>5, <1>6, AppendedIs
<1>8. transcript \in Seq(StoredMessage) BY <1>5 DEF TranscriptInv
<1>9. batch[Len(batch)].type = p.type BY <1>3, <1>6
<1>10. /\ transcript' # <<>> /\ transcript'[Len(transcript')].type = p.type
       /\ HeardLast(transcript')
  BY <1>1, <1>6, <1>7, <1>8, <1>9, EndOf
<1>11. SessionTypes' BY <1>4 DEF SessionInv, SessionTypes, Phases
<1>12. p.type # "assistant" BY <1>1 DEF PromptTypes
<1>13. TurnInv' BY <1>10, <1>12 DEF TurnInv
<1>14. RequestInv' BY <1>4, NotSent
<1> QED BY <1>7, <1>11, <1>13, <1>14 DEF SessionInv

\* The request with the latest checkpoint applied is sent.
LEMMA ProjectionStep ==
  ASSUME SessionInv, phase = "round", Readable, auto => Fits(ProjectCompactionCheckpoints),
         request' = Request(ProjectCompactionCheckpoints, FALSE), phase' = "start",
         UNCHANGED <<transcript, window, auto, calls, restarts>>
  PROVE  SessionInv'
<1>1. TranscriptInv(transcript) /\ transcript # <<>> /\ HeardLast(transcript) BY DEF SessionInv, TurnInv
<1>2. Accounted(ProjectCompactionCheckpoints, transcript) /\ LegalMessages(ProjectCompactionCheckpoints)
  BY <1>1, ProjectionIs
<1>3. /\ request'.messages = ProjectCompactionCheckpoints
      /\ request'.output = IF auto THEN operationalMaxOutputTokens(window) ELSE 0
  BY DEF Request
<1>4. SessionTypes' BY DEF SessionInv, SessionTypes, Phases
<1>5. TranscriptInv(transcript)' BY <1>1
<1>6. TurnInv' BY DEF SessionInv, TurnInv
<1>7. ProjectCompactionCheckpoints' = ProjectCompactionCheckpoints BY Unchanged
<1>8. auto => Fits(request.messages)'
  <2>1. auto => Fits(request'.messages) BY <1>3
  <2> QED BY <2>1, FitsAfter
<1>9. RequestInv'
  <2>1. Accounted(request'.messages, transcript') /\ LegalMessages(request'.messages) BY <1>2, <1>3
  <2>2. auto' => request'.output = operationalMaxOutputTokens(window') BY <1>3
  <2> QED BY <1>3, <1>7, <1>8, <2>1, <2>2 DEF RequestInv
<1> QED BY <1>4, <1>5, <1>6, <1>9 DEF SessionInv

\* A compaction stores its checkpoint and sends the request behind it, or
\* the turn fails.
LEMMA CompactsStep ==
  ASSUME SessionInv, NEW force \in BOOLEAN, phase \in {"round", "force"}, auto, PrepareCompacts(force)
  PROVE  SessionInv'
<1>1. TranscriptInv(transcript) /\ transcript # <<>> /\ transcript[Len(transcript)].type # "assistant"
      /\ HeardLast(transcript)
  BY DEF SessionInv, TurnInv
<1>2. window \in Nat /\ window # 0 BY WindowIs DEF SessionInv, SessionTypes
<1>3. Readable BY DEF PrepareCompacts
<1>4. CASE FailTurn BY <1>4, FailTurnStep
<1>5. CASE ~FailTurn
  <2>a. PICK start \in {TailAt(force)} \ {0} : \E history \in {History(start)} :
          \E s \in Summaries : \E summary \in {summarize(history.summarized, s)} :
          \E projected \in {projectCompactedMessages(summary, history.recent, Suffix(Base, start))} :
            /\ Fits(projected)
            /\ Append_(<<Checkpoint(start, summary, history.recent)>>)
            /\ request' = Request(projected, TRUE)
            /\ phase' = "start"
            /\ UNCHANGED <<window, auto, calls, restarts>>
    BY <1>5, Zenon DEF PrepareCompacts
  <2>b. PICK history \in {History(start)} :
          \E s \in Summaries : \E summary \in {summarize(history.summarized, s)} :
          \E projected \in {projectCompactedMessages(summary, history.recent, Suffix(Base, start))} :
            /\ Fits(projected)
            /\ Append_(<<Checkpoint(start, summary, history.recent)>>)
            /\ request' = Request(projected, TRUE)
            /\ phase' = "start"
            /\ UNCHANGED <<window, auto, calls, restarts>>
    BY <2>a, Zenon
  <2>c. PICK s \in Summaries : \E summary \in {summarize(history.summarized, s)} :
          \E projected \in {projectCompactedMessages(summary, history.recent, Suffix(Base, start))} :
            /\ Fits(projected)
            /\ Append_(<<Checkpoint(start, summary, history.recent)>>)
            /\ request' = Request(projected, TRUE)
            /\ phase' = "start"
            /\ UNCHANGED <<window, auto, calls, restarts>>
    BY <2>b, Zenon
  <2>d. PICK summary \in {summarize(history.summarized, s)} :
          \E projected \in {projectCompactedMessages(summary, history.recent, Suffix(Base, start))} :
            /\ Fits(projected)
            /\ Append_(<<Checkpoint(start, summary, history.recent)>>)
            /\ request' = Request(projected, TRUE)
            /\ phase' = "start"
            /\ UNCHANGED <<window, auto, calls, restarts>>
    BY <2>c, Zenon
  <2>1. PICK projected \in {projectCompactedMessages(summary, history.recent, Suffix(Base, start))} :
            /\ Fits(projected)
            /\ Append_(<<Checkpoint(start, summary, history.recent)>>)
            /\ request' = Request(projected, TRUE)
            /\ phase' = "start"
            /\ UNCHANGED <<window, auto, calls, restarts>>
    BY <2>d, Zenon
  <2> DEFINE c == Checkpoint(start, summary, history.recent)
             batch == <<c>>
  <2>2. s \in Nat \X Nat BY CompactionAssumption DEF CompactionAssumption
  <2>3. /\ start = TailAt(force) /\ start # 0 /\ history = History(start)
        /\ summary = summarize(history.summarized, s)
        /\ projected = projectCompactedMessages(summary, history.recent, Suffix(Base, start))
    OBVIOUS
  <2>4. /\ Accounted(projected, transcript) /\ LegalMessages(projected)
        /\ c \in StoredMessage /\ c.type = "compaction_checkpoint" /\ Accounts(transcript, c)
    BY <1>1, <1>2, <1>3, <2>2, <2>3, CompactedIs
  <2> HIDE DEF c
  <2>5. batch \in Seq(StoredMessage) /\ batch # <<>> /\ MayFollow(transcript, batch) /\ Len(batch) = 1 /\ batch[1] = c
    BY <1>1, <2>4, OneFollows
  <2>6. Append_(batch) BY <2>1 DEF c
  <2>7. Extends(transcript', transcript, batch) /\ TranscriptInv(transcript') BY <1>1, <2>5, <2>6, AppendedIs
  <2>8. transcript \in Seq(StoredMessage) BY <1>1 DEF TranscriptInv
  <2>9. HeardLast(transcript') /\ Accounted(projected, transcript') BY <1>1, <2>4, <2>7, <2>8, CheckpointBehind
  <2> HIDE DEF batch
  <2>10. transcript' # <<>> /\ transcript'[Len(transcript')].type = "compaction_checkpoint"
    BY <2>4, <2>5, <2>7, <2>8, EndOf
  <2>11. /\ request'.messages = projected /\ request'.compacted
         /\ request'.output = IF auto THEN operationalMaxOutputTokens(window) ELSE 0
    BY <2>1 DEF Request
  <2>12. SessionTypes' BY <2>1 DEF SessionInv, SessionTypes, Phases
  <2>13. TurnInv' BY <2>9, <2>10 DEF TurnInv
  <2>14. RequestInv'
    <3>1. Fits(request.messages)'
      <4>1. Fits(request'.messages) BY <2>1, <2>11
      <4> QED BY <2>1, <4>1, FitsAfter
    <3>2. Accounted(request'.messages, transcript') /\ LegalMessages(request'.messages) BY <2>4, <2>9, <2>11
    <3>3. request'.output = operationalMaxOutputTokens(window') BY <2>1, <2>11
    <3> QED BY <2>1, <2>11, <3>1, <3>2, <3>3 DEF RequestInv
  <2> QED BY <2>7, <2>12, <2>13, <2>14 DEF SessionInv
<1> QED BY <1>4, <1>5

-----------------------------------------------------------------------------
(* The steps of a turn. *)

\* The results of a round are messages that may be stored behind its calls.
LEMMA ResultsAre ==
  ASSUME NEW n \in Nat, NEW outputs \in [1..n -> Outputs], NEW T, T # <<>>, T[Len(T)].type # "assistant"
  PROVE  /\ Results(outputs) \in Seq(StoredMessage) /\ Len(Results(outputs)) = n
         /\ \A k \in 1..n : Results(outputs)[k].type = "tool_result"
         /\ MayFollow(T, Results(outputs))
<1> DEFINE r(k) == [Message("tool_result", Sized(outputs[k])) EXCEPT !.call = k]
           batch == Results(outputs)
<1>1. "tool_result" \in MessageTypes /\ "tool_result" \notin PromptTypes
  BY DEF MessageTypes, SpokenTypes, PromptTypes
<1>2. ASSUME NEW k \in 1..n PROVE r(k) \in StoredMessage /\ r(k).type = "tool_result"
  <2>1. outputs[k] \in Nat \X Nat BY CompactionAssumption DEF CompactionAssumption
  <2>2. Sized(outputs[k]) \in Text BY <2>1, SizedIs
  <2> DEFINE m == Message("tool_result", Sized(outputs[k]))
  <2>3. m \in StoredMessage /\ m.type = "tool_result" BY <1>1, <2>2, MessageIs
  <2>4. k \in Nat OBVIOUS
  <2> HIDE DEF m
  <2>5. [m EXCEPT !.call = k] \in StoredMessage /\ [m EXCEPT !.call = k].type = "tool_result"
    BY <2>3, <2>4 DEF StoredMessage
  <2> QED BY <2>5 DEF m
<1>3. batch = [k \in 1..n |-> r(k)]
  <2>1. DOMAIN outputs = 1..n OBVIOUS
  <2> QED BY <2>1, Zenon DEF Results
<1> HIDE DEF r, batch
<1>4. batch \in [1..n -> StoredMessage] BY <1>2, <1>3
<1>5. batch \in Seq(StoredMessage) /\ Len(batch) = n BY <1>4
<1>6. \A k \in 1..n : batch[k].type = "tool_result" BY <1>2, <1>3
<1>7. MayFollow(T, batch) BY <1>5, <1>6 DEF MayFollow
<1> QED BY <1>5, <1>6, <1>7 DEF batch

\* The model's message is stored behind the word it answers.
LEMMA SpokenAfter ==
  ASSUME SessionInv, phase # "idle", NEW m \in StoredMessage, m.type \in {"assistant", "tool_call"},
         Append_(<<m>>)
  PROVE  /\ TranscriptInv(transcript') /\ transcript' # <<>>
         /\ transcript'[Len(transcript')].type = m.type
<1> DEFINE batch == <<m>>
<1>1. TranscriptInv(transcript) /\ transcript # <<>> /\ transcript[Len(transcript)].type # "assistant"
  BY DEF SessionInv, TurnInv
<1>2. m.type \in SpokenTypes BY DEF SpokenTypes
<1>3. batch \in Seq(StoredMessage) /\ batch # <<>> /\ MayFollow(transcript, batch) /\ Len(batch) = 1 /\ batch[1] = m
  BY <1>1, <1>2, OneFollows
<1>4. Append_(batch) OBVIOUS
<1> HIDE DEF batch
<1>5. Extends(transcript', transcript, batch) /\ TranscriptInv(transcript') BY <1>1, <1>3, <1>4, AppendedIs
<1>6. transcript \in Seq(StoredMessage) BY <1>1 DEF TranscriptInv
<1>7. transcript' # <<>> /\ transcript'[Len(transcript')].type = batch[Len(batch)].type
  BY <1>3, <1>5, <1>6, EndOf
<1> QED BY <1>3, <1>5, <1>7

\* Without automatic compaction the request is only projected.
LEMMA ProjectStep ==
  ASSUME SessionInv, Project
  PROVE  SessionInv'
<1>1. CASE FailTurn BY <1>1, FailTurnStep
<1>2. CASE ~FailTurn
  <2>1. /\ phase = "round" /\ ~auto /\ Readable
        /\ request' = Request(ProjectCompactionCheckpoints, FALSE) /\ phase' = "start"
        /\ UNCHANGED <<transcript, window, auto, calls, restarts>>
    BY <1>2 DEF Project
  <2> QED BY <2>1, ProjectionStep
<1> QED BY <1>1, <1>2

\* The preparation of a round.
LEMMA PrepareStep ==
  ASSUME SessionInv, Prepare
  PROVE  SessionInv'
<1>1. phase = "round" /\ auto BY DEF Prepare
<1>2. CASE PrepareFails(FALSE) BY <1>2, FailTurnStep DEF PrepareFails
<1>3. CASE PrepareFits
  <2>1. /\ Readable /\ Fits(ProjectCompactionCheckpoints)
        /\ request' = Request(ProjectCompactionCheckpoints, FALSE) /\ phase' = "start"
        /\ UNCHANGED <<transcript, window, auto, calls, restarts>>
    BY <1>3 DEF PrepareFits
  <2> QED BY <1>1, <2>1, ProjectionStep
<1>4. CASE PrepareCompacts(FALSE)
  <2>1. FALSE \in BOOLEAN /\ phase \in {"round", "force"} BY <1>1
  <2> QED BY <1>1, <1>4, <2>1, CompactsStep
<1> QED BY <1>2, <1>3, <1>4 DEF Prepare

\* The preparation that the provider forces.
LEMMA ForceStep ==
  ASSUME SessionInv, ForceCompaction
  PROVE  SessionInv'
<1>1. phase = "force" /\ auto BY DEF ForceCompaction, SessionInv, RequestInv
<1>2. CASE PrepareFails(TRUE) BY <1>2, FailTurnStep DEF PrepareFails
<1>3. CASE PrepareCompacts(TRUE)
  <2>1. TRUE \in BOOLEAN /\ phase \in {"round", "force"} BY <1>1
  <2> QED BY <1>1, <1>3, <2>1, CompactsStep
<1> QED BY <1>2, <1>3 DEF ForceCompaction

\* The provider takes the request.
LEMMA AcceptStep ==
  ASSUME SessionInv, ModelAccepts
  PROVE  SessionInv'
<1>1. /\ phase = "start" /\ phase' = "streaming"
      /\ UNCHANGED <<transcript, window, auto, calls, request, restarts>>
  BY DEF ModelAccepts
<1>2. SessionTypes' BY <1>1 DEF SessionInv, SessionTypes, Phases
<1>3. TranscriptInv(transcript)' BY <1>1 DEF SessionInv
<1>4. TurnInv' BY <1>1 DEF SessionInv, TurnInv
<1>5. Sent /\ RequestInv BY <1>1 DEF SessionInv, Sent
<1>6. auto => Fits(request.messages)'
  <2>1. auto => Fits(request'.messages) BY <1>1, <1>5 DEF RequestInv
  <2> QED BY <1>1, <2>1, FitsAfter
<1>7. RequestInv' BY <1>1, <1>5, <1>6 DEF RequestInv
<1> QED BY <1>2, <1>3, <1>4, <1>7 DEF SessionInv

\* The provider refuses the request.
LEMMA RejectStep ==
  ASSUME SessionInv, ModelRejects
  PROVE  SessionInv'
<1>1. CASE FailTurn BY <1>1, FailTurnStep
<1>2. CASE ~FailTurn
  <2>1. /\ phase = "start" /\ auto /\ ~request.compacted /\ phase' = "force"
        /\ UNCHANGED <<transcript, window, auto, calls, request, restarts>>
    BY <1>2 DEF ModelRejects
  <2>2. SessionTypes' BY <2>1 DEF SessionInv, SessionTypes, Phases
  <2>3. TranscriptInv(transcript)' BY <2>1 DEF SessionInv
  <2>4. TurnInv' BY <2>1 DEF SessionInv, TurnInv
  <2>5. request.messages = ProjectCompactionCheckpoints BY <2>1 DEF SessionInv, RequestInv
  <2>6. ProjectCompactionCheckpoints' = ProjectCompactionCheckpoints BY <2>1, Unchanged
  <2>7. RequestInv' BY <2>1, <2>5, <2>6 DEF RequestInv, Sent
  <2> QED BY <2>2, <2>3, <2>4, <2>7 DEF SessionInv
<1> QED BY <1>1, <1>2

\* The model answers.
LEMMA AnswerStep ==
  ASSUME SessionInv, NEW size \in Answers, Answer(size)
  PROVE  SessionInv'
<1> DEFINE m == Message("assistant", Sized(size))
<1>1. phase = "streaming" /\ Append_(<<m>>) /\ phase' = "idle" /\ UNCHANGED <<window, auto, calls, restarts>>
  BY DEF Answer
<1>2. size \in Nat \X Nat BY CompactionAssumption DEF CompactionAssumption
<1>3. "assistant" \in MessageTypes BY DEF MessageTypes, SpokenTypes
<1>4. m \in StoredMessage /\ m.type = "assistant" BY <1>2, <1>3, SizedIs, MessageIs
<1> HIDE DEF m
<1>5. TranscriptInv(transcript') BY <1>1, <1>4, SpokenAfter
<1>6. SessionTypes' BY <1>1 DEF SessionInv, SessionTypes, Phases
<1>7. TurnInv' BY <1>1 DEF TurnInv
<1>8. RequestInv' BY <1>1, NotSent
<1> QED BY <1>5, <1>6, <1>7, <1>8 DEF SessionInv

\* The answer is asked for again.
LEMMA RetryStep ==
  ASSUME SessionInv, RetryAnswer
  PROVE  SessionInv'
<1>1. phase = "streaming" /\ phase' = "round" /\ UNCHANGED <<transcript, window, auto, calls, restarts>>
  BY DEF RetryAnswer
<1>2. SessionTypes' BY <1>1 DEF SessionInv, SessionTypes, Phases
<1>3. TranscriptInv(transcript)' BY <1>1 DEF SessionInv
<1>4. TurnInv' BY <1>1 DEF SessionInv, TurnInv
<1>5. RequestInv' BY <1>1, NotSent
<1> QED BY <1>2, <1>3, <1>4, <1>5 DEF SessionInv

\* The model calls tools.
LEMMA CallStep ==
  ASSUME SessionInv, NEW n \in 1..MaxBatch, CallTools(n)
  PROVE  SessionInv'
<1> DEFINE e == Message("tool_call", Ascii(60))
           m == [e EXCEPT !.calls = n]
<1>1. /\ phase = "streaming" /\ Append_(<<m>>) /\ phase' = "tools" /\ calls' = n
      /\ UNCHANGED <<window, auto, restarts>>
  BY DEF CallTools
<1>2. n \in Nat /\ n > 0 OBVIOUS
<1>3. "tool_call" \in MessageTypes BY DEF MessageTypes, SpokenTypes
<1>4. Ascii(60) \in Text BY AsciiText DEF HonestText
<1>5. e \in StoredMessage /\ e.type = "tool_call" BY <1>3, <1>4, MessageIs
<1> HIDE DEF e
<1>6. m \in StoredMessage /\ m.type = "tool_call" BY <1>2, <1>5 DEF StoredMessage
<1> HIDE DEF m
<1>7. TranscriptInv(transcript') /\ transcript' # <<>> /\ transcript'[Len(transcript')].type = "tool_call"
  BY <1>1, <1>6, SpokenAfter
<1>8. SessionTypes' BY <1>1, <1>2 DEF SessionInv, SessionTypes, Phases
<1>9. TurnInv' BY <1>1, <1>7 DEF TurnInv
<1>10. RequestInv' BY <1>1, NotSent
<1> QED BY <1>7, <1>8, <1>9, <1>10 DEF SessionInv

\* The results of some of the calls are stored.
LEMMA ResultsAfter ==
  ASSUME SessionInv, phase = "tools", NEW n \in Nat, NEW outputs \in [1..n -> Outputs],
         Append_(Results(outputs))
  PROVE  /\ TranscriptInv(transcript')
         /\ n > 0 => /\ transcript' # <<>> /\ transcript'[Len(transcript')].type = "tool_result"
                     /\ HeardLast(transcript')
<1> DEFINE batch == Results(outputs)
<1>1. TranscriptInv(transcript) /\ transcript # <<>> /\ transcript[Len(transcript)].type # "assistant"
  BY DEF SessionInv, TurnInv
<1>2. /\ batch \in Seq(StoredMessage) /\ Len(batch) = n
      /\ \A k \in 1..n : batch[k].type = "tool_result"
      /\ MayFollow(transcript, batch)
  BY <1>1, ResultsAre
<1>3. Append_(batch) OBVIOUS
<1> HIDE DEF batch
<1>4. Extends(transcript', transcript, batch) /\ TranscriptInv(transcript') BY <1>1, <1>2, <1>3, AppendedIs
<1>5. transcript \in Seq(StoredMessage) BY <1>1 DEF TranscriptInv
<1>6. ASSUME n > 0
      PROVE  /\ transcript' # <<>> /\ transcript'[Len(transcript')].type = "tool_result"
             /\ HeardLast(transcript')
  <2>1. n \in 1..n /\ batch # <<>> BY <1>2, <1>6
  <2>2. batch[Len(batch)].type = "tool_result" BY <1>2, <2>1
  <2> QED BY <1>2, <1>4, <1>5, <2>1, <2>2, EndOf
<1> QED BY <1>4, <1>6

\* All results of the round are stored.
LEMMA DoneStep ==
  ASSUME SessionInv, NEW outputs \in [1..calls -> Outputs], ToolsDone(outputs)
  PROVE  SessionInv'
<1>1. /\ phase = "tools" /\ Append_(Results(outputs)) /\ phase' = "round" /\ calls' = 0
      /\ UNCHANGED <<window, auto, request, restarts>>
  BY DEF ToolsDone
<1>2. calls \in Nat /\ calls > 0 BY <1>1 DEF SessionInv, SessionTypes
<1>3. /\ TranscriptInv(transcript') /\ transcript' # <<>>
      /\ transcript'[Len(transcript')].type = "tool_result" /\ HeardLast(transcript')
  BY <1>1, <1>2, ResultsAfter
<1>4. SessionTypes' BY <1>1 DEF SessionInv, SessionTypes, Phases
<1>5. TurnInv' BY <1>3 DEF TurnInv
<1>6. RequestInv' BY <1>1, NotSent
<1> QED BY <1>3, <1>4, <1>5, <1>6 DEF SessionInv

\* The results before an interrupt are stored.
LEMMA InterruptStep ==
  ASSUME SessionInv, NEW n \in 0..(calls - 1), NEW outputs \in [1..n -> Outputs], InterruptTools(outputs)
  PROVE  SessionInv'
<1>1. /\ phase = "tools" /\ Append_(Results(outputs)) /\ phase' = "idle" /\ calls' = 0
      /\ UNCHANGED <<window, auto, request, restarts>>
  BY DEF InterruptTools
<1>2. n \in Nat BY DEF SessionInv, SessionTypes
<1>3. TranscriptInv(transcript') BY <1>1, <1>2, ResultsAfter
<1>4. SessionTypes' BY <1>1 DEF SessionInv, SessionTypes, Phases
<1>5. TurnInv' BY <1>1 DEF TurnInv
<1>6. RequestInv' BY <1>1, NotSent
<1> QED BY <1>3, <1>4, <1>5, <1>6 DEF SessionInv

\* The application restarts with another model.
LEMMA RestartStep ==
  ASSUME SessionInv, NEW w \in Windows, NEW enabled \in BOOLEAN, Restart(w, enabled)
  PROVE  SessionInv'
<1>1. /\ phase = "idle" /\ window' = w /\ auto' = enabled /\ restarts' = restarts + 1
      /\ UNCHANGED <<transcript, phase, calls, request>>
  BY DEF Restart
<1>2. SessionTypes' BY <1>1 DEF SessionInv, SessionTypes, Phases
<1>3. TranscriptInv(transcript)' BY <1>1 DEF SessionInv
<1>4. TurnInv' BY <1>1 DEF TurnInv
<1>5. RequestInv' BY <1>1, NotSent
<1> QED BY <1>2, <1>3, <1>4, <1>5 DEF SessionInv

-----------------------------------------------------------------------------
(* The theorems. *)

\* The invariant holds at first.
LEMMA SessionInit == Init => SessionInv
<1> SUFFICES ASSUME Init PROVE SessionInv OBVIOUS
<1>1. /\ transcript = <<>> /\ window \in Windows /\ auto = TRUE /\ phase = "idle" /\ calls = 0 /\ restarts = 0
  BY DEF Init
<1>2. SessionTypes BY <1>1 DEF SessionTypes, Phases
<1>3. TranscriptInv(transcript)
  <2>1. transcript \in Seq(StoredMessage) /\ DOMAIN transcript = {} BY <1>1
  <2>2. Effective(transcript) = {} /\ Checkpoints(transcript) = {} BY <2>1 DEF Effective, Checkpoints
  <2> QED BY <2>1, <2>2 DEF TranscriptInv
<1>4. TurnInv /\ RequestInv BY <1>1 DEF TurnInv, RequestInv, Sent
<1> QED BY <1>2, <1>3, <1>4 DEF SessionInv

\* Every step keeps the invariant.
LEMMA SessionStep == SessionInv /\ [Next]_vars => SessionInv'
<1> SUFFICES ASSUME SessionInv, [Next]_vars PROVE SessionInv' OBVIOUS
<1>1. CASE \E p \in Prompts : StartTurn(p) BY <1>1, StartTurnStep, Zenon
<1>2. CASE Prepare BY <1>2, PrepareStep
<1>3. CASE Project BY <1>3, ProjectStep
<1>4. CASE ModelAccepts BY <1>4, AcceptStep
<1>5. CASE ModelRejects BY <1>5, RejectStep
<1>6. CASE ForceCompaction BY <1>6, ForceStep
<1>7. CASE \E size \in Answers : Answer(size) BY <1>7, AnswerStep, Zenon
<1>8. CASE RetryAnswer BY <1>8, RetryStep
<1>9. CASE \E n \in 1..MaxBatch : CallTools(n) BY <1>9, CallStep, Zenon
<1>10. CASE \E outputs \in [1..calls -> Outputs] : ToolsDone(outputs) BY <1>10, DoneStep, Zenon
<1>11. CASE \E n \in 0..(calls - 1) : \E outputs \in [1..n -> Outputs] : InterruptTools(outputs)
  BY <1>11, InterruptStep, Zenon
<1>12. CASE \E w \in Windows, enabled \in BOOLEAN : Restart(w, enabled) BY <1>12, RestartStep, Zenon
<1>13. CASE UNCHANGED vars
  <2>1. UNCHANGED <<transcript, window, auto, phase, calls, request, restarts>> BY <1>13 DEF vars
  <2>2. SessionTypes' /\ TurnInv' BY <2>1 DEF SessionInv, SessionTypes, TurnInv
  <2>3. TranscriptInv(transcript)' BY <2>1 DEF SessionInv
  <2>4. RequestInv'
    <3>1. ProjectCompactionCheckpoints' = ProjectCompactionCheckpoints BY <2>1, Unchanged
    <3>2. Fits(request.messages) => Fits(request.messages)' BY <2>1 DEF Fits, Budgets
    <3> QED BY <2>1, <3>1, <3>2 DEF SessionInv, RequestInv, Sent
  <2> QED BY <2>2, <2>3, <2>4 DEF SessionInv
<1> QED BY <1>1, <1>2, <1>3, <1>4, <1>5, <1>6, <1>7, <1>8, <1>9, <1>10, <1>11, <1>12, <1>13, Zenon DEF Next

\* Whatever the sizes of the messages, the windows and the number of
\* restarts: the messages that are stored are ones the storage accepts, every
\* checkpoint stands for the messages before the tail it names, an answer is
\* followed by a prompt, and the request that is out accounts for all of it.
THEOREM SessionInvariant == Spec => []SessionInv
BY SessionInit, SessionStep, PTL DEF Spec

\* However often a session is compacted, restarted and resumed, the request
\* accounts for every stored message, once.
THEOREM Remembered == Spec => []NothingForgotten
<1>1. SessionInv => NothingForgotten
  BY Zenon DEF SessionInv, RequestInv, NothingForgotten, Accounted
<1> QED BY <1>1, SessionInvariant, PTL

\* The provider reads a legal conversation, wherever a compaction cut it.
THEOREM Legal == Spec => []RequestIsLegal
<1>1. SessionInv => RequestIsLegal
  <2> SUFFICES ASSUME SessionInv, Sent, NEW reminded \in BOOLEAN
               PROVE  LegalWire(StartAdapter(request.messages, reminded))
    BY Zenon DEF RequestIsLegal, LegalWire
  <2>1. LegalMessages(request.messages) BY DEF SessionInv, RequestInv
  <2> QED BY <2>1, AdaptedLegal
<1> QED BY <1>1, SessionInvariant, PTL

\* Windows whose input has an eighth below the cap of the margin.
SmallWindow(w) == w \in Nat /\ 2 <= w /\ w <= 32768

\* An estimate of e tokens, the output and the margin fit a window of w.
LeavesRoom(w, e) ==
  e + operationalMaxOutputTokens(w) + (w - operationalMaxOutputTokens(w)) \div 8 <= w
Usable(w, e) == e <= usableInput(deriveCompactionBudgets(w))

\* A request within the usable input leaves room for its output and a margin.
LEMMA RoomLeft ==
  ASSUME NEW w, SmallWindow(w), NEW e \in Nat, Usable(w, e)
  PROVE  LeavesRoom(w, e)
<1> DEFINE q == w \div 8
           out == operationalMaxOutputTokens(w)
           input == Higher(1, w - out)
           eighth == input \div 8
           safety == Lower(4096, Higher(1, eighth))
<1>0. w \in Nat /\ 2 <= w /\ w <= 32768 BY DEF SmallWindow
<1>1. q \in Nat /\ 8 * q <= w BY <1>0, Z3
<1>2. out = Lower(16384, Higher(1, q)) BY DEF operationalMaxOutputTokens
<1> HIDE DEF q, out
<1>3. out \in Nat /\ 1 <= out /\ out < w /\ out <= 4096
  BY <1>0, <1>1, <1>2 DEF Lower, Higher
<1>4. input = w - out /\ input \in Nat /\ 1 <= input /\ input <= 32768 BY <1>0, <1>3 DEF Higher
<1>5. deriveCompactionBudgets(w).input = input /\ deriveCompactionBudgets(w).safety = safety
  BY DEF deriveCompactionBudgets, out
<1>6. usableInput(deriveCompactionBudgets(w)) = Higher(1, input - safety)
  <2> HIDE DEF input, safety
  <2>1. usableInput(deriveCompactionBudgets(w)) =
          Higher(1, deriveCompactionBudgets(w).input - deriveCompactionBudgets(w).safety)
    BY DEF usableInput
  <2> QED BY <1>5, <2>1
<1> HIDE DEF input
<1>7. eighth \in Nat /\ 8 * eighth <= input BY <1>4
<1> HIDE DEF eighth
<1>8. e <= Higher(1, input - safety) BY <1>6 DEF Usable
<1>9. safety = Higher(1, eighth) BY <1>4, <1>7 DEF Lower, Higher
<1> HIDE DEF safety
<1>10. (w - out) \div 8 = eighth BY <1>4 DEF eighth
<1>11. e + eighth <= input
  <2>1. CASE eighth = 0 BY <1>4, <1>8, <1>9, <2>1 DEF Higher
  <2>2. CASE eighth > 0
    <3>1. safety = eighth BY <1>7, <1>9, <2>2 DEF Higher
    <3> QED BY <1>4, <1>7, <1>8, <2>2, <3>1 DEF Higher
  <2> QED BY <1>7, <2>1, <2>2
<1>12. e + out + eighth <= w BY <1>0, <1>3, <1>4, <1>7, <1>11
<1> QED BY <1>10, <1>12 DEF out, LeavesRoom

\* Up to 32768 tokens, where an eighth of the input is not yet above the cap
\* of the margin, every request leaves room for its output and the margin.
THEOREM RequestsFit ==
  ASSUME \A w \in Windows : SmallWindow(w)
  PROVE  Spec => []RequestFits
<1>1. SessionInv => RequestFits
  <2> SUFFICES ASSUME SessionInv, Sent, auto
               PROVE  Estimate(request.messages) + request.output + (window - request.output) \div 8 <= window
    BY DEF RequestFits
  <2>1. SmallWindow(window) BY DEF SessionInv, SessionTypes
  <2>2. request.messages \in Seq(SpokenMessage) BY DEF SessionInv, RequestInv, LegalMessages
  <2>3. Fits(request.messages) /\ request.output = operationalMaxOutputTokens(window)
    BY DEF SessionInv, RequestInv
  <2> DEFINE r == request.messages
  <2>4. r \in Seq(SpokenMessage) BY <2>2
  <2>5. Usable(window, Estimate(r)) BY <2>3 DEF Fits, Budgets, Usable
  <2> HIDE DEF r
  <2>6. Estimate(r) \in Nat BY <2>4, EstimateIs
  <2>7. LeavesRoom(window, Estimate(r)) BY <2>1, <2>5, <2>6, RoomLeft
  <2> QED BY <2>3, <2>7 DEF LeavesRoom, r
<1> QED BY <1>1, SessionInvariant, PTL

-----------------------------------------------------------------------------
(* A forced compaction sends less. *)

\* A request that carries only messages behind the latest checkpoint of T, and
\* not the first of them.
Shorter(T, new) ==
  /\ \A i \in DOMAIN T : Contains(new, T[i]) => \E k \in 1..Len(BaseOf(T)) : T[i] = BaseOf(T)[k]
  /\ Places(T)[1] \in DOMAIN T /\ T[Places(T)[1]] = BaseOf(T)[1]
  /\ ~Contains(new, T[Places(T)[1]])

\* What a request behind a shorter tail carries.
LEMMA ShorterTail ==
  ASSUME NEW T, TranscriptInv(T), T # <<>>, NEW start \in 1..Len(BaseOf(T)), start > 1,
         NEW summary \in Text, NEW recent \in HonestText,
         summary.of \cup recent.of = {k \in Effective(T) : k < Places(T)[start]},
         NEW new, new = projectCompactedMessages(summary, recent, Suffix(BaseOf(T), start))
  PROVE  Shorter(T, new)
<1> DEFINE b == BaseOf(T)
           p == Places(T)
           t == Suffix(b, start)
           off == Offset(t)
           E == Effective(T)
           before == {k \in E : k < p[start]}
<1>1. /\ Listing(p, Len(b), From(T, tailStart(T))) /\ Len(b) \in Nat /\ 1 \in 1..Len(b)
      /\ \A k \in 1..Len(b) : b[k] = T[p[k]] /\ b[k].text.of = {p[k]} /\ p[k] \in E
  BY BaseIs
<1>2. TailOf(t, b, p, start) BY BaseSuffix
<1> HIDE DEF t, b, p
<1>3. /\ t \in Seq(SpokenMessage) /\ t # <<>> /\ Len(t) = Len(b) - start + 1 /\ Len(t) \in Nat
      /\ \A k \in 1..Len(t) : start + k - 1 \in 1..Len(b) /\ t[k] = b[start + k - 1]
  BY <1>2 DEF TailOf
<1>4. /\ new \in Seq(SpokenMessage) /\ off \in {1, 2} /\ Len(new) = off + Len(t)
      /\ new[1].type = "assistant" /\ new[1].text.of = summary.of \cup recent.of
      /\ off = 2 => new[2].type = "runtime_event" /\ new[2].text.of = {}
      /\ \A k \in 1..Len(t) : new[off + k] = t[k]
  <2> DEFINE c == projectCompactedMessages(summary, recent, t)
  <2>1. new = c BY DEF t, b
  <2>2. /\ c \in Seq(SpokenMessage) /\ off \in {1, 2} /\ Len(c) = off + Len(t)
        /\ c[1].type = "assistant" /\ c[1].text.of = summary.of \cup recent.of
        /\ off = 2 => c[2].type = "runtime_event" /\ c[2].text.of = {}
        /\ \A k \in 1..Len(t) : c[off + k] = t[k]
    BY <1>3, ProjectedForm, SMTT(30)
  <2> HIDE DEF c
  <2> QED BY <2>1, <2>2
<1> HIDE DEF off
<1>5. new[1].text.of = before BY <1>4 DEF before, p, E
<1>6. start \in 1..Len(b) BY DEF b
<1>7. /\ \A k \in 1..Len(b) : p[k] \in Nat
      /\ \A k, l \in 1..Len(b) : k < l => p[k] < p[l]
  BY <1>1 DEF Listing
<1>8. /\ T \in Seq(StoredMessage) /\ Len(T) \in Nat /\ DOMAIN T = 1..Len(T) /\ E \in SUBSET (1..Len(T))
      /\ \A i \in 1..Len(T) : i \in E <=> T[i].type # "compaction_checkpoint"
      /\ \A i \in E : T[i].text.of = {i}
      /\ 1 \in DOMAIN T => T[1].type \in PromptTypes
  <2>1. T \in Seq(StoredMessage) BY DEF TranscriptInv
  <2>2. /\ Len(T) \in Nat /\ DOMAIN T = 1..Len(T) /\ E \in SUBSET (1..Len(T))
        /\ \A i \in 1..Len(T) : i \in E <=> T[i].type # "compaction_checkpoint"
    BY <2>1, EffectiveIs
  <2>3. /\ \A i \in E : T[i].text.of = {i}
        /\ 1 \in DOMAIN T => T[1].type \in PromptTypes
    BY DEF TranscriptInv
  <2> QED BY <2>1, <2>2, <2>3
<1>9. p[1] \in before
  <2>1. p[1] < p[start] BY <1>1, <1>6, <1>7
  <2> QED BY <1>1, <2>1
<1> HIDE DEF E, before
<1>10. \A i \in DOMAIN T : T[i].type # "compaction_checkpoint" => i \in E /\ T[i].text.of = {i} BY <1>8
<1>11. \A x \in 1..Len(new) : x = 1 \/ (x = 2 /\ off = 2) \/ (\E k \in 1..Len(t) : x = off + k)
  <2> SUFFICES ASSUME NEW x \in 1..Len(new), x # 1, ~(x = 2 /\ off = 2)
               PROVE  \E k \in 1..Len(t) : x = off + k
    OBVIOUS
  <2>1. x \in 1..(off + Len(t)) BY <1>4
  <2>2. x - off \in 1..Len(t) /\ x = off + (x - off) BY <1>3, <1>4, <2>1
  <2> QED BY <2>2
<1>12. ASSUME NEW i \in DOMAIN T, Contains(new, T[i])
       PROVE  \/ T[i].type = "assistant" /\ i = p[1]
              \/ \E k \in 2..Len(b) : T[i] = b[k]
  <2>1. PICK x \in 1..Len(new) : new[x] = T[i] BY <1>12 DEF Contains
  <2>2. CASE x = 1
    <3>1. T[i].type = "assistant" BY <1>4, <2>1, <2>2
    <3>2. T[i].text.of = {i} BY <1>10, <3>1
    <3>3. before = {i} BY <1>5, <2>1, <2>2, <3>2
    <3>4. i = p[1] BY <1>9, <3>3
    <3> QED BY <3>1, <3>4
  <2>3. CASE x = 2 /\ off = 2
    <3>1. T[i].type = "runtime_event" /\ T[i].text.of = {} BY <1>4, <2>1, <2>3
    <3>2. T[i].text.of = {i} BY <1>10, <3>1
    <3> QED BY <3>1, <3>2
  <2>4. CASE \E k \in 1..Len(t) : x = off + k
    <3>1. PICK k \in 1..Len(t) : x = off + k BY <2>4
    <3>2. T[i] = b[start + k - 1] /\ start + k - 1 \in 1..Len(b) BY <1>3, <1>4, <2>1, <3>1
    <3>3. start + k - 1 \in 2..Len(b) BY <1>3, <1>6, <3>1, <3>2
    <3> QED BY <3>2, <3>3
  <2> QED BY <1>11, <2>2, <2>3, <2>4
<1>13. p[1] \in DOMAIN T /\ T[p[1]] = b[1] BY <1>1, <1>8
<1>14. ASSUME NEW i \in DOMAIN T, Contains(new, T[i]) PROVE \E k \in 1..Len(b) : T[i] = b[k]
  <2>1. CASE i = p[1] BY <1>1, <1>13, <2>1
  <2>2. CASE \E k \in 2..Len(b) : T[i] = b[k]
    <3>1. PICK k \in 2..Len(b) : T[i] = b[k] BY <2>2
    <3>2. k \in 1..Len(b) BY <1>1
    <3> QED BY <3>1, <3>2
  <2> QED BY <1>12, <1>14, <2>1, <2>2
<1>15. ~Contains(new, T[p[1]])
  <2> SUFFICES ASSUME Contains(new, T[p[1]]) PROVE FALSE OBVIOUS
  <2>1. CASE T[p[1]].type = "assistant" /\ Contains(new, T[p[1]])
    <3>1. PICK x \in 1..Len(new) : new[x] = T[p[1]] BY DEF Contains
    <3>2. T[p[1]].text.of = {p[1]} /\ b[1].text.of = {p[1]} BY <1>1, <1>13
    <3>3. CASE x = 1
      <4>1. before = {p[1]} BY <1>5, <3>1, <3>2, <3>3
      <4>2. 1 \in DOMAIN T /\ 1 <= p[1] BY <1>8, <1>13
      <4>3. T[1].type \in PromptTypes BY <1>8, <4>2
      <4>4. 1 \in E BY <1>10, <4>2, <4>3 DEF PromptTypes
      <4>5. p[1] \in Nat /\ p[start] \in Nat /\ p[1] < p[start] BY <1>1, <1>6, <1>7
      <4>6. 1 \in before BY <4>2, <4>4, <4>5 DEF before
      <4>7. p[1] = 1 BY <4>1, <4>6
      <4> QED BY <2>1, <4>3, <4>7 DEF PromptTypes
    <3>4. CASE x = 2 /\ off = 2 BY <1>4, <3>1, <3>2, <3>4
    <3>5. CASE \E k \in 1..Len(t) : x = off + k
      <4>1. PICK k \in 1..Len(t) : x = off + k BY <3>5
      <4>2. T[p[1]] = b[start + k - 1] /\ start + k - 1 \in 1..Len(b) BY <1>3, <1>4, <3>1, <4>1
      <4>3. {p[1]} = {p[start + k - 1]} BY <1>1, <3>2, <4>2
      <4>4. 1 < start + k - 1 BY <1>6, <4>1
      <4>5. p[1] < p[start + k - 1] /\ p[1] \in Nat BY <1>1, <1>7, <4>2, <4>4
      <4> QED BY <4>3, <4>5, SMTT(30)
    <3> QED BY <1>11, <3>3, <3>4, <3>5
  <2>2. CASE \E k \in 2..Len(b) : T[p[1]] = b[k]
    <3>1. PICK k \in 2..Len(b) : T[p[1]] = b[k] BY <2>2
    <3>2. k \in 1..Len(b) /\ 1 < k BY <1>1
    <3>3. b[1].text.of = {p[1]} /\ b[k].text.of = {p[k]} BY <1>1, <3>2
    <3>4. {p[1]} = {p[k]} BY <1>13, <3>1, <3>3, Zenon
    <3>5. p[1] < p[k] /\ p[1] \in Nat BY <1>1, <1>7, <3>2
    <3> QED BY <3>4, <3>5
  <2> QED BY <1>12, <1>13, <2>1, <2>2
<1> QED BY <1>13, <1>14, <1>15 DEF b, p, Shorter

\* The request with the latest checkpoint applied carries every message
\* behind it, and the whole transcript if there is none.
LEMMA ProjectionCarries ==
  ASSUME TranscriptInv(transcript), transcript # <<>>,
         NEW i \in DOMAIN transcript,
         Previous = NoCheckpoint \/ \E k \in 1..Len(BaseOf(transcript)) : transcript[i] = BaseOf(transcript)[k]
  PROVE  Contains(ProjectCompactionCheckpoints, transcript[i])
<1> DEFINE T == transcript
           b == BaseOf(T)
           c == ProjectCompactionCheckpoints
<1>1. CASE Previous = NoCheckpoint
  <2>1. c = T BY <1>1 DEF ProjectCompactionCheckpoints
  <2>2. DOMAIN T = 1..Len(T)
    <3>1. T \in Seq(StoredMessage) BY DEF TranscriptInv
    <3> QED BY <3>1, EffectiveIs
  <2> HIDE DEF c
  <2>3. Contains(c, T[i]) BY <2>1, <2>2 DEF Contains
  <2> QED BY <2>3 DEF c
<1>2. CASE Previous # NoCheckpoint
  <2>1. c = projectCompactedMessages(Previous.summary, Previous.recent, b)
    BY <1>2 DEF ProjectCompactionCheckpoints, Base, BaseOf
  <2>2. Previous.summary \in Text /\ Previous.recent \in HonestText BY TailStart DEF Previous
  <2>3. b \in Seq(SpokenMessage) /\ b # <<>> BY BaseIs
  <2>4. PICK k \in 1..Len(b) : T[i] = b[k] BY <1>2
  <2> DEFINE off == Offset(b)
  <2> HIDE DEF b, c
  <2>5. off \in {1, 2} /\ Len(c) = off + Len(b) /\ \A l \in 1..Len(b) : c[off + l] = b[l]
    BY <2>1, <2>2, <2>3, ProjectedForm
  <2> HIDE DEF off
  <2>6. Len(b) \in Nat BY <2>3
  <2>7. off + k \in 1..Len(c) /\ c[off + k] = T[i] BY <2>4, <2>5, <2>6
  <2>8. Contains(c, T[i]) BY <2>7 DEF Contains
  <2> QED BY <2>8 DEF c
<1> QED BY <1>1, <1>2

\* A forced compaction carries messages of the request it replaces, and not
\* the first message behind the checkpoint before.
LEMMA ForcedStep ==
  ASSUME SessionInv, phase = "force", phase' = "start", ForceCompaction
  PROVE  /\ Verbatim(request'.messages) \subseteq Verbatim(request.messages)
         /\ Verbatim(request'.messages) # Verbatim(request.messages)
<1> DEFINE T == transcript
           b == BaseOf(T)
<1>1. TranscriptInv(T) /\ T # <<>> /\ request.messages = ProjectCompactionCheckpoints
  BY DEF SessionInv, TurnInv, RequestInv
<1>2. window \in Nat /\ window # 0 BY WindowIs DEF SessionInv, SessionTypes
<1>3. ~FailTurn BY DEF FailTurn
<1>4. PrepareCompacts(TRUE) BY <1>3 DEF ForceCompaction, PrepareFails
<1>5. PICK start \in {TailAt(TRUE)} \ {0} : \E history \in {History(start)} :
        \E s \in Summaries : \E summary \in {summarize(history.summarized, s)} :
        \E projected \in {projectCompactedMessages(summary, history.recent, Suffix(Base, start))} :
          request' = Request(projected, TRUE)
  BY <1>3, <1>4, Zenon DEF PrepareCompacts
<1>6. PICK history \in {History(start)} :
        \E s \in Summaries : \E summary \in {summarize(history.summarized, s)} :
        \E projected \in {projectCompactedMessages(summary, history.recent, Suffix(Base, start))} :
          request' = Request(projected, TRUE)
  BY <1>5, Zenon
<1>7. PICK s \in Summaries : \E summary \in {summarize(history.summarized, s)} :
        \E projected \in {projectCompactedMessages(summary, history.recent, Suffix(Base, start))} :
          request' = Request(projected, TRUE)
  BY <1>6, Zenon
<1> DEFINE summary == summarize(history.summarized, s)
           new == projectCompactedMessages(summary, history.recent, Suffix(Base, start))
<1>8. request' = Request(new, TRUE) BY <1>7, Zenon
<1>9. request'.messages = new
  <2> HIDE DEF new
  <2> QED BY <1>8 DEF Request
<1>10. start = TailAt(TRUE) /\ start # 0 /\ history = History(start) OBVIOUS
<1>11. start \in 1..Len(b) /\ start > 1 BY <1>1, <1>10, TailIs
<1>12. /\ history.summarized \in HonestText /\ history.recent \in HonestText
       /\ Previous.summary.of \cup history.summarized.of \cup history.recent.of =
            {k \in Effective(T) : k < Places(T)[start]}
  BY <1>1, <1>2, <1>10, <1>11, HistoryIs
<1>13. Previous.summary \in Text BY <1>1, TailStart DEF Previous
<1>14. history.summarized \in Text /\ s \in Nat \X Nat
  BY <1>12, CompactionAssumption DEF HonestText, CompactionAssumption
<1>15. summary \in Text /\ summary.of = Previous.summary.of \cup history.summarized.of
  BY <1>2, <1>13, <1>14, SummaryIs
<1>16. Base = b BY DEF Base, BaseOf
<1>17. new = projectCompactedMessages(summary, history.recent, Suffix(b, start)) BY <1>16
<1> HIDE DEF summary, new
<1>18. summary.of \cup history.recent.of = {k \in Effective(T) : k < Places(T)[start]} BY <1>12, <1>15
<1>19. /\ \A i \in DOMAIN T : Contains(new, T[i]) => \E k \in 1..Len(b) : T[i] = b[k]
       /\ Places(T)[1] \in DOMAIN T /\ T[Places(T)[1]] = b[1]
       /\ ~Contains(new, T[Places(T)[1]])
  <2>1. Shorter(T, new) BY <1>1, <1>11, <1>12, <1>15, <1>17, <1>18, ShorterTail
  <2> QED BY <2>1 DEF Shorter
<1>20. Verbatim(new) \subseteq Verbatim(request.messages)
  <2> SUFFICES ASSUME NEW i \in DOMAIN T, Contains(new, T[i])
               PROVE  Contains(ProjectCompactionCheckpoints, T[i])
    BY <1>1, Zenon DEF Verbatim
  <2>1. \E k \in 1..Len(b) : T[i] = b[k] BY <1>19
  <2> QED BY <1>1, <2>1, ProjectionCarries
<1>21. Places(T)[1] \notin Verbatim(new) BY <1>19, Zenon DEF Verbatim
<1>22. Places(T)[1] \in Verbatim(request.messages)
  <2>1. 1 \in 1..Len(b) BY <1>1, BaseIs
  <2>2. \E k \in 1..Len(b) : T[Places(T)[1]] = b[k] BY <1>19, <2>1
  <2>3. Contains(ProjectCompactionCheckpoints, T[Places(T)[1]]) BY <1>1, <1>19, <2>2, ProjectionCarries
  <2> QED BY <1>1, <1>19, <2>3, Zenon DEF Verbatim
<1>23. Verbatim(request'.messages) = Verbatim(new) BY <1>9
<1> QED BY <1>20, <1>21, <1>22, <1>23

\* The request of a forced compaction keeps fewer messages than the one the
\* provider has just refused, so the exchange cannot go on for ever.
THEOREM ForcedIsLess == Spec => ForcedSendsLess
<1>1. ASSUME SessionInv, Next, phase = "force", phase' = "start"
      PROVE  /\ Verbatim(request'.messages) \subseteq Verbatim(request.messages)
             /\ Verbatim(request'.messages) # Verbatim(request.messages)
  <2>1. ForceCompaction
    BY <1>1 DEF Next, StartTurn, Prepare, Project, ModelAccepts, ModelRejects, Answer, RetryAnswer,
                CallTools, ToolsDone, InterruptTools, Restart
  <2> QED BY <1>1, <2>1, ForcedStep
<1>2. SessionInv /\ [Next]_vars =>
        [phase = "force" /\ phase' = "start" =>
           /\ Verbatim(request'.messages) \subseteq Verbatim(request.messages)
           /\ Verbatim(request'.messages) # Verbatim(request.messages)]_vars
  BY <1>1
<1> QED BY <1>2, SessionInvariant, PTL DEF Spec, ForcedSendsLess
=============================================================================
