---------------------------- MODULE NumberFacts ----------------------------
(***************************************************************************)
(* A non-empty finite set of numbers has a least and a greatest one.  Used *)
(* wherever a program scans a container from the front until a condition   *)
(* holds, and where it takes the best of the prices that are there.  And a *)
(* sum over the places of a sequence grows by what is at the next place:   *)
(* a least place at which that failed would follow one at which it held.   *)
(* The same argument, as the lemma Climb, carries what holds of the sums:  *)
(* in whatever order they are taken and wherever they are reduced.         *)
(***************************************************************************)
EXTENDS RunningSum, Integers, FiniteSets, FiniteSetTheorems, WellFoundedInduction, TLAPS

\* No induction, only the well-foundedness of inclusion: the set of the
\* numbers up to the least one is the smallest of its kind.
LEMMA LeastNumber ==
    ASSUME NEW T \in SUBSET Int, IsFiniteSet(T), T # {}
    PROVE  \E m \in T : \A j \in T : m <= j
<1> DEFINE Upto(k) == {j \in T : j <= k}
           F == {Upto(k) : k \in T}
           R == StrictSubsetOrdering(T)
<1>1. IsWellFoundedOn(R, SUBSET T)
  BY FS_StrictSubsetOrderingWellFounded, FS_FiniteSubsetsOfFinite
<1>2. F \subseteq SUBSET T /\ F # {}
  OBVIOUS
<1>3. \E X \in F : \A Y \in F : <<Y, X>> \notin R
  <2> HIDE DEF F, R
  <2> QED BY <1>1, <1>2, WFMin
<1>4. PICK m \in T : \A Y \in F : <<Y, Upto(m)>> \notin R
  BY <1>3
<1>5. ASSUME NEW j \in T, j < m PROVE FALSE
  <2>1. Upto(j) \in F /\ Upto(j) \subseteq Upto(m)
    <3>1. Upto(j) \in F
      OBVIOUS
    <3>2. \A i \in Upto(j) : i \in Upto(m)
      BY <1>5
    <3> QED BY <3>1, <3>2
  <2>2. m \in Upto(m) /\ m \notin Upto(j)
    BY <1>5
  <2>3. <<Upto(j), Upto(m)>> \in R
    BY <2>1, <2>2 DEF StrictSubsetOrdering
  <2> QED BY <1>4, <2>1, <2>3
<1> QED BY <1>5

\* What is read at the places of a finite set is a finite set.
LEMMA FiniteImage ==
    ASSUME NEW S, IsFiniteSet(S), NEW f
    PROVE  IsFiniteSet({f[x] : x \in S})
<1> DEFINE T == {f[x] : x \in S}
           g == [x \in S |-> f[x]]
<1>1. g \in Surjection(S, T)
  BY DEF Surjection
<1> HIDE DEF g, T
<1>2. IsFiniteSet(T)
  BY <1>1, FS_Surjection
<1> QED BY <1>2 DEF T

LEMMA GreatestNumber ==
    ASSUME NEW T \in SUBSET Int, IsFiniteSet(T), T # {}
    PROVE  \E m \in T : \A j \in T : j <= m
<1> DEFINE f == [k \in T |-> -k]
           N == {f[k] : k \in T}
<1>1. IsFiniteSet(N)
  <2> HIDE DEF f
  <2> QED BY FiniteImage
<1>2. N \subseteq Int /\ N # {}
  <2>1. \A k \in T : f[k] \in Int /\ f[k] \in N
    OBVIOUS
  <2> HIDE DEF f
  <2> QED BY <2>1
<1>3. PICK m \in N : \A j \in N : m <= j
  <2> HIDE DEF N
  <2> QED BY <1>1, <1>2, LeastNumber
<1>4. PICK k \in T : m = f[k]
  OBVIOUS
<1>5. ASSUME NEW j \in T PROVE j <= k
  <2>1. m <= f[j]
    BY <1>3
  <2> QED BY <2>1, <1>4
<1> QED BY <1>5

\* The scan of positions 1 .. n for a non-empty set T of hits stops at a
\* first hit.
LEMMA LeastPosition ==
    ASSUME NEW n \in Nat, NEW T \in SUBSET (1 .. n), T # {}
    PROVE  \E m \in T : \A j \in T : m <= j
<1>1. IsFiniteSet(1 .. n)
  BY FS_Interval
<1>2. IsFiniteSet(T)
  BY <1>1, FS_Subset
<1>3. T \in SUBSET Int
  OBVIOUS
<1> QED BY <1>2, <1>3, LeastNumber

-----------------------------------------------------------------------------
\* A sum can be taken up to every place, for one up to the place before it can
\* be continued.
LEMMA SumExists ==
    ASSUME NEW n \in Nat, NEW u
    PROVE  \E sum : IsSumOf(sum, u, n)
<1> DEFINE Summed(m) == \E sum : IsSumOf(sum, u, m)
           Missing == {m \in 1 .. n : ~Summed(m)}
<1>1. Summed(0)
  <2> DEFINE f == [k \in 0 .. 0 |-> 0]
  <2>1. f = [k \in 0 .. 0 |-> IF k = 0 THEN 0 ELSE f[k - 1] + u[k]]
    OBVIOUS
  <2>2. IsSumOf(f, u, 0)
    BY <2>1 DEF IsSumOf
  <2> HIDE DEF f
  <2> QED BY <2>2
<1>2. ASSUME NEW m \in 1 .. n, Summed(m - 1) PROVE Summed(m)
  <2>1. PICK f : IsSumOf(f, u, m - 1)
    BY <1>2
  <2> DEFINE g == [k \in 0 .. m |-> IF k = m THEN f[m - 1] + u[m] ELSE f[k]]
  <2>2. \A k \in 0 .. m - 1 : f[k] = IF k = 0 THEN 0 ELSE f[k - 1] + u[k]
    BY <2>1 DEF IsSumOf
  <2>3. \A k \in 0 .. m : g[k] = IF k = 0 THEN 0 ELSE g[k - 1] + u[k]
    BY <2>2
  <2>4. g = [k \in 0 .. m |-> g[k]]
    OBVIOUS
  <2> HIDE DEF g
  <2>5. g = [k \in 0 .. m |-> IF k = 0 THEN 0 ELSE g[k - 1] + u[k]]
    BY <2>3, <2>4
  <2> QED BY <2>5 DEF IsSumOf
<1>3. Missing = {}
  <2> SUFFICES ASSUME Missing # {} PROVE FALSE
    OBVIOUS
  <2>1. PICK m \in Missing : \A j \in Missing : m <= j
    <3>1. Missing \in SUBSET (1 .. n)
      OBVIOUS
    <3> HIDE DEF Missing
    <3> QED BY <3>1, LeastPosition
  <2>2. m \in 1 .. n /\ ~Summed(m)
    OBVIOUS
  <2>3. Summed(m - 1)
    <3> HIDE DEF Summed
    <3>1. CASE m = 1
      BY <3>1, <1>1
    <3>2. CASE m # 1
      BY <3>2, <2>1, <2>2
    <3> QED BY <3>1, <3>2
  <2> QED BY <1>2, <2>2, <2>3
<1> QED BY <1>1, <1>3

\* Two sums over the same beginning agree on it.
LEMMA SumsAgree ==
    ASSUME NEW m \in Nat, NEW n \in Nat, m <= n, NEW u, NEW v,
           \A k \in 1 .. m : u[k] = v[k],
           NEW f, IsSumOf(f, u, m), NEW g, IsSumOf(g, v, n)
    PROVE  \A k \in 0 .. m : f[k] = g[k]
<1> DEFINE Apart == {k \in 1 .. m : f[k] # g[k]}
<1>1. /\ \A k \in 0 .. m : f[k] = IF k = 0 THEN 0 ELSE f[k - 1] + u[k]
      /\ \A k \in 0 .. m : g[k] = IF k = 0 THEN 0 ELSE g[k - 1] + v[k]
  BY DEF IsSumOf
<1>2. f[0] = g[0]
  BY <1>1
<1>3. Apart = {}
  <2> SUFFICES ASSUME Apart # {} PROVE FALSE
    OBVIOUS
  <2>1. PICK k \in Apart : \A j \in Apart : k <= j
    <3>1. Apart \in SUBSET (1 .. m)
      OBVIOUS
    <3> HIDE DEF Apart
    <3> QED BY <3>1, LeastPosition
  <2>2. k \in 1 .. m /\ f[k] # g[k]
    OBVIOUS
  <2>3. f[k - 1] = g[k - 1]
    BY <2>1, <1>2
  <2>4. f[k] = f[k - 1] + u[k] /\ g[k] = g[k - 1] + v[k]
    BY <1>1, <2>2
  <2> QED BY <2>2, <2>3, <2>4
<1> QED BY <1>2, <1>3

LEMMA SumToIs ==
    ASSUME NEW n \in Nat, NEW u
    PROVE  \E f : IsSumOf(f, u, n) /\ SumTo(u, n) = f[n]
<1> DEFINE f == CHOOSE sum : IsSumOf(sum, u, n)
<1>1. IsSumOf(f, u, n)
  BY SumExists
<1>2. SumTo(u, n) = f[n]
  BY DEF SumTo, IsSumOf
<1> QED BY <1>1, <1>2

LEMMA SumToNone == ASSUME NEW u PROVE SumTo(u, 0) = 0
<1>1. PICK f : IsSumOf(f, u, 0) /\ SumTo(u, 0) = f[0]
  BY SumToIs
<1> QED BY <1>1 DEF IsSumOf

\* One place more adds what is there.
LEMMA SumToNext ==
    ASSUME NEW n \in Nat, NEW u, NEW v, \A k \in 1 .. n : v[k] = u[k]
    PROVE  SumTo(u, n + 1) = SumTo(v, n) + u[n + 1]
<1>1. PICK f : IsSumOf(f, u, n + 1) /\ SumTo(u, n + 1) = f[n + 1]
  <2>1. n + 1 \in Nat
    OBVIOUS
  <2> QED BY <2>1, SumToIs
<1>2. PICK g : IsSumOf(g, v, n) /\ SumTo(v, n) = g[n]
  BY SumToIs
<1>3. g[n] = f[n]
  BY <1>1, <1>2, SumsAgree
<1>4. f[n + 1] = f[n] + u[n + 1]
  BY <1>1 DEF IsSumOf
<1> QED BY <1>1, <1>2, <1>3, <1>4


-----------------------------------------------------------------------------
\* A set that holds 0 and with each number up to n - 1 the next one holds all
\* of 0 .. n: the first one missing would follow one that is there.
LEMMA Climb ==
    ASSUME NEW n \in Nat, NEW S, 0 \in S, \A k \in 1 .. n : k - 1 \in S => k \in S
    PROVE  0 .. n \subseteq S
<1> DEFINE Missing == {k \in 1 .. n : k \notin S}
<1>1. Missing = {}
  <2> SUFFICES ASSUME Missing # {} PROVE FALSE
    OBVIOUS
  <2>1. PICK m \in Missing : \A j \in Missing : m <= j
    <3>1. Missing \in SUBSET (1 .. n)
      OBVIOUS
    <3> HIDE DEF Missing
    <3> QED BY <3>1, LeastPosition
  <2>2. m \in 1 .. n /\ m \notin S
    OBVIOUS
  <2>3. m - 1 \in S
    <3>1. CASE m = 1
      BY <3>1
    <3>2. CASE m # 1
      BY <3>2, <2>1, <2>2
    <3> QED BY <3>1, <3>2
  <2> QED BY <2>2, <2>3
<1> QED BY <1>1

\* Sums of positive numbers ascend.
LEMMA SumsAscend ==
    ASSUME NEW n \in Nat, NEW u, \A k \in 1 .. n : u[k] \in Nat \ {0}
    PROVE  /\ \A k \in 0 .. n : SumTo(u, k) \in Nat
           /\ \A k \in 1 .. n : SumTo(u, k) = SumTo(u, k - 1) + u[k]
           /\ \A j, k \in 0 .. n : j < k => SumTo(u, j) < SumTo(u, k)
<1>1. \A k \in 1 .. n : SumTo(u, k) = SumTo(u, k - 1) + u[k]
  <2> TAKE k \in 1 .. n
  <2>1. k - 1 \in Nat
    OBVIOUS
  <2>2. SumTo(u, (k - 1) + 1) = SumTo(u, k - 1) + u[(k - 1) + 1]
    BY <2>1, SumToNext
  <2>3. (k - 1) + 1 = k
    OBVIOUS
  <2> QED BY <2>2, <2>3
<1>2. \A k \in 0 .. n : SumTo(u, k) \in Nat
  <2> DEFINE S == {k \in 0 .. n : SumTo(u, k) \in Nat}
  <2>1. 0 \in S
    BY SumToNone
  <2>2. \A k \in 1 .. n : k - 1 \in S => k \in S
    BY <1>1
  <2>3. 0 .. n \subseteq S
    <3> HIDE DEF S
    <3> QED BY <2>1, <2>2, Climb
  <2> QED BY <2>3
<1>3. ASSUME NEW j \in 0 .. n PROVE \A k \in 0 .. n : j < k => SumTo(u, j) < SumTo(u, k)
  <2> DEFINE S == {k \in 0 .. n : j < k => SumTo(u, j) < SumTo(u, k)}
  <2>1. 0 \in S
    OBVIOUS
  <2>2. ASSUME NEW k \in 1 .. n, k - 1 \in S PROVE k \in S
    <3>1. SumTo(u, k - 1) < SumTo(u, k)
      BY <1>1, <1>2
    <3>2. j < k => j = k - 1 \/ j < k - 1
      OBVIOUS
    <3>3. SumTo(u, j) \in Nat /\ SumTo(u, k) \in Nat /\ SumTo(u, k - 1) \in Nat
      BY <1>2
    <3> QED BY <3>1, <3>2, <3>3, <2>2
  <2>3. 0 .. n \subseteq S
    <3> HIDE DEF S
    <3> QED BY <2>1, <2>2, Climb
  <2> QED BY <2>3
<1> QED BY <1>1, <1>2, <1>3

\* Of numbers in ascending order, k are no greater than the k-th.
LEMMA CountUpTo ==
    ASSUME NEW n \in Nat, NEW f \in [1 .. n -> Int], \A j, k \in 1 .. n : j < k => f[j] < f[k]
    PROVE  \A k \in 1 .. n : Cardinality({x \in {f[j] : j \in 1 .. n} : x <= f[k]}) = k
<1> DEFINE U(k) == {f[j] : j \in 1 .. k}
           S == {k \in 0 .. n : IsFiniteSet(U(k)) /\ Cardinality(U(k)) = k}
<1>1. 0 \in S
  <2>1. U(0) = {}
    OBVIOUS
  <2>2. IsFiniteSet({}) /\ Cardinality({}) = 0
    BY FS_EmptySet
  <2>3. 0 \in 0 .. n
    OBVIOUS
  <2> HIDE DEF U
  <2> QED BY <2>1, <2>2, <2>3
<1>2. ASSUME NEW k \in 1 .. n, k - 1 \in S PROVE k \in S
  <2>1. U(k) = U(k - 1) \cup {f[k]}
    <3>1. \A j : j \in 1 .. k <=> j \in 1 .. k - 1 \/ j = k
      OBVIOUS
    <3> QED BY <3>1
  <2>2. f[k] \notin U(k - 1)
    <3> SUFFICES ASSUME NEW j \in 1 .. k - 1, f[k] = f[j] PROVE FALSE
      OBVIOUS
    <3>1. f[j] < f[k] /\ f[j] \in Int
      OBVIOUS
    <3> QED BY <3>1
  <2> HIDE DEF U
  <2>3. IsFiniteSet(U(k)) /\ Cardinality(U(k)) = Cardinality(U(k - 1)) + 1
    BY <1>2, <2>1, <2>2, FS_AddElement
  <2> QED BY <1>2, <2>3
<1>3. 0 .. n \subseteq S
  <2> HIDE DEF S
  <2> QED BY <1>1, <1>2, Climb
<1>4. ASSUME NEW k \in 1 .. n PROVE {x \in {f[j] : j \in 1 .. n} : x <= f[k]} = U(k)
  <2>1. \A j \in 1 .. n : f[j] <= f[k] <=> j <= k
    <3> TAKE j \in 1 .. n
    <3>1. f[j] \in Int /\ f[k] \in Int
      OBVIOUS
    <3>2. j < k \/ j = k \/ k < j
      OBVIOUS
    <3> QED BY <3>1, <3>2
  <2> QED BY <2>1
<1>5. \A k \in 1 .. n : Cardinality(U(k)) = k
  <2> HIDE DEF U
  <2> TAKE k \in 1 .. n
  <2>1. k \in S
    <3>1. k \in 0 .. n
      OBVIOUS
    <3> HIDE DEF S
    <3> QED BY <3>1, <1>3
  <2> QED BY <2>1
<1> HIDE DEF U
<1> QED BY <1>4, <1>5

-----------------------------------------------------------------------------
(***************************************************************************)
(* Quotient and remainder, by any divisor.  A number has one of each, so   *)
(* what differs by a multiple of the divisor has the same remainder, and a *)
(* sum has the remainder of the sum of remainders.                         *)
(***************************************************************************)
LEMMA Division ==
    ASSUME NEW m \in Nat \ {0}, NEW x \in Int
    PROVE  \E q \in Int, r \in 0 .. m - 1 : x \div m = q /\ x % m = r /\ x = m * q + r
<1> DEFINE q == x \div m
           r == x % m
<1>1. q \in Int /\ r \in 0 .. m - 1
  OBVIOUS
<1>2. q = x \div m /\ r = x % m
  OBVIOUS
<1> HIDE DEF q, r
<1>3. x = m * q + r
  BY <1>1, <1>2
<1> QED BY <1>1, <1>2, <1>3

LEMMA NoMultipleBetween ==
    ASSUME NEW m \in Nat \ {0}, NEW d \in Int, m * d < m, -m < m * d
    PROVE  d = 0
<1>1. CASE d >= 1
  <2>1. m * d >= m
    BY <1>1
  <2> QED BY <2>1
<1>2. CASE d <= -1
  <2>1. m * d <= -m
    BY <1>2
  <2> QED BY <2>1
<1> QED BY <1>1, <1>2

LEMMA DivisionIs ==
    ASSUME NEW m \in Nat \ {0}, NEW i \in Int, NEW j \in 0 .. m - 1, NEW x, x = m * i + j
    PROVE  x \div m = i /\ x % m = j
<1>0. x \in Int
  OBVIOUS
<1>1. PICK q \in Int, r \in 0 .. m - 1 : x \div m = q /\ x % m = r /\ x = m * q + r
  BY <1>0, Division
<1>3. m * (q - i) = j - r
  BY <1>1
<1>4. q - i = 0
  BY <1>3, NoMultipleBetween
<1> QED BY <1>1, <1>4

\* What differs by a multiple of m has the same remainder.
LEMMA SameRemainder ==
    ASSUME NEW m \in Nat \ {0}, NEW x \in Int, NEW c \in Int, NEW y, y = x + m * c
    PROVE  y % m = x % m
<1>1. PICK q \in Int, r \in 0 .. m - 1 : x \div m = q /\ x % m = r /\ x = m * q + r
  BY Division
<1> DEFINE e == q + c
<1>2. e \in Int /\ y = m * e + r
  BY <1>1
<1> HIDE DEF e
<1>3. y % m = r
  BY <1>2, DivisionIs
<1> QED BY <1>1, <1>3

LEMMA RemainderOfSum ==
    ASSUME NEW m \in Nat \ {0}, NEW x \in Int, NEW y \in Int
    PROVE  ((x % m) + y) % m = (x + y) % m /\ (x + (y % m)) % m = (x + y) % m
<1>1. PICK q \in Int, r \in 0 .. m - 1 : x % m = r /\ x = m * q + r
  BY Division
<1>2. PICK p \in Int, s \in 0 .. m - 1 : y % m = s /\ y = m * p + s
  BY Division
<1>3. (x + y) % m = (r + y) % m
  <2>1. r + y \in Int /\ x + y = (r + y) + m * q
    BY <1>1
  <2> QED BY <2>1, SameRemainder
<1>4. (x + y) % m = (x + s) % m
  <2>1. x + s \in Int /\ x + y = (x + s) + m * p
    BY <1>2
  <2> QED BY <2>1, SameRemainder
<1> QED BY <1>1, <1>2, <1>3, <1>4

-----------------------------------------------------------------------------
(***************************************************************************)
(* Sums.  A sum of integers is one, equal terms give equal sums, and a sum *)
(* may be taken term by term, row by row, rows first or columns first, and *)
(* with every term or every step reduced.                                  *)
(***************************************************************************)
Numbers(u, n) == \A k \in 1 .. n : u[k] \in Int

LEMMA SumsAreInts ==
    ASSUME NEW n \in Nat, NEW u, Numbers(u, n)
    PROVE  /\ \A k \in 0 .. n : SumTo(u, k) \in Int
           /\ \A k \in 1 .. n : SumTo(u, k) = SumTo(u, k - 1) + u[k]
<1>1. \A k \in 1 .. n : SumTo(u, k) = SumTo(u, k - 1) + u[k]
  <2>1. ASSUME NEW k \in 1 .. n PROVE SumTo(u, k) = SumTo(u, k - 1) + u[k]
    <3> DEFINE j == k - 1
    <3>1. j \in Nat /\ j + 1 = k
      OBVIOUS
    <3> HIDE DEF j
    <3>2. SumTo(u, j + 1) = SumTo(u, j) + u[j + 1]
      BY <3>1, SumToNext
    <3> QED BY <3>1, <3>2 DEF j
  <2> QED BY <2>1
<1> DEFINE S == {k \in 0 .. n : SumTo(u, k) \in Int}
<1>2. 0 \in S
  BY SumToNone
<1>3. ASSUME NEW k \in 1 .. n, k - 1 \in S PROVE k \in S
  BY <1>1, <1>3 DEF Numbers
<1>4. 0 .. n \subseteq S
  <2> HIDE DEF S
  <2> QED BY <1>2, <1>3, Climb
<1> QED BY <1>1, <1>4

LEMMA SameSums ==
    ASSUME NEW n \in Nat, NEW u, NEW v, \A k \in 1 .. n : u[k] = v[k]
    PROVE  SumTo(u, n) = SumTo(v, n)
<1>1. PICK f : IsSumOf(f, u, n) /\ SumTo(u, n) = f[n]
  BY SumToIs
<1>2. PICK g : IsSumOf(g, v, n) /\ SumTo(v, n) = g[n]
  BY SumToIs
<1>3. \A k \in 0 .. n : f[k] = g[k]
  BY <1>1, <1>2, SumsAgree
<1> QED BY <1>1, <1>2, <1>3

LEMMA SumOfSums ==
    ASSUME NEW n \in Nat, NEW u, NEW v, NEW w, Numbers(u, n), Numbers(v, n),
           \A k \in 1 .. n : w[k] = u[k] + v[k]
    PROVE  SumTo(w, n) = SumTo(u, n) + SumTo(v, n)
<1> DEFINE S == {k \in 0 .. n : SumTo(w, k) = SumTo(u, k) + SumTo(v, k)}
<1>0. Numbers(w, n)
  BY DEF Numbers
<1>1. 0 \in S
  BY SumToNone
<1>2. ASSUME NEW k \in 1 .. n, k - 1 \in S PROVE k \in S
  <2>1. /\ SumTo(u, k) = SumTo(u, k - 1) + u[k] /\ SumTo(u, k - 1) \in Int
        /\ SumTo(v, k) = SumTo(v, k - 1) + v[k] /\ SumTo(v, k - 1) \in Int
        /\ SumTo(w, k) = SumTo(w, k - 1) + w[k]
    BY <1>0, SumsAreInts
  <2>2. w[k] = u[k] + v[k] /\ u[k] \in Int /\ v[k] \in Int
    BY DEF Numbers
  <2>3. SumTo(w, k - 1) = SumTo(u, k - 1) + SumTo(v, k - 1)
    BY <1>2
  <2> QED BY <2>1, <2>2, <2>3
<1>3. 0 .. n \subseteq S
  <2> HIDE DEF S
  <2> QED BY <1>1, <1>2, Climb
<1> QED BY <1>3

LEMMA SumTimes ==
    ASSUME NEW n \in Nat, NEW u, NEW c \in Int, NEW w, Numbers(u, n), \A k \in 1 .. n : w[k] = c * u[k]
    PROVE  SumTo(w, n) = c * SumTo(u, n)
<1> DEFINE S == {k \in 0 .. n : SumTo(w, k) = c * SumTo(u, k)}
<1>0. Numbers(w, n)
  BY DEF Numbers
<1>1. 0 \in S
  BY SumToNone
<1>2. ASSUME NEW k \in 1 .. n, k - 1 \in S PROVE k \in S
  <2>1. /\ SumTo(u, k) = SumTo(u, k - 1) + u[k] /\ SumTo(u, k - 1) \in Int
        /\ SumTo(w, k) = SumTo(w, k - 1) + w[k]
    BY <1>0, SumsAreInts
  <2>2. w[k] = c * u[k] /\ u[k] \in Int
    BY DEF Numbers
  <2>3. SumTo(w, k - 1) = c * SumTo(u, k - 1)
    BY <1>2
  <2> QED BY <2>1, <2>2, <2>3
<1>3. 0 .. n \subseteq S
  <2> HIDE DEF S
  <2> QED BY <1>1, <1>2, Climb
<1> QED BY <1>3

\* One term more by d, the sum more by d.
LEMMA SumChanged ==
    ASSUME NEW n \in Nat, NEW u, NEW v, Numbers(u, n), NEW r \in 1 .. n, NEW d \in Int,
           v[r] = u[r] + d, \A k \in 1 .. n : k # r => v[k] = u[k]
    PROVE  SumTo(v, n) = SumTo(u, n) + d
<1> DEFINE S == {k \in 0 .. n : SumTo(v, k) = SumTo(u, k) + (IF r <= k THEN d ELSE 0)}
<1>0. Numbers(v, n)
  BY DEF Numbers
<1>1. 0 \in S
  BY SumToNone
<1>2. ASSUME NEW k \in 1 .. n, k - 1 \in S PROVE k \in S
  <2>1. /\ SumTo(u, k) = SumTo(u, k - 1) + u[k] /\ SumTo(u, k - 1) \in Int
        /\ SumTo(v, k) = SumTo(v, k - 1) + v[k]
    BY <1>0, SumsAreInts
  <2>2. u[k] \in Int /\ (k = r => v[k] = u[k] + d) /\ (k # r => v[k] = u[k])
    BY DEF Numbers
  <2>3. SumTo(v, k - 1) = SumTo(u, k - 1) + (IF r <= k - 1 THEN d ELSE 0)
    BY <1>2
  <2> QED BY <2>1, <2>2, <2>3
<1>3. 0 .. n \subseteq S
  <2> HIDE DEF S
  <2> QED BY <1>1, <1>2, Climb
<1>4. n \in S
  BY <1>3
<1> QED BY <1>4

LEMMA SumOfNothing ==
    ASSUME NEW n \in Nat, NEW u, \A k \in 1 .. n : u[k] = 0
    PROVE  SumTo(u, n) = 0
<1> DEFINE S == {k \in 0 .. n : SumTo(u, k) = 0}
<1>0. Numbers(u, n)
  BY DEF Numbers
<1>1. 0 \in S
  BY SumToNone
<1>2. ASSUME NEW k \in 1 .. n, k - 1 \in S PROVE k \in S
  BY <1>0, <1>2, SumsAreInts
<1>3. 0 .. n \subseteq S
  <2> HIDE DEF S
  <2> QED BY <1>1, <1>2, Climb
<1> QED BY <1>3

LEMMA SumAppended ==
    ASSUME NEW p \in Nat, NEW n \in Nat, NEW u, NEW w, Numbers(u, p + n), \A k \in 1 .. n : w[k] = u[p + k]
    PROVE  SumTo(u, p + n) = SumTo(u, p) + SumTo(w, n)
<1> DEFINE S == {k \in 0 .. n : SumTo(u, p + k) = SumTo(u, p) + SumTo(w, k)}
<1>0. Numbers(w, n)
  <2>1. \A k \in 1 .. n : p + k \in 1 .. p + n
    OBVIOUS
  <2> QED BY <2>1 DEF Numbers
<1>1. 0 \in S
  <2>1. p + n \in Nat /\ p \in 0 .. p + n
    OBVIOUS
  <2>2. SumTo(u, p) \in Int
    BY <2>1, SumsAreInts
  <2> QED BY <2>2, SumToNone
<1>2. ASSUME NEW k \in 1 .. n, k - 1 \in S PROVE k \in S
  <2>1. SumTo(w, k) = SumTo(w, k - 1) + w[k] /\ SumTo(w, k - 1) \in Int
    BY <1>0, SumsAreInts
  <2>2. p + n \in Nat /\ p \in 0 .. p + n /\ p + k \in 1 .. p + n /\ (p + k) - 1 = p + (k - 1)
    OBVIOUS
  <2>3. SumTo(u, p + k) = SumTo(u, (p + k) - 1) + u[p + k] /\ SumTo(u, p) \in Int
    BY <2>2, SumsAreInts
  <2>4. w[k] = u[p + k] /\ w[k] \in Int
    BY <1>0 DEF Numbers
  <2>5. SumTo(u, p + (k - 1)) = SumTo(u, p) + SumTo(w, k - 1)
    BY <1>2
  <2>6. SumTo(u, p + k) = SumTo(u, p) + SumTo(w, k)
    BY <2>1, <2>2, <2>3, <2>4, <2>5
  <2> QED BY <2>6
<1>3. 0 .. n \subseteq S
  <2> HIDE DEF S
  <2> QED BY <1>1, <1>2, Climb
<1>4. n \in S
  BY <1>3
<1> QED BY <1>4

\* A sum taken row by row.
RowsOf(row, u, m, n) == \A i \in 1 .. m : \A k \in 1 .. n : row[i][k] = u[n * (i - 1) + k]

SumsOf(u, row, m, n) == \A i \in 1 .. m : u[i] = SumTo(row[i], n)

LEMMA SumOfRows ==
    ASSUME NEW m \in Nat, NEW n \in Nat, NEW u, Numbers(u, n * m),
           NEW row, RowsOf(row, u, m, n), NEW v, SumsOf(v, row, m, n)
    PROVE  SumTo(u, n * m) = SumTo(v, m)
<1>1. \A i \in 1 .. m : \A k \in 1 .. n : row[i][k] = u[n * (i - 1) + k]
  BY DEF RowsOf
<1>2. \A i \in 1 .. m : v[i] = SumTo(row[i], n)
  BY DEF SumsOf
<1> DEFINE S == {i \in 0 .. m : SumTo(u, n * i) = SumTo(v, i)}
<1>3. ASSUME NEW i \in 1 .. m
      PROVE  /\ n * (i - 1) \in Nat /\ n * i = n * (i - 1) + n /\ n * i \in Nat
             /\ n * i <= n * m /\ n * (i - 1) <= n * m
  <2>1. i - 1 \in Nat /\ i \in Nat /\ m - i \in Nat
    OBVIOUS
  <2>2. n * (i - 1) \in Nat /\ n * i \in Nat /\ n * (m - i) \in Nat
    BY <2>1
  <2>3. n * i = n * (i - 1) + n /\ n * m = n * i + n * (m - i)
    BY <2>1
  <2> QED BY <2>2, <2>3
<1>4. ASSUME NEW i \in 1 .. m PROVE Numbers(row[i], n)
  <2> DEFINE p == n * (i - 1)
             q == n * m
  <2>1. p \in Nat /\ p + n <= q /\ q \in Nat
    BY <1>3
  <2>2. \A k \in 1 .. n : row[i][k] = u[p + k]
    BY <1>1
  <2>3. Numbers(u, q)
    OBVIOUS
  <2> HIDE DEF p, q
  <2>4. \A k \in 1 .. n : p + k \in 1 .. q
    BY <2>1
  <2> QED BY <2>2, <2>3, <2>4 DEF Numbers
<1>5. Numbers(v, m)
  <2>1. ASSUME NEW i \in 1 .. m PROVE SumTo(row[i], n) \in Int
    BY <1>4, SumsAreInts
  <2> QED BY <1>2, <2>1 DEF Numbers
<1>6. 0 \in S
  <2>1. n * 0 = 0
    OBVIOUS
  <2> QED BY <2>1, SumToNone
<1>7. ASSUME NEW i \in 1 .. m, i - 1 \in S PROVE i \in S
  <2> DEFINE p == n * (i - 1)
             q == n * i
             M == n * m
  <2>1. p \in Nat /\ q = p + n /\ q <= M /\ M \in Nat
    BY <1>3
  <2>2. \A k \in 1 .. n : row[i][k] = u[p + k]
    BY <1>1
  <2>3. Numbers(u, M)
    OBVIOUS
  <2>4. SumTo(u, p) = SumTo(v, i - 1)
    BY <1>7
  <2>5. SumTo(v, i) = SumTo(v, i - 1) + v[i] /\ v[i] = SumTo(row[i], n)
    BY <1>5, <1>2, SumsAreInts
  <2> HIDE DEF p, q, M
  <2>6. Numbers(u, p + n)
    BY <2>1, <2>3 DEF Numbers
  <2>7. SumTo(u, p + n) = SumTo(u, p) + SumTo(row[i], n)
    BY <2>1, <2>2, <2>6, SumAppended
  <2>8. SumTo(u, q) = SumTo(v, i)
    BY <2>1, <2>4, <2>5, <2>7
  <2> QED BY <2>8 DEF q
<1>8. 0 .. m \subseteq S
  <2> HIDE DEF S
  <2> QED BY <1>6, <1>7, Climb
<1>9. m \in S
  BY <1>8
<1> QED BY <1>9

\* Rows first or columns first.
Transposed(row, col, m, n) ==
    \A i \in 1 .. m : \A k \in 1 .. n : row[i][k] = col[k][i] /\ col[k][i] \in Int

LEMMA SumsSwap ==
    ASSUME NEW m \in Nat, NEW n \in Nat, NEW row, NEW col, Transposed(row, col, m, n),
           NEW u, SumsOf(u, row, m, n), NEW v, SumsOf(v, col, n, m)
    PROVE  SumTo(u, m) = SumTo(v, n)
<1>1. \A i \in 1 .. m : \A k \in 1 .. n : row[i][k] = col[k][i] /\ col[k][i] \in Int
  BY DEF Transposed
<1>2. /\ \A i \in 1 .. m : u[i] = SumTo(row[i], n)
      /\ \A k \in 1 .. n : v[k] = SumTo(col[k], m)
  BY DEF SumsOf
<1> DEFINE upto(h) == [k \in 1 .. n |-> SumTo(col[k], h)]
           S == {h \in 0 .. m : SumTo(u, h) = SumTo(upto(h), n)}
<1>3. \A k \in 1 .. n : Numbers(col[k], m)
  BY <1>1 DEF Numbers
<1>4. \A i \in 1 .. m : Numbers(row[i], n)
  BY <1>1 DEF Numbers
<1>5. Numbers(u, m)
  <2>1. ASSUME NEW i \in 1 .. m PROVE SumTo(row[i], n) \in Int
    BY <1>4, SumsAreInts
  <2> QED BY <1>2, <2>1 DEF Numbers
<1>6. 0 \in S
  <2>1. \A k \in 1 .. n : upto(0)[k] = 0
    BY SumToNone
  <2> DEFINE z == upto(0)
  <2> HIDE DEF z
  <2>2. SumTo(z, n) = 0
    BY <2>1, SumOfNothing DEF z
  <2> QED BY <2>2, SumToNone DEF z
<1>7. ASSUME NEW h \in 1 .. m, h - 1 \in S PROVE h \in S
  <2> DEFINE w == upto(h)
             z == upto(h - 1)
  <2>1. ASSUME NEW k \in 1 .. n PROVE z[k] \in Int /\ w[k] = z[k] + row[h][k]
    BY <1>1, <1>3, SumsAreInts
  <2>2. SumTo(u, h - 1) = SumTo(z, n)
    BY <1>7
  <2> HIDE DEF w, z
  <2>3. SumTo(w, n) = SumTo(z, n) + SumTo(row[h], n)
    <3>1. Numbers(z, n)
      BY <2>1 DEF Numbers
    <3> QED BY <3>1, <2>1, <1>4, SumOfSums
  <2>4. SumTo(u, h) = SumTo(u, h - 1) + u[h] /\ u[h] = SumTo(row[h], n)
    BY <1>2, <1>5, SumsAreInts
  <2>5. SumTo(u, h) = SumTo(w, n)
    BY <2>2, <2>3, <2>4
  <2> QED BY <2>5 DEF w
<1>8. 0 .. m \subseteq S
  <2> HIDE DEF S
  <2> QED BY <1>6, <1>7, Climb
<1>9. SumTo(u, m) = SumTo(upto(m), n)
  BY <1>8
<1>10. SumTo(upto(m), n) = SumTo(v, n)
  <2> DEFINE w == upto(m)
  <2>1. \A k \in 1 .. n : w[k] = v[k]
    BY <1>2
  <2> HIDE DEF w
  <2> QED BY <2>1, SameSums DEF w
<1> QED BY <1>9, <1>10

-----------------------------------------------------------------------------
\* Terms reduced or not, the remainder of the sum is the same.
LEMMA SumOfRemainders ==
    ASSUME NEW n \in Nat, NEW m \in Nat \ {0}, NEW u, Numbers(u, n), NEW w,
           \A k \in 1 .. n : w[k] = u[k] % m
    PROVE  SumTo(w, n) % m = SumTo(u, n) % m
<1> DEFINE S == {k \in 0 .. n : SumTo(w, k) % m = SumTo(u, k) % m}
<1>0. Numbers(w, n)
  <2>1. ASSUME NEW k \in 1 .. n PROVE w[k] \in Int
    BY DEF Numbers
  <2> QED BY <2>1 DEF Numbers
<1>1. 0 \in S
  BY SumToNone
<1>2. ASSUME NEW k \in 1 .. n, k - 1 \in S PROVE k \in S
  <2> DEFINE x == SumTo(u, k - 1)
             y == SumTo(w, k - 1)
             c == u[k]
  <2>1. /\ SumTo(u, k) = x + c /\ x \in Int
        /\ SumTo(w, k) = y + w[k] /\ y \in Int
    BY <1>0, SumsAreInts
  <2>2. c \in Int /\ w[k] = c % m
    BY DEF Numbers
  <2>3. y % m = x % m
    BY <1>2
  <2> HIDE DEF x, y, c
  <2>4. (y + (c % m)) % m = (y + c) % m /\ ((y % m) + c) % m = (y + c) % m /\ ((x % m) + c) % m = (x + c) % m
    BY <2>1, <2>2, RemainderOfSum
  <2>5. SumTo(w, k) % m = SumTo(u, k) % m
    <3>1. SumTo(w, k) % m = (y + (c % m)) % m
      BY ONLY <2>1, <2>2, Zenon
    <3>2. ((y % m) + c) % m = ((x % m) + c) % m
      BY ONLY <2>3, Zenon
    <3>3. SumTo(u, k) % m = (x + c) % m
      BY ONLY <2>1, Zenon
    <3> QED BY ONLY <2>4, <3>1, <3>2, <3>3, Zenon
  <2> QED BY <2>5
<1>3. 0 .. n \subseteq S
  <2> HIDE DEF S
  <2> QED BY <1>1, <1>2, Climb
<1> QED BY <1>3

IsReducedSumOf(sum, u, n, m) == sum = [k \in 0 .. n |-> IF k = 0 THEN 0 ELSE (sum[k - 1] + u[k]) % m]

LEMMA ReducedSumIs ==
    ASSUME NEW n \in Nat, NEW m \in Nat \ {0}, NEW u, Numbers(u, n)
    PROVE  ReducedSumTo(u, n, m) = SumTo(u, n) % m
<1> DEFINE f == [k \in 0 .. n |-> SumTo(u, k) % m]
           g == CHOOSE sum : IsReducedSumOf(sum, u, n, m)
<1>1. IsReducedSumOf(f, u, n, m)
  <2>1. f[0] = 0
    BY SumToNone
  <2>2. ASSUME NEW k \in 1 .. n PROVE f[k] = (f[k - 1] + u[k]) % m
    <3> DEFINE x == SumTo(u, k - 1)
               c == u[k]
    <3>1. SumTo(u, k) = x + c /\ x \in Int /\ c \in Int
      BY SumsAreInts DEF Numbers
    <3>2. f[k] = SumTo(u, k) % m /\ f[k - 1] = x % m
      OBVIOUS
    <3> HIDE DEF x, c, f
    <3>3. ((x % m) + c) % m = (x + c) % m
      BY <3>1, RemainderOfSum
    <3>4. f[k] = (f[k - 1] + c) % m
      BY ONLY <3>1, <3>2, <3>3, Zenon
    <3> QED BY <3>4 DEF c
  <2>3. f = [k \in 0 .. n |-> f[k]]
    OBVIOUS
  <2> HIDE DEF f
  <2>4. ASSUME NEW k \in 0 .. n PROVE f[k] = IF k = 0 THEN 0 ELSE (f[k - 1] + u[k]) % m
    BY <2>1, <2>2
  <2>5. [k \in 0 .. n |-> f[k]] = [k \in 0 .. n |-> IF k = 0 THEN 0 ELSE (f[k - 1] + u[k]) % m]
    BY <2>4, Zenon
  <2> QED BY <2>3, <2>5 DEF IsReducedSumOf
<1>2. IsReducedSumOf(g, u, n, m)
  BY <1>1
<1>3. ReducedSumTo(u, n, m) = g[n]
  BY DEF ReducedSumTo, IsReducedSumOf
<1> DEFINE S == {k \in 0 .. n : g[k] = f[k]}
<1> HIDE DEF f, g
<1>4. 0 \in S
  BY <1>1, <1>2 DEF IsReducedSumOf
<1>5. ASSUME NEW k \in 1 .. n, k - 1 \in S PROVE k \in S
  <2>1. g[k] = (g[k - 1] + u[k]) % m /\ f[k] = (f[k - 1] + u[k]) % m
    BY <1>1, <1>2 DEF IsReducedSumOf
  <2>2. g[k - 1] = f[k - 1]
    BY <1>5
  <2>3. g[k] = f[k]
    BY ONLY <2>1, <2>2, Zenon
  <2> QED BY <2>3
<1>6. 0 .. n \subseteq S
  <2> HIDE DEF S
  <2> QED BY <1>4, <1>5, Climb
<1>7. g[n] = f[n]
  BY <1>6
<1> QED BY <1>3, <1>7 DEF f

\* Where value k of row i is.
LEMMA Cell ==
    ASSUME NEW n \in Nat \ {0}, NEW i \in 1 .. n, NEW k \in 1 .. n
    PROVE  /\ n * (i - 1) + k \in 1 .. n * n
           /\ ((n * (i - 1) + k) - 1) \div n = i - 1 /\ ((n * (i - 1) + k) - 1) % n = k - 1
<1>1. n * (i - 1) >= 0 /\ n * (i - 1) + n <= n * n
  <2>1. i - 1 \in Nat /\ n - i \in Nat
    OBVIOUS
  <2>2. n * (i - 1) \in Nat /\ n * (n - i) \in Nat
    BY <2>1
  <2>3. n * n = (n * (i - 1) + n) + n * (n - i)
    BY <2>1
  <2> QED BY <2>2, <2>3
<1>2. n * (i - 1) \in Int /\ n * n \in Int
  OBVIOUS
<1> DEFINE h == i - 1
           x == (n * h + k) - 1
           p == k - 1
<1>3. h \in Int /\ p \in 0 .. n - 1 /\ x = n * h + p
  OBVIOUS
<1> HIDE DEF h, p, x
<1>4. x \div n = h /\ x % n = p
  BY <1>3, DivisionIs
<1> QED BY <1>1, <1>2, <1>4 DEF x, h, p

\* The sum of all entries of a product is that of column sums times row sums.
EntriesOfProduct(z, a, b, n) ==
    \A i, j \in 1 .. n :
        z[n * (i - 1) + j] = SumTo([k \in 1 .. n |-> a[n * (i - 1) + k] * b[n * (k - 1) + j]], n)

SumsMultiplied(met, a, b, n) ==
    \A k \in 1 .. n : met[k] = SumTo([i \in 1 .. n |-> a[n * (i - 1) + k]], n)
                                 * SumTo([j \in 1 .. n |-> b[n * (k - 1) + j]], n)

LEMMA SumOfProduct ==
    ASSUME NEW n \in Nat \ {0}, NEW a, NEW b, Numbers(a, n * n), Numbers(b, n * n),
           NEW z, Numbers(z, n * n), EntriesOfProduct(z, a, b, n), NEW met, SumsMultiplied(met, a, b, n)
    PROVE  SumTo(z, n * n) = SumTo(met, n)
<1> DEFINE A == [i \in 1 .. n |-> [k \in 1 .. n |-> a[n * (i - 1) + k]]]
           B == [k \in 1 .. n |-> [j \in 1 .. n |-> b[n * (k - 1) + j]]]
           Z == [i \in 1 .. n |-> [j \in 1 .. n |-> z[n * (i - 1) + j]]]
           R == [k \in 1 .. n |-> SumTo(B[k], n)]
           X == [i \in 1 .. n |-> [k \in 1 .. n |-> A[i][k] * R[k]]]
           Y == [k \in 1 .. n |-> [i \in 1 .. n |-> A[i][k] * R[k]]]
           y == [i \in 1 .. n |-> SumTo(Z[i], n)]
<1>0. n \in Nat
  OBVIOUS
<1>1. ASSUME NEW i \in 1 .. n, NEW k \in 1 .. n
      PROVE  A[i][k] \in Int /\ B[i][k] \in Int
  <2> DEFINE j == n * (i - 1) + k
             q == n * n
  <2>1. j \in 1 .. q
    BY Cell
  <2> HIDE DEF j, q
  <2>2. a[j] \in Int /\ b[j] \in Int
    BY <2>1 DEF Numbers, q
  <2> QED BY <2>2 DEF j
<1>2. \A k \in 1 .. n : R[k] \in Int
  <2>1. ASSUME NEW k \in 1 .. n PROVE SumTo(B[k], n) \in Int
    <3>1. Numbers(B[k], n)
      BY <1>1 DEF Numbers
    <3> HIDE DEF B
    <3> QED BY <3>1, SumsAreInts
  <2> QED BY <2>1
<1>3. SumTo(z, n * n) = SumTo(y, n)
  <2>1. RowsOf(Z, z, n, n)
    BY DEF RowsOf
  <2>2. SumsOf(y, Z, n, n)
    BY DEF SumsOf
  <2> HIDE DEF Z, y
  <2> QED BY ONLY <1>0, Numbers(z, n * n), <2>1, <2>2, SumOfRows
<1>4. ASSUME NEW i \in 1 .. n PROVE y[i] = SumTo(X[i], n)
  <2> DEFINE row == [j \in 1 .. n |-> [k \in 1 .. n |-> A[i][k] * B[k][j]]]
             col == [k \in 1 .. n |-> [j \in 1 .. n |-> A[i][k] * B[k][j]]]
  <2>1. \A j \in 1 .. n : \A k \in 1 .. n : row[j][k] = col[k][j] /\ col[k][j] \in Int
    <3> HIDE DEF A, B
    <3> QED BY <1>1
  <2>2. ASSUME NEW j \in 1 .. n PROVE Z[i][j] = SumTo(row[j], n)
    <3>1. Z[i][j] = SumTo([k \in 1 .. n |-> a[n * (i - 1) + k] * b[n * (k - 1) + j]], n)
      BY DEF EntriesOfProduct
    <3>2. [k \in 1 .. n |-> a[n * (i - 1) + k] * b[n * (k - 1) + j]] = row[j]
      OBVIOUS
    <3> QED BY <3>1, <3>2
  <2>3. ASSUME NEW k \in 1 .. n PROVE X[i][k] = SumTo(col[k], n)
    <3>1. \A j \in 1 .. n : col[k][j] = A[i][k] * B[k][j]
      <4> HIDE DEF A, B
      <4> QED OBVIOUS
    <3>2. Numbers(B[k], n) /\ A[i][k] \in Int
      BY <1>1 DEF Numbers
    <3>3. X[i][k] = A[i][k] * SumTo(B[k], n)
      <4> HIDE DEF A, B
      <4> QED OBVIOUS
    <3> HIDE DEF A, B, X, col
    <3>4. SumTo(col[k], n) = A[i][k] * SumTo(B[k], n)
      BY <3>1, <3>2, <1>0, SumTimes
    <3> QED BY <3>3, <3>4
  <2>4. y[i] = SumTo(Z[i], n)
    OBVIOUS
  <2> HIDE DEF A, B, X, Z, y, row, col
  <2>5. SumTo(Z[i], n) = SumTo(X[i], n)
    <3>1. Transposed(row, col, n, n)
      BY <2>1 DEF Transposed
    <3>2. SumsOf(Z[i], row, n, n) /\ SumsOf(X[i], col, n, n)
      BY <2>2, <2>3 DEF SumsOf
    <3> QED BY ONLY <1>0, <3>1, <3>2, SumsSwap
  <2> QED BY <2>4, <2>5
<1>5. SumTo(y, n) = SumTo(met, n)
  <2>1. \A i \in 1 .. n : \A k \in 1 .. n : X[i][k] = Y[k][i] /\ Y[k][i] \in Int
    <3> HIDE DEF A, R
    <3> QED BY <1>1, <1>2
  <2>2. ASSUME NEW k \in 1 .. n PROVE met[k] = SumTo(Y[k], n)
    <3> DEFINE c == [i \in 1 .. n |-> A[i][k]]
    <3>1. c = [i \in 1 .. n |-> a[n * (i - 1) + k]] /\ B[k] = [j \in 1 .. n |-> b[n * (k - 1) + j]]
      OBVIOUS
    <3>2. met[k] = SumTo(c, n) * SumTo(B[k], n)
      BY <3>1 DEF SumsMultiplied
    <3>3. met[k] = SumTo(c, n) * R[k]
      BY <3>2
    <3>4. \A i \in 1 .. n : c[i] \in Int
      <4> HIDE DEF A
      <4> QED BY <1>1
    <3>5. \A i \in 1 .. n : c[i] = A[i][k]
      OBVIOUS
    <3> HIDE DEF c, A, B, R
    <3>6. \A i \in 1 .. n : Y[k][i] = R[k] * c[i]
      BY <3>4, <3>5, <1>2
    <3> HIDE DEF Y
    <3>7. Numbers(c, n) /\ R[k] \in Int
      BY <3>4, <1>2 DEF Numbers
    <3>8. SumTo(Y[k], n) = R[k] * SumTo(c, n)
      BY <3>6, <3>7, <1>0, SumTimes
    <3>9. SumTo(c, n) \in Int
      BY <3>7, <1>0, SumsAreInts
    <3> QED BY <3>3, <3>7, <3>8, <3>9
  <2> HIDE DEF A, B, X, Y, Z, R, y
  <2>3. Transposed(X, Y, n, n)
    BY <2>1 DEF Transposed
  <2>4. SumsOf(y, X, n, n) /\ SumsOf(met, Y, n, n)
    BY <1>4, <2>2 DEF SumsOf
  <2> QED BY ONLY <1>0, <2>3, <2>4, SumsSwap
<1> QED BY <1>3, <1>5
=============================================================================
