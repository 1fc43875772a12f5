--------------------------- MODULE Picking_proofs ---------------------------
(***************************************************************************)
(* What Picked keeps of a sequence: exactly the elements at the positions  *)
(* given, in their order.                                                  *)
(***************************************************************************)
EXTENDS Picking, FiniteSetsExt, FiniteSetTheorems, TLAPS

LEMMA UpToIsFinite ==
  ASSUME NEW m \in Nat, NEW I \in SUBSET (1..m)
  PROVE  /\ IsFiniteSet(I) /\ Cardinality(I) \in Nat /\ Cardinality(I) <= m
         /\ \A i \in I : IsFiniteSet({j \in I : j <= i}) /\ Rank(I, i) \in 1..Cardinality(I)
  <1>1. IsFiniteSet(1..m) /\ Cardinality(1..m) = m
    BY FS_Interval
  <1>2. IsFiniteSet(I) /\ Cardinality(I) <= m
    BY <1>1, FS_Subset
  <1>3. Cardinality(I) \in Nat
    BY <1>2, FS_CardinalityType
  <1>4. ASSUME NEW i \in I PROVE IsFiniteSet({j \in I : j <= i}) /\ Rank(I, i) \in 1..Cardinality(I)
    <2> DEFINE U == {j \in I : j <= i}
    <2>1. IsFiniteSet(U) /\ Cardinality(U) <= Cardinality(I)
      BY <1>2, FS_Subset
    <2>2. U # {}
      OBVIOUS
    <2>3. Cardinality(U) \in Nat /\ Cardinality(U) # 0
      BY <2>1, <2>2, FS_CardinalityType, FS_EmptySet
    <2> QED
      BY <1>3, <2>1, <2>3 DEF Rank
  <1> QED
    BY <1>2, <1>3, <1>4

\* Of two positions kept, the later one has the higher rank.
LEMMA RankGrows ==
  ASSUME NEW m \in Nat, NEW I \in SUBSET (1..m), NEW i \in I, NEW k \in I, i < k
  PROVE  Rank(I, i) < Rank(I, k)
  <1> DEFINE U == {j \in I : j <= i}
             V == {j \in I : j <= k}
  <1>1. IsFiniteSet(V) /\ Cardinality(V) \in Nat /\ Cardinality(U) \in Nat
    BY UpToIsFinite DEF Rank
  <1>a. i \in Int /\ k \in Int /\ \A j \in I : j \in Int
    OBVIOUS
  <1>b. k \in V /\ k \notin U
    BY <1>a
  <1>c. \A j \in I : j <= i => j <= k
    BY <1>a
  <1>2. U \in SUBSET V /\ k \in V /\ k \notin U
    BY <1>b, <1>c
  <1> HIDE DEF U, V
  <1>3. Cardinality(U) <= Cardinality(V) /\ Cardinality(U) # Cardinality(V)
    BY <1>1, <1>2, FS_Subset
  <1>4. Cardinality(U) < Cardinality(V)
    BY <1>1, <1>3
  <1> QED
    BY <1>4 DEF Rank, U, V

\* Every rank up to the number of positions is that of one of them.
LEMMA NthIs ==
  ASSUME NEW m \in Nat, NEW I \in SUBSET (1..m)
  PROVE  /\ \A n \in 1..Cardinality(I) : Nth(I, n) \in I /\ Rank(I, Nth(I, n)) = n
         /\ \A i \in I : Rank(I, i) \in 1..Cardinality(I) /\ Nth(I, Rank(I, i)) = i
         /\ \A a, b \in 1..Cardinality(I) : a < b => Nth(I, a) < Nth(I, b)
  <1> DEFINE c == Cardinality(I)
             f == [i \in I |-> Rank(I, i)]
  <1>1. IsFiniteSet(I) /\ c \in Nat /\ \A i \in I : Rank(I, i) \in 1..c
    BY UpToIsFinite
  <1>2. \A i, k \in I : Rank(I, i) = Rank(I, k) => i = k
    <2> SUFFICES ASSUME NEW i \in I, NEW k \in I, i # k PROVE Rank(I, i) # Rank(I, k)
      OBVIOUS
    <2>1. Rank(I, i) \in Int /\ Rank(I, k) \in Int
      BY <1>1
    <2>2. CASE i < k
      <3>1. Rank(I, i) < Rank(I, k)
        BY <2>2, RankGrows
      <3> QED
        BY <2>1, <3>1
    <2>3. CASE k < i
      <3>1. Rank(I, k) < Rank(I, i)
        BY <2>3, RankGrows
      <3> QED
        BY <2>1, <3>1
    <2>4. i \in Int /\ k \in Int
      OBVIOUS
    <2> QED
      BY <2>2, <2>3, <2>4
  <1>3. f \in Injection(I, 1..c)
    BY <1>1, <1>2 DEF Injection, IsInjective
  <1>4. IsFiniteSet(1..c) /\ Cardinality(1..c) = c
    BY <1>1, FS_Interval
  <1>5. f \in Surjection(I, 1..c)
    BY <1>3, <1>4, FS_Injection
  <1>6. \A n \in 1..c : \E i \in I : Rank(I, i) = n
    BY <1>5 DEF Surjection
  <1>7. \A n \in 1..c : Nth(I, n) \in I /\ Rank(I, Nth(I, n)) = n
    BY <1>6 DEF Nth
  <1>8. \A i \in I : Rank(I, i) \in 1..c /\ Nth(I, Rank(I, i)) = i
    BY <1>1, <1>2, <1>7
  <1>9. ASSUME NEW a \in 1..c, NEW b \in 1..c, a < b PROVE Nth(I, a) < Nth(I, b)
    <2> DEFINE i == Nth(I, a)
               k == Nth(I, b)
    <2>1. i \in I /\ k \in I /\ Rank(I, i) = a /\ Rank(I, k) = b
      BY <1>7
    <2> HIDE DEF i, k
    <2>2. i # k
      BY <1>9, <2>1
    <2>3. ~(k < i)
      <3> SUFFICES ASSUME k < i PROVE FALSE
        OBVIOUS
      <3>1. Rank(I, k) < Rank(I, i)
        BY <2>1, RankGrows
      <3> QED
        BY <1>1, <1>9, <2>1, <3>1
    <2>4. i \in Int /\ k \in Int
      BY <2>1
    <2>5. i < k
      BY <2>2, <2>3, <2>4
    <2> QED
      BY <2>5 DEF i, k
  <1> QED
    BY <1>7, <1>8, <1>9

\* The first and the last of the positions.
LEMMA EndsOf ==
  ASSUME NEW m \in Nat, NEW I \in SUBSET (1..m), I # {}
  PROVE  /\ Min(I) \in I /\ \A i \in I : Min(I) <= i
         /\ Max(I) \in I /\ \A i \in I : i <= Max(I)
  <1> DEFINE c == Cardinality(I)
  <1>1. c \in Nat /\ c # 0
    BY UpToIsFinite, FS_EmptySet
  <1>2. 1 \in 1..c /\ c \in 1..c
    BY <1>1
  <1>3. /\ \A n \in 1..c : Nth(I, n) \in I
        /\ \A i \in I : Rank(I, i) \in 1..c /\ Nth(I, Rank(I, i)) = i
        /\ \A a, b \in 1..c : a < b => Nth(I, a) < Nth(I, b)
    BY NthIs
  <1> HIDE DEF c
  <1>4. ASSUME NEW i \in I PROVE Nth(I, 1) <= i /\ i <= Nth(I, c)
    <2> DEFINE r == Rank(I, i)
    <2>a. \A x \in I : x \in Int
      OBVIOUS
    <2>b. Nth(I, 1) \in I /\ Nth(I, c) \in I
      BY <1>2, <1>3
    <2>1. r \in 1..c /\ Nth(I, r) = i /\ Nth(I, 1) \in Int /\ Nth(I, c) \in Int /\ i \in Int
      BY <1>3, <2>a, <2>b
    <2> HIDE DEF r
    <2>2. r = 1 \/ Nth(I, 1) < i
      BY <1>1, <1>2, <1>3, <2>1
    <2>3. r = c \/ i < Nth(I, c)
      BY <1>1, <1>2, <1>3, <2>1
    <2> QED
      BY <2>1, <2>2, <2>3
  <1>5. \E a \in I : \A i \in I : a <= i
    BY <1>2, <1>3, <1>4
  <1>6. \E b \in I : \A i \in I : i <= b
    BY <1>2, <1>3, <1>4
  <1>7. Min(I) \in I /\ \A i \in I : Min(I) <= i
    BY <1>5 DEF Min
  <1>8. Max(I) \in I /\ \A i \in I : i <= Max(I)
    BY <1>6 DEF Max
  <1> QED
    BY <1>7, <1>8

\* The sequence picked: its elements are those at the positions, in their order.
LEMMA PickedIs ==
  ASSUME NEW S, NEW s \in Seq(S), NEW I \in SUBSET (DOMAIN s), NEW q, q = Picked(s, I)
  PROVE  /\ q \in Seq(S) /\ Len(q) = Cardinality(I) /\ Len(q) \in Nat /\ Len(q) <= Len(s)
         /\ DOMAIN q = 1..Len(q)
         /\ \A n \in 1..Len(q) : Nth(I, n) \in I /\ q[n] = s[Nth(I, n)]
         /\ \A a, b \in 1..Len(q) : a < b => Nth(I, a) < Nth(I, b)
         /\ \A a, b \in 1..Len(q) : Nth(I, a) = Nth(I, b) => a = b
         /\ \A i \in I : Rank(I, i) \in 1..Len(q) /\ q[Rank(I, i)] = s[i] /\ Nth(I, Rank(I, i)) = i
  <1> DEFINE m == Len(s)
             c == Cardinality(I)
  <1>1. m \in Nat /\ DOMAIN s = 1..m /\ I \in SUBSET (1..m)
    OBVIOUS
  <1> HIDE DEF m
  <1>2. c \in Nat /\ c <= m
    BY <1>1, UpToIsFinite
  <1>3. /\ \A n \in 1..c : Nth(I, n) \in I /\ Rank(I, Nth(I, n)) = n
        /\ \A i \in I : Rank(I, i) \in 1..c /\ Nth(I, Rank(I, i)) = i
        /\ \A a, b \in 1..c : a < b => Nth(I, a) < Nth(I, b)
    BY <1>1, NthIs
  <1> HIDE DEF c
  <1>4. q = [n \in 1..c |-> s[Nth(I, n)]]
    BY DEF Picked, c
  <1>5. \A n \in 1..c : s[Nth(I, n)] \in S
    BY <1>1, <1>3
  <1>6. q \in Seq(S) /\ Len(q) = c /\ DOMAIN q = 1..c
    BY <1>2, <1>4, <1>5
  <1>7. \A n \in 1..c : q[n] = s[Nth(I, n)]
    BY <1>4
  <1>8. \A i \in I : q[Rank(I, i)] = s[i]
    BY <1>3, <1>7
  <1>9. \A a, b \in 1..c : Nth(I, a) = Nth(I, b) => a = b
    BY <1>3
  <1> QED
    BY <1>2, <1>3, <1>6, <1>7, <1>8, <1>9 DEF c, m

\* Leaving out a position makes it shorter.
LEMMA PickedShorter ==
  ASSUME NEW S, NEW s \in Seq(S), NEW I \in SUBSET (DOMAIN s), NEW k \in DOMAIN s, k \notin I
  PROVE  Len(Picked(s, I)) < Len(s)
  <1> DEFINE m == Len(s)
  <1>1. m \in Nat /\ DOMAIN s = 1..m /\ I \in SUBSET (1..m) /\ k \in 1..m
    OBVIOUS
  <1>2. Len(Picked(s, I)) = Cardinality(I)
    BY PickedIs
  <1> HIDE DEF m
  <1>3. IsFiniteSet(1..m) /\ Cardinality(1..m) = m
    BY <1>1, FS_Interval
  <1>4. Cardinality(I) <= m /\ Cardinality(I) # m /\ Cardinality(I) \in Nat
    BY <1>1, <1>3, FS_Subset, UpToIsFinite
  <1> QED
    BY <1>1, <1>2, <1>4 DEF m
\* Positions that have all later ones with them pick the end of the sequence.
IsEndOf(q, s) == \A n \in 1..Len(q) : q[n] = s[Len(s) - Len(q) + n]

LEMMA EndPicked ==
  ASSUME NEW S, NEW s \in Seq(S), NEW I \in SUBSET (DOMAIN s), NEW q, q = Picked(s, I),
         \A i \in I, j \in DOMAIN s : i <= j => j \in I
  PROVE  I = (Len(s) - Len(q) + 1)..Len(s) /\ IsEndOf(q, s)
  <1> DEFINE m == Len(s)
             c == Len(q)
  <1>1. m \in Nat /\ DOMAIN s = 1..m /\ I \in SUBSET (1..m)
    OBVIOUS
  <1>2. /\ c = Cardinality(I) /\ c \in Nat /\ c <= m
        /\ \A n \in 1..c : Nth(I, n) \in I /\ q[n] = s[Nth(I, n)]
        /\ \A a, b \in 1..c : a < b => Nth(I, a) < Nth(I, b)
        /\ \A i \in I : Rank(I, i) \in 1..c /\ Nth(I, Rank(I, i)) = i
    BY PickedIs
  <1> HIDE DEF m, c
  <1>3. CASE c = 0
    <2>1. I = {}
      BY <1>2, <1>3
    <2> QED
      BY <1>1, <1>2, <1>3, <2>1 DEF m, c, IsEndOf
  <1>4. CASE c # 0
    <2> DEFINE b == Nth(I, 1)
    <2>1. 1 \in 1..c /\ b \in I /\ b \in 1..m
      BY <1>1, <1>2, <1>4
    <2>2. \A i \in I : b <= i
      <3> TAKE i \in I
      <3> DEFINE r == Rank(I, i)
      <3>1. r \in 1..c /\ Nth(I, r) = i /\ i \in Int /\ b \in Int
        BY <1>1, <1>2, <2>1
      <3> HIDE DEF r, b
      <3>2. CASE r = 1
        BY <3>1, <3>2 DEF b
      <3>3. CASE 1 < r
        <4>1. Nth(I, 1) < Nth(I, r)
          BY <1>2, <2>1, <3>1, <3>3
        <4> QED
          BY <3>1, <4>1 DEF b
      <3> QED
        BY <3>1, <3>2, <3>3
    <2> HIDE DEF b
    <2>3. I = b..m
      <3>1. \A j \in b..m : j \in DOMAIN s /\ b <= j
        BY <1>1, <2>1
      <3>2. b..m \subseteq I
        BY <2>1, <3>1
      <3>3. I \subseteq b..m
        BY <1>1, <2>1, <2>2
      <3> QED
        BY <3>2, <3>3
    <2>4. c = m - b + 1
      BY <1>1, <1>2, <2>1, <2>3, FS_Interval
    <2>5. \A n \in 1..c : Nth(I, n) = m - c + n
      <3> TAKE n \in 1..c
      <3> DEFINE i == Nth(I, n)
      <3>1. i \in I /\ Rank(I, i) = n
        BY <1>1, NthIs, <1>2
      <3> HIDE DEF i
      <3>2. i \in b..m
        BY <2>3, <3>1
      <3>3. {j \in I : j <= i} = b..i
        BY <1>1, <2>1, <2>3, <3>2
      <3>4. Rank(I, i) = i - b + 1
        <4>1. Cardinality(b..i) = i - b + 1
          BY <2>1, <3>2, FS_Interval
        <4> QED
          BY <3>3, <4>1 DEF Rank
      <3> QED
        BY <1>1, <2>1, <2>4, <3>1, <3>2, <3>4 DEF i
    <2>6. m - c + 1 = b
      BY <1>1, <1>2, <2>1, <2>4
    <2>7. I = (m - c + 1)..m
      BY <2>3, <2>6
    <2>8. \A n \in 1..c : q[n] = s[m - c + n]
      BY <1>2, <2>5
    <2> QED
      BY <2>7, <2>8 DEF m, c, IsEndOf
  <1> QED
    BY <1>3, <1>4

-----------------------------------------------------------------------------
(***************************************************************************)
(* Rate limiters.  Both limiters of the code keep a list of times, forget  *)
(* the ones a window ago and let through what finds fewer than the rate in *)
(* the list; and both throw whole lists away.  While the clock goes on,    *)
(* the list is the end of the history of what was let through, and what it *)
(* lacks of that is older than the window.                                 *)
(***************************************************************************)

Ascending(A, t) ==
  (\A i \in DOMAIN A : A[i] <= t) /\ \A i, j \in DOMAIN A : i <= j => A[i] <= A[j]
Remembers(L, A, t, W) ==
  /\ Len(L) <= Len(A)
  /\ \A n \in 1..Len(L) : L[n] = A[Len(A) - Len(L) + n]
  /\ \A n \in 1..(Len(A) - Len(L)) : t - A[n] > W
Spaced(A, rate, W) == \A i \in DOMAIN A : i + rate \in DOMAIN A => A[i + rate] - A[i] > W

\* The clock goes on.
LEMMA RemembersLater ==
  ASSUME NEW L \in Seq(Int), NEW A \in Seq(Int), NEW t \in Int, NEW u \in Int, NEW W \in Int, t <= u,
         Ascending(A, t), Remembers(L, A, t, W)
  PROVE  Ascending(A, u) /\ Remembers(L, A, u, W)
  <1>1. \A i \in DOMAIN A : A[i] \in Int
    OBVIOUS
  <1>2. Ascending(A, u)
    BY <1>1 DEF Ascending
  <1>3. Len(A) \in Nat /\ Len(L) \in Nat /\ DOMAIN A = 1..Len(A)
    OBVIOUS
  <1>4. \A n \in 1..(Len(A) - Len(L)) : n \in DOMAIN A
    BY <1>3
  <1>5. \A n \in 1..(Len(A) - Len(L)) : u - A[n] > W
    BY <1>1, <1>4 DEF Remembers
  <1> QED
    BY <1>2, <1>5 DEF Remembers

\* A list whose last time is a window ago can go.
LEMMA RemembersNothing ==
  ASSUME NEW L \in Seq(Int), NEW A \in Seq(Int), NEW t \in Int, NEW W \in Int,
         Ascending(A, t), Remembers(L, A, t, W), L # <<>>, t - L[Len(L)] > W
  PROVE  Remembers(<<>>, A, t, W)
  <1> DEFINE m == Len(A)
             k == Len(L)
  <1>1. m \in Nat /\ k \in Nat /\ k # 0 /\ k <= m /\ DOMAIN A = 1..m /\ DOMAIN L = 1..k
    BY DEF Remembers
  <1>a. \A n \in 1..k : L[n] = A[m - k + n]
    BY DEF Remembers
  <1> HIDE DEF m, k
  <1>2. L[k] = A[m - k + k]
    BY <1>1, <1>a
  <1>3. m - k + k = m /\ m \in DOMAIN A
    BY <1>1
  <1>4. \A n \in 1..m : A[n] <= A[m] /\ A[n] \in Int /\ A[m] \in Int
    BY <1>1, <1>3 DEF Ascending
  <1>5. \A n \in 1..m : t - A[n] > W
    BY <1>2, <1>3, <1>4 DEF k
  <1>6. Len(<<>>) = 0
    OBVIOUS
  <1> QED
    BY <1>1, <1>5, <1>6 DEF Remembers, m

\* What is a window ago is forgotten.
LEMMA RemembersRecent ==
  ASSUME NEW L \in Seq(Int), NEW A \in Seq(Int), NEW t \in Int, NEW W \in Int,
         Ascending(A, t), Remembers(L, A, t, W),
         NEW R, R = Picked(L, {i \in DOMAIN L : t - L[i] <= W})
  PROVE  R \in Seq(Int) /\ Remembers(R, A, t, W)
  <1> DEFINE I == {i \in DOMAIN L : t - L[i] <= W}
             m == Len(A)
             k == Len(L)
             c == Len(R)
  <1>1. R \in Seq(Int) /\ c \in Nat /\ c <= k
    BY PickedIs
  <1>2. m \in Nat /\ k \in Nat /\ k <= m /\ DOMAIN A = 1..m /\ DOMAIN L = 1..k
    BY DEF Remembers
  <1>3. /\ \A n \in 1..k : L[n] = A[m - k + n] /\ m - k + n \in 1..m
        /\ \A n \in 1..(m - k) : t - A[n] > W
    BY <1>2 DEF Remembers
  <1>4. \A i \in I, j \in DOMAIN L : i <= j => j \in I
    <2> SUFFICES ASSUME NEW i \in I, NEW j \in DOMAIN L, i <= j PROVE t - L[j] <= W
      OBVIOUS
    <2>a. i \in 1..k /\ j \in 1..k
      BY <1>2
    <2> HIDE DEF m, k
    <2>1. m - k + i <= m - k + j /\ m - k + i \in DOMAIN A /\ m - k + j \in DOMAIN A
      BY <1>2, <1>3, <2>a
    <2>2. L[i] <= L[j]
      BY <1>3, <2>a, <2>1 DEF Ascending
    <2>3. L[i] \in Int /\ L[j] \in Int /\ t - L[i] <= W
      OBVIOUS
    <2> QED
      BY <2>2, <2>3
  <1>5. I = (k - c + 1)..k /\ \A n \in 1..c : R[n] = L[k - c + n]
    <2>1. I \in SUBSET (DOMAIN L) /\ R = Picked(L, I)
      OBVIOUS
    <2>2. L \in Seq(Int)
      OBVIOUS
    <2> HIDE DEF I
    <2>3. I = (Len(L) - Len(R) + 1)..Len(L) /\ IsEndOf(R, L)
      BY ONLY <1>4, <2>1, <2>2, EndPicked
    <2> QED
      BY <2>3 DEF IsEndOf
  <1>b. \A n \in 1..k : n \notin I => t - L[n] > W
    <2> TAKE n \in 1..k
    <2>1. L[n] \in Int
      BY <1>2
    <2> QED
      BY <1>2, <2>1
  <1> HIDE DEF m, k, c, I
  <1>6. \A n \in 1..c : R[n] = A[m - c + n]
    <2> TAKE n \in 1..c
    <2>1. k - c + n \in 1..k /\ m - k + (k - c + n) = m - c + n
      BY <1>1, <1>2
    <2> QED
      BY <1>3, <1>5, <2>1
  <1>7. \A n \in 1..(m - c) : t - A[n] > W
    <2> TAKE n \in 1..(m - c)
    <2>1. CASE n <= m - k
      BY <1>1, <1>2, <1>3, <2>1
    <2>2. CASE n > m - k
      <3> DEFINE i == n - (m - k)
      <3>1. i \in 1..k /\ i \notin (k - c + 1)..k /\ m - k + i = n
        BY <1>1, <1>2, <2>2
      <3>2. t - L[i] > W /\ L[i] = A[n]
        BY <1>3, <1>5, <1>b, <3>1
      <3> QED
        BY <3>2
    <2> QED
      BY <1>1, <1>2, <2>1, <2>2
  <1> QED
    BY <1>1, <1>2, <1>6, <1>7 DEF Remembers, m, k, c

\* What finds fewer than the rate in the list is let through.
LEMMA LetThrough ==
  ASSUME NEW R \in Seq(Int), NEW A \in Seq(Int), NEW t \in Int, NEW W \in Int, NEW rate \in Nat \ {0},
         Ascending(A, t), Remembers(R, A, t, W), Spaced(A, rate, W), Len(R) < rate
  PROVE  /\ Ascending(Append(A, t), t) /\ Remembers(Append(R, t), Append(A, t), t, W)
         /\ Spaced(Append(A, t), rate, W)
  <1> DEFINE B == Append(A, t)
             Q == Append(R, t)
             m == Len(A)
             c == Len(R)
  <1>1. m \in Nat /\ c \in Nat /\ c <= m /\ DOMAIN A = 1..m /\ c < rate
    BY DEF Remembers
  <1>2. /\ Len(B) = m + 1 /\ DOMAIN B = 1..(m + 1) /\ B[m + 1] = t
        /\ \A n \in 1..m : B[n] = A[n]
    OBVIOUS
  <1>3. Len(Q) = c + 1 /\ Q[c + 1] = t /\ \A n \in 1..c : Q[n] = R[n]
    OBVIOUS
  <1>4. \A n \in 1..m : A[n] \in Int /\ A[n] <= t
    BY <1>1 DEF Ascending
  <1>5. /\ \A n \in 1..c : R[n] = A[m - c + n]
        /\ \A n \in 1..(m - c) : t - A[n] > W
    BY DEF Remembers
  <1>6. \A i, j \in 1..m : i <= j => A[i] <= A[j]
    BY <1>1 DEF Ascending
  <1>7. \A i \in 1..m : i + rate \in 1..m => A[i + rate] - A[i] > W
    BY <1>1 DEF Spaced
  <1> HIDE DEF B, Q, m, c
  <1>8. Ascending(B, t)
    <2>1. \A i \in DOMAIN B : B[i] <= t
      BY <1>1, <1>2, <1>4
    <2>2. ASSUME NEW i \in DOMAIN B, NEW j \in DOMAIN B, i <= j PROVE B[i] <= B[j]
      <3>1. CASE j = m + 1
        BY <1>2, <2>1, <3>1
      <3>2. CASE j # m + 1
        <4>1. i \in 1..m /\ j \in 1..m
          BY <1>1, <1>2, <2>2, <3>2
        <4> QED
          BY <1>2, <1>6, <2>2, <4>1
      <3> QED
        BY <3>1, <3>2
    <2> QED
      BY <2>1, <2>2 DEF Ascending
  <1>9. Remembers(Q, B, t, W)
    <2>1. \A n \in 1..(c + 1) : Q[n] = B[(m + 1) - (c + 1) + n]
      <3> TAKE n \in 1..(c + 1)
      <3>1. CASE n = c + 1
        <4>1. (m + 1) - (c + 1) + n = m + 1
          BY <1>1, <3>1
        <4> QED
          BY <1>2, <1>3, <3>1, <4>1
      <3>2. CASE n # c + 1
        <4>1. n \in 1..c /\ (m + 1) - (c + 1) + n = m - c + n /\ m - c + n \in 1..m
          BY <1>1, <3>2
        <4> QED
          BY <1>2, <1>3, <1>5, <4>1
      <3> QED
        BY <3>1, <3>2
    <2>2. \A n \in 1..((m + 1) - (c + 1)) : t - B[n] > W
      <3> TAKE n \in 1..((m + 1) - (c + 1))
      <3>1. n \in 1..(m - c) /\ n \in 1..m
        BY <1>1
      <3> QED
        BY <1>2, <1>5, <3>1
    <2>3. Len(Q) <= Len(B)
      BY <1>1, <1>2, <1>3
    <2> QED
      BY <1>2, <1>3, <2>1, <2>2, <2>3 DEF Remembers
  <1>10. Spaced(B, rate, W)
    <2> SUFFICES ASSUME NEW i \in 1..(m + 1), i + rate \in 1..(m + 1) PROVE B[i + rate] - B[i] > W
      BY <1>2 DEF Spaced
    <2>1. CASE i + rate = m + 1
      <3>1. i \in 1..(m - c) /\ i \in 1..m
        BY <1>1, <2>1
      <3> QED
        BY <1>2, <1>5, <2>1, <3>1
    <2>2. CASE i + rate # m + 1
      <3>1. i + rate \in 1..m /\ i \in 1..m
        BY <1>1, <2>2
      <3> QED
        BY <1>2, <1>7, <3>1
    <2> QED
      BY <2>1, <2>2
  <1> QED
    BY <1>8, <1>9, <1>10 DEF B, Q
=============================================================================
