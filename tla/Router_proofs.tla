---------------------------- MODULE Router_proofs ----------------------------
(***************************************************************************)
(* Proofs about the mesh router and its packet cache: the cache remembers  *)
(* exactly what it promises, the rate limit holds over every window, every *)
(* route was told by an accepted packet, and a shorter route with room     *)
(* stays.                                                                  *)
(***************************************************************************)
EXTENDS MeshRouter, Picking_proofs, FunctionTheorems, TLAPS

-----------------------------------------------------------------------------
(***************************************************************************)
(* The packet cache.  ExactMemory compares the cache with the log of all   *)
(* records; CacheFits says entry by entry how they go together: an entry   *)
(* is its identifier's last record, the entries after it are exactly the   *)
(* identifiers recorded since, and whoever is not in the cache any more    *)
(* has expired, or MaxEntries others came after it.                        *)
(***************************************************************************)

IdsIn(es) == {es[i].id : i \in DOMAIN es}
IdsAfter(es, k) == {es[i].id : i \in {j \in DOMAIN es : j > k}}
OneEach(es) == \A i, j \in DOMAIN es : es[i].id = es[j].id => i = j

CacheFits ==
  /\ \A i \in DOMAIN entries : \A id \in Ids :
       entries[i].id = id
         => id \in IdsIn(log) /\ entries[i] = log[LastOf(id)] /\ LaterIds(id) = IdsAfter(entries, i)
  /\ \A id \in IdsIn(log) :
       \/ id \in IdsIn(entries) \/ setBack \/ ~Fresh(log[LastOf(id)])
       \/ Cardinality(LaterIds(id)) >= MaxEntries

LEMMA DedupConstants == MaxEntries \in Nat \ {0} /\ Ttl \in Nat \ {0} /\ StepBack \in Nat /\ MaxTime \in Nat
  BY DedupAssumption

\* The log.
LEMMA LastOfIs ==
  ASSUME log \in Seq(Entry), NEW id \in IdsIn(log)
  PROVE  /\ LastOf(id) \in DOMAIN log /\ log[LastOf(id)].id = id
         /\ \A i \in DOMAIN log : log[i].id = id => i <= LastOf(id)
  <1> DEFINE I == {i \in DOMAIN log : log[i].id = id}
  <1>1. Len(log) \in Nat /\ I \in SUBSET (1..Len(log)) /\ I # {}
    BY DEF IdsIn
  <1>2. LastOf(id) = Max(I)
    BY DEF LastOf
  <1> DEFINE n == Len(log)
  <1> HIDE DEF I
  <1>3. LastOf(id) \in I /\ \A i \in I : i <= LastOf(id)
    <2>1. n \in Nat /\ I \in SUBSET (1..n) /\ I # {}
      BY <1>1
    <2> HIDE DEF n
    <2>2. Max(I) \in I /\ \A i \in I : i <= Max(I)
      BY ONLY <2>1, EndsOf
    <2> QED
      BY <1>2, <2>2
  <1> QED
    BY <1>3 DEF I

LEMMA LaterIdsFinite ==
  ASSUME log \in Seq(Entry), NEW id \in IdsIn(log)
  PROVE  IsFiniteSet(LaterIds(id)) /\ Cardinality(LaterIds(id)) \in Nat
  <1> DEFINE J == (LastOf(id) + 1)..Len(log)
             f == [i \in J |-> log[i].id]
  <1>1. LastOf(id) \in Int /\ Len(log) \in Nat
    BY LastOfIs
  <1>2. IsFiniteSet(J)
    BY <1>1, FS_Interval
  <1>3. f \in Surjection(J, LaterIds(id))
    BY DEF Surjection, LaterIds
  <1>4. IsFiniteSet(LaterIds(id))
    BY <1>2, <1>3, FS_Surjection
  <1> QED
    BY <1>4, FS_CardinalityType

LEMMA LogGrows ==
  ASSUME log \in Seq(Entry), NEW e \in Entry, log' = Append(log, e)
  PROVE  /\ log' \in Seq(Entry) /\ IdsIn(log)' = IdsIn(log) \cup {e.id}
         /\ log'[LastOf(e.id)'] = e /\ LaterIds(e.id)' = {}
         /\ \A id \in IdsIn(log) \ {e.id} :
              log'[LastOf(id)'] = log[LastOf(id)] /\ LaterIds(id)' = LaterIds(id) \cup {e.id}
  <1> DEFINE m == Len(log)
  <1>1. m \in Nat /\ DOMAIN log = 1..m
    OBVIOUS
  <1>2. log' \in Seq(Entry) /\ DOMAIN log' = 1..(m + 1) /\ Len(log') = m + 1 /\ log'[m + 1] = e
        /\ \A i \in 1..m : log'[i] = log[i]
    OBVIOUS
  <1> HIDE DEF m
  <1>3. IdsIn(log)' = IdsIn(log) \cup {e.id}
    <2>1. 1..(m + 1) = 1..m \cup {m + 1}
      BY <1>1
    <2> QED
      BY <1>1, <1>2, <2>1 DEF IdsIn
  <1>4. \A id \in IdsIn(log)' :
          /\ LastOf(id)' \in 1..(m + 1) /\ log'[LastOf(id)'].id = id
          /\ \A i \in 1..(m + 1) : log'[i].id = id => i <= LastOf(id)'
    <2> TAKE id \in IdsIn(log)'
    <2> DEFINE I == {i \in DOMAIN log' : log'[i].id = id}
    <2>1. I \in SUBSET (1..(m + 1)) /\ I # {} /\ m + 1 \in Nat
      BY <1>1, <1>2 DEF IdsIn
    <2>2. LastOf(id)' = Max(I)
      BY DEF LastOf
    <2> DEFINE n == m + 1
    <2> HIDE DEF I
    <2>3. LastOf(id)' \in I /\ \A i \in I : i <= LastOf(id)'
      <3>1. n \in Nat /\ I \in SUBSET (1..n) /\ I # {}
        BY <2>1
      <3> HIDE DEF n
      <3>2. Max(I) \in I /\ \A i \in I : i <= Max(I)
        BY ONLY <3>1, EndsOf
      <3> QED
        BY <2>2, <3>2
    <2> QED
      BY <1>2, <2>3 DEF I
  <1>5. LastOf(e.id)' = m + 1
    BY <1>1, <1>2, <1>3, <1>4
  <1>6. LaterIds(e.id)' = {}
    <2>1. (m + 2)..(m + 1) = {}
      BY <1>1
    <2>2. LaterIds(e.id)' = {log'[i].id : i \in (LastOf(e.id)' + 1)..Len(log')}
      BY DEF LaterIds
    <2>3. LastOf(e.id)' + 1 = m + 2
      BY <1>1, <1>5
    <2> QED
      BY <1>2, <2>1, <2>2, <2>3
  <1>7. ASSUME NEW id \in IdsIn(log) \ {e.id}
        PROVE  log'[LastOf(id)'] = log[LastOf(id)] /\ LaterIds(id)' = LaterIds(id) \cup {e.id}
    <2> DEFINE k == LastOf(id)
    <2>1. k \in 1..m /\ log[k].id = id /\ \A i \in 1..m : log[i].id = id => i <= k
      BY <1>1, LastOfIs
    <2>2. LastOf(id)' \in 1..(m + 1) /\ log'[LastOf(id)'].id = id
          /\ \A i \in 1..(m + 1) : log'[i].id = id => i <= LastOf(id)'
      BY <1>3, <1>4
    <2>3. LastOf(id)' \in 1..m
      BY <1>1, <1>2, <2>2
    <2>4. LastOf(id)' <= k
      BY <1>2, <2>1, <2>2, <2>3
    <2>5. k <= LastOf(id)'
      BY <1>1, <1>2, <2>1, <2>2
    <2> HIDE DEF k
    <2>6. LastOf(id)' = k
      BY <1>1, <2>1, <2>3, <2>4, <2>5
    <2>7. LaterIds(id)' = {log'[i].id : i \in (k + 1)..(m + 1)}
      BY <1>2, <2>6 DEF LaterIds
    <2>8. LaterIds(id) = {log[i].id : i \in (k + 1)..m}
      BY DEF LaterIds, k, m
    <2>9. (k + 1)..(m + 1) = (k + 1)..m \cup {m + 1} /\ (k + 1)..m \subseteq 1..m
      BY <1>1, <2>1
    <2>10. LaterIds(id)' = LaterIds(id) \cup {e.id}
      BY <1>2, <2>7, <2>8, <2>9
    <2> QED
      BY <1>2, <2>1, <2>6, <2>10 DEF k
  <1> QED
    BY <1>2, <1>3, <1>5, <1>6, <1>7

\* The cache.  Keeping all positions changes nothing.
LEMMA PickedAll ==
  ASSUME NEW S, NEW s \in Seq(S)
  PROVE  Picked(s, DOMAIN s) = s
  <1> DEFINE q == Picked(s, DOMAIN s)
             m == Len(s)
  <1>1. m \in Nat /\ DOMAIN s = 1..m
    OBVIOUS
  <1>2. q \in Seq(S) /\ Len(q) = Cardinality(DOMAIN s) /\ DOMAIN q = 1..Len(q)
    BY PickedIs
  <1>3. Len(q) = m
    <2> HIDE DEF m, q
    <2>1. Cardinality(1..m) = m
      BY <1>1, FS_Interval
    <2> QED
      BY <1>1, <1>2, <2>1
  <1>4. IsEndOf(q, s)
    BY EndPicked
  <1> HIDE DEF q, m
  <1>5. \A n \in 1..m : q[n] = s[m - m + n] /\ m - m + n = n
    BY <1>1, <1>3, <1>4 DEF IsEndOf, m
  <1>6. \A n \in 1..m : q[n] = s[n]
    BY <1>5
  <1>7. Len(s) = m
    BY DEF m
  <1>8. q = s
    BY <1>1, <1>2, <1>3, <1>6, <1>7
  <1> QED
    BY <1>8 DEF q

LEMMA WithoutIs ==
  ASSUME NEW x, entries \in Seq(Entry), OneEach(entries)
  PROVE  LET W == Without(entries, x)
         IN  /\ W \in Seq(Entry) /\ Len(W) <= Len(entries) /\ OneEach(W) /\ ~Holds(W, x)
             /\ Holds(entries, x) => Len(W) < Len(entries)
             /\ ~Holds(entries, x) => W = entries
             /\ \A n \in DOMAIN W : \E k \in DOMAIN entries :
                  W[n] = entries[k] /\ W[n].id # x /\ IdsAfter(W, n) \cup {x} = IdsAfter(entries, k) \cup {x}
             /\ \A k \in DOMAIN entries : entries[k].id = x \/ entries[k].id \in IdsIn(W)
  <1> DEFINE W == Without(entries, x)
             I == {i \in DOMAIN entries : entries[i].id # x}
  <1>1. I \in SUBSET (DOMAIN entries) /\ W = Picked(entries, I)
    BY DEF Without
  <1>a. \A i \in DOMAIN entries : i \in I <=> entries[i].id # x
    OBVIOUS
  <1>b. DOMAIN entries = 1..Len(entries) /\ Len(entries) \in Nat
    OBVIOUS
  <1> HIDE DEF W, I
  <1>2. /\ W \in Seq(Entry) /\ Len(W) \in Nat /\ Len(W) <= Len(entries) /\ DOMAIN W = 1..Len(W)
        /\ \A n \in 1..Len(W) : Nth(I, n) \in I /\ W[n] = entries[Nth(I, n)]
        /\ \A a, b \in 1..Len(W) : a < b => Nth(I, a) < Nth(I, b)
        /\ \A a, b \in 1..Len(W) : Nth(I, a) = Nth(I, b) => a = b
        /\ \A i \in I : Rank(I, i) \in 1..Len(W) /\ W[Rank(I, i)] = entries[i] /\ Nth(I, Rank(I, i)) = i
    BY <1>1, PickedIs
  <1>3. OneEach(W)
    BY <1>1, <1>2 DEF OneEach
  <1>4. \A n \in DOMAIN W : W[n].id # x
    BY <1>1, <1>2, <1>a
  <1>5. ~Holds(W, x)
    BY <1>4 DEF Holds
  <1>6. ASSUME Holds(entries, x) PROVE Len(W) < Len(entries)
    <2>1. PICK k \in DOMAIN entries : k \notin I
      BY <1>6, <1>a DEF Holds
    <2> QED
      BY <1>1, <2>1, PickedShorter
  <1>7. ASSUME ~Holds(entries, x) PROVE W = entries
    <2>1. I = DOMAIN entries
      BY <1>1, <1>7, <1>a DEF Holds
    <2> QED
      BY <1>1, <2>1, PickedAll
  <1>8. \A k \in DOMAIN entries : entries[k].id = x \/ entries[k].id \in IdsIn(W)
    BY <1>2, <1>a DEF IdsIn
  <1>9. ASSUME NEW n \in DOMAIN W
        PROVE  \E k \in DOMAIN entries :
                 W[n] = entries[k] /\ W[n].id # x /\ IdsAfter(W, n) \cup {x} = IdsAfter(entries, k) \cup {x}
    <2> DEFINE k == Nth(I, n)
    <2>1. n \in 1..Len(W) /\ k \in I /\ k \in DOMAIN entries /\ W[n] = entries[k]
      BY <1>1, <1>2
    <2> HIDE DEF k
    <2>2. ASSUME NEW j \in DOMAIN W, j > n PROVE W[j].id \in IdsAfter(entries, k)
      <3>1. j \in 1..Len(W) /\ n < j
        BY <1>2, <2>1, <2>2
      <3>2. Nth(I, j) \in I /\ k < Nth(I, j) /\ W[j] = entries[Nth(I, j)]
        BY <1>2, <2>1, <3>1 DEF k
      <3>3. Nth(I, j) \in DOMAIN entries /\ Nth(I, j) > k
        BY <1>1, <1>b, <2>1, <3>2
      <3> QED
        BY <3>2, <3>3 DEF IdsAfter
    <2>3. ASSUME NEW j \in DOMAIN entries, j > k, entries[j].id # x PROVE entries[j].id \in IdsAfter(W, n)
      <3> DEFINE r == Rank(I, j)
      <3>1. j \in I
        BY <2>3, <1>a
      <3>2. r \in 1..Len(W) /\ W[r] = entries[j] /\ Nth(I, r) = j
        BY <1>2, <3>1
      <3> HIDE DEF r
      <3>3. ~(r < n) /\ r # n
        BY <1>2, <1>b, <2>1, <2>3, <3>2 DEF k
      <3>4. r \in DOMAIN W /\ r > n
        BY <1>2, <2>1, <3>2, <3>3
      <3> QED
        BY <3>2, <3>4 DEF IdsAfter
    <2>4. IdsAfter(W, n) \subseteq IdsAfter(entries, k)
      BY <2>2 DEF IdsAfter
    <2>5. IdsAfter(entries, k) \subseteq IdsAfter(W, n) \cup {x}
      BY <2>3 DEF IdsAfter
    <2> QED
      BY <1>4, <2>1, <2>4, <2>5
  <1>10. Len(W) <= Len(entries)
    BY <1>2
  <1> QED
    BY <1>2, <1>3, <1>5, <1>6, <1>7, <1>8, <1>9, <1>10 DEF W

\* What record_id appends to, however it was called: all but x, and but the
\* head when the cache is full.
RoomFor(B, x) ==
  /\ B \in Seq(Entry) /\ Len(B) < MaxEntries /\ OneEach(B)
  /\ \A n \in DOMAIN B : \E k \in DOMAIN entries :
       B[n] = entries[k] /\ B[n].id # x /\ IdsAfter(B, n) \cup {x} = IdsAfter(entries, k) \cup {x}
  /\ \A k \in DOMAIN entries :
       \/ entries[k].id = x \/ entries[k].id \in IdsIn(B)
       \/ Cardinality(IdsAfter(entries, k) \cup {x}) >= MaxEntries

LEMMA RoomMadeFor ==
  ASSUME entries \in Seq(Entry), Len(entries) <= MaxEntries, OneEach(entries), NEW x \in Ids, now \in 0..MaxTime
  PROVE  \E B : /\ RoomFor(B, x)
                /\ RecordId(entries, x) = Append(B, [id |-> x, at |-> now])
                /\ RecordId(Without(entries, x), x) = Append(B, [id |-> x, at |-> now])
  <1> DEFINE W == Without(entries, x)
             e == [id |-> x, at |-> now]
             m == Len(entries)
  <1>1. /\ W \in Seq(Entry) /\ Len(W) <= m /\ OneEach(W) /\ ~Holds(W, x)
        /\ Holds(entries, x) => Len(W) < m
        /\ ~Holds(entries, x) => W = entries
        /\ \A n \in DOMAIN W : \E k \in DOMAIN entries :
             W[n] = entries[k] /\ W[n].id # x /\ IdsAfter(W, n) \cup {x} = IdsAfter(entries, k) \cup {x}
        /\ \A k \in DOMAIN entries : entries[k].id = x \/ entries[k].id \in IdsIn(W)
    BY WithoutIs
  <1>2. m \in Nat /\ DOMAIN entries = 1..m /\ m <= MaxEntries /\ MaxEntries \in Nat \ {0} /\ Len(W) \in Nat
    BY <1>1, DedupConstants
  <1> HIDE DEF W
  <1>3. CASE Len(W) < MaxEntries
    <2>1. RoomFor(W, x)
      BY <1>1, <1>3 DEF RoomFor
    <2>2. ~(Len(W) >= MaxEntries)
      BY <1>2, <1>3
    <2>3. RecordId(W, x) = Append(W, e)
      BY <1>1, <2>2 DEF RecordId
    <2>4. RecordId(entries, x) = Append(W, e)
      <3>1. CASE Holds(entries, x)
        BY <3>1 DEF RecordId, W
      <3>2. CASE ~Holds(entries, x)
        BY <1>1, <2>3, <3>2
      <3> QED
        BY <3>1, <3>2
    <2> QED
      BY <2>1, <2>3, <2>4 DEF W
  <1>4. CASE ~(Len(W) < MaxEntries)
    <2> DEFINE B == Tail(entries)
    <2>b. Len(W) <= m /\ (Holds(entries, x) => Len(W) < m) /\ (~Holds(entries, x) => W = entries)
      BY <1>1
    <2>1. m = MaxEntries /\ ~Holds(entries, x) /\ W = entries
      <3> HIDE DEF m
      <3>1. ~(Len(W) < m)
        BY <1>2, <1>4
      <3> QED
        BY <1>2, <1>4, <2>b, <3>1
    <2>2. RecordId(entries, x) = Append(B, e)
      BY <1>2, <2>1 DEF RecordId
    <2>3. entries # <<>>
      BY <1>2, <2>1
    <2>4. B \in Seq(Entry) /\ Len(B) = m - 1 /\ \A n \in 1..(m - 1) : B[n] = entries[n + 1]
      BY <1>2, <2>3
    <2>5. DOMAIN B = 1..(m - 1)
      BY <1>2, <2>4
    <2> HIDE DEF B, m, e
    <2>a. \A n \in DOMAIN B : n + 1 \in DOMAIN entries /\ B[n] = entries[n + 1]
      BY <1>2, <2>4, <2>5
    <2>6. OneEach(B)
      <3> SUFFICES ASSUME NEW i \in DOMAIN B, NEW j \in DOMAIN B, B[i].id = B[j].id PROVE i = j
        BY DEF OneEach
      <3>1. i + 1 = j + 1
        BY <2>a DEF OneEach
      <3> QED
        BY <1>2, <2>5, <3>1
    <2>7. \A n \in DOMAIN B : B[n].id # x
      BY <2>1, <2>a DEF Holds
    <2>8. \A n \in DOMAIN B : IdsAfter(B, n) = IdsAfter(entries, n + 1)
      <3> TAKE n \in DOMAIN B
      <3>1. ASSUME NEW j \in DOMAIN B, j > n PROVE B[j].id \in IdsAfter(entries, n + 1)
        <4>1. j + 1 \in DOMAIN entries /\ j + 1 > n + 1 /\ B[j] = entries[j + 1]
          BY <1>2, <2>5, <2>a, <3>1
        <4> QED
          BY <4>1 DEF IdsAfter
      <3>2. ASSUME NEW j \in DOMAIN entries, j > n + 1 PROVE entries[j].id \in IdsAfter(B, n)
        <4> DEFINE i == j - 1
        <4>1. i \in DOMAIN B /\ i > n /\ i + 1 = j
          BY <1>2, <2>5, <3>2
        <4> HIDE DEF i
        <4>2. B[i] = entries[j]
          BY <2>a, <4>1
        <4> QED
          BY <4>1, <4>2 DEF IdsAfter
      <3>3. IdsAfter(B, n) \subseteq IdsAfter(entries, n + 1)
        BY <3>1 DEF IdsAfter
      <3>4. IdsAfter(entries, n + 1) \subseteq IdsAfter(B, n)
        BY <3>2 DEF IdsAfter
      <3> QED
        BY <3>3, <3>4
    <2>9. ASSUME NEW k \in DOMAIN entries
          PROVE  entries[k].id \in IdsIn(B) \/ Cardinality(IdsAfter(entries, k) \cup {x}) >= MaxEntries
      <3>1. CASE k # 1
        <4> DEFINE i == k - 1
        <4>1. i \in DOMAIN B /\ i + 1 = k
          BY <1>2, <2>5, <3>1
        <4> HIDE DEF i
        <4>2. B[i] = entries[k]
          BY <2>a, <4>1
        <4> QED
          BY <4>1, <4>2 DEF IdsIn
      <3>2. CASE k = 1
        <4> DEFINE D == 2..m
                   f == [i \in D |-> entries[i].id]
        <4>1. D = {j \in DOMAIN entries : j > k}
          BY <1>2, <3>2
        <4>2. f \in Bijection(D, IdsAfter(entries, k))
          <5>1. f \in [D -> IdsAfter(entries, k)]
            BY <4>1 DEF IdsAfter
          <5>2. \A i, j \in D : f[i] = f[j] => i = j
            BY <4>1 DEF OneEach
          <5>3. \A y \in IdsAfter(entries, k) : \E i \in D : f[i] = y
            BY <4>1 DEF IdsAfter
          <5> HIDE DEF f, D
          <5> QED
            BY <5>1, <5>2, <5>3, Fun_IsBij
        <4>3. IsFiniteSet(D) /\ Cardinality(D) = m - 1
          <5>1. 2 \in Int /\ m \in Int /\ (2 > m => m = 1)
            BY <1>2, <2>1
          <5>2. IsFiniteSet(2..m) /\ Cardinality(2..m) = (IF 2 > m THEN 0 ELSE m - 2 + 1)
            BY <5>1, FS_Interval
          <5> QED
            BY <1>2, <5>1, <5>2
        <4> HIDE DEF f, D
        <4>4. IsFiniteSet(IdsAfter(entries, k)) /\ Cardinality(IdsAfter(entries, k)) = m - 1
          BY <4>2, <4>3, FS_Bijection DEF ExistsBijection
        <4>5. x \notin IdsAfter(entries, k)
          BY <2>1 DEF Holds, IdsAfter
        <4>6. Cardinality(IdsAfter(entries, k) \cup {x}) = (m - 1) + 1
          BY <4>4, <4>5, FS_AddElement
        <4> QED
          BY <1>2, <2>1, <4>6
      <3> QED
        BY <3>1, <3>2
    <2>10. Len(B) < MaxEntries
      BY <1>2, <2>1, <2>4
    <2>11. RoomFor(B, x)
      BY <2>4, <2>6, <2>7, <2>8, <2>9, <2>10, <2>a DEF RoomFor
    <2> QED
      BY <2>1, <2>2, <2>11 DEF W, e
  <1> QED
    BY <1>3, <1>4

\* A record, by whichever way.
LEMMA RecordFits ==
  ASSUME DedupTypeOK, CacheFits, NEW x \in Ids, UNCHANGED <<now, setBack>>,
         log' = Append(log, [id |-> x, at |-> now]),
         entries' = RecordId(entries, x) \/ entries' = RecordId(Without(entries, x), x)
  PROVE  DedupTypeOK' /\ CacheFits'
  <1> DEFINE e == [id |-> x, at |-> now]
  <1>0. /\ now \in 0..MaxTime /\ entries \in Seq(Entry) /\ Len(entries) <= MaxEntries /\ OneEach(entries)
        /\ log \in Seq(Entry) /\ setBack \in BOOLEAN
    BY DEF DedupTypeOK, OneEach
  <1>1. PICK B : RoomFor(B, x) /\ entries' = Append(B, e)
    BY <1>0, RoomMadeFor
  <1>2. e \in Entry /\ e.id = x
    BY <1>0 DEF Entry
  <1> HIDE DEF e
  <1>3. /\ log' \in Seq(Entry) /\ IdsIn(log)' = IdsIn(log) \cup {x}
        /\ log'[LastOf(x)'] = e /\ LaterIds(x)' = {}
        /\ \A id \in IdsIn(log) \ {x} :
             log'[LastOf(id)'] = log[LastOf(id)] /\ LaterIds(id)' = LaterIds(id) \cup {x}
    BY <1>0, <1>2, LogGrows DEF e
  <1> DEFINE b == Len(B)
  <1>4. /\ b \in Nat /\ DOMAIN B = 1..b /\ B \in Seq(Entry) /\ b < MaxEntries /\ OneEach(B)
    BY <1>1 DEF RoomFor
  <1>5. /\ entries' \in Seq(Entry) /\ Len(entries') = b + 1 /\ DOMAIN entries' = 1..(b + 1)
        /\ entries'[b + 1] = e /\ \A n \in 1..b : entries'[n] = B[n]
    BY <1>1, <1>2, <1>4
  <1> HIDE DEF b
  <1>6. ASSUME NEW n \in 1..b
        PROVE  \E k \in DOMAIN entries : /\ B[n] = entries[k] /\ B[n].id # x
                 /\ IdsAfter(B, n) \cup {x} = IdsAfter(entries, k) \cup {x}
    BY <1>1, <1>4 DEF RoomFor
  <1>7. ASSUME NEW k \in DOMAIN entries
        PROVE  \/ entries[k].id = x \/ entries[k].id \in IdsIn(B)
               \/ Cardinality(IdsAfter(entries, k) \cup {x}) >= MaxEntries
    BY <1>1 DEF RoomFor
  <1>8. DedupTypeOK'
    <2>1. ASSUME NEW i \in 1..(b + 1), NEW j \in 1..(b + 1), entries'[i].id = entries'[j].id PROVE i = j
      <3>1. CASE i \in 1..b /\ j \in 1..b
        BY <1>4, <1>5, <2>1, <3>1 DEF OneEach
      <3>2. \A n \in 1..b : entries'[n].id # x
        BY <1>5, <1>6
      <3>3. i = b + 1 \/ i \in 1..b
        BY <1>4
      <3>4. j = b + 1 \/ j \in 1..b
        BY <1>4
      <3> QED
        BY <1>2, <1>5, <2>1, <3>1, <3>2, <3>3, <3>4
    <2>2. Len(entries') <= MaxEntries
      BY <1>4, <1>5, DedupConstants
    <2> QED
      BY <1>0, <1>3, <1>5, <2>1, <2>2 DEF DedupTypeOK, Entry
  <1>9. \A n \in 1..b : IdsAfter(entries', n) = IdsAfter(B, n) \cup {x}
    <2> TAKE n \in 1..b
    <2>1. {j \in DOMAIN entries' : j > n} = {j \in DOMAIN B : j > n} \cup {b + 1}
      BY <1>4, <1>5
    <2>2. \A j \in DOMAIN B : entries'[j] = B[j]
      BY <1>4, <1>5
    <2> QED
      BY <1>2, <1>5, <2>1, <2>2 DEF IdsAfter
  <1>10. IdsAfter(entries', b + 1) = {}
    <2>1. {j \in DOMAIN entries' : j > b + 1} = {}
      BY <1>4, <1>5
    <2> QED
      BY <2>1 DEF IdsAfter
  <1>11. ASSUME NEW i \in 1..(b + 1), NEW id \in Ids, entries'[i].id = id
         PROVE  id \in IdsIn(log)' /\ entries'[i] = log'[LastOf(id)'] /\ LaterIds(id)' = IdsAfter(entries', i)
    <2>1. CASE i = b + 1
      <3>1. id = x
        BY <1>2, <1>5, <1>11, <2>1
      <3> QED
        BY <1>3, <1>5, <1>10, <2>1, <3>1
    <2>2. CASE i # b + 1
      <3>1. i \in 1..b
        BY <1>4, <2>2
      <3>2. PICK k \in DOMAIN entries : /\ B[i] = entries[k] /\ B[i].id # x
                 /\ IdsAfter(B, i) \cup {x} = IdsAfter(entries, k) \cup {x}
        BY <1>6, <3>1
      <3>4. entries'[i] = entries[k] /\ id # x /\ entries[k].id = id
        BY <1>5, <1>11, <3>1, <3>2
      <3>3. id \in IdsIn(log) /\ entries[k] = log[LastOf(id)] /\ LaterIds(id) = IdsAfter(entries, k)
        BY <3>4 DEF CacheFits
      <3>5. log'[LastOf(id)'] = log[LastOf(id)] /\ LaterIds(id)' = LaterIds(id) \cup {x}
        BY <1>3, <3>3, <3>4
      <3>6. LaterIds(id)' = IdsAfter(entries', i)
        BY <1>9, <3>1, <3>2, <3>3, <3>5
      <3> QED
        BY <1>3, <3>3, <3>4, <3>5, <3>6
    <2> QED
      BY <2>1, <2>2
  <1>12. ASSUME NEW id \in IdsIn(log)'
         PROVE  \/ id \in IdsIn(entries') \/ setBack' \/ ~Fresh(log[LastOf(id)])'
                \/ Cardinality(LaterIds(id)') >= MaxEntries
    <2>1. CASE id = x
      <3>1. b + 1 \in DOMAIN entries'
        BY <1>4, <1>5
      <3> QED
        BY <1>2, <1>5, <2>1, <3>1 DEF IdsIn
    <2>2. CASE id # x
      <3>1. /\ id \in IdsIn(log) /\ log'[LastOf(id)'] = log[LastOf(id)] /\ LaterIds(id)' = LaterIds(id) \cup {x}
        BY <1>3, <2>2
      <3>2. \/ id \in IdsIn(entries) \/ setBack \/ ~Fresh(log[LastOf(id)])
            \/ Cardinality(LaterIds(id)) >= MaxEntries
        BY <3>1 DEF CacheFits
      <3>3. CASE setBack \/ ~Fresh(log[LastOf(id)])
        BY <3>1, <3>3 DEF Fresh
      <3>4. CASE id \in IdsIn(entries)
        <4>1. PICK k \in DOMAIN entries : id = entries[k].id
          BY <3>4 DEF IdsIn
        <4>a. entries[k] \in Entry
          BY <1>0
        <4>2. LaterIds(id) = IdsAfter(entries, k)
          BY <4>1, <4>a DEF CacheFits, Entry
        <4>3. CASE id \in IdsIn(B)
          <5>1. PICK n \in DOMAIN B : id = B[n].id
            BY <4>3 DEF IdsIn
          <5>2. n \in DOMAIN entries' /\ entries'[n] = B[n]
            BY <1>4, <1>5
          <5> QED
            BY <5>1, <5>2 DEF IdsIn
        <4>4. CASE id \notin IdsIn(B)
          BY <1>7, <2>2, <3>1, <4>1, <4>2, <4>4
        <4> QED
          BY <4>3, <4>4
      <3>5. CASE Cardinality(LaterIds(id)) >= MaxEntries
        <4>1. IsFiniteSet(LaterIds(id)) /\ Cardinality(LaterIds(id)) \in Nat
          BY <1>0, <3>1, LaterIdsFinite
        <4>2. /\ Cardinality(LaterIds(id) \cup {x}) = Cardinality(LaterIds(id))
              \/ Cardinality(LaterIds(id) \cup {x}) = Cardinality(LaterIds(id)) + 1
          BY <4>1, FS_AddElement
        <4> QED
          BY <3>1, <3>5, <4>1, <4>2, DedupConstants
      <3> QED
        BY <3>2, <3>3, <3>4, <3>5
    <2> QED
      BY <2>1, <2>2
  <1>13. CacheFits'
    <2>1. IdsIn(entries)' = IdsIn(entries') /\ \A i : IdsAfter(entries, i)' = IdsAfter(entries', i)
      BY DEF IdsIn, IdsAfter
    <2> QED
      BY <1>5, <1>11, <1>12, <2>1 DEF CacheFits
  <1> QED
    BY <1>8, <1>13

\* prune_expired drops a head of the cache in which nothing counts any more.
LEMMA PruneFits ==
  ASSUME DedupTypeOK, CacheFits, entries' = PrunedEntries, UNCHANGED <<now, setBack, log>>
  PROVE  DedupTypeOK' /\ CacheFits'
  <1> DEFINE live == {i \in DOMAIN entries : Fresh(entries[i])}
             m == Len(entries)
  <1>0. /\ now \in 0..MaxTime /\ entries \in Seq(Entry) /\ m <= MaxEntries /\ OneEach(entries)
        /\ log \in Seq(Entry) /\ setBack \in BOOLEAN /\ m \in Nat /\ DOMAIN entries = 1..m
    BY DEF DedupTypeOK, OneEach
  <1>1. entries' = IF live = {} THEN <<>> ELSE SubSeq(entries, Min(live), m)
    BY DEF PrunedEntries
  <1>2. \A i \in 1..m : i \in live <=> Fresh(entries[i])
    BY <1>0
  <1>3. live \in SUBSET (1..m)
    BY <1>0
  <1> HIDE DEF live, m
  <1>4. \E d \in 0..m : /\ entries' \in Seq(Entry) /\ Len(entries') = m - d /\ DOMAIN entries' = 1..(m - d)
                        /\ \A n \in 1..(m - d) : entries'[n] = entries[n + d]
                        /\ \A i \in 1..d : ~Fresh(entries[i])
    <2>1. CASE live = {}
      <3>1. entries' = <<>> /\ m \in 0..m /\ m - m = 0
        BY <1>0, <1>1, <2>1
      <3>2. \A i \in 1..m : ~Fresh(entries[i])
        BY <1>2, <2>1
      <3> QED
        BY <1>0, <3>1, <3>2
    <2>2. CASE live # {}
      <3> DEFINE a == Min(live)
      <3>1. a \in live /\ \A i \in live : a <= i
        BY <1>0, <1>3, <2>2, EndsOf
      <3>2. a \in 1..m
        BY <1>3, <3>1
      <3>3. entries' = SubSeq(entries, a, m)
        BY <1>1, <2>2
      <3> HIDE DEF a
      <3> DEFINE d == a - 1
      <3>4. d \in 0..m /\ a = d + 1
        BY <1>0, <3>2
      <3>5. entries' \in Seq(Entry) /\ Len(entries') = m - d /\ DOMAIN entries' = 1..(m - d)
        BY <1>0, <3>2, <3>3 DEF m
      <3>6. \A n \in 1..(m - d) : entries'[n] = entries[n + d]
        BY <1>0, <3>2, <3>3 DEF m
      <3>7. \A i \in 1..d : ~Fresh(entries[i])
        BY <1>0, <1>2, <3>1, <3>2
      <3> QED
        BY <3>4, <3>5, <3>6, <3>7
    <2> QED
      BY <2>1, <2>2
  <1>5. PICK d \in 0..m : /\ entries' \in Seq(Entry) /\ Len(entries') = m - d /\ DOMAIN entries' = 1..(m - d)
                          /\ \A n \in 1..(m - d) : entries'[n] = entries[n + d]
                          /\ \A i \in 1..d : ~Fresh(entries[i])
    BY <1>4
  <1>6. \A n \in 1..(m - d) : n + d \in 1..m
    BY <1>0
  <1>7. DedupTypeOK'
    <2>1. ASSUME NEW i \in 1..(m - d), NEW j \in 1..(m - d), entries'[i].id = entries'[j].id PROVE i = j
      <3>1. i + d = j + d
        BY <1>0, <1>5, <1>6, <2>1 DEF OneEach
      <3> QED
        BY <1>0, <3>1
    <2>2. Len(entries') <= MaxEntries
      BY <1>0, <1>5, DedupConstants
    <2> QED
      BY <1>0, <1>5, <2>1, <2>2 DEF DedupTypeOK
  <1>8. ASSUME NEW n \in 1..(m - d) PROVE IdsAfter(entries', n) = IdsAfter(entries, n + d)
    <2>1. ASSUME NEW j \in DOMAIN entries', j > n PROVE entries'[j].id \in IdsAfter(entries, n + d)
      <3>1. j + d \in DOMAIN entries /\ j + d > n + d /\ entries'[j] = entries[j + d]
        BY <1>0, <1>5, <1>6, <2>1
      <3> QED
        BY <3>1 DEF IdsAfter
    <2>2. ASSUME NEW j \in DOMAIN entries, j > n + d PROVE entries[j].id \in IdsAfter(entries', n)
      <3> DEFINE i == j - d
      <3>1. i \in 1..(m - d) /\ i > n /\ i + d = j
        BY <1>0, <2>2
      <3> HIDE DEF i
      <3>2. entries'[i] = entries[j] /\ i \in DOMAIN entries'
        BY <1>5, <3>1
      <3> QED
        BY <3>1, <3>2 DEF IdsAfter
    <2>3. IdsAfter(entries', n) \subseteq IdsAfter(entries, n + d)
      BY <2>1 DEF IdsAfter
    <2>4. IdsAfter(entries, n + d) \subseteq IdsAfter(entries', n)
      BY <2>2 DEF IdsAfter
    <2> QED
      BY <2>3, <2>4
  <1>9. \A id : LastOf(id)' = LastOf(id) /\ LaterIds(id)' = LaterIds(id)
    BY DEF LastOf, LaterIds
  <1>10. ASSUME NEW n \in 1..(m - d), NEW id \in Ids, entries'[n].id = id
         PROVE  id \in IdsIn(log)' /\ entries'[n] = log'[LastOf(id)'] /\ LaterIds(id)' = IdsAfter(entries', n)
    <2> DEFINE k == n + d
    <2>1. k \in DOMAIN entries /\ entries'[n] = entries[k]
      BY <1>0, <1>5, <1>6
    <2> HIDE DEF k
    <2>2. id \in IdsIn(log) /\ entries[k] = log[LastOf(id)] /\ LaterIds(id) = IdsAfter(entries, k)
      BY <1>10, <2>1 DEF CacheFits
    <2>3. IdsIn(log)' = IdsIn(log)
      BY DEF IdsIn
    <2>4. IdsAfter(entries', n) = IdsAfter(entries, k)
      BY <1>8 DEF k
    <2>5. log'[LastOf(id)'] = log[LastOf(id)] /\ LaterIds(id)' = LaterIds(id)
      BY <1>9
    <2> QED
      BY <2>1, <2>2, <2>3, <2>4, <2>5
  <1>11. ASSUME NEW id \in IdsIn(log)'
         PROVE  \/ id \in IdsIn(entries') \/ setBack' \/ ~Fresh(log[LastOf(id)])'
                \/ Cardinality(LaterIds(id)') >= MaxEntries
    <2>1. id \in IdsIn(log) /\ log'[LastOf(id)'] = log[LastOf(id)]
      BY <1>9 DEF IdsIn
    <2>2. \/ id \in IdsIn(entries) \/ setBack \/ ~Fresh(log[LastOf(id)])
          \/ Cardinality(LaterIds(id)) >= MaxEntries
      BY <2>1 DEF CacheFits
    <2>3. CASE setBack \/ ~Fresh(log[LastOf(id)]) \/ Cardinality(LaterIds(id)) >= MaxEntries
      BY <1>9, <2>1, <2>3 DEF Fresh
    <2>4. CASE id \in IdsIn(entries)
      <3>1. PICK k \in 1..m : id = entries[k].id
        BY <1>0, <2>4 DEF IdsIn
      <3>a. entries[k] \in Entry
        BY <1>0
      <3>2. entries[k] = log[LastOf(id)]
        BY <1>0, <3>1, <3>a DEF CacheFits, Entry
      <3>3. CASE k <= d
        <4>1. ~Fresh(entries[k])
          BY <1>0, <1>5, <3>3
        <4> QED
          BY <2>1, <3>2, <4>1 DEF Fresh
      <3>4. CASE k > d
        <4> DEFINE n == k - d
        <4>1. n \in 1..(m - d) /\ n + d = k
          BY <1>0, <3>4
        <4> HIDE DEF n
        <4>2. n \in DOMAIN entries' /\ entries'[n] = entries[k]
          BY <1>5, <4>1
        <4> QED
          BY <3>1, <4>2 DEF IdsIn
      <3> QED
        BY <1>0, <3>3, <3>4
    <2> QED
      BY <2>2, <2>3, <2>4
  <1>12. CacheFits'
    <2>1. IdsIn(entries)' = IdsIn(entries') /\ \A i : IdsAfter(entries, i)' = IdsAfter(entries', i)
      BY DEF IdsIn, IdsAfter
    <2> QED
      BY <1>5, <1>10, <1>11, <2>1 DEF CacheFits
  <1> QED
    BY <1>7, <1>12

\* The clock goes on, or it is set back.
LEMMA ClockFits ==
  ASSUME DedupTypeOK, CacheFits, SetClock, UNCHANGED <<entries, log>>
  PROVE  DedupTypeOK' /\ CacheFits' /\ (~setBack' => ~setBack /\ now <= now')
  <1>1. now \in 0..MaxTime /\ now' \in 0..MaxTime /\ Ttl \in Nat /\ log \in Seq(Entry)
    BY DedupConstants DEF DedupTypeOK, SetClock
  <1>a. now \in Int /\ now' \in Int
    BY <1>1
  <1>b. setBack' = (setBack \/ now' < now) /\ setBack \in BOOLEAN
    BY DEF DedupTypeOK, SetClock
  <1>2. DedupTypeOK'
    BY <1>1, <1>b DEF DedupTypeOK
  <1>3. ~setBack' => ~setBack /\ now <= now'
    <2>1. ~(now' < now) => now <= now'
      BY <1>a
    <2> QED
      BY <1>b, <2>1, Zenon
  <1>4. \A id : LastOf(id)' = LastOf(id) /\ LaterIds(id)' = LaterIds(id)
    BY DEF LastOf, LaterIds
  <1>5. IdsIn(log)' = IdsIn(log) /\ IdsIn(entries)' = IdsIn(entries)
    BY DEF IdsIn
  <1>6. ASSUME NEW id \in IdsIn(log), ~setBack', ~Fresh(log[LastOf(id)]) PROVE ~Fresh(log[LastOf(id)])'
    <2>1. LastOf(id) \in DOMAIN log
      BY <1>1, LastOfIs
    <2>a. log[LastOf(id)] \in Entry
      BY <1>1, <2>1
    <2>2. log[LastOf(id)].at \in 0..MaxTime
      BY <2>a DEF Entry
    <2>3. log'[LastOf(id)'] = log[LastOf(id)]
      BY <1>4
    <2>4. ~(now' - log[LastOf(id)].at <= Ttl)
      BY <1>1, <1>3, <1>6, <2>2 DEF Fresh
    <2> QED
      BY <2>3, <2>4 DEF Fresh
  <1>7. CacheFits'
    BY <1>3, <1>4, <1>5, <1>6 DEF CacheFits, IdsAfter
  <1> QED
    BY <1>2, <1>3, <1>7

LEMMA CacheExact ==
  ASSUME DedupTypeOK, CacheFits
  PROVE  ExactMemory
  <1>0. entries \in Seq(Entry) /\ log \in Seq(Entry) /\ Len(entries) <= MaxEntries
    BY DEF DedupTypeOK
  <1>1. ASSUME NEW id \in Ids, IsIdDuplicate(id) PROVE id \in Remembered
    <2>1. PICK i \in DOMAIN entries : entries[i].id = id /\ Fresh(entries[i])
      BY <1>1 DEF IsIdDuplicate
    <2>2. id \in IdsIn(log) /\ entries[i] = log[LastOf(id)] /\ LaterIds(id) = IdsAfter(entries, i)
      BY <2>1 DEF CacheFits
    <2> DEFINE m == Len(entries)
               D == (i + 1)..m
               f == [j \in D |-> entries[j].id]
    <2>3. m \in Nat /\ i \in 1..m /\ m <= MaxEntries /\ MaxEntries \in Nat
      BY <1>0, DedupConstants
    <2>4. D = {j \in DOMAIN entries : j > i}
      BY <2>3
    <2>5. f \in Surjection(D, IdsAfter(entries, i))
      BY <2>4 DEF Surjection, IdsAfter
    <2>6. IsFiniteSet(D) /\ Cardinality(D) <= m - 1 /\ Cardinality(D) \in Nat
      <3> HIDE DEF m
      <3>0. i + 1 \in Int /\ m \in Int
        BY <2>3
      <3>1. IsFiniteSet(D) /\ Cardinality(D) = (IF i + 1 > m THEN 0 ELSE m - (i + 1) + 1)
        BY ONLY <3>0, FS_Interval
      <3> QED
        BY <2>3, <3>1
    <2> HIDE DEF D, f, m
    <2>7. IsFiniteSet(IdsAfter(entries, i)) /\ Cardinality(IdsAfter(entries, i)) <= Cardinality(D)
      BY <2>5, <2>6, FS_Surjection
    <2>8. Cardinality(LaterIds(id)) \in Nat
      BY <1>0, <2>2, LaterIdsFinite
    <2>9. Cardinality(LaterIds(id)) < MaxEntries
      BY <2>2, <2>3, <2>6, <2>7, <2>8
    <2> QED
      BY <2>1, <2>2, <2>9 DEF Remembered, IdsIn
  <1>2. ASSUME ~setBack, NEW id \in Remembered PROVE id \in Ids /\ IsIdDuplicate(id)
    <2>1. id \in IdsIn(log) /\ Fresh(log[LastOf(id)]) /\ Cardinality(LaterIds(id)) < MaxEntries
      BY DEF Remembered, IdsIn
    <2>2. Cardinality(LaterIds(id)) \in Nat
      BY <1>0, <2>1, LaterIdsFinite
    <2>3. id \in IdsIn(entries)
      BY <1>2, <2>1, <2>2, DedupConstants DEF CacheFits
    <2>4. PICK i \in DOMAIN entries : id = entries[i].id
      BY <2>3 DEF IdsIn
    <2>a. entries[i] \in Entry
      BY <1>0
    <2>6. id \in Ids
      BY <2>4, <2>a DEF Entry
    <2>5. entries[i] = log[LastOf(id)]
      BY <2>4, <2>6 DEF CacheFits
    <2> QED
      BY <2>1, <2>4, <2>5, <2>6 DEF IsIdDuplicate
  <1> QED
    BY <1>1, <1>2 DEF ExactMemory

-----------------------------------------------------------------------------
(***************************************************************************)
(* The rate limiter: the same argument as the beacon limiter's, per        *)
(* sender.                                                                 *)
(***************************************************************************)

LimiterShape(L) == L \in [Senders -> Seq(0..MaxTime)] /\ \A s \in Senders : Len(L[s]) <= RateLimit

LimiterFits ==
  /\ LimiterShape(limiter) /\ admitted \in [Senders -> Seq(0..MaxTime)]
  /\ ~setBack => \A s \in Senders :
       /\ Ascending(admitted[s], now) /\ Remembers(limiter[s], admitted[s], now, RateWindow)
       /\ Spaced(admitted[s], RateLimit, RateWindow)

LEMMA RouterConstants ==
  /\ MaxTime \in Nat /\ RateLimit \in Nat \ {0} /\ MaxRoutes \in Nat \ {0}
  /\ RateWindow \in Nat /\ RouteTtl \in Nat /\ MaxTtl \in Nat /\ Ttls \subseteq Nat
  BY DedupAssumption, RouterAssumption

LEMMA TimesAreInts ==
  ASSUME NEW L \in Seq(0..MaxTime)
  PROVE  L \in Seq(Int) /\ Len(L) \in Nat /\ DOMAIN L = 1..Len(L) /\ \A i \in DOMAIN L : L[i] \in Int
  BY RouterConstants

\* Pruning empties a list only when its last time is a window ago.
LEMMA LastIsMax ==
  ASSUME NEW L \in Seq(Int), NEW A \in Seq(Int), NEW t \in Int, NEW W \in Int,
         Ascending(A, t), Remembers(L, A, t, W), L # <<>>
  PROVE  Max(ToSet(L)) = L[Len(L)]
  <1> DEFINE k == Len(L)
             m == Len(A)
             S == ToSet(L)
  <1>1. k \in Nat /\ k # 0 /\ m \in Nat /\ k <= m /\ DOMAIN L = 1..k /\ DOMAIN A = 1..m
    BY DEF Remembers
  <1>2. \A n \in 1..k : L[n] = A[m - k + n]
    BY DEF Remembers
  <1>3. S = {L[n] : n \in 1..k} /\ \A n \in 1..k : L[n] \in Int
    BY <1>1 DEF ToSet
  <1> HIDE DEF k, m, S
  <1>4. ASSUME NEW n \in 1..k PROVE L[n] <= L[k]
    <2>1. m - k + n \in DOMAIN A /\ m - k + k \in DOMAIN A /\ m - k + n <= m - k + k /\ k \in 1..k
      BY <1>1
    <2>2. A[m - k + n] <= A[m - k + k]
      BY <2>1 DEF Ascending
    <2> QED
      BY <1>2, <2>1, <2>2
  <1>5. L[k] \in S /\ \A y \in S : L[k] >= y /\ y \in Int
    BY <1>1, <1>3, <1>4
  <1>6. Max(S) \in S /\ \A y \in S : Max(S) >= y
    BY <1>5 DEF Max
  <1>7. Max(S) = L[k]
    BY <1>5, <1>6
  <1> QED
    BY <1>7 DEF S, k

LEMMA PrunedLimiterFits ==
  ASSUME DedupTypeOK, LimiterFits
  PROVE  /\ LimiterShape(PrunedLimiter)
         /\ ~setBack => \A s \in Senders : Remembers(PrunedLimiter[s], admitted[s], now, RateWindow)
  <1>1. /\ limiter \in [Senders -> Seq(0..MaxTime)] /\ admitted \in [Senders -> Seq(0..MaxTime)]
        /\ \A s \in Senders : Len(limiter[s]) <= RateLimit
    BY DEF LimiterFits, LimiterShape
  <1>2. \A s \in Senders : PrunedLimiter[s] = <<>> \/ PrunedLimiter[s] = limiter[s]
    BY DEF PrunedLimiter
  <1>3. LimiterShape(PrunedLimiter)
    <2>1. PrunedLimiter \in [Senders -> Seq(0..MaxTime)]
      <3>1. <<>> \in Seq(0..MaxTime)
        OBVIOUS
      <3>2. \A s \in Senders : PrunedLimiter[s] \in Seq(0..MaxTime)
        BY <1>1, <1>2, <3>1
      <3>3. PrunedLimiter = [s \in Senders |-> PrunedLimiter[s]]
        BY DEF PrunedLimiter
      <3> HIDE DEF PrunedLimiter
      <3> QED
        BY <3>2, <3>3
    <2>2. \A s \in Senders : Len(PrunedLimiter[s]) <= RateLimit
      <3> TAKE s \in Senders
      <3>1. Len(<<>>) = 0
        OBVIOUS
      <3> QED
        BY <1>1, <1>2, <3>1, RouterConstants
    <2> QED
      BY <2>1, <2>2 DEF LimiterShape
  <1>4. ASSUME ~setBack, NEW s \in Senders PROVE Remembers(PrunedLimiter[s], admitted[s], now, RateWindow)
    <2> DEFINE L == limiter[s]
               A == admitted[s]
    <2>1. L \in Seq(Int) /\ A \in Seq(Int) /\ now \in Int /\ RateWindow \in Int
      BY <1>1, TimesAreInts, RouterConstants DEF DedupTypeOK
    <2>2. Ascending(A, now) /\ Remembers(L, A, now, RateWindow)
      BY <1>4 DEF LimiterFits
    <2>3. PrunedLimiter[s] = IF L # <<>> /\ now - Max(ToSet(L)) > RateWindow THEN <<>> ELSE L
      BY DEF PrunedLimiter
    <2> HIDE DEF L, A
    <2>4. CASE L # <<>> /\ now - Max(ToSet(L)) > RateWindow
      <3>1. now - L[Len(L)] > RateWindow
        BY <2>1, <2>2, <2>4, LastIsMax
      <3>2. Remembers(<<>>, A, now, RateWindow)
        BY <2>1, <2>2, <2>4, <3>1, RemembersNothing
      <3> QED
        BY <2>3, <2>4, <3>2 DEF A
    <2>5. CASE ~(L # <<>> /\ now - Max(ToSet(L)) > RateWindow)
      BY <2>2, <2>3, <2>5 DEF A
    <2> QED
      BY <2>4, <2>5
  <1> QED
    BY <1>3, <1>4

LEMMA StampsFit ==
  ASSUME DedupTypeOK, LimiterFits
  PROVE  /\ LimiterShape(Stamps)
         /\ ~setBack => \A s \in Senders : Remembers(Stamps[s], admitted[s], now, RateWindow)
  <1>1. Stamps = PrunedLimiter \/ Stamps = limiter
    BY DEF Stamps
  <1>2. CASE Stamps = PrunedLimiter
    BY <1>2, PrunedLimiterFits
  <1>3. CASE Stamps = limiter
    BY <1>3 DEF LimiterFits
  <1> QED
    BY <1>1, <1>2, <1>3

\* is_rate_limited's list of recent times.
LEMMA RecentFits ==
  ASSUME DedupTypeOK, LimiterFits, NEW s \in Senders
  PROVE  /\ Recent(Stamps[s]) \in Seq(0..MaxTime) /\ Len(Recent(Stamps[s])) <= RateLimit
         /\ ~setBack => Remembers(Recent(Stamps[s]), admitted[s], now, RateWindow)
  <1> DEFINE L == Stamps[s]
             A == admitted[s]
             I == {i \in DOMAIN L : now - L[i] <= RateWindow}
             R == Recent(L)
  <1>1. Stamps \in [Senders -> Seq(0..MaxTime)] /\ Len(L) <= RateLimit
    BY StampsFit DEF LimiterShape
  <1>2. L \in Seq(0..MaxTime) /\ I \in SUBSET (DOMAIN L) /\ R = Picked(L, I) /\ A \in Seq(0..MaxTime)
    BY <1>1 DEF Recent, LimiterFits
  <1>3. R \in Seq(0..MaxTime) /\ Len(R) \in Nat /\ Len(R) <= Len(L)
    <2> HIDE DEF L, I, R, A
    <2> QED
      BY <1>2, PickedIs
  <1>4. L \in Seq(Int) /\ A \in Seq(Int) /\ now \in Int /\ RateWindow \in Int /\ Len(L) \in Nat
    BY <1>2, TimesAreInts, RouterConstants DEF DedupTypeOK
  <1>5. ASSUME ~setBack PROVE Remembers(R, A, now, RateWindow)
    <2>1. Ascending(A, now) /\ Remembers(L, A, now, RateWindow)
      BY <1>5, StampsFit DEF LimiterFits
    <2> HIDE DEF L, A, R
    <2> QED
      BY <1>2, <1>4, <2>1, RemembersRecent
  <1>6. Len(R) <= RateLimit
    <2> HIDE DEF L, R
    <2> QED
      BY <1>1, <1>3, <1>4, RouterConstants
  <1> QED
    BY <1>3, <1>5, <1>6

\* A refusal leaves the recent times, an admission adds its own.
LEMMA RefusalFits ==
  ASSUME DedupTypeOK, LimiterFits, NEW s \in Senders, IsRateLimited(s), ChargeLimiter(s),
         UNCHANGED <<now, setBack, admitted>>
  PROVE  LimiterFits'
  <1> DEFINE R == Recent(Stamps[s])
  <1>1. LimiterShape(Stamps)
    BY StampsFit
  <1>2. R \in Seq(0..MaxTime) /\ Len(R) <= RateLimit /\ (~setBack => Remembers(R, admitted[s], now, RateWindow))
    BY RecentFits
  <1>3. limiter' = [Stamps EXCEPT ![s] = R]
    BY <1>1 DEF ChargeLimiter, LimiterShape
  <1> HIDE DEF R
  <1>4. LimiterShape(limiter') /\ limiter'[s] = R /\ \A p \in Senders \ {s} : limiter'[p] = Stamps[p]
    BY <1>1, <1>2, <1>3 DEF LimiterShape
  <1>5. ASSUME ~setBack, NEW p \in Senders PROVE Remembers(limiter'[p], admitted[p], now, RateWindow)
    BY <1>2, <1>4, <1>5, StampsFit
  <1> QED
    BY <1>4, <1>5 DEF LimiterFits, LimiterShape

LEMMA AdmissionFits ==
  ASSUME DedupTypeOK, LimiterFits, NEW s \in Senders, ~IsRateLimited(s), ChargeLimiter(s),
         admitted' = [admitted EXCEPT ![s] = Append(@, now)], UNCHANGED <<now, setBack>>
  PROVE  LimiterFits'
  <1> DEFINE R == Recent(Stamps[s])
             A == admitted[s]
  <1>1. LimiterShape(Stamps) /\ admitted \in [Senders -> Seq(0..MaxTime)] /\ now \in 0..MaxTime
    BY StampsFit DEF LimiterFits, DedupTypeOK
  <1>2. R \in Seq(0..MaxTime) /\ (~setBack => Remembers(R, A, now, RateWindow)) /\ Len(R) <= RateLimit
    BY RecentFits
  <1>3. limiter' = [Stamps EXCEPT ![s] = Append(R, now)]
    BY <1>1 DEF ChargeLimiter, LimiterShape
  <1>a. A \in Seq(0..MaxTime) /\ A \in Seq(Int) /\ now \in Int /\ RateWindow \in Int
    BY <1>1, TimesAreInts, RouterConstants
  <1>b. R \in Seq(Int) /\ Len(R) \in Nat
    BY <1>2, TimesAreInts
  <1>c. ~(Len(R) >= RateLimit)
    BY DEF IsRateLimited
  <1> HIDE DEF R
  <1>4. Len(R) < RateLimit
    BY <1>b, <1>c, RouterConstants
  <1>5. Append(R, now) \in Seq(0..MaxTime) /\ Len(Append(R, now)) <= RateLimit
    BY <1>1, <1>2, <1>4, <1>b, RouterConstants
  <1>6. /\ LimiterShape(limiter') /\ limiter'[s] = Append(R, now)
        /\ \A p \in Senders \ {s} : limiter'[p] = Stamps[p]
    BY <1>1, <1>3, <1>5 DEF LimiterShape
  <1>7. /\ admitted' \in [Senders -> Seq(0..MaxTime)] /\ admitted'[s] = Append(A, now)
        /\ \A p \in Senders \ {s} : admitted'[p] = admitted[p]
    BY <1>1
  <1>8. ASSUME ~setBack, NEW p \in Senders
        PROVE  /\ Ascending(admitted'[p], now) /\ Remembers(limiter'[p], admitted'[p], now, RateWindow)
               /\ Spaced(admitted'[p], RateLimit, RateWindow)
    <2>1. CASE p # s
      BY <1>6, <1>7, <1>8, <2>1, StampsFit DEF LimiterFits
    <2>2. CASE p = s
      <3>1. Ascending(A, now) /\ Spaced(A, RateLimit, RateWindow) /\ Remembers(R, A, now, RateWindow)
        BY <1>2, <1>8 DEF LimiterFits
      <3> HIDE DEF A
      <3>2. /\ Ascending(Append(A, now), now) /\ Remembers(Append(R, now), Append(A, now), now, RateWindow)
            /\ Spaced(Append(A, now), RateLimit, RateWindow)
        BY <1>4, <1>a, <1>b, <3>1, RouterConstants, LetThrough
      <3> QED
        BY <1>6, <1>7, <2>2, <3>2
    <2> QED
      BY <2>1, <2>2
  <1> QED
    BY <1>6, <1>7, <1>8 DEF LimiterFits, LimiterShape

LEMMA LimiterLater ==
  ASSUME DedupTypeOK, DedupTypeOK', LimiterFits, ~setBack' => ~setBack /\ now <= now',
         UNCHANGED <<limiter, admitted>>
  PROVE  LimiterFits'
  <1>1. /\ limiter \in [Senders -> Seq(0..MaxTime)] /\ admitted \in [Senders -> Seq(0..MaxTime)]
        /\ now \in Int /\ now' \in Int /\ RateWindow \in Int
    BY RouterConstants DEF LimiterFits, LimiterShape, DedupTypeOK
  <1>2. ASSUME ~setBack', NEW s \in Senders
        PROVE  Ascending(admitted[s], now') /\ Remembers(limiter[s], admitted[s], now', RateWindow)
               /\ Spaced(admitted[s], RateLimit, RateWindow)
    <2> DEFINE L == limiter[s]
               A == admitted[s]
    <2>1. L \in Seq(Int) /\ A \in Seq(Int)
      BY <1>1, TimesAreInts
    <2>2. Ascending(A, now) /\ Remembers(L, A, now, RateWindow) /\ Spaced(A, RateLimit, RateWindow)
      BY <1>2 DEF LimiterFits
    <2> HIDE DEF L, A
    <2>3. Ascending(A, now') /\ Remembers(L, A, now', RateWindow)
      BY <1>1, <1>2, <2>1, <2>2, RemembersLater
    <2> QED
      BY <2>2, <2>3 DEF L, A
  <1> QED
    BY <1>2 DEF LimiterFits, LimiterShape

-----------------------------------------------------------------------------
(***************************************************************************)
(* The routing table: one route per destination, none unheard of.          *)
(***************************************************************************)

Table(rs) == rs \in Seq(Route) /\ \A i, j \in DOMAIN rs : rs[i].dest = rs[j].dest => i = j

RoutesFit == Table(routes) /\ Len(routes) <= MaxRoutes /\ RoutesWitnessed

LEMMA TablePicked ==
  ASSUME NEW rs, Table(rs), NEW I \in SUBSET (DOMAIN rs), NEW q, q = Picked(rs, I)
  PROVE  /\ Table(q) /\ Len(q) \in Nat /\ Len(q) <= Len(rs) /\ ToSet(q) \subseteq ToSet(rs)
         /\ \A k \in DOMAIN rs : k \notin I => Len(q) < Len(rs)
  <1>1. rs \in Seq(Route) /\ I \in SUBSET (DOMAIN rs) /\ q = Picked(rs, I)
    BY DEF Table
  <1>2. /\ q \in Seq(Route) /\ Len(q) \in Nat /\ Len(q) <= Len(rs) /\ DOMAIN q = 1..Len(q)
        /\ \A n \in 1..Len(q) : Nth(I, n) \in I /\ q[n] = rs[Nth(I, n)]
        /\ \A a, b \in 1..Len(q) : Nth(I, a) = Nth(I, b) => a = b
    BY ONLY <1>1, PickedIs
  <1>3. \A k \in DOMAIN rs : k \notin I => Len(q) < Len(rs)
    BY <1>1, PickedShorter
  <1>4. Table(q)
    BY <1>2 DEF Table
  <1>5. ToSet(q) \subseteq ToSet(rs)
    BY <1>2 DEF ToSet
  <1> QED
    BY <1>2, <1>3, <1>4, <1>5

\* add_route's first part leaves room, also when every route is valid.
LEMMA RoomForRoute ==
  ASSUME Table(routes), Len(routes) <= MaxRoutes
  PROVE  /\ Table(RoomMade) /\ Len(RoomMade) < MaxRoutes /\ ToSet(RoomMade) \subseteq ToSet(routes)
         /\ Len(routes) < MaxRoutes => RoomMade = routes
  <1> DEFINE P == PrunedRoutes
             V == {i \in DOMAIN routes : RouteValid(routes[i])}
             oldest == {i \in DOMAIN P : \A j \in DOMAIN P : P[i].at <= P[j].at}
  <1>0. routes \in Seq(Route) /\ Len(routes) \in Nat /\ MaxRoutes \in Nat \ {0}
    BY RouterConstants DEF Table
  <1>1. V \in SUBSET (DOMAIN routes) /\ P = Picked(routes, V)
    BY DEF PrunedRoutes
  <1> HIDE DEF P, V
  <1>2. Table(P) /\ Len(P) \in Nat /\ Len(P) <= Len(routes) /\ ToSet(P) \subseteq ToSet(routes)
    BY <1>1, TablePicked
  <1>3. RoomMade = IF Len(routes) < MaxRoutes THEN routes
                   ELSE IF Len(P) < MaxRoutes THEN P
                   ELSE Picked(P, DOMAIN P \ {Min(oldest)})
    BY DEF RoomMade, P
  <1>4. CASE Len(routes) < MaxRoutes
    BY <1>3, <1>4
  <1>5. CASE ~(Len(routes) < MaxRoutes) /\ Len(P) < MaxRoutes
    BY <1>2, <1>3, <1>5
  <1>6. CASE ~(Len(routes) < MaxRoutes) /\ ~(Len(P) < MaxRoutes)
    <2> DEFINE m == Len(P)
               T == {P[i].at + 1 : i \in DOMAIN P}
               w == MaxTime + 1
    <2>1. m = MaxRoutes /\ P \in Seq(Route) /\ DOMAIN P = 1..m /\ m \in Nat
      BY <1>0, <1>2, <1>6 DEF Table
    <2>2. \A i \in DOMAIN P : P[i].at \in 0..MaxTime /\ P[i].at \in Int
      <3> TAKE i \in DOMAIN P
      <3>1. P[i] \in Route
        BY <2>1
      <3> QED
        BY <3>1 DEF Route
    <2>3. T \in SUBSET (1..w) /\ w \in Nat /\ T # {}
      <3>1. 1 \in DOMAIN P
        BY <1>0, <2>1
      <3>2. \A i \in DOMAIN P : P[i].at + 1 \in 1..w
        BY <2>2, RouterConstants
      <3> QED
        BY <3>1, <3>2, RouterConstants
    <2>4. \E i \in DOMAIN P : \A j \in DOMAIN P : P[i].at + 1 <= P[j].at + 1
      <3>1. \A j \in DOMAIN P : P[j].at + 1 \in T
        OBVIOUS
      <3>2. \A y \in T : \E i \in DOMAIN P : y = P[i].at + 1
        OBVIOUS
      <3> HIDE DEF T, w
      <3>3. Min(T) \in T /\ \A y \in T : Min(T) <= y
        BY ONLY <2>3, EndsOf
      <3> QED
        BY <3>1, <3>2, <3>3
    <2>5. oldest # {}
      BY <2>2, <2>4
    <2>6. oldest \in SUBSET (1..m)
      BY <2>1
    <2> HIDE DEF oldest, m
    <2>7. Min(oldest) \in oldest
      BY <2>1, <2>5, <2>6, EndsOf
    <2> DEFINE k == Min(oldest)
               I == DOMAIN P \ {k}
               q == Picked(P, I)
    <2>8. k \in DOMAIN P /\ k \notin I /\ I \in SUBSET (DOMAIN P) /\ RoomMade = q
      BY <1>3, <1>6, <2>1, <2>6, <2>7
    <2> HIDE DEF k, I, q
    <2>9. Table(q) /\ Len(q) \in Nat /\ Len(q) < m /\ ToSet(q) \subseteq ToSet(P)
      BY <1>2, <2>8, TablePicked DEF m, q
    <2> QED
      BY <1>2, <1>6, <2>1, <2>8, <2>9
  <1> QED
    BY <1>4, <1>5, <1>6

\* add_route: one route more or one route replaced, nothing else.
LEMMA RouteAdded ==
  ASSUME RoutesFit, NEW r \in Route
  PROVE  /\ Table(AddRoute(r)) /\ Len(AddRoute(r)) <= MaxRoutes
         /\ ToSet(AddRoute(r)) \subseteq ToSet(routes) \cup {r}
         /\ \A old \in ToSet(routes), n \in ToSet(AddRoute(r)) :
              Len(routes) < MaxRoutes /\ RouteValid(old) /\ n.dest = old.dest => n.hops <= old.hops
  <1> DEFINE rs == RoomMade
             same == {i \in DOMAIN rs : rs[i].dest = r.dest}
             q == AddRoute(r)
             m == Len(rs)
  <1>1. /\ Table(rs) /\ m < MaxRoutes /\ ToSet(rs) \subseteq ToSet(routes)
        /\ Len(routes) < MaxRoutes => rs = routes
    BY RoomForRoute DEF RoutesFit
  <1>2. q = IF same = {} THEN Append(rs, r)
            ELSE [i \in DOMAIN rs |->
                   IF i \in same /\ ~(RouteValid(rs[i]) /\ rs[i].hops < r.hops) THEN r ELSE rs[i]]
    BY DEF AddRoute
  <1>a. \A i \in DOMAIN rs : i \in same <=> rs[i].dest = r.dest
    OBVIOUS
  <1>b. same \subseteq DOMAIN rs
    OBVIOUS
  <1> HIDE DEF rs, same, q
  <1>3. m \in Nat /\ DOMAIN rs = 1..m /\ rs \in Seq(Route) /\ MaxRoutes \in Nat
    BY <1>1, RouterConstants DEF Table
  <1>c. \A i \in 1..m : rs[i] \in Route
    BY <1>3
  <1> HIDE DEF m
  <1>4. CASE same = {}
    <2>1. q = Append(rs, r)
      BY <1>2, <1>4
    <2>2. /\ q \in Seq(Route) /\ Len(q) = m + 1 /\ DOMAIN q = 1..(m + 1) /\ q[m + 1] = r
          /\ \A i \in 1..m : q[i] = rs[i]
      BY <1>3, <2>1 DEF m
    <2>3. \A i \in 1..m : rs[i].dest # r.dest
      BY <1>3, <1>4, <1>a
    <2>4. \A i \in 1..(m + 1) : i \in 1..m \/ i = m + 1
      BY <1>3
    <2>5. \A i, j \in 1..m : rs[i].dest = rs[j].dest => i = j
      BY <1>1, <1>3 DEF Table
    <2>6. Table(q)
      <3> SUFFICES ASSUME NEW i \in 1..(m + 1), NEW j \in 1..(m + 1), q[i].dest = q[j].dest PROVE i = j
        BY <2>2 DEF Table
      <3> QED
        BY <2>2, <2>3, <2>4, <2>5
    <2>7. ToSet(q) \subseteq ToSet(rs) \cup {r}
      BY <1>3, <2>2, <2>4 DEF ToSet
    <2>8. Len(q) <= MaxRoutes
      BY <1>1, <1>3, <2>2
    <2>9. ASSUME NEW old \in ToSet(routes), NEW n \in ToSet(q), Len(routes) < MaxRoutes, n.dest = old.dest
          PROVE  n.hops <= old.hops
      <3>1. PICK i \in 1..m : old = rs[i]
        BY <1>1, <1>3, <2>9 DEF ToSet
      <3>2. PICK j \in 1..(m + 1) : n = q[j]
        BY <2>2 DEF ToSet
      <3>3. j \in 1..m /\ j = i
        BY <2>2, <2>3, <2>4, <2>5, <2>9, <3>1, <3>2
      <3>4. n = old /\ old \in Route
        BY <1>c, <2>2, <3>1, <3>2, <3>3
      <3> QED
        BY <3>4 DEF Route
    <2> QED
      BY <1>1, <2>6, <2>7, <2>8, <2>9 DEF q
  <1>5. CASE same # {}
    <2>1. q = [i \in 1..m |->
                 IF i \in same /\ ~(RouteValid(rs[i]) /\ rs[i].hops < r.hops) THEN r ELSE rs[i]]
      BY <1>2, <1>3, <1>5
    <2>2. \A i \in 1..m : q[i] = rs[i] \/ (q[i] = r /\ rs[i].dest = r.dest
                                              /\ ~(RouteValid(rs[i]) /\ rs[i].hops < r.hops))
      BY <1>3, <1>a, <2>1
    <2>3. \A i \in 1..m : q[i] \in Route /\ q[i].dest = rs[i].dest
      BY <1>c, <2>2
    <2>4. q \in Seq(Route) /\ Len(q) = m /\ DOMAIN q = 1..m
      <3>1. q \in [1..m -> Route]
        BY <2>1, <2>3
      <3> QED
        BY <1>3, <3>1
    <2>5. \A i, j \in 1..m : rs[i].dest = rs[j].dest => i = j
      BY <1>1, <1>3 DEF Table
    <2>6. Table(q)
      BY <2>3, <2>4, <2>5 DEF Table
    <2>7. ToSet(q) \subseteq ToSet(rs) \cup {r}
      BY <1>3, <2>2, <2>4 DEF ToSet
    <2>8. Len(q) <= MaxRoutes
      BY <1>1, <1>3, <2>4
    <2>9. ASSUME NEW old \in ToSet(routes), NEW n \in ToSet(q),
                 Len(routes) < MaxRoutes, RouteValid(old), n.dest = old.dest
          PROVE  n.hops <= old.hops
      <3>1. PICK i \in 1..m : old = rs[i]
        BY <1>1, <1>3, <2>9 DEF ToSet
      <3>2. PICK j \in 1..m : n = q[j]
        BY <2>4 DEF ToSet
      <3>3. j = i
        BY <2>3, <2>5, <2>9, <3>1, <3>2
      <3>4. old \in Route /\ r \in Route
        BY <1>c, <3>1
      <3>5. old.hops \in Nat /\ r.hops \in Nat
        BY <3>4 DEF Route
      <3>6. n = old \/ (n = r /\ ~(old.hops < r.hops))
        BY <2>2, <2>9, <3>1, <3>2, <3>3
      <3> QED
        BY <3>5, <3>6
    <2> QED
      BY <1>1, <2>6, <2>7, <2>8, <2>9 DEF q
  <1> QED
    BY <1>4, <1>5

\* A table that some routes were dropped from.
LEMMA RoutesDropped ==
  ASSUME RoutesFit, NEW I \in SUBSET (DOMAIN routes), NEW q, q = Picked(routes, I)
  PROVE  /\ Table(q) /\ Len(q) <= MaxRoutes /\ ToSet(q) \subseteq ToSet(routes)
         /\ \A old \in ToSet(routes), n \in ToSet(q) : n.dest = old.dest => n.hops <= old.hops
  <1>1. Table(routes) /\ Len(routes) <= MaxRoutes /\ routes \in Seq(Route) /\ MaxRoutes \in Nat
        /\ Len(routes) \in Nat
    BY RouterConstants DEF RoutesFit, Table
  <1>2. Table(q) /\ Len(q) \in Nat /\ Len(q) <= Len(routes) /\ ToSet(q) \subseteq ToSet(routes)
    BY <1>1, TablePicked
  <1>3. ASSUME NEW old \in ToSet(routes), NEW n \in ToSet(routes), n.dest = old.dest PROVE n.hops <= old.hops
    <2>1. n = old
      BY <1>1, <1>3 DEF ToSet, Table
    <2>2. old \in Route
      BY <1>1 DEF ToSet
    <2> QED
      BY <2>1, <2>2 DEF Route
  <1> QED
    BY <1>1, <1>2, <1>3

-----------------------------------------------------------------------------
(***************************************************************************)
(* The router.                                                             *)
(***************************************************************************)

Task == [dest : Senders, hop : Addresses, hops : Nat, at : 0..MaxTime]

RouterIInv ==
  /\ DedupTypeOK /\ CacheFits        \* the packet cache
  /\ LimiterFits                     \* the rate limiter
  /\ RoutesFit /\ learning \subseteq Task

ShorterStep ==
  \A r \in ToSet(routes), n \in ToSet(routes') :
    Len(routes) < MaxRoutes /\ RouteValid(r) /\ n.dest = r.dest => n.hops <= r.hops

\* Steps that leave one of the parts alone.
LEMMA CacheSame ==
  ASSUME DedupTypeOK, CacheFits, UNCHANGED dedupVars
  PROVE  DedupTypeOK' /\ CacheFits'
  <1>1. now' = now /\ entries' = entries /\ log' = log /\ setBack' = setBack
    BY DEF dedupVars
  <1>2. DedupTypeOK'
    BY <1>1 DEF DedupTypeOK
  <1>3. \A id : LastOf(id)' = LastOf(id) /\ LaterIds(id)' = LaterIds(id)
    BY <1>1 DEF LastOf, LaterIds
  <1>4. IdsIn(log)' = IdsIn(log) /\ IdsIn(entries)' = IdsIn(entries)
    BY <1>1 DEF IdsIn
  <1>5. CacheFits'
    BY <1>1, <1>3, <1>4 DEF CacheFits, IdsAfter, Fresh
  <1> QED
    BY <1>2, <1>5

LEMMA LimiterSame ==
  ASSUME LimiterFits, UNCHANGED <<now, setBack, limiter, admitted>>
  PROVE  LimiterFits'
  BY DEF LimiterFits, LimiterShape

LEMMA RoutesSame ==
  ASSUME RoutesFit, UNCHANGED <<routes, heard>>
  PROVE  RoutesFit' /\ ShorterStep
  <1>1. RoutesFit'
    BY DEF RoutesFit, Table, RoutesWitnessed, ToSet
  <1>2. ASSUME NEW r \in ToSet(routes), NEW n \in ToSet(routes), n.dest = r.dest PROVE n.hops <= r.hops
    <2>1. routes \in Seq(Route) /\ \A i, j \in DOMAIN routes : routes[i].dest = routes[j].dest => i = j
      BY DEF RoutesFit, Table
    <2>2. n = r
      BY <1>2, <2>1 DEF ToSet
    <2>3. r \in Route
      BY <2>1 DEF ToSet
    <2> QED
      BY <2>2, <2>3 DEF Route
  <1> QED
    BY <1>1, <1>2 DEF ShorterStep

LEMMA RoutesLearn ==
  ASSUME RoutesFit, NEW r \in Route, routes' = AddRoute(r), heard' = heard \cup {r}
  PROVE  RoutesFit' /\ ShorterStep
  <1>1. /\ Table(routes') /\ Len(routes') <= MaxRoutes /\ ToSet(routes') \subseteq ToSet(routes) \cup {r}
        /\ ShorterStep
    BY RouteAdded DEF ShorterStep
  <1>2. ToSet(routes') \subseteq heard'
    BY <1>1 DEF RoutesFit, RoutesWitnessed
  <1> QED
    BY <1>1, <1>2 DEF RoutesFit, Table, RoutesWitnessed, ToSet

LEMMA RoutesForget ==
  ASSUME RoutesFit, NEW I \in SUBSET (DOMAIN routes), routes' = Picked(routes, I), heard' = heard
  PROVE  RoutesFit' /\ ShorterStep
  <1>1. /\ Table(routes') /\ Len(routes') <= MaxRoutes /\ ToSet(routes') \subseteq ToSet(routes) /\ ShorterStep
    BY RoutesDropped DEF ShorterStep
  <1>2. ToSet(routes') \subseteq heard'
    BY <1>1 DEF RoutesFit, RoutesWitnessed
  <1> QED
    BY <1>1, <1>2 DEF RoutesFit, Table, RoutesWitnessed, ToSet

LEMMA HopCountIs ==
  ASSUME NEW ttl \in Ttls
  PROVE  HopCount(ttl) \in Nat
  <1>1. ttl \in Nat /\ MaxTtl \in Nat
    BY RouterConstants
  <1> DEFINE a == MaxTtl - ttl + 1
             S == {1, a}
  <1>2. CASE ttl <= MaxTtl
    <2>1. a \in Nat /\ 1 \in Nat
      BY <1>1, <1>2
    <2>2. HopCount(ttl) = Max(S)
      BY <1>2 DEF HopCount
    <2> HIDE DEF a
    <2>3. \E x \in S : \A y \in S : x >= y
      BY <2>1
    <2>4. Max(S) \in S
      BY <2>3 DEF Max
    <2> QED
      BY <2>1, <2>2, <2>4
  <1>3. CASE ~(ttl <= MaxTtl)
    BY <1>3 DEF HopCount
  <1> QED
    BY <1>2, <1>3

LEMMA PacketIs ==
  ASSUME NEW pkt \in Ids, pkt.sender # Self
  PROVE  pkt.sender \in Senders
  BY RouterAssumption

LEMMA RouterStart == Init => RouterIInv
  <1> SUFFICES ASSUME Init PROVE RouterIInv
    OBVIOUS
  <1>1. 0 \in 0..MaxTime /\ Len(<<>>) = 0 /\ DOMAIN <<>> = {}
    BY RouterConstants
  <1>2. DedupTypeOK
    <2>1. now \in 0..MaxTime /\ setBack \in BOOLEAN /\ entries = <<>> /\ log = <<>>
      BY <1>1 DEF Init, DedupInit
    <2>2. 0 <= MaxEntries /\ <<>> \in Seq(Entry)
      BY DedupConstants
    <2> QED
      BY <1>1, <2>1, <2>2 DEF DedupTypeOK
  <1>3. CacheFits
    BY <1>1 DEF Init, DedupInit, CacheFits, IdsIn
  <1>4. LimiterFits
    <2>1. LimiterShape(limiter) /\ admitted \in [Senders -> Seq(0..MaxTime)]
      BY <1>1, RouterConstants DEF Init, LimiterShape
    <2>2. \A s \in Senders : limiter[s] = <<>> /\ admitted[s] = <<>>
      BY DEF Init
    <2>3. Ascending(<<>>, now) /\ Spaced(<<>>, RateLimit, RateWindow) /\ Remembers(<<>>, <<>>, now, RateWindow)
      BY <1>1 DEF Ascending, Spaced, Remembers
    <2> QED
      BY <2>1, <2>2, <2>3 DEF LimiterFits
  <1>5. RoutesFit /\ learning \subseteq Task
    BY <1>1, RouterConstants DEF Init, RoutesFit, Table, RoutesWitnessed, ToSet
  <1> QED
    BY <1>2, <1>3, <1>4, <1>5 DEF RouterIInv

\* Arrivals.
LEMMA ArrivalStep ==
  ASSUME RouterIInv, NEW pkt \in Ids, NEW ttl \in Ttls, NEW from \in Addresses,
         \/ DropOwn(pkt) \/ DropLimited(pkt) \/ DropDeadOrDuplicate(pkt, ttl) \/ Accept(pkt, ttl, from)
  PROVE  RouterIInv' /\ ShorterStep
  <1> USE DEF RouterIInv
  <1>1. CASE DropOwn(pkt)
    BY <1>1, CacheSame, LimiterSame, RoutesSame DEF DropOwn, dedupVars, Task
  <1>2. CASE DropLimited(pkt)
    <2>1. pkt.sender \in Senders
      BY <1>2, PacketIs DEF DropLimited
    <2>2. LimiterFits'
      BY <1>2, <2>1, RefusalFits DEF DropLimited, dedupVars
    <2> QED
      BY <1>2, <2>2, CacheSame, RoutesSame DEF DropLimited, Task
  <1>3. CASE DropDeadOrDuplicate(pkt, ttl)
    <2>1. pkt.sender \in Senders
      BY <1>3, PacketIs DEF DropDeadOrDuplicate, Admit
    <2>2. LimiterFits'
      BY <1>3, <2>1, AdmissionFits DEF DropDeadOrDuplicate, Admit, dedupVars
    <2> QED
      BY <1>3, <2>2, CacheSame, RoutesSame DEF DropDeadOrDuplicate, Task
  <1>4. CASE Accept(pkt, ttl, from)
    <2> DEFINE news == [dest |-> pkt.sender, hop |-> from, hops |-> HopCount(ttl), at |-> now]
    <2>1. pkt.sender \in Senders
      BY <1>4, PacketIs DEF Accept, Admit
    <2>2. LimiterFits'
      BY <1>4, <2>1, AdmissionFits DEF Accept, Admit
    <2>3. DedupTypeOK' /\ CacheFits'
      BY <1>4, RecordFits DEF Accept, RecordNew
    <2>4. news \in Route /\ news \in Task
      BY <2>1, HopCountIs DEF Route, Task, DedupTypeOK
    <2>5. /\ routes' = AddRoute(news) /\ heard' = heard \cup {news}
          /\ learning' = learning \/ learning' = learning \cup {news}
      BY <1>4 DEF Accept
    <2> HIDE DEF news
    <2>6. RoutesFit' /\ ShorterStep
      BY <2>4, <2>5, RoutesLearn
    <2>7. learning' \subseteq Task
      BY <2>4, <2>5
    <2> QED
      BY <2>2, <2>3, <2>6, <2>7 DEF Task
  <1> QED
    BY <1>1, <1>2, <1>3, <1>4

\* Everything else.
LEMMA OwnStep ==
  ASSUME RouterIInv, NEW pkt \in Ids, SendOwn(pkt)
  PROVE  RouterIInv' /\ ShorterStep
  <1>1. DedupTypeOK' /\ CacheFits'
    BY RecordFits DEF RouterIInv, SendOwn, Record
  <1>2. LimiterFits' /\ RoutesFit' /\ ShorterStep
    BY LimiterSame, RoutesSame DEF RouterIInv, SendOwn, routerVars
  <1> QED
    BY <1>1, <1>2 DEF RouterIInv, SendOwn, routerVars, Task

LEMMA TaskStep ==
  ASSUME RouterIInv, NEW task \in learning, ProcessTask(task)
  PROVE  RouterIInv' /\ ShorterStep
  <1>1. task \in Task /\ now \in 0..MaxTime /\ PeerAt \in [Addresses -> Senders]
    BY RouterAssumption DEF RouterIInv, DedupTypeOK
  <1>2. PICK hop \in {task.hop, PeerAt[task.hop]} :
          LET news == [task EXCEPT !.hop = hop, !.at = now]
          IN  /\ learning' = learning \ {task} /\ routes' = AddRoute(news) /\ heard' = heard \cup {news}
              /\ UNCHANGED <<dedupVars, limiter, admitted>>
    BY DEF ProcessTask
  <1> DEFINE news == [task EXCEPT !.hop = hop, !.at = now]
  <1>3. news \in Route
    <2>1. hop \in Addresses \cup Senders
      BY <1>1, <1>2 DEF Task
    <2> QED
      BY <1>1, <2>1 DEF Task, Route
  <1>4. routes' = AddRoute(news) /\ heard' = heard \cup {news}
    BY <1>2
  <1> HIDE DEF news
  <1>5. RoutesFit' /\ ShorterStep
    BY <1>3, <1>4, RoutesLearn DEF RouterIInv
  <1>6. DedupTypeOK' /\ CacheFits'
    BY <1>2, CacheSame DEF RouterIInv
  <1>7. LimiterFits'
    BY <1>2, LimiterSame DEF RouterIInv, dedupVars
  <1> QED
    BY <1>2, <1>5, <1>6, <1>7 DEF RouterIInv, Task

LEMMA LookupStep ==
  ASSUME RouterIInv, NEW dest \in Senders, GetNextHop(dest)
  PROVE  RouterIInv' /\ ShorterStep
  <1> DEFINE I == {i \in DOMAIN routes : routes[i].dest # dest \/ RouteValid(routes[i])}
  <1>1. I \in SUBSET (DOMAIN routes) /\ routes' = Picked(routes, I) /\ heard' = heard
    BY DEF GetNextHop
  <1> HIDE DEF I
  <1>2. RoutesFit' /\ ShorterStep
    BY <1>1, RoutesForget DEF RouterIInv
  <1>3. DedupTypeOK' /\ CacheFits'
    BY CacheSame DEF RouterIInv, GetNextHop
  <1>4. LimiterFits'
    BY LimiterSame DEF RouterIInv, GetNextHop, dedupVars
  <1> QED
    BY <1>2, <1>3, <1>4 DEF RouterIInv, GetNextHop, Task

LEMMA PruneStep ==
  ASSUME RouterIInv, PruneCaches
  PROVE  RouterIInv' /\ ShorterStep
  <1> DEFINE I == {i \in DOMAIN routes : RouteValid(routes[i])}
  <1>1. I \in SUBSET (DOMAIN routes) /\ routes' = Picked(routes, I) /\ heard' = heard
    BY DEF PruneCaches, PrunedRoutes
  <1> HIDE DEF I
  <1>2. RoutesFit' /\ ShorterStep
    BY <1>1, RoutesForget DEF RouterIInv
  <1>3. DedupTypeOK' /\ CacheFits'
    BY PruneFits DEF RouterIInv, PruneCaches
  <1>4. LimiterFits'
    <2>1. limiter' = PrunedLimiter /\ UNCHANGED <<now, setBack, admitted>>
      BY DEF PruneCaches
    <2>2. /\ LimiterShape(PrunedLimiter)
          /\ ~setBack => \A s \in Senders : Remembers(PrunedLimiter[s], admitted[s], now, RateWindow)
      BY PrunedLimiterFits DEF RouterIInv
    <2> QED
      BY <2>1, <2>2 DEF RouterIInv, LimiterFits, LimiterShape
  <1> QED
    BY <1>2, <1>3, <1>4 DEF RouterIInv, PruneCaches, Task

LEMMA TickStep ==
  ASSUME RouterIInv, Tick
  PROVE  RouterIInv' /\ ShorterStep
  <1>1. DedupTypeOK' /\ CacheFits' /\ (~setBack' => ~setBack /\ now <= now')
    BY ClockFits DEF RouterIInv, Tick
  <1>2. LimiterFits'
    BY <1>1, LimiterLater DEF RouterIInv, Tick, routerVars
  <1>3. RoutesFit' /\ ShorterStep
    BY RoutesSame DEF RouterIInv, Tick, routerVars
  <1> QED
    BY <1>1, <1>2, <1>3 DEF RouterIInv, Tick, routerVars, Task

LEMMA RouterStep ==
  ASSUME RouterIInv, [Next]_vars
  PROVE  RouterIInv' /\ ShorterStep
  <1>1. CASE UNCHANGED vars
    <2>1. DedupTypeOK' /\ CacheFits' /\ LimiterFits' /\ RoutesFit' /\ ShorterStep
      BY <1>1, CacheSame, LimiterSame, RoutesSame DEF RouterIInv, vars, dedupVars, routerVars
    <2> QED
      BY <1>1, <2>1 DEF RouterIInv, vars, routerVars, Task
  <1>2. CASE Next
    BY <1>2, ArrivalStep, OwnStep, TaskStep, LookupStep, PruneStep, TickStep DEF Next
  <1> QED
    BY <1>1, <1>2

LEMMA RouterIsSafe == RouterIInv => RouterSafe /\ ExactMemory
  <1> SUFFICES ASSUME RouterIInv PROVE RouterSafe /\ ExactMemory
    OBVIOUS
  <1>1. ExactMemory
    BY CacheExact DEF RouterIInv
  <1>2. RouterTypeOK
    BY DEF RouterIInv, RouterTypeOK, LimiterFits, LimiterShape, RoutesFit, Table
  <1>3. RateBound
    BY DEF RouterIInv, RateBound, LimiterFits, Spaced
  <1>4. RoutesWitnessed
    BY DEF RouterIInv, RoutesFit
  <1> QED
    BY <1>1, <1>2, <1>3, <1>4 DEF RouterSafe

LEMMA RouterInvariant == Spec => []RouterIInv
  BY RouterStart, RouterStep, PTL DEF Spec

\* The router stays within its caches' limits, lets no sender exceed the rate
\* in any window, and holds only routes that an accepted packet told (is_rate_limited,
\* prune_rate_limiter, add_route, get_next_hop, prune_caches).
THEOREM RouterSafety == Spec => []RouterSafe
  BY RouterInvariant, RouterIsSafe, PTL

\* check_and_record answers "duplicate" for exactly the packets recorded within
\* the time and the number of packets that the cache promises, for whatever mix
\* of arrivals, own packets and prunings; and for no other even when the clock is
\* set back.
THEOREM CacheMemory == Spec => []ExactMemory
  BY RouterInvariant, RouterIsSafe, PTL

\* While the table has room no step of either learning path, no lookup and no
\* pruning puts a longer route in the place of a valid one (add_route).
THEOREM ShorterRoutes == Spec => ShorterRouteWithRoom
  <1>1. ASSUME RouterIInv, [Next]_vars PROVE [ShorterStep]_vars
    BY <1>1, RouterStep
  <1>2. Spec => [][ShorterStep]_vars
    BY <1>1, RouterInvariant, PTL DEF Spec
  <1>3. ShorterRouteWithRoom <=> [][ShorterStep]_vars
    BY PTL DEF ShorterRouteWithRoom, ShorterStep
  <1> QED
    BY <1>2, <1>3, PTL
=============================================================================
