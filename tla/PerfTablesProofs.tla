-------------------------- MODULE PerfTablesProofs --------------------------
(***************************************************************************)
(* Theorems about PerfTables: for all command lines, whatever earlier      *)
(* starts left on disk, profiling gives its blocks back, the caches fit    *)
(* the memory, a look-up reads the samples around what it is asked for,    *)
(* and every time that is served was measured for its own sample.          *)
(***************************************************************************)
EXTENDS PerfTables, QueuesProofs

-----------------------------------------------------------------------------
(* Part I.  Powers of two, as the numbers of subsets that they count.      *)
LEMMA Doubling ==
  ASSUME NEW n \in Nat
  PROVE  2^n \in Nat /\ 2^(n + 1) = 2^n + 2^n
<1>1. PICK S, T : S = 1 .. n /\ T = 1 .. (n + 1)
  OBVIOUS
<1>2. IsFiniteSet(S) /\ Cardinality(S) = n /\ IsFiniteSet(T) /\ Cardinality(T) = n + 1
  BY <1>1, FS_Interval
<1>3. PICK A, C : A = SUBSET S /\ C = SUBSET T
  OBVIOUS
<1>4. /\ IsFiniteSet(A) /\ Cardinality(A) = 2^n
      /\ IsFiniteSet(C) /\ Cardinality(C) = 2^(n + 1)
  BY <1>2, <1>3, FS_SUBSET
<1>5. Cardinality(A) \in Nat
  BY <1>4, FS_CardinalityType
<1>6. PICK B : B = {U \cup {n + 1} : U \in A}
  OBVIOUS
<1>7. n + 1 \notin S /\ T = S \cup {n + 1}
  BY <1>1
<1>8. C = A \cup B /\ A \cap B = {}
  <2>1. ASSUME NEW V \in C, n + 1 \in V PROVE V \in B
    <3>1. V \ {n + 1} \in A /\ V = (V \ {n + 1}) \cup {n + 1}
      BY <1>3, <1>7, <2>1
    <3>2. QED
      BY <1>6, <3>1
  <2>2. ASSUME NEW V \in C, n + 1 \notin V PROVE V \in A
    BY <1>3, <1>7, <2>2
  <2>3. ASSUME NEW V \in B PROVE V \in C /\ V \notin A
    BY <1>3, <1>6, <1>7
  <2>4. A \subseteq C
    BY <1>3, <1>7
  <2>5. QED
    BY <2>1, <2>2, <2>3, <2>4
<1>9. PICK f : f = [U \in A |-> U \cup {n + 1}]
  OBVIOUS
<1>10. f \in Bijection(A, B)
  <2>1. f \in [A -> B] /\ \A V \in B : \E U \in A : f[U] = V
    BY <1>6, <1>9
  <2>2. ASSUME NEW U \in A, NEW V \in A, f[U] = f[V] PROVE U = V
    BY <1>3, <1>7, <1>9, <2>2
  <2>3. QED
    BY <2>1, <2>2 DEF Bijection, Injection, IsInjective, Surjection
<1>11. IsFiniteSet(B) /\ Cardinality(B) = Cardinality(A)
  BY <1>4, <1>10, FS_Bijection DEF ExistsBijection
<1>12. Cardinality(C) = Cardinality(A) + Cardinality(B)
  <2>1. Cardinality(A \cap B) = 0
    BY <1>8, FS_EmptySet
  <2>2. Cardinality(A \cup B) = Cardinality(A) + Cardinality(B) - Cardinality(A \cap B)
    BY <1>4, <1>11, FS_Union
  <2>3. QED
    BY <1>5, <1>8, <1>11, <2>1, <2>2
<1>13. QED
  BY <1>4, <1>5, <1>11, <1>12

(* A number is less than its power of two.                                 *)
LEMMA PowerBeyond ==
  ASSUME NEW n \in Nat
  PROVE  n < 2^n
<1> DEFINE T == {k \in Nat : ~(k < 2^k)}
<1>1. T = {}
  <2>1. SUFFICES ASSUME T # {} PROVE FALSE
    OBVIOUS
  <2>2. T \in SUBSET Nat
    OBVIOUS
  <2>3. PICK k \in T : \A m \in T : k <= m
    <3> HIDE DEF T
    <3>1. QED
      BY <2>1, <2>2, Least
  <2>4. k \in Nat /\ ~(k < 2^k)
    OBVIOUS
  <2>5. k # 0
    <3>1. 2^0 = 1
      OBVIOUS
    <3>2. ASSUME k = 0 PROVE FALSE
      <4>1. 2^k = 1
        BY <3>1, <3>2, Zenon
      <4>2. QED
        BY <2>4, <3>2, <4>1
    <3>3. QED
      BY <3>2
  <2>6. PICK m \in Nat : k = m + 1
    <3>1. k - 1 \in Nat /\ k = (k - 1) + 1
      BY <2>4, <2>5
    <3>2. QED
      BY <3>1
  <2>7. m \notin T
    <3>1. ~(k <= m)
      BY <2>6
    <3> HIDE DEF T
    <3>2. QED
      BY <2>3, <3>1
  <2>8. m < 2^m
    BY <2>7
  <2>9. 2^m \in Nat /\ 2^k = 2^m + 2^m
    BY <2>6, Doubling
  <2>10. QED
    BY <2>4, <2>6, <2>8, <2>9
<1>2. QED
  BY <1>1

LEMMA PowersGrow ==
  ASSUME NEW a \in Nat, NEW b \in Nat, a <= b
  PROVE  2^a \in Nat /\ 2^b \in Nat /\ 0 < 2^a /\ 2^a <= 2^b
<1> DEFINE T == {k \in Nat : a <= k /\ ~(2^a <= 2^k)}
<1>1. T = {}
  <2>1. SUFFICES ASSUME T # {} PROVE FALSE
    OBVIOUS
  <2>2. T \in SUBSET Nat
    OBVIOUS
  <2>3. PICK k \in T : \A m \in T : k <= m
    <3> HIDE DEF T
    <3>1. QED
      BY <2>1, <2>2, Least
  <2>4. k \in Nat /\ a <= k /\ ~(2^a <= 2^k)
    OBVIOUS
  <2>5. a # k
    <3>1. 2^a \in Nat
      BY Doubling
    <3>2. QED
      BY <2>4, <3>1
  <2>6. PICK m \in Nat : k = m + 1 /\ a <= m
    <3>1. k - 1 \in Nat /\ k = (k - 1) + 1 /\ a <= k - 1
      BY <2>4, <2>5
    <3>2. QED
      BY <3>1
  <2>7. m \notin T
    <3>1. ~(k <= m)
      BY <2>6
    <3> HIDE DEF T
    <3>2. QED
      BY <2>3, <3>1
  <2>8. 2^a <= 2^m
    BY <2>6, <2>7
  <2>9. 2^m \in Nat /\ 2^k = 2^m + 2^m /\ 2^a \in Nat
    BY <2>6, Doubling
  <2>10. QED
    BY <2>4, <2>8, <2>9
<1>2. 2^a <= 2^b
  BY <1>1
<1>3. QED
  BY <1>2, Doubling, PowerBeyond

(* What bit_length is: every number has one.                               *)
LEMMA Bits ==
  ASSUME NEW n \in Int
  PROVE  /\ BitLength(n) \in Nat
         /\ n >= 0 => n < 2^BitLength(n)
         /\ n >= 0 /\ BitLength(n) > 0 => 2^(BitLength(n) - 1) <= n
<1>1. PICK m \in Nat : m = IF n < 0 THEN -n ELSE n
  OBVIOUS
<1> DEFINE P(k) == 2^k > m /\ (k > 0 => 2^(k - 1) <= m)
           T == {k \in Nat : 2^k > m}
<1>2. T # {} /\ T \in SUBSET Nat
  BY PowerBeyond
<1>3. PICK k \in T : \A j \in T : k <= j
  <2> HIDE DEF T
  <2>1. QED
    BY <1>2, Least
<1>4. k \in Nat /\ 2^k > m
  OBVIOUS
<1>5. k > 0 => 2^(k - 1) <= m
  <2>1. SUFFICES ASSUME k > 0 PROVE ~(2^(k - 1) > m)
    <3>1. k > 0 => 2^(k - 1) \in Nat
      BY <1>4, Doubling
    <3>2. QED
      BY <3>1
  <2>2. k - 1 \in Nat /\ ~(k <= k - 1)
    BY <1>4, <2>1
  <2>3. k - 1 \notin T
    <3> HIDE DEF T
    <3>1. QED
      BY <1>3, <2>2
  <2>4. QED
    BY <2>2, <2>3
<1>6. k <= m
  <2>1. m \in T
    BY PowerBeyond
  <2> HIDE DEF T
  <2>2. QED
    BY <1>3, <2>1
<1>7. k \in 0 .. m /\ P(k)
  BY <1>4, <1>5, <1>6
<1>8. BitLength(n) = CHOOSE j \in 0 .. m : P(j)
  BY <1>1 DEF BitLength
<1>9. BitLength(n) \in 0 .. m /\ P(BitLength(n))
  <2> HIDE DEF P
  <2>1. QED
    BY <1>7, <1>8
<1>10. QED
  BY <1>1, <1>9

-----------------------------------------------------------------------------
(* Part II.  Look-ups.  A list of samples that never falls, ...            *)
Rising(list) ==
  /\ Queue(list) /\ Len(list) > 0
  /\ \A i \in 1 .. Len(list) : list[i] \in Nat
  /\ \A i \in 1 .. Len(list) : i < Len(list) => list[i] <= list[i + 1]

(* ... and the smallest sample that is not below x.                        *)
FirstFrom(list, x, i) ==
  i \in 1 .. Len(list) /\ x <= list[i] /\ (i > 1 => list[i - 1] < x)

LEMMA RisingOrder ==
  ASSUME NEW list, Rising(list)
  PROVE  \A i, j \in 1 .. Len(list) : i <= j => list[i] <= list[j]
<1>1. Len(list) \in Nat
  BY QueueFacts DEF Rising
<1>2. SUFFICES ASSUME NEW i \in 1 .. Len(list)
               PROVE  \A j \in 1 .. Len(list) : i <= j => list[i] <= list[j]
  OBVIOUS
<1> DEFINE T == {j \in Nat : j \in 1 .. Len(list) /\ i <= j /\ ~(list[i] <= list[j])}
<1>3. T = {}
  <2>1. SUFFICES ASSUME T # {} PROVE FALSE
    OBVIOUS
  <2>2. T \in SUBSET Nat
    OBVIOUS
  <2>3. PICK k \in T : \A m \in T : k <= m
    <3> HIDE DEF T
    <3>1. QED
      BY <2>1, <2>2, Least
  <2>4. k \in 1 .. Len(list) /\ i <= k /\ ~(list[i] <= list[k])
    OBVIOUS
  <2>5. PICK m \in 1 .. Len(list) : k = m + 1 /\ i <= m /\ m < Len(list)
    <3>1. i # k
      BY <2>4 DEF Rising
    <3>2. k - 1 \in 1 .. Len(list) /\ k = (k - 1) + 1 /\ i <= k - 1 /\ k - 1 < Len(list)
      BY <1>1, <2>4, <3>1
    <3>3. QED
      BY <3>2
  <2>6. m \notin T
    <3>1. ~(k <= m)
      BY <2>5
    <3> HIDE DEF T
    <3>2. QED
      BY <2>3, <3>1
  <2>7. list[i] <= list[m]
    BY <2>5, <2>6
  <2>8. QED
    BY <2>4, <2>5, <2>7 DEF Rising
<1>4. QED
  BY <1>3

LEMMA RepeatedQueue ==
  ASSUME NEW n \in Nat, NEW v
  PROVE  Queue(Repeated(n, v)) /\ Len(Repeated(n, v)) = n /\ \A k \in 1 .. n : Repeated(n, v)[k] = v
<1>1. Count(n) = n
  BY DEF Count
<1>2. PICK f : f = [k \in 1 .. n |-> v]
  OBVIOUS
<1>3. f = [k \in 1 .. n |-> f[k]]
  BY <1>2
<1>4. QED
  BY <1>1, <1>2, <1>3, QueueOfFunction DEF Repeated

(* One segment after the other, the indices from the first sample on.      *)
LEMMA SegmentsRight ==
  ASSUME NEW list, Rising(list), NEW n \in Nat \ {0}, Len(list) = n + 1, NEW segs,
         segs = [i \in 1 .. n |-> Repeated(list[i + 1] - list[i], i + 1)]
  PROVE  LET flat == FlattenSeq(segs)
         IN /\ Queue(flat) /\ Len(flat) = list[n + 1] - list[1]
            /\ \A y \in 1 .. Len(flat) : FirstFrom(list, list[1] + y, flat[y])
<1>1. segs = [i \in 1 .. n |-> segs[i]]
  OBVIOUS
<1>2. Queue(segs) /\ Len(segs) = n
  BY <1>1, QueueOfFunction
<1>3. PICK f : Flattens(f, segs, n) /\ FlattenSeq(segs) = f[n]
  BY <1>2, FlattenIs
<1> DEFINE Right(u, k) ==
             /\ Queue(u) /\ Len(u) = list[k + 1] - list[1]
             /\ \A y \in 1 .. Len(u) : FirstFrom(list, list[1] + y, u[y])
           T == {k \in Nat : k \in 1 .. n /\ ~Right(f[k], k)}
<1>4. ASSUME NEW k \in 1 .. n
      PROVE  /\ list[k] \in Nat /\ list[k + 1] \in Nat /\ list[1] \in Nat
             /\ list[k] <= list[k + 1] /\ list[1] <= list[k]
             /\ Queue(segs[k]) /\ Len(segs[k]) = list[k + 1] - list[k]
             /\ \A y \in 1 .. Len(segs[k]) : segs[k][y] = k + 1
             /\ k + 1 \in 1 .. Len(list) /\ (k + 1) - 1 = k /\ k + 1 > 1
  <2>1. /\ k \in 1 .. Len(list) /\ k + 1 \in 1 .. Len(list) /\ k < Len(list) /\ 1 \in 1 .. Len(list)
        /\ (k + 1) - 1 = k /\ k + 1 > 1 /\ 1 <= k
    OBVIOUS
  <2>2. list[k] \in Nat /\ list[k + 1] \in Nat /\ list[1] \in Nat /\ list[k] <= list[k + 1]
    BY <2>1 DEF Rising
  <2>3. list[1] <= list[k]
    BY <2>1, RisingOrder
  <2>4. list[k + 1] - list[k] \in Nat
    BY <2>2
  <2>5. PICK m \in Nat, v \in Nat : m = list[k + 1] - list[k] /\ v = k + 1
    BY <2>1, <2>4
  <2>6. segs[k] = Repeated(m, v)
    BY <2>5
  <2>7. QED
    BY <2>1, <2>2, <2>3, <2>5, <2>6, RepeatedQueue
<1>5. T = {}
  <2>1. SUFFICES ASSUME T # {} PROVE FALSE
    OBVIOUS
  <2>2. T \in SUBSET Nat
    OBVIOUS
  <2>3. PICK k \in T : \A m \in T : k <= m
    <3> HIDE DEF T
    <3>1. QED
      BY <2>1, <2>2, Least
  <2>4. k \in 1 .. n /\ ~Right(f[k], k)
    OBVIOUS
  <2>5. f[k] = IF k = 1 THEN segs[k] ELSE f[k - 1] \o segs[k]
    BY <1>3, <2>4 DEF Flattens
  <2>6. PICK v : v = segs[k]
    OBVIOUS
  <2>7. /\ Queue(v) /\ Len(v) = list[k + 1] - list[k]
        /\ \A y \in 1 .. Len(v) : v[y] = k + 1
    BY <1>4, <2>4, <2>6
  <2>8. ASSUME NEW y \in Nat, y > 0, list[k] < list[1] + y, list[1] + y <= list[k + 1]
        PROVE  FirstFrom(list, list[1] + y, k + 1)
    BY <1>4, <2>4, <2>8 DEF FirstFrom
  <2> HIDE DEF T
  <2>9. PICK p \in Nat, q \in Nat, r \in Nat :
           /\ p = list[1] /\ q = list[k] /\ r = list[k + 1]
           /\ p <= q /\ q <= r /\ Len(v) = r - q
    <3>1. /\ list[k] \in Nat /\ list[k + 1] \in Nat /\ list[1] \in Nat
          /\ list[k] <= list[k + 1] /\ list[1] <= list[k]
      BY <1>4, <2>4
    <3>2. QED
      BY <2>7, <3>1
  <2>10. CASE k = 1
    <3>1. f[k] = v
      BY <2>5, <2>6, <2>10
    <3>2. ASSUME NEW y \in 1 .. Len(v) PROVE FirstFrom(list, list[1] + y, v[y])
      <4>0. y \in 1 .. (r - q) /\ p = q
        BY <2>10, <2>9
      <4>1. y \in Nat /\ y > 0 /\ q < p + y /\ p + y <= r
        BY <4>0
      <4>2. QED
        BY <2>7, <2>8, <2>9, <4>1
    <3>3. Right(v, k)
      BY <2>7, <2>10, <3>2
    <3> HIDE DEF Right
    <3>4. QED
      BY <2>4, <3>1, <3>3
  <2>11. CASE k # 1
    <3>1. k - 1 \in 1 .. n /\ k - 1 \in Nat /\ ~(k <= k - 1) /\ (k - 1) + 1 = k
      BY <2>4, <2>11
    <3>2. k - 1 \notin T
      <4> HIDE DEF T
      <4>1. QED
        BY <2>3, <3>1
    <3>3. PICK u, w : u = f[k - 1] /\ w = u \o v
      OBVIOUS
    <3>4. Right(u, k - 1)
      <4> HIDE DEF Right
      <4>1. QED
        BY <3>1, <3>2, <3>3 DEF T
    <3>5. /\ Queue(u) /\ Len(u) = list[k] - list[1]
          /\ \A y \in 1 .. Len(u) : FirstFrom(list, list[1] + y, u[y])
      BY <3>1, <3>4
    <3>6. Joined(u, v, w)
      BY <2>7, <3>3, <3>5, QueueConcat
    <3>7. Queue(w) /\ Len(w) = list[k + 1] - list[1]
      <4>1. Queue(w) /\ Len(w) = (q - p) + (r - q) /\ (q - p) + (r - q) = r - p
        BY <2>9, <3>5, <3>6 DEF Joined
      <4>2. QED
        BY <2>9, <4>1
    <3>8. ASSUME NEW y \in 1 .. Len(w) PROVE FirstFrom(list, list[1] + y, w[y])
      <4>1. CASE y \in 1 .. Len(u)
        BY <3>5, <3>6, <4>1 DEF Joined
      <4>2. CASE \E j \in 1 .. Len(v) : y = Len(u) + j
        <5>1. PICK j \in 1 .. Len(v) : y = Len(u) + j
          BY <4>2
        <5>2. w[y] = k + 1
          BY <2>7, <3>6, <5>1 DEF Joined
        <5>3. y = (q - p) + j /\ j \in 1 .. (r - q)
          BY <2>9, <3>5, <5>1
        <5>4. p <= q /\ q <= r /\ j \in Nat /\ 0 < j /\ j <= r - q
          BY <2>9, <5>3
        <5>5. y \in Int /\ p + y = q + j /\ 0 < y
          BY <5>3, <5>4
        <5>6. y \in Nat /\ y > 0 /\ q < p + y /\ p + y <= r
          BY <5>4, <5>5
        <5>7. QED
          BY <2>8, <2>9, <5>2, <5>6
      <4>3. QED
        BY <3>6, <4>1, <4>2 DEF Joined
    <3>9. Right(w, k)
      BY <3>7, <3>8
    <3> HIDE DEF Right
    <3>10. QED
      BY <2>4, <2>5, <2>6, <2>11, <3>3, <3>9
  <2>12. QED
    BY <2>10, <2>11
<1>6. Right(f[n], n)
  <2>1. n \in Nat /\ n \in 1 .. n /\ n \notin T
    BY <1>5
  <2> HIDE DEF Right
  <2>2. QED
    BY <2>1
<1>7. QED
  BY <1>3, <1>6

LEMMA LbIdxRight ==
  ASSUME NEW list, Rising(list)
  PROVE  /\ Queue(LbIdx(list)) /\ Len(LbIdx(list)) = Last(list) + 1 /\ Last(list) \in Nat
         /\ \A x \in 0 .. Last(list) : FirstFrom(list, x, LbIdx(list)[x + 1])
<1>1. PICK m \in Nat : Len(list) = m + 1
  <2>1. Len(list) \in Nat /\ Len(list) > 0
    BY QueueFacts DEF Rising
  <2>2. Len(list) - 1 \in Nat /\ Len(list) = (Len(list) - 1) + 1
    BY <2>1
  <2>3. QED
    BY <2>2
<1>2. 1 \in 1 .. Len(list) /\ Len(list) \in 1 .. Len(list) /\ 1 <= Len(list)
  BY <1>1
<1>3. PICK p \in Nat, q \in Nat : p = list[1] /\ q = list[m + 1] /\ p <= q
  BY <1>1, <1>2, RisingOrder DEF Rising
<1>4. PICK segs : segs = [i \in 1 .. (Len(list) - 1) |-> Repeated(list[i + 1] - list[i], i + 1)]
  OBVIOUS
<1>5. PICK u, flat, w : u = Repeated(p + 1, 1) /\ flat = FlattenSeq(segs) /\ w = u \o flat
  OBVIOUS
<1>6. LbIdx(list) = w /\ Last(list) = q
  BY <1>1, <1>3, <1>4, <1>5 DEF LbIdx, Last
<1>7. Queue(u) /\ Len(u) = p + 1 /\ \A k \in 1 .. (p + 1) : u[k] = 1
  BY <1>3, <1>5, RepeatedQueue
<1>8. /\ Queue(flat) /\ Len(flat) = q - p
      /\ \A y \in 1 .. Len(flat) : FirstFrom(list, p + y, flat[y])
  <2>1. CASE m = 0
    <3>1. segs = [i \in 1 .. 0 |-> segs[i]]
      BY <1>1, <1>4, <2>1
    <3>2. Queue(segs) /\ Len(segs) = 0
      BY <3>1, QueueOfFunction
    <3>3. segs = << >>
      BY <3>2, QueueFacts
    <3>4. flat = << >> /\ Queue(<< >>) /\ Len(<< >>) = 0
      BY <1>5, <3>3, QueueOfOne DEF FlattenSeq
    <3>5. QED
      BY <1>3, <2>1, <3>4
  <2>2. CASE m # 0
    <3>1. m \in Nat \ {0} /\ Len(list) - 1 = m
      BY <1>1, <2>2
    <3>2. segs = [i \in 1 .. m |-> Repeated(list[i + 1] - list[i], i + 1)]
      BY <1>4, <3>1
    <3>3. QED
      BY <1>1, <1>3, <1>5, <3>1, <3>2, SegmentsRight
  <2>3. QED
    BY <2>1, <2>2
<1>9. Joined(u, flat, w)
  BY <1>5, <1>7, <1>8, QueueConcat
<1>10. Queue(w) /\ Len(w) = q + 1
  <2>1. Queue(w) /\ Len(w) = (p + 1) + (q - p)
    BY <1>7, <1>8, <1>9 DEF Joined
  <2>2. QED
    BY <1>3, <2>1
<1>11. ASSUME NEW x \in 0 .. q PROVE FirstFrom(list, x, w[x + 1])
  <2>1. CASE x <= p
    <3>1. x + 1 \in 1 .. (p + 1)
      BY <2>1
    <3>2. w[x + 1] = 1
      BY <1>7, <1>9, <3>1 DEF Joined
    <3>3. QED
      BY <1>2, <1>3, <2>1, <3>2 DEF FirstFrom
  <2>2. CASE ~(x <= p)
    <3>1. PICK y \in 1 .. (q - p) : x = p + y /\ x + 1 = (p + 1) + y
      <4>1. x - p \in 1 .. (q - p) /\ x = p + (x - p) /\ x + 1 = (p + 1) + (x - p)
        BY <1>3, <2>2
      <4>2. QED
        BY <4>1
    <3>2. w[x + 1] = flat[y]
      BY <1>7, <1>8, <1>9, <3>1 DEF Joined
    <3>3. QED
      BY <1>8, <3>1, <3>2
  <2>3. QED
    BY <2>1, <2>2
<1>12. QED
  BY <1>3, <1>6, <1>10, <1>11

(* A table that agrees with the list of samples, but may go on after the   *)
(* last of them, as that of a start with a longer list.                    *)
GoesOn(xs, list) ==
  /\ Queue(xs) /\ Len(list) <= Len(xs)
  /\ \A i \in 1 .. Len(xs) : xs[i] \in Nat
  /\ \A i \in 1 .. Len(list) : i < Len(list) => xs[i] = list[i]
  /\ Last(list) <= xs[Len(list)] /\ Last(list) <= Last(xs)

(* Every look-up between 0 and the last sample has an answer; it reads the *)
(* sample itself, or the two samples that x lies between, or the first one *)
(* (_interp_1d and _get_lb_idx_list, perfpredictor.py:131-158).            *)
THEOREM LookupsExact ==
  ASSUME NEW list, Rising(list), NEW xs, GoesOn(xs, list),
         NEW size \in Nat, Len(list) <= size, NEW x \in 0 .. Last(list)
  PROVE  /\ Answers(x, xs, size, LbIdx(list))
         /\ Bracketed(x, xs, SamplesRead(x, xs, LbIdx(list)))
<1>1. PICK n \in Nat : n = Len(list) /\ n > 0
  BY QueueFacts DEF Rising
<1>2. PICK lb, i : lb = LbIdx(list) /\ i = lb[x + 1]
  OBVIOUS
<1>3. PICK q \in Nat : q = Last(list) /\ Len(lb) = q + 1 /\ Queue(lb)
  BY <1>2, LbIdxRight
<1>4. FirstFrom(list, x, i)
  BY <1>2, LbIdxRight
<1>5. x \in 0 .. q /\ x \in Nat /\ q <= Last(xs) /\ q = list[n] /\ q <= xs[n]
  BY <1>1, <1>3 DEF GoesOn, Last
<1>6. Len(xs) \in Nat /\ n <= Len(xs)
  BY <1>1, QueueFacts DEF GoesOn
<1>7. Last(xs) \in Nat
  <2>1. Len(xs) \in 1 .. Len(xs)
    BY <1>1, <1>6
  <2>2. QED
    BY <2>1 DEF GoesOn, Last
<1>8. i \in 1 .. n /\ i \in 1 .. Len(xs) /\ xs[i] \in Nat
  BY <1>1, <1>4, <1>6 DEF FirstFrom, GoesOn
<1>9. x <= xs[i]
  <2>1. CASE i < n
    BY <1>1, <1>4, <1>8, <2>1 DEF FirstFrom, GoesOn
  <2>2. CASE ~(i < n)
    BY <1>1, <1>5, <1>8, <2>2
  <2>3. QED
    BY <2>1, <2>2
<1>10. i > 1 => i - 1 \in 1 .. Len(xs) /\ xs[i - 1] \in Nat /\ xs[i - 1] < x
  <2>1. SUFFICES ASSUME i > 1 PROVE i - 1 \in 1 .. Len(xs) /\ xs[i - 1] \in Nat /\ xs[i - 1] < x
    OBVIOUS
  <2>2. i - 1 \in 1 .. n /\ i - 1 < n /\ i - 1 \in 1 .. Len(xs)
    BY <1>6, <1>8, <2>1
  <2>3. xs[i - 1] = list[i - 1] /\ list[i - 1] < x
    BY <1>1, <1>4, <2>1, <2>2 DEF FirstFrom, GoesOn
  <2>4. QED
    BY <2>2, <2>3 DEF GoesOn
<1>11. Answers(x, xs, size, lb)
  <2>1. x + 1 \in DOMAIN lb
    <3>1. DOMAIN lb = 1 .. Len(lb)
      BY <1>3, QueueFacts
    <3>2. x + 1 \in 1 .. (q + 1)
      BY <1>5
    <3>3. QED
      BY <1>3, <3>1, <3>2
  <2>2. x <= Last(xs)
    BY <1>5, <1>7
  <2>3. i <= size
    BY <1>1, <1>8
  <2>4. QED
    BY <1>2, <2>1, <2>2, <2>3 DEF Answers
<1>12. Bracketed(x, xs, SamplesRead(x, xs, lb))
  <2>1. PICK read : read = SamplesRead(x, xs, lb)
    OBVIOUS
  <2>2. read = IF x = 0 THEN {} ELSE IF i = 1 \/ x = xs[i] THEN {i} ELSE {i - 1, i}
    BY <1>2, <2>1 DEF SamplesRead
  <2>3. CASE x # 0 /\ x = xs[i]
    <3>1. read = {i}
      BY <2>2, <2>3
    <3>2. QED
      BY <2>1, <2>3, <3>1 DEF Bracketed
  <2>4. CASE x # 0 /\ x # xs[i] /\ i = 1
    <3>1. read = {1} /\ x < xs[1]
      BY <1>5, <1>8, <1>9, <2>2, <2>4
    <3>2. QED
      BY <2>1, <3>1 DEF Bracketed
  <2>5. CASE x # 0 /\ x # xs[i] /\ i # 1
    <3>1. read = {i - 1, i} /\ i \in read
      BY <2>2, <2>5
    <3>2. xs[i - 1] < x /\ x < xs[i]
      BY <1>5, <1>8, <1>9, <1>10, <2>5
    <3>3. QED
      BY <2>1, <3>1, <3>2 DEF Bracketed
  <2>6. QED
    BY <2>1, <2>3, <2>4, <2>5 DEF Bracketed
<1>13. QED
  BY <1>2, <1>11, <1>12

-----------------------------------------------------------------------------
(* Part III.  The lists of samples.                                        *)
Sizes(list) == Queue(list) /\ \A i \in 1 .. Len(list) : list[i] \in Nat

Within(list, lo, hi) == \A i \in 1 .. Len(list) : lo <= list[i] /\ list[i] <= hi

(* As Rising, but possibly empty.                                          *)
Steps(list) ==
  Sizes(list) /\ \A i \in 1 .. Len(list) : i < Len(list) => list[i] <= list[i + 1]

LEMMA JoinNaturals ==
  ASSUME NEW s, NEW t, Sizes(s), Sizes(t)
  PROVE  Sizes(s \o t)
<1>1. PICK u : u = s \o t
  OBVIOUS
<1>2. Joined(s, t, u)
  BY <1>1, QueueConcat DEF Sizes
<1>3. ASSUME NEW i \in 1 .. Len(u) PROVE u[i] \in Nat
  BY <1>2 DEF Joined, Sizes
<1>4. QED
  BY <1>1, <1>2, <1>3 DEF Joined, Sizes

LEMMA JoinSteps ==
  ASSUME NEW s, NEW t, Steps(s), Steps(t), NEW lo \in Nat, NEW mid \in Nat, NEW hi \in Nat,
         lo <= mid, mid <= hi, Within(s, lo, mid), Within(t, mid, hi)
  PROVE  Steps(s \o t) /\ Within(s \o t, lo, hi)
<1>1. PICK u : u = s \o t
  OBVIOUS
<1>2. Joined(s, t, u)
  BY <1>1, QueueConcat DEF Steps, Sizes
<1>3. PICK m \in Nat, n \in Nat : m = Len(s) /\ n = Len(t) /\ Len(u) = m + n
  BY <1>2 DEF Joined
<1>4. ASSUME NEW i \in 1 .. Len(u) PROVE lo <= u[i] /\ u[i] <= hi
  <2>1. CASE i \in 1 .. m
    <3>1. u[i] = s[i] /\ s[i] \in Nat /\ lo <= s[i] /\ s[i] <= mid
      BY <1>2, <1>3, <2>1 DEF Joined, Steps, Sizes, Within
    <3>2. QED
      BY <3>1
  <2>2. CASE \E k \in 1 .. n : i = m + k
    <3>1. PICK k \in 1 .. n : i = m + k
      BY <2>2
    <3>2. u[i] = t[k] /\ t[k] \in Nat /\ mid <= t[k] /\ t[k] <= hi
      BY <1>2, <1>3, <3>1 DEF Joined, Steps, Sizes, Within
    <3>3. QED
      BY <3>2
  <2>3. QED
    BY <1>2, <1>3, <2>1, <2>2 DEF Joined
<1>5. ASSUME NEW i \in 1 .. Len(u), i < Len(u) PROVE u[i] <= u[i + 1]
  <2>1. CASE i < m
    <3>1. i \in 1 .. m /\ i + 1 \in 1 .. m
      BY <1>3, <2>1
    <3>2. u[i] = s[i] /\ u[i + 1] = s[i + 1] /\ s[i] <= s[i + 1]
      BY <1>2, <1>3, <2>1, <3>1 DEF Joined, Steps
    <3>3. QED
      BY <3>2
  <2>2. CASE i = m
    <3>1. i \in 1 .. m /\ 1 \in 1 .. n
      BY <1>3, <1>5, <2>2
    <3>2. u[i] = s[i] /\ u[i + 1] = t[1]
      BY <1>2, <1>3, <2>2, <3>1 DEF Joined
    <3>3. s[i] \in Nat /\ t[1] \in Nat /\ s[i] <= mid /\ mid <= t[1]
      BY <1>3, <3>1 DEF Steps, Sizes, Within
    <3>4. QED
      BY <3>2, <3>3
  <2>3. CASE i > m
    <3>1. PICK k \in 1 .. n : i = m + k /\ k < n /\ k + 1 \in 1 .. n /\ i + 1 = m + (k + 1)
      <4>1. /\ i - m \in 1 .. n /\ i = m + (i - m) /\ i - m < n /\ (i - m) + 1 \in 1 .. n
            /\ i + 1 = m + ((i - m) + 1)
        BY <1>3, <1>5, <2>3
      <4>2. QED
        BY <4>1
    <3>2. u[i] = t[k] /\ u[i + 1] = t[k + 1] /\ t[k] <= t[k + 1]
      BY <1>2, <1>3, <3>1 DEF Joined, Steps
    <3>3. QED
      BY <3>2
  <2>4. QED
    BY <1>3, <2>1, <2>2, <2>3
<1>6. Sizes(u)
  BY <1>1, JoinNaturals DEF Steps
<1>7. QED
  BY <1>1, <1>4, <1>5, <1>6 DEF Steps, Within

(* A last sample behind such a list.                                       *)
LEMMA OneMore ==
  ASSUME NEW s, Steps(s), NEW last \in Nat, Within(s, 0, last)
  PROVE  /\ Rising(s \o <<last>>) /\ Len(s \o <<last>>) = Len(s) + 1
         /\ Last(s \o <<last>>) = last /\ \A i \in 1 .. Len(s) : (s \o <<last>>)[i] = s[i]
<1>1. PICK t, u : t = <<last>> /\ u = s \o t
  OBVIOUS
<1>2. Queue(t) /\ Len(t) = 1 /\ t[1] = last
  BY <1>1, QueueOfOne
<1>3. Steps(t) /\ Within(t, last, last)
  <2>1. \A i \in 1 .. Len(t) : i = 1
    BY <1>2
  <2>2. QED
    BY <1>2, <2>1 DEF Steps, Sizes, Within
<1>4. Steps(u)
  BY <1>1, <1>3, JoinSteps
<1>5. Joined(s, t, u)
  BY <1>1, <1>2, QueueConcat DEF Steps, Sizes
<1>6. Len(u) = Len(s) + 1 /\ Len(s) \in Nat /\ u[Len(s) + 1] = last
  <2>1. 1 \in 1 .. Len(t)
    BY <1>2
  <2>2. QED
    BY <1>2, <1>5, <2>1 DEF Joined
<1>7. \A i \in 1 .. Len(s) : u[i] = s[i]
  BY <1>5 DEF Joined
<1>8. Rising(u)
  <2>1. Len(u) > 0
    BY <1>6
  <2>2. QED
    BY <1>4, <2>1 DEF Rising, Steps, Sizes
<1>9. QED
  BY <1>1, <1>6, <1>7, <1>8 DEF Last

LEMMA PowersRise ==
  ASSUME NEW a \in Nat, NEW b \in Nat
  PROVE  /\ Steps(Powers(a, b))
         /\ Len(Powers(a, b)) = IF b > a THEN b - a ELSE 0
         /\ \A i \in 1 .. Len(Powers(a, b)) : Powers(a, b)[i] = 2^(a + i - 1)
         /\ b > a => Within(Powers(a, b), 2^a, 2^(b - 1))
<1>1. PICK n \in Nat : n = IF b > a THEN b - a ELSE 0
  <2>1. CASE b > a
    <3>1. b - a \in Nat
      BY <2>1
    <3>2. QED
      BY <2>1, <3>1
  <2>2. CASE ~(b > a)
    BY <2>2
  <2>3. QED
    BY <2>1, <2>2
<1>2. PICK p : p = Powers(a, b)
  OBVIOUS
<1>3. Count(b - a) = n
  BY <1>1 DEF Count
<1>4. p = [i \in 1 .. n |-> 2^(a + i - 1)]
  BY <1>2, <1>3 DEF Powers
<1>5. p = [i \in 1 .. n |-> p[i]]
  BY <1>4
<1>6. Queue(p) /\ Len(p) = n
  BY <1>5, QueueOfFunction
<1>7. ASSUME NEW i \in 1 .. n
      PROVE  /\ p[i] = 2^(a + i - 1) /\ p[i] \in Nat /\ 2^a <= p[i]
             /\ b > a => p[i] <= 2^(b - 1)
             /\ i < n => p[i] <= p[i + 1]
  <2>1. p[i] = 2^(a + i - 1)
    BY <1>4
  <2>2. PICK k \in Nat : k = a + i - 1 /\ a <= k /\ (b > a => k <= b - 1 /\ b - 1 \in Nat)
    BY <1>1
  <2>3. 2^k \in Nat /\ 2^a <= 2^k /\ (b > a => 2^k <= 2^(b - 1))
    BY <2>2, PowersGrow
  <2>4. i < n => p[i] <= p[i + 1]
    <3>1. SUFFICES ASSUME i < n PROVE p[i] <= p[i + 1]
      OBVIOUS
    <3>2. i + 1 \in 1 .. n /\ a + (i + 1) - 1 = k + 1
      BY <2>2, <3>1
    <3>3. p[i + 1] = 2^(k + 1)
      BY <1>4, <3>2
    <3>4. 2^k <= 2^(k + 1)
      BY PowersGrow
    <3>5. QED
      BY <2>1, <2>2, <3>3, <3>4
  <2>5. QED
    BY <2>1, <2>2, <2>3, <2>4
<1>8. QED
  BY <1>1, <1>2, <1>6, <1>7 DEF Steps, Sizes, Within

LEMMA NoSteps == Steps(<< >>) /\ Len(<< >>) = 0 /\ \A lo, hi : Within(<< >>, lo, hi)
<1>1. Queue(<< >>) /\ Len(<< >>) = 0
  BY QueueOfOne
<1>2. QED
  BY <1>1 DEF Steps, Sizes, Within

LEMMA FlattenSteps ==
  ASSUME NEW n \in Nat \ {0}, NEW seqs, Len(seqs) = n, NEW top \in [0 .. n -> Nat],
         \A i \in 1 .. n : /\ top[i - 1] <= top[i]
                           /\ Steps(seqs[i]) /\ Within(seqs[i], top[i - 1], top[i])
  PROVE  Steps(FlattenSeq(seqs)) /\ Within(FlattenSeq(seqs), top[0], top[n])
<1>1. PICK f : Flattens(f, seqs, n) /\ FlattenSeq(seqs) = f[n]
  BY FlattenIs
<1> DEFINE Right(u, k) == Steps(u) /\ Within(u, top[0], top[k]) /\ top[0] <= top[k]
           T == {k \in Nat : k \in 1 .. n /\ ~Right(f[k], k)}
<1>2. T = {}
  <2>1. SUFFICES ASSUME T # {} PROVE FALSE
    OBVIOUS
  <2>2. T \in SUBSET Nat
    OBVIOUS
  <2>3. PICK k \in T : \A m \in T : k <= m
    <3> HIDE DEF T
    <3>1. QED
      BY <2>1, <2>2, Least
  <2>4. k \in 1 .. n /\ ~Right(f[k], k)
    OBVIOUS
  <2>5. f[k] = IF k = 1 THEN seqs[k] ELSE f[k - 1] \o seqs[k]
    BY <1>1, <2>4 DEF Flattens
  <2>6. PICK lo \in Nat, mid \in Nat, hi \in Nat :
          lo = top[0] /\ mid = top[k - 1] /\ hi = top[k] /\ mid <= hi
    <3>1. 0 \in 0 .. n /\ k - 1 \in 0 .. n /\ k \in 0 .. n
      BY <2>4
    <3>2. QED
      BY <2>4, <3>1
  <2>7. Steps(seqs[k]) /\ Within(seqs[k], mid, hi)
    BY <2>4, <2>6
  <2>8. CASE k = 1
    <3>1. Right(seqs[k], k)
      BY <2>6, <2>7, <2>8
    <3> HIDE DEF Right
    <3>2. QED
      BY <2>4, <2>5, <2>8, <3>1
  <2>9. CASE k # 1
    <3>1. k - 1 \in 1 .. n /\ k - 1 \in Nat /\ ~(k <= k - 1)
      BY <2>4, <2>9
    <3>2. k - 1 \notin T
      <4> HIDE DEF T
      <4>1. QED
        BY <2>3, <3>1
    <3>3. PICK u, v : u = f[k - 1] /\ v = seqs[k]
      OBVIOUS
    <3>4. Right(u, k - 1)
      <4> HIDE DEF Right
      <4>1. QED
        BY <3>1, <3>2, <3>3 DEF T
    <3>5. Steps(u) /\ Within(u, lo, mid) /\ lo <= mid
      BY <2>6, <3>4
    <3>6. Steps(u \o v) /\ Within(u \o v, lo, hi)
      BY <2>6, <2>7, <3>3, <3>5, JoinSteps
    <3>7. Right(u \o v, k)
      BY <2>6, <3>5, <3>6
    <3> HIDE DEF Right
    <3>8. QED
      BY <2>4, <2>5, <2>9, <3>3, <3>7
  <2>10. QED
    BY <2>8, <2>9
<1>3. Right(f[n], n)
  <2>1. n \in Nat /\ n \in 1 .. n
    OBVIOUS
  <2> HIDE DEF Right
  <2>2. QED
    BY <1>2, <2>1
<1>4. QED
  BY <1>1, <1>3

LEMMA HalfStepsRise ==
  ASSUME NEW a \in Nat, NEW b \in Nat, a < b => a >= 2
  PROVE  /\ Steps(HalfSteps(a, b))
         /\ a < b => Within(HalfSteps(a, b), 0, 2^(b - 1))
         /\ ~(a < b) => HalfSteps(a, b) = << >>
<1>1. CASE ~(a < b)
  <2>1. Count(b - a) = 0
    BY <1>1 DEF Count
  <2>2. PICK segs : segs = [i \in 1 .. Count(b - a) |-> <<3 * 2^(a + i - 3), 2^(a + i - 1)>>]
    OBVIOUS
  <2>3. segs = [i \in 1 .. 0 |-> segs[i]]
    BY <2>1, <2>2
  <2>4. Queue(segs) /\ Len(segs) = 0
    BY <2>3, QueueOfFunction
  <2>5. segs = << >>
    BY <2>4, QueueFacts
  <2>6. HalfSteps(a, b) = << >>
    BY <2>2, <2>5, NoSteps DEF HalfSteps, FlattenSeq
  <2>7. QED
    BY <1>1, <2>6, NoSteps
<1>2. CASE a < b
  <2>1. PICK n \in Nat \ {0} : n = b - a
    BY <1>2
  <2>2. Count(b - a) = n
    BY <2>1 DEF Count
  <2>3. PICK segs : segs = [i \in 1 .. n |-> <<3 * 2^(a + i - 3), 2^(a + i - 1)>>]
    OBVIOUS
  <2>4. HalfSteps(a, b) = FlattenSeq(segs)
    BY <2>2, <2>3 DEF HalfSteps
  <2>5. Len(segs) = n
    <3>1. segs = [i \in 1 .. n |-> segs[i]]
      BY <2>3
    <3>2. QED
      BY <3>1, QueueOfFunction
  <2>6. PICK top : top = [i \in 0 .. n |-> 2^(a + i - 1)]
    OBVIOUS
  <2>7. ASSUME NEW i \in 0 .. n PROVE top[i] = 2^(a + i - 1) /\ top[i] \in Nat
    <3>1. a + i - 1 \in Nat
      BY <1>2
    <3>2. QED
      BY <2>6, <3>1, Doubling
  <2>8. top \in [0 .. n -> Nat]
    BY <2>6, <2>7
  <2>9. ASSUME NEW i \in 1 .. n
        PROVE  /\ top[i - 1] <= top[i]
               /\ Steps(segs[i]) /\ Within(segs[i], top[i - 1], top[i])
    <3>1. PICK k \in Nat : k = a + i - 3 /\ a + i - 1 = (k + 1) + 1 /\ a + (i - 1) - 1 = k + 1
      <4>1. a + i - 3 \in Nat
        BY <1>2
      <4>2. a + i - 1 = ((a + i - 3) + 1) + 1 /\ a + (i - 1) - 1 = (a + i - 3) + 1
        OBVIOUS
      <4>3. QED
        BY <4>1, <4>2
    <3>2. PICK p \in Nat : p = 2^k
      BY Doubling
    <3>3. 2^(k + 1) = p + p /\ 2^((k + 1) + 1) = (p + p) + (p + p)
      <4>1. k + 1 \in Nat
        OBVIOUS
      <4>2. 2^((k + 1) + 1) = 2^(k + 1) + 2^(k + 1)
        BY <4>1, Doubling
      <4>3. QED
        BY <3>2, <4>2, Doubling
    <3>4. i - 1 \in 0 .. n /\ i \in 0 .. n
      OBVIOUS
    <3>5. top[i - 1] = p + p /\ top[i] = (p + p) + (p + p)
      BY <2>7, <3>1, <3>3, <3>4
    <3>6. PICK s : s = <<3 * p, (p + p) + (p + p)>>
      OBVIOUS
    <3>7. segs[i] = s
      BY <2>3, <3>1, <3>2, <3>3, <3>6
    <3>8. Queue(s) /\ Len(s) = 2 /\ s[1] = 3 * p /\ s[2] = (p + p) + (p + p)
      <4>1. s \in Seq(Int)
        BY <3>6
      <4>2. QED
        BY <3>6, <4>1 DEF Queue
    <3>9. \A j \in 1 .. Len(s) : j = 1 \/ j = 2
      BY <3>8
    <3>10. Steps(s) /\ Within(s, p + p, (p + p) + (p + p))
      BY <3>8, <3>9 DEF Steps, Sizes, Within
    <3>11. QED
      BY <3>5, <3>7, <3>10
  <2>10. Steps(HalfSteps(a, b)) /\ Within(HalfSteps(a, b), top[0], top[n])
    BY <2>4, <2>5, <2>8, <2>9, FlattenSteps
  <2>11. top[n] = 2^(b - 1) /\ top[n] \in Nat /\ top[0] \in Nat
    <3>1. n \in 0 .. n /\ 0 \in 0 .. n /\ a + n - 1 = b - 1
      BY <2>1
    <3>2. QED
      BY <2>7, <3>1
  <2>12. Within(HalfSteps(a, b), 0, 2^(b - 1))
    <3>1. PICK h : h = HalfSteps(a, b)
      OBVIOUS
    <3>2. \A i \in 1 .. Len(h) : h[i] \in Nat /\ h[i] <= top[n]
      BY <2>10, <3>1 DEF Steps, Sizes, Within
    <3>3. QED
      BY <2>11, <3>1, <3>2 DEF Within
  <2>13. QED
    BY <1>2, <2>10, <2>12
<1>3. QED
  BY <1>1, <1>2

(* The configuration of a start that goes on to the tables.                *)
Legal(c) ==
  /\ c.block_size \in Nat \ {0} /\ c.max_blocks_per_seq \in Nat \ {0}
  /\ c.max_batch_size \in Nat \ {0} /\ c.max_tokens_in_batch \in Nat \ {0}
  /\ c.num_gpu_blocks \in Nat \ {0} /\ c.num_cpu_blocks \in Nat
  /\ ~FractionalSamples(c)

LEMMA Positive ==
  ASSUME NEW a \in Nat \ {0}, NEW b \in Nat \ {0}
  PROVE  a * b \in Nat \ {0}
OBVIOUS

(* A sample x - 1 of whose bits are counted is beyond the power below.     *)
LEMMA BitsBelow ==
  ASSUME NEW x \in Nat \ {0}, NEW a \in Nat, a < BitLength(x - 1)
  PROVE  BitLength(x - 1) \in Nat /\ 2^(BitLength(x - 1) - 1) \in Nat /\ 2^(BitLength(x - 1) - 1) <= x
<1>1. PICK b \in Nat : b = BitLength(x - 1) /\ b > 0
  BY Bits
<1>2. 2^(b - 1) <= x - 1
  BY <1>1, Bits
<1>3. 2^(b - 1) \in Nat
  BY <1>1, Doubling
<1>4. QED
  BY <1>1, <1>2, <1>3

LEMMA StepListRises ==
  ASSUME NEW c, Legal(c), NEW largest \in {c.max_tokens_in_batch, MaxGpuTokens(c)}
  PROVE  largest \in Nat \ {0} /\ Rising(StepList(c, largest)) /\ Last(StepList(c, largest)) = largest
<1>1. largest \in Nat \ {0}
  BY Positive DEF Legal, MaxGpuTokens
<1>2. PICK a \in Nat, b \in Nat : a = BitLength(c.block_size - 1) /\ b = BitLength(largest - 1)
  BY <1>1, Bits DEF Legal
<1>3. a < b => a >= 2
  <2>1. ~(a < Smaller(2, b))
    BY <1>2 DEF Legal, FractionalSamples
  <2>2. QED
    BY <2>1 DEF Smaller
<1>4. PICK h : h = HalfSteps(a, b)
  OBVIOUS
<1>5. Steps(h) /\ Within(h, 0, largest)
  <2>1. CASE a < b
    <3>1. 2^(b - 1) \in Nat /\ 2^(b - 1) <= largest
      BY <1>1, <1>2, <2>1, BitsBelow
    <3>2. Steps(h) /\ Within(h, 0, 2^(b - 1))
      BY <1>3, <1>4, <2>1, HalfStepsRise
    <3>3. \A i \in 1 .. Len(h) : h[i] \in Nat
      BY <3>2 DEF Steps, Sizes
    <3>4. QED
      BY <1>1, <3>1, <3>2, <3>3 DEF Within
  <2>2. CASE ~(a < b)
    BY <1>3, <1>4, <2>2, HalfStepsRise, NoSteps
  <2>3. QED
    BY <2>1, <2>2
<1>6. StepList(c, largest) = h \o <<largest>>
  BY <1>2, <1>4 DEF StepList
<1>7. QED
  BY <1>1, <1>5, <1>6, OneMore

(* The list of the linear part, up to m tokens; only m tells two of them   *)
(* apart.                                                                  *)
LinrUpTo(m) ==
  [i \in 1 .. (2^DenseBits - 1) |-> i] \o Powers(DenseBits, BitLength(m - 1)) \o <<m>>

LEMMA Dense ==
  /\ Steps([i \in 1 .. (2^DenseBits - 1) |-> i])
  /\ Within([i \in 1 .. (2^DenseBits - 1) |-> i], 0, 2^DenseBits - 1)
  /\ Len([i \in 1 .. (2^DenseBits - 1) |-> i]) = 2^DenseBits - 1
  /\ 2^DenseBits \in Nat \ {0}
<1>1. PICK n \in Nat : n = 2^DenseBits - 1 /\ 2^DenseBits \in Nat \ {0}
  BY SamplesAssumption, PowersGrow
<1>2. PICK d : d = [i \in 1 .. n |-> i]
  OBVIOUS
<1>3. d = [i \in 1 .. n |-> d[i]] /\ \A i \in 1 .. n : d[i] = i
  BY <1>2
<1>4. Queue(d) /\ Len(d) = n
  BY <1>3, QueueOfFunction
<1>5. \A i \in 1 .. n : i < n => i + 1 \in 1 .. n
  OBVIOUS
<1>6. Steps(d) /\ Within(d, 0, n)
  BY <1>3, <1>4, <1>5 DEF Steps, Sizes, Within
<1>7. QED
  BY <1>1, <1>2, <1>4, <1>6

LEMMA LinrSizes ==
  ASSUME NEW m \in Nat
  PROVE  Sizes(LinrUpTo(m)) /\ Len(LinrUpTo(m)) > 0 /\ Last(LinrUpTo(m)) = m
<1>1. BitLength(m - 1) \in Nat
  BY Bits
<1>2. PICK s : s = [i \in 1 .. (2^DenseBits - 1) |-> i] \o Powers(DenseBits, BitLength(m - 1))
  OBVIOUS
<1>3. Sizes(s)
  BY <1>1, <1>2, Dense, PowersRise, SamplesAssumption, JoinNaturals DEF Steps
<1>4. Queue(<<m>>) /\ Len(<<m>>) = 1 /\ <<m>>[1] = m
  BY QueueOfOne
<1>5. Sizes(<<m>>)
  <2>1. \A i \in 1 .. Len(<<m>>) : i = 1
    BY <1>4
  <2>2. QED
    BY <1>4, <2>1 DEF Sizes
<1>6. Sizes(s \o <<m>>)
  BY <1>3, <1>5, JoinNaturals
<1>7. Joined(s, <<m>>, s \o <<m>>)
  BY <1>3, <1>4, QueueConcat DEF Sizes
<1>8. Len(s \o <<m>>) = Len(s) + 1 /\ Len(s) \in Nat /\ (s \o <<m>>)[Len(s) + 1] = m
  <2>1. 1 \in 1 .. Len(<<m>>)
    BY <1>4
  <2>2. QED
    BY <1>4, <1>7, <2>1 DEF Joined
<1>9. LinrUpTo(m) = s \o <<m>>
  BY <1>2 DEF LinrUpTo
<1>10. QED
  BY <1>6, <1>8, <1>9 DEF Last

(* All but the last sample of the linear part.                             *)
LinrRest(m) == [i \in 1 .. (2^DenseBits - 1) |-> i] \o Powers(DenseBits, BitLength(m - 1))

LinrPowers(m) == IF BitLength(m - 1) > DenseBits THEN BitLength(m - 1) - DenseBits ELSE 0

LEMMA LinrParts ==
  ASSUME NEW m \in Nat \ {0}, 2^DenseBits - 1 <= m
  PROVE  /\ Steps(LinrRest(m)) /\ Within(LinrRest(m), 0, m)
         /\ LinrPowers(m) \in Nat /\ Len(LinrRest(m)) = 2^DenseBits - 1 + LinrPowers(m)
         /\ \A i \in 1 .. (2^DenseBits - 1) : LinrRest(m)[i] = i
         /\ \A k \in 1 .. LinrPowers(m) :
              LinrRest(m)[2^DenseBits - 1 + k] = 2^(DenseBits + k - 1)
<1>1. PICK n \in Nat : n = 2^DenseBits - 1 /\ 2^DenseBits = n + 1
  <2>1. 2^DenseBits \in Nat \ {0}
    BY Dense
  <2>2. 2^DenseBits - 1 \in Nat /\ 2^DenseBits = (2^DenseBits - 1) + 1
    BY <2>1
  <2>3. QED
    BY <2>2
<1>2. PICK b \in Nat : b = BitLength(m - 1)
  BY Bits
<1>3. PICK d, p, s : d = [i \in 1 .. n |-> i] /\ p = Powers(DenseBits, b) /\ s = d \o p
  OBVIOUS
<1>4. Steps(d) /\ Within(d, 0, n) /\ Len(d) = n
  BY <1>1, <1>3, Dense
<1>5. PICK k \in Nat : k = LinrPowers(m) /\ k = IF b > DenseBits THEN b - DenseBits ELSE 0
  <2>1. DenseBits \in Nat
    BY SamplesAssumption
  <2>2. b > DenseBits => b - DenseBits \in Nat
    BY <2>1
  <2>3. LinrPowers(m) = IF b > DenseBits THEN b - DenseBits ELSE 0
    BY <1>2 DEF LinrPowers
  <2>4. CASE b > DenseBits
    BY <2>2, <2>3, <2>4
  <2>5. CASE ~(b > DenseBits)
    BY <2>3, <2>5
  <2>6. QED
    BY <2>4, <2>5
<1>6. /\ Steps(p) /\ Len(p) = k
      /\ \A i \in 1 .. k : p[i] = 2^(DenseBits + i - 1)
      /\ b > DenseBits => Within(p, n + 1, 2^(b - 1))
  <2>1. DenseBits \in Nat
    BY SamplesAssumption
  <2>2. /\ Steps(p) /\ Len(p) = IF b > DenseBits THEN b - DenseBits ELSE 0
        /\ \A i \in 1 .. Len(p) : p[i] = 2^(DenseBits + i - 1)
        /\ b > DenseBits => Within(p, 2^DenseBits, 2^(b - 1))
    BY <1>3, <2>1, PowersRise
  <2>3. Len(p) = k
    BY <1>5, <2>2
  <2>4. b > DenseBits => Within(p, n + 1, 2^(b - 1))
    BY <1>1, <2>2, Zenon
  <2>5. QED
    BY <2>2, <2>3, <2>4
<1>7. Within(p, n, m)
  <2>1. CASE b > DenseBits
    <3>1. 2^(b - 1) \in Nat /\ 2^(b - 1) <= m
      BY <1>2, <2>1, BitsBelow, SamplesAssumption
    <3>2. \A i \in 1 .. Len(p) : p[i] \in Nat
      BY <1>6 DEF Steps, Sizes
    <3>3. QED
      BY <1>6, <2>1, <3>1, <3>2 DEF Within
  <2>2. CASE ~(b > DenseBits)
    BY <1>5, <1>6, <2>2 DEF Within
  <2>3. QED
    BY <2>1, <2>2
<1>8. Steps(s) /\ Within(s, 0, m)
  <2>1. 0 <= n /\ n <= m
    BY <1>1
  <2>2. QED
    BY <1>3, <1>4, <1>6, <1>7, <2>1, JoinSteps
<1>9. Joined(d, p, s)
  BY <1>3, <1>4, <1>6, QueueConcat DEF Steps, Sizes
<1>10. LinrRest(m) = s
  BY <1>1, <1>2, <1>3 DEF LinrRest
<1>11. ASSUME NEW i \in 1 .. n PROVE s[i] = i
  BY <1>3, <1>4, <1>9 DEF Joined
<1>12. ASSUME NEW i \in 1 .. k PROVE s[n + i] = 2^(DenseBits + i - 1)
  BY <1>4, <1>6, <1>9 DEF Joined
<1>13. Len(s) = n + k
  BY <1>4, <1>6, <1>9 DEF Joined
<1>14. QED
  BY <1>1, <1>5, <1>8, <1>10, <1>11, <1>12, <1>13

LEMMA LinrRises ==
  ASSUME NEW m \in Nat \ {0}, 2^DenseBits - 1 <= m
  PROVE  /\ Rising(LinrUpTo(m)) /\ Len(LinrUpTo(m)) = Len(LinrRest(m)) + 1
         /\ Last(LinrUpTo(m)) = m
         /\ \A i \in 1 .. Len(LinrRest(m)) : LinrUpTo(m)[i] = LinrRest(m)[i]
<1>1. Steps(LinrRest(m)) /\ Within(LinrRest(m), 0, m)
  BY LinrParts
<1>2. LinrUpTo(m) = LinrRest(m) \o <<m>>
  BY DEF LinrUpTo, LinrRest
<1>3. QED
  BY <1>1, <1>2, OneMore

(* A longer list of the linear part begins as a shorter one does, and is   *)
(* not below it at its last sample.                                        *)
LEMMA LinrGoesOn ==
  ASSUME NEW m \in Nat \ {0}, 2^DenseBits - 1 <= m, NEW w \in Nat, m <= w
  PROVE  GoesOn(LinrUpTo(w), LinrUpTo(m))
<1>1. PICK n \in Nat : n = 2^DenseBits - 1 /\ w \in Nat \ {0} /\ n <= m /\ n <= w
  <2>1. 2^DenseBits \in Nat \ {0}
    BY Dense
  <2>2. QED
    BY <2>1
<1>2. PICK a \in Nat, b \in Nat : a = BitLength(m - 1) /\ b = BitLength(w - 1)
  BY <1>1, Bits
<1>3. m <= 2^a /\ 2^a \in Nat
  <2>1. m - 1 < 2^a /\ 2^a \in Nat
    BY <1>2, Bits, Doubling
  <2>2. QED
    BY <2>1
<1>4. a <= b
  <2>1. SUFFICES ASSUME b < a PROVE FALSE
    OBVIOUS
  <2>2. 2^(a - 1) <= m - 1
    BY <1>2, <2>1, Bits
  <2>3. w - 1 < 2^b
    BY <1>1, <1>2, Bits
  <2>4. a - 1 \in Nat /\ b <= a - 1
    BY <2>1
  <2>5. 2^b \in Nat /\ 2^(a - 1) \in Nat /\ 2^b <= 2^(a - 1)
    BY <2>4, PowersGrow
  <2>6. QED
    BY <1>1, <2>2, <2>3, <2>5
<1>5. PICK D \in Nat : D = DenseBits
  BY SamplesAssumption
<1>6. PICK j \in Nat, k \in Nat : j = LinrPowers(m) /\ k = LinrPowers(w)
  BY <1>1, LinrParts
<1>7. j = (IF a > D THEN a - D ELSE 0) /\ k = IF b > D THEN b - D ELSE 0
  BY <1>2, <1>5, <1>6 DEF LinrPowers
<1>8. j <= k /\ a <= D + j
  BY <1>4, <1>7
<1>9. PICK s, t, xs, list :
        s = LinrRest(m) /\ t = LinrRest(w) /\ list = LinrUpTo(m) /\ xs = LinrUpTo(w)
  OBVIOUS
<1>10. /\ Len(s) = n + j /\ \A i \in 1 .. n : s[i] = i
       /\ \A i \in 1 .. j : s[n + i] = 2^(D + i - 1)
  BY <1>1, <1>5, <1>6, <1>9, LinrParts
<1>11. /\ Len(t) = n + k /\ \A i \in 1 .. n : t[i] = i
       /\ \A i \in 1 .. k : t[n + i] = 2^(D + i - 1)
  BY <1>1, <1>5, <1>6, <1>9, LinrParts
<1>12. Len(list) = n + j + 1 /\ Last(list) = m /\ \A i \in 1 .. Len(s) : list[i] = s[i]
  BY <1>1, <1>9, <1>10, LinrRises
<1>13. /\ Rising(xs) /\ Len(xs) = n + k + 1 /\ Last(xs) = w
       /\ \A i \in 1 .. Len(t) : xs[i] = t[i]
  BY <1>1, <1>9, <1>11, LinrRises
<1>14. ASSUME NEW i \in 1 .. Len(list), i < Len(list) PROVE xs[i] = list[i]
  <2>1. i \in 1 .. (n + j) /\ i \in 1 .. (n + k)
    BY <1>8, <1>12, <1>14
  <2>2. xs[i] = t[i] /\ list[i] = s[i]
    BY <1>10, <1>11, <1>12, <1>13, <2>1
  <2>3. CASE i \in 1 .. n
    BY <1>10, <1>11, <2>2, <2>3
  <2>4. CASE i \notin 1 .. n
    <3>1. PICK e \in 1 .. j : i = n + e /\ e \in 1 .. k
      <4>1. i - n \in 1 .. j /\ i = n + (i - n) /\ i - n \in 1 .. k
        BY <1>8, <2>1, <2>4
      <4>2. QED
        BY <4>1
    <3>2. QED
      BY <1>10, <1>11, <2>2, <3>1
  <2>5. QED
    BY <2>3, <2>4
<1>15. m <= xs[Len(list)]
  <2>1. CASE j = k
    <3>1. xs[Len(list)] = w
      BY <1>12, <1>13, <2>1 DEF Last
    <3>2. QED
      BY <3>1
  <2>2. CASE j # k
    <3>1. j + 1 \in 1 .. k /\ n + j + 1 = n + (j + 1) /\ D + (j + 1) - 1 = D + j
      BY <1>8, <2>2
    <3>2. xs[Len(list)] = t[n + (j + 1)]
      <4>1. n + (j + 1) \in 1 .. Len(t)
        BY <1>11, <3>1
      <4>2. QED
        BY <1>12, <1>13, <3>1, <4>1
    <3>3. t[n + (j + 1)] = 2^(D + j)
      BY <1>11, <3>1
    <3>4. 2^a <= 2^(D + j) /\ 2^(D + j) \in Nat
      <4>1. D + j \in Nat
        OBVIOUS
      <4>2. QED
        BY <1>8, <4>1, PowersGrow
    <3>5. QED
      BY <1>3, <3>2, <3>3, <3>4
  <2>3. QED
    BY <2>1, <2>2
<1>16. Len(list) <= Len(xs)
  BY <1>8, <1>12, <1>13
<1>17. QED
  BY <1>9, <1>12, <1>13, <1>14, <1>15, <1>16 DEF GoesOn, Rising

(* CPU decodes: the numbers of sequences, and the tokens of all of them.   *)
LEMMA CdecSRises ==
  ASSUME NEW c, Legal(c)
  PROVE  /\ Rising(CdecSList(c)) /\ Last(CdecSList(c)) = c.max_batch_size
         /\ \A i \in 1 .. Len(CdecSList(c)) : CdecSList(c)[i] \in Nat \ {0}
         /\ \A i \in 1 .. Len(CdecSList(c)) : i > 1 => CdecSList(c)[i] <= 2 * CdecSList(c)[i - 1]
<1>1. PICK w \in Nat \ {0} : w = c.max_batch_size
  BY DEF Legal
<1>2. PICK b \in Nat : b = BitLength(w - 1)
  BY Bits
<1>3. PICK p, s : p = Powers(0, b) /\ s = p \o <<w>>
  OBVIOUS
<1>4. /\ Steps(p) /\ Len(p) = IF b > 0 THEN b - 0 ELSE 0
      /\ \A i \in 1 .. Len(p) : p[i] = 2^(0 + i - 1)
      /\ b > 0 => Within(p, 2^0, 2^(b - 1))
  BY <1>3, PowersRise
<1>5. Within(p, 0, w)
  <2>1. CASE b > 0
    <3>1. 2^(b - 1) \in Nat /\ 2^(b - 1) <= w
      BY <1>2, <2>1, BitsBelow
    <3>2. \A i \in 1 .. Len(p) : p[i] \in Nat /\ p[i] <= 2^(b - 1)
      BY <1>4, <2>1 DEF Steps, Sizes, Within
    <3>3. QED
      BY <3>1, <3>2 DEF Within
  <2>2. CASE ~(b > 0)
    BY <1>4, <2>2 DEF Within
  <2>3. QED
    BY <2>1, <2>2
<1>6. /\ Rising(s) /\ Len(s) = Len(p) + 1 /\ Last(s) = w
      /\ \A i \in 1 .. Len(p) : s[i] = p[i]
  BY <1>3, <1>4, <1>5, OneMore
<1>7. CdecSList(c) = s
  BY <1>1, <1>2, <1>3 DEF CdecSList
<1>8. Len(p) \in Nat
  BY <1>4, QueueFacts DEF Steps, Sizes
<1>9. ASSUME NEW i \in 1 .. Len(s) PROVE s[i] \in Nat \ {0}
  <2>1. CASE i \in 1 .. Len(p)
    <3>1. 0 + i - 1 \in Nat
      BY <1>8, <2>1
    <3>2. 2^(0 + i - 1) \in Nat \ {0}
      BY <3>1, PowersGrow
    <3>3. QED
      BY <1>4, <1>6, <2>1, <3>2
  <2>2. CASE i \notin 1 .. Len(p)
    <3>1. i = Len(s)
      BY <1>6, <1>8, <2>2
    <3>2. QED
      BY <1>6, <3>1 DEF Last
  <2>3. QED
    BY <2>1, <2>2
<1>10. ASSUME NEW i \in 1 .. Len(s), i > 1 PROVE s[i] <= 2 * s[i - 1]
  <2>1. PICK k \in Nat : i = k + 2 /\ k + 1 \in 1 .. Len(p) /\ i - 1 = k + 1
    <3>1. i - 2 \in Nat /\ i = (i - 2) + 2 /\ (i - 2) + 1 \in 1 .. Len(p) /\ i - 1 = (i - 2) + 1
      BY <1>6, <1>8, <1>10
    <3>2. QED
      BY <3>1
  <2>2. s[i - 1] = 2^k
    <3>1. 0 + (k + 1) - 1 = k
      OBVIOUS
    <3>2. QED
      BY <1>4, <1>6, <2>1, <3>1
  <2>3. 2^k \in Nat /\ 2^(k + 1) = 2^k + 2^k
    BY Doubling
  <2>4. CASE i \in 1 .. Len(p)
    <3>1. 0 + i - 1 = k + 1
      BY <2>1
    <3>2. s[i] = 2^(k + 1)
      BY <1>4, <1>6, <2>4, <3>1
    <3>3. QED
      BY <2>2, <2>3, <3>2
  <2>5. CASE i \notin 1 .. Len(p)
    <3>1. i = Len(s) /\ Len(p) = k + 1
      BY <1>6, <1>8, <2>1, <2>5
    <3>2. s[i] = w
      BY <1>6, <3>1 DEF Last
    <3>3. b = k + 1
      BY <1>4, <3>1
    <3>4. w - 1 < 2^(k + 1)
      <4>1. w - 1 \in Int /\ w - 1 >= 0
        OBVIOUS
      <4>2. QED
        BY <1>2, <3>3, <4>1, Bits
    <3>5. w <= 2^k + 2^k
      BY <2>3, <3>4
    <3>6. QED
      BY <2>2, <2>3, <3>2, <3>5
  <2>6. QED
    BY <2>4, <2>5
<1>11. QED
  BY <1>1, <1>6, <1>7, <1>9, <1>10

LEMMA OneSize == ASSUME NEW x \in Nat PROVE Sizes(<<x>>) /\ Len(<<x>>) = 1
<1>1. Queue(<<x>>) /\ Len(<<x>>) = 1 /\ <<x>>[1] = x
  BY QueueOfOne
<1>2. \A i \in 1 .. Len(<<x>>) : i = 1
  BY <1>1
<1>3. QED
  BY <1>1, <1>2 DEF Sizes

LEMMA RowSizes ==
  ASSUME NEW c, Legal(c), NEW i \in 1 .. Len(CdecSList(c))
  PROVE  /\ Sizes(CdecNLists(c)[i]) /\ Len(CdecNLists(c)[i]) > 0
         /\ CdecNLists(c)[i][1] = CdecSList(c)[i] * c.block_size
         /\ Last(CdecNLists(c)[i]) = Smaller(CdecSList(c)[i] * MaxSeqLen(c), MaxCpuTokens(c))
<1>1. PICK S \in Nat \ {0} : S = CdecSList(c)[i]
  BY CdecSRises
<1>2. PICK first \in Nat, last \in Nat :
        /\ first = S * c.block_size
        /\ last = Smaller(S * MaxSeqLen(c), MaxCpuTokens(c))
  <2>1. S * c.block_size \in Nat /\ MaxSeqLen(c) \in Nat
    BY Positive DEF Legal, MaxSeqLen
  <2>2. S * MaxSeqLen(c) \in Nat
    BY <2>1
  <2>3. MaxCpuTokens(c) \in Nat
    BY DEF Legal, MaxCpuTokens
  <2>4. QED
    BY <2>1, <2>2, <2>3 DEF Smaller
<1>3. PICK p : p = Powers(BitLength(first), BitLength(last - 1))
  OBVIOUS
<1>4. Sizes(p)
  <2>1. first \in Int /\ last - 1 \in Int
    OBVIOUS
  <2>2. BitLength(first) \in Nat
    BY <2>1, Bits
  <2>3. BitLength(last - 1) \in Nat
    BY <2>1, Bits
  <2>4. QED
    BY <1>3, <2>2, <2>3, PowersRise DEF Steps
<1>5. CdecNLists(c)[i] = <<first>> \o p \o <<last>>
  <2>1. i \in DOMAIN CdecSList(c)
    BY CdecSRises, QueueFacts DEF Rising
  <2>2. QED
    BY <1>1, <1>2, <1>3, <2>1 DEF CdecNLists
<1>6. PICK s, t : s = <<first>> \o p /\ t = s \o <<last>>
  OBVIOUS
<1>7. Sizes(s) /\ Sizes(t)
  BY <1>4, <1>6, OneSize, JoinNaturals
<1>8. Joined(s, <<last>>, t)
  BY <1>6, <1>7, OneSize, QueueConcat DEF Sizes
<1>9. Len(t) > 0
  BY <1>8, OneSize DEF Joined
<1>10. t[1] = first
  <2>1. Joined(<<first>>, p, s)
    BY <1>4, <1>6, OneSize, QueueConcat DEF Sizes
  <2>2. Len(<<first>>) = 1 /\ <<first>>[1] = first
    BY QueueOfOne
  <2>3. s[1] = first /\ 1 \in 1 .. Len(s)
    BY <2>1, <2>2 DEF Joined
  <2>4. QED
    BY <1>8, <2>3 DEF Joined
<1>11. Last(t) = last
  <2>1. Len(<<last>>) = 1 /\ <<last>>[1] = last
    BY QueueOfOne
  <2>2. Len(t) = Len(s) + 1 /\ t[Len(s) + 1] = last
    BY <1>8, <2>1 DEF Joined
  <2>3. QED
    BY <2>2 DEF Last
<1>12. QED
  BY <1>1, <1>2, <1>5, <1>6, <1>7, <1>9, <1>10, <1>11

LEMMA QueueSet ==
  ASSUME NEW q, Queue(q)
  PROVE  IsFiniteSet(ToSet(q)) /\ \A x : x \in ToSet(q) <=> \E i \in 1 .. Len(q) : x = q[i]
<1>1. PICK D : D = DOMAIN q /\ D = 1 .. Len(q) /\ Len(q) \in Nat
  BY QueueFacts
<1>2. IsFiniteSet(D)
  BY <1>1, FS_Interval
<1>3. PICK f : f = [i \in D |-> q[i]]
  OBVIOUS
<1>4. ToSet(q) = {q[i] : i \in D}
  BY <1>1 DEF ToSet
<1>5. f \in Surjection(D, ToSet(q))
  BY <1>3, <1>4 DEF Surjection
<1>6. IsFiniteSet(ToSet(q))
  BY <1>2, <1>5, FS_Surjection
<1>7. QED
  BY <1>1, <1>4, <1>6

(* sorted(list(S))                                                         *)
LEMMA SortedRises ==
  ASSUME NEW S \in SUBSET Nat, IsFiniteSet(S), S # {}
  PROVE  /\ Rising(Sorted(S)) /\ \A i \in 1 .. Len(Sorted(S)) : Sorted(S)[i] \in S
         /\ \A x \in S : \E i \in 1 .. Len(Sorted(S)) : Sorted(S)[i] = x
<1>1. PICK n \in Nat : n = Cardinality(S) /\ n > 0
  BY FS_CardinalityType, FS_EmptySet
<1>2. PICK s : s = Sorted(S)
  OBVIOUS
<1> DEFINE Place(x, i) == Cardinality({y \in S : y <= x}) = i
<1>3. s = [i \in 1 .. n |-> CHOOSE x \in S : Place(x, i)]
  BY <1>1, <1>2 DEF Sorted
<1>4. PICK g : g = [i \in 1 .. n |-> CHOOSE x \in S : Place(x, i)]
  OBVIOUS
<1>5. Queue(s) /\ Len(s) = n
  <2> HIDE DEF Place
  <2>1. s = [i \in 1 .. n |-> g[i]]
    BY <1>3, <1>4
  <2>2. QED
    BY <2>1, QueueOfFunction
<1>6. ASSUME NEW i \in 1 .. n PROVE s[i] \in S /\ Place(s[i], i)
  <2>1. i - 1 \in 0 .. (Cardinality(S) - 1)
    BY <1>1
  <2>2. PICK x \in S : Cardinality({y \in S : y < x}) = i - 1
    <3>1. S \subseteq Int
      OBVIOUS
    <3>2. QED
      BY <2>1, <3>1, RankExists
  <2>3. PICK low : low = {y \in S : y < x}
    OBVIOUS
  <2>4. IsFiniteSet(low) /\ x \notin low /\ {y \in S : y <= x} = low \cup {x}
    <3>1. low \in SUBSET S
      BY <2>3
    <3>2. IsFiniteSet(low)
      BY <3>1, FS_Subset
    <3>3. x \notin low
      BY <2>3
    <3>4. PICK upto : upto = {y \in S : y <= x}
      OBVIOUS
    <3>5. \A y : y \in upto <=> y \in low \cup {x}
      <4>1. \A y \in S : y <= x <=> (y < x \/ y = x)
        <5>1. \A y \in Nat, z \in Nat : y <= z <=> (y < z \/ y = z)
          OBVIOUS
        <5>2. QED
          BY <5>1
      <4>2. QED
        BY <2>3, <3>4, <4>1, Zenon
    <3>6. upto = low \cup {x}
      BY <3>5
    <3>7. QED
      BY <3>2, <3>3, <3>4, <3>6
  <2>5. Cardinality(low \cup {x}) = (i - 1) + 1
    BY <2>2, <2>3, <2>4, FS_AddElement
  <2>6. Place(x, i)
    BY <2>4, <2>5
  <2>7. s[i] = CHOOSE y \in S : Place(y, i)
    BY <1>3
  <2> HIDE DEF Place
  <2>8. QED
    BY <2>6, <2>7
<1>7. ASSUME NEW i \in 1 .. n, i < n PROVE s[i] <= s[i + 1]
  <2>1. i + 1 \in 1 .. n
    BY <1>7
  <2>2. PICK x \in S, z \in S : x = s[i] /\ z = s[i + 1] /\ Place(x, i) /\ Place(z, i + 1)
    BY <1>6, <2>1
  <2>3. SUFFICES ASSUME z < x PROVE FALSE
    BY <2>2
  <2>4. PICK X, Z : X = {y \in S : y <= x} /\ Z = {y \in S : y <= z}
    OBVIOUS
  <2>5. X \in SUBSET S /\ Z \in SUBSET X
    <3>1. \A y \in S : y <= z => y <= x
      BY <2>3
    <3>2. QED
      BY <2>4, <3>1
  <2>6. Cardinality(Z) <= Cardinality(X)
    BY <2>5, FS_Subset
  <2>7. Cardinality(X) = i /\ Cardinality(Z) = i + 1
    BY <2>2, <2>4
  <2>8. QED
    BY <2>6, <2>7
<1>8. ASSUME NEW x \in S, NEW z \in S, x < z
      PROVE  Cardinality({y \in S : y <= x}) < Cardinality({y \in S : y <= z})
  <2>1. PICK X, Z : X = {y \in S : y <= x} /\ Z = {y \in S : y <= z}
    OBVIOUS
  <2>2. X \in SUBSET S /\ Z \in SUBSET S /\ X \cup {z} \in SUBSET Z /\ z \notin X
    <3>1. \A y \in S : y <= x => y <= z
      BY <1>8
    <3>2. z <= z /\ ~(z <= x)
      BY <1>8
    <3>3. QED
      BY <2>1, <3>1, <3>2
  <2>3. IsFiniteSet(X) /\ IsFiniteSet(Z)
    BY <2>2, FS_Subset
  <2>4. Cardinality(X \cup {z}) = Cardinality(X) + 1 /\ Cardinality(X \cup {z}) <= Cardinality(Z)
    BY <2>2, <2>3, FS_AddElement, FS_Subset
  <2>5. Cardinality(X) \in Nat /\ Cardinality(Z) \in Nat
    BY <2>3, FS_CardinalityType
  <2>6. QED
    BY <2>1, <2>4, <2>5
<1>9. ASSUME NEW x \in S PROVE \E i \in 1 .. n : s[i] = x
  <2>1. PICK X : X = {y \in S : y <= x}
    OBVIOUS
  <2>2. X \in SUBSET S /\ x \in X
    BY <2>1
  <2>3. PICK i \in Nat : i = Cardinality(X) /\ i <= n /\ i # 0
    BY <1>1, <2>2, FS_Subset, FS_CardinalityType, FS_EmptySet
  <2>4. i \in 1 .. n
    BY <2>3
  <2>5. PICK z \in S : z = s[i] /\ Place(z, i) /\ Place(x, i)
    BY <1>6, <2>1, <2>3, <2>4
  <2>6. ~(x < z) /\ ~(z < x)
    BY <1>8, <2>5
  <2>7. QED
    BY <2>4, <2>5, <2>6
<1>10. QED
  BY <1>1, <1>2, <1>5, <1>6, <1>7, <1>9 DEF Rising

(* The columns of the cdec table have every sample of every row.           *)
LEMMA CdecAggRises ==
  ASSUME NEW c, Legal(c)
  PROVE  /\ Rising(CdecAgg(c))
         /\ \A i \in 1 .. Len(CdecSList(c)) : \A k \in 1 .. Len(CdecNLists(c)[i]) :
              \E m \in 1 .. Len(CdecAgg(c)) : CdecAgg(c)[m] = CdecNLists(c)[i][k]
<1>0. PICK rows : rows = CdecNLists(c)
  OBVIOUS
<1>1. PICK n \in Nat : rows = CdecNLists(c) /\ n = Len(CdecSList(c)) /\ n > 0
  BY <1>0, CdecSRises, QueueFacts DEF Rising
<1>2. Queue(rows) /\ Len(rows) = n
  <2>1. DOMAIN CdecSList(c) = 1 .. n
    BY <1>1, CdecSRises, QueueFacts DEF Rising
  <2>2. DOMAIN rows = 1 .. n /\ rows = [i \in DOMAIN rows |-> rows[i]]
    BY <1>1, <2>1 DEF CdecNLists
  <2>3. QED
    BY <2>2, QueueOfFunction
<1>3. \A i \in 1 .. n : Sizes(rows[i]) /\ Len(rows[i]) > 0
  BY <1>1, RowSizes
<1>4. PICK sets : sets = {ToSet(l) : l \in ToSet(rows)}
  OBVIOUS
<1>5. IsFiniteSet(sets)
  <2>1. PICK f : f = [l \in ToSet(rows) |-> ToSet(l)]
    OBVIOUS
  <2>2. f \in Surjection(ToSet(rows), sets)
    BY <1>4, <2>1 DEF Surjection
  <2>3. QED
    BY <1>2, <2>2, QueueSet, FS_Surjection
<1>6. \A T \in sets : \E i \in 1 .. n : T = ToSet(rows[i])
  BY <1>2, <1>4, QueueSet
<1>7. \A T \in sets : IsFiniteSet(T) /\ T \subseteq Nat
  <2>1. ASSUME NEW i \in 1 .. n PROVE IsFiniteSet(ToSet(rows[i])) /\ ToSet(rows[i]) \subseteq Nat
    BY <1>3, QueueSet DEF Sizes
  <2>2. QED
    BY <1>6, <2>1
<1>8. PICK U : U = UNION sets
  OBVIOUS
<1>9. IsFiniteSet(U) /\ U \in SUBSET Nat
  BY <1>5, <1>7, <1>8, FS_UNION
<1>10. U # {}
  <2>1. 1 \in 1 .. n
    BY <1>1
  <2>2. rows[1] \in ToSet(rows)
    BY <1>2, <2>1, QueueSet
  <2>3. Queue(rows[1]) /\ 1 \in 1 .. Len(rows[1])
    <3>1. Queue(rows[1]) /\ Len(rows[1]) > 0
      BY <1>3, <2>1 DEF Sizes
    <3>2. Len(rows[1]) \in Nat
      BY <3>1, QueueFacts
    <3>3. QED
      BY <3>1, <3>2
  <2>4. rows[1][1] \in ToSet(rows[1])
    BY <2>3, QueueSet
  <2>5. QED
    BY <1>4, <1>8, <2>2, <2>4
<1>11. CdecAgg(c) = Sorted(U)
  BY <1>1, <1>4, <1>8 DEF CdecAgg
<1>12. ASSUME NEW i \in 1 .. n, NEW k \in 1 .. Len(rows[i]) PROVE rows[i][k] \in U
  <2>1. rows[i] \in ToSet(rows)
    BY <1>2, QueueSet
  <2>2. rows[i][k] \in ToSet(rows[i])
    BY <1>3, QueueSet DEF Sizes
  <2>3. QED
    BY <1>4, <1>8, <2>1, <2>2
<1>13. QED
  BY <1>1, <1>9, <1>10, <1>11, <1>12, SortedRises

(* The samples of a table are sizes, and rise if the linear part is dense  *)
(* no further than a batch is large.                                       *)
LEMMA SamplesRise ==
  ASSUME NEW c, Legal(c), NEW t \in Tables
  PROVE  /\ Sizes(SampleList(c, t)) /\ Len(SampleList(c, t)) > 0
         /\ t # "linr" \/ 2^DenseBits - 1 <= c.max_tokens_in_batch => Rising(SampleList(c, t))
<1>1. CASE t = "linr"
  <2>1. SampleList(c, t) = LinrUpTo(c.max_tokens_in_batch)
    BY <1>1 DEF SampleList, LinrList, LinrUpTo
  <2>2. c.max_tokens_in_batch \in Nat \ {0}
    BY DEF Legal
  <2>3. QED
    BY <1>1, <2>1, <2>2, LinrSizes, LinrRises
<1>2. CASE t # "linr"
  <2>1. Rising(SampleList(c, t))
    <3>1. CASE t = "pref"
      BY <3>1, StepListRises DEF SampleList
    <3>2. CASE t = "gdec"
      BY <3>2, StepListRises DEF SampleList
    <3>3. CASE t = "cdec"
      BY <3>3, CdecAggRises DEF SampleList
    <3>4. QED
      BY <1>2, <3>1, <3>2, <3>3 DEF Tables
  <2>2. QED
    BY <2>1 DEF Rising, Sizes
<1>3. QED
  BY <1>1, <1>2

-----------------------------------------------------------------------------
(* Part IV.  The start of a server.                                        *)

LEMMA Divided ==
  ASSUME NEW x \in Int, NEW d \in Nat \ {0}
  PROVE  /\ x \div d \in Int /\ (x \div d) * d <= x
         /\ x \in Nat => x \div d \in Nat
         /\ x % d \in 0 .. (d - 1) /\ x = (x \div d) * d + (x % d)
OBVIOUS

(* A position in a table of a rows and w columns, row by row.              *)
LEMMA RowAndColumn ==
  ASSUME NEW a \in Nat, NEW w \in Nat, NEW n \in Nat, n < a * w
  PROVE  (n \div w) + 1 \in 1 .. a /\ (n % w) + 1 \in 1 .. w
<1>1. w > 0
  BY a * 0 = 0
<1>2. PICK q \in Nat, r \in Nat : q = n \div w /\ r = n % w /\ r < w /\ n = q * w + r
  BY <1>1, Divided
<1>3. q < a
  <2>1. SUFFICES ASSUME a <= q PROVE FALSE
    OBVIOUS
  <2>2. PICK k \in Nat : q = a + k
    <3>1. q - a \in Nat /\ q = a + (q - a)
      BY <2>1
    <3>2. QED
      BY <3>1
  <2>3. q * w = a * w + k * w /\ k * w \in Nat /\ a * w \in Nat
    BY <2>2
  <2>4. QED
    BY <1>2, <2>3
<1>4. QED
  BY <1>2, <1>3

(* What the start did not refuse the samples can be chosen for.            *)
LEMMA StartLegal ==
  ASSUME NEW c \in Configs, NEW peak \in Peaks, ~StartRaises(c, peak)
  PROVE  Legal(WithBlocks(c, peak))
<1>1. c \in CommandLines /\ peak \in Nat /\ UsableMemory \in Nat /\ NumLayers \in Nat \ {0}
  BY StartAssumption, LayersAssumption
<1>2. /\ c.block_size \in Nat \ {0} /\ c.max_blocks_per_seq \in Nat \ {0}
      /\ c.max_batch_size \in Nat \ {0} /\ c.max_tokens_in_batch \in Nat
      /\ c.swap_space \in Nat /\ c.num_gpu_blocks_override \in Nat \cup {-1}
  BY <1>1 DEF CommandLines
<1>3. c.max_tokens_in_batch \in Nat \ {0}
  BY <1>2 DEF StartRaises, EngineAsserts
<1>4. NumCpuBlocks(c) \in Nat
  <2>1. KvSlotSize(FALSE) \in Nat \ {0}
    BY <1>1 DEF KvSlotSize
  <2>2. c.block_size * KvSlotSize(FALSE) \in Nat \ {0}
    BY <1>2, <2>1, Positive
  <2>3. PICK d \in Nat \ {0}, s \in Nat : d = c.block_size * KvSlotSize(FALSE) /\ s = c.swap_space
    BY <1>2, <2>2
  <2>4. s \div d \in Nat
    BY Divided
  <2>5. QED
    BY <2>3, <2>4 DEF NumCpuBlocks
<1>5. NumGpuBlocks(c, peak) \in Int
  <2>1. KvSlotSize(c.extra_layer_for_cprf) \in Nat \ {0}
    BY <1>1 DEF KvSlotSize
  <2>2. c.block_size * KvSlotSize(c.extra_layer_for_cprf) \in Nat \ {0}
    BY <1>2, <2>1, Positive
  <2>3. PICK d \in Nat \ {0}, u \in Int :
          d = c.block_size * KvSlotSize(c.extra_layer_for_cprf) /\ u = UsableMemory - peak
    BY <1>1, <2>2
  <2>4. u \div d \in Int
    BY Divided
  <2>5. NumGpuBlocks(c, peak) = IF c.num_gpu_blocks_override # -1 THEN c.num_gpu_blocks_override
                                ELSE u \div d
    BY <2>3 DEF NumGpuBlocks
  <2>6. QED
    BY <1>2, <2>4, <2>5
<1>6. NumGpuBlocks(c, peak) \in Nat \ {0}
  <2>1. PICK g \in Int, b \in Nat \ {0}, m \in Nat \ {0} :
          g = NumGpuBlocks(c, peak) /\ b = c.block_size /\ m = c.max_tokens_in_batch
    BY <1>2, <1>3, <1>5
  <2>2. ~(g * b < m)
    BY <2>1 DEF StartRaises
  <2>3. g > 0
    <3>1. SUFFICES ASSUME g <= 0 PROVE FALSE
      OBVIOUS
    <3>2. g * b <= 0
      BY <3>1
    <3>3. QED
      BY <2>2, <3>2
  <2>4. QED
    BY <2>1, <2>3
<1>7. PICK w : w = WithBlocks(c, peak)
  OBVIOUS
<1>8. /\ w.block_size = c.block_size /\ w.max_blocks_per_seq = c.max_blocks_per_seq
      /\ w.max_batch_size = c.max_batch_size /\ w.max_tokens_in_batch = c.max_tokens_in_batch
      /\ w.num_gpu_blocks = NumGpuBlocks(c, peak) /\ w.num_cpu_blocks = NumCpuBlocks(c)
  BY <1>1, <1>7 DEF WithBlocks, CommandLines
<1>9. ~FractionalSamples(w)
  BY <1>7 DEF StartRaises
<1>10. QED
  BY <1>2, <1>3, <1>4, <1>6, <1>7, <1>8, <1>9 DEF Legal

-----------------------------------------------------------------------------
(* Test cases.                                                             *)
LEMMA BlocksCounted ==
  ASSUME Legal(conf), NEW lens, Sizes(lens)
  PROVE  BlocksOf(lens) \in Nat /\ BlocksOf(<< >>) = 0
<1>1. PICK b \in Nat \ {0}, n \in Nat : b = conf.block_size /\ n = Len(lens) /\ DOMAIN lens = 1 .. n
  BY QueueFacts DEF Legal, Sizes
<1>2. PICK blocks : blocks = [i \in 1 .. n |-> CeilDiv(lens[i], b)]
  OBVIOUS
<1>3. \A i \in 1 .. n : blocks[i] \in Nat
  <2>1. ASSUME NEW i \in 1 .. n PROVE blocks[i] \in Nat
    <3>1. PICK len \in Nat : len = lens[i]
      BY <1>1 DEF Sizes
    <3>2. PICK m \in Nat : m = len + b - 1
      BY <1>1
    <3>3. m \div b \in Nat
      BY Divided
    <3>4. QED
      BY <1>2, <3>1, <3>2, <3>3 DEF CeilDiv
  <2>2. QED
    BY <2>1
<1>4. Queue(blocks) /\ Len(blocks) = n
  <2>1. blocks = [i \in 1 .. n |-> blocks[i]]
    BY <1>2
  <2>2. QED
    BY <2>1, QueueOfFunction
<1>5. BlocksOf(lens) \in Nat
  BY <1>1, <1>2, <1>3, <1>4, FoldNaturals DEF BlocksOf, Total
<1>6. BlocksOf(<< >>) = 0
  <2>1. PICK none : none = [i \in DOMAIN << >> |-> CeilDiv(<< >>[i], conf.block_size)]
    OBVIOUS
  <2>2. DOMAIN none = {}
    BY <2>1
  <2>3. FoldSeq(LAMBDA x, y : x + y, 0, none) = SumFunction(none)
    BY FoldSums
  <2>4. SumFunction(none) = 0
    BY <2>2, SumNone
  <2>5. QED
    BY <2>1, <2>3, <2>4 DEF BlocksOf, Total
<1>7. QED
  BY <1>5, <1>6

LEMMA RepeatedSizes ==
  ASSUME NEW n \in Int, NEW v \in Nat
  PROVE  Sizes(Repeated(n, v)) /\ Len(Repeated(n, v)) = Count(n)
<1>1. PICK m \in Nat : m = Count(n)
  BY DEF Count
<1>2. Repeated(n, v) = [k \in 1 .. m |-> v]
  BY <1>1 DEF Repeated
<1>3. PICK f : f = [k \in 1 .. m |-> v]
  OBVIOUS
<1>4. Queue(f) /\ Len(f) = m
  <2>1. f = [k \in 1 .. m |-> f[k]]
    BY <1>3
  <2>2. QED
    BY <2>1, QueueOfFunction
<1>5. QED
  BY <1>1, <1>2, <1>3, <1>4 DEF Sizes

(* The sample and the cell that are being measured are of the lists.       *)
LEMMA CurrentSampleKnown ==
  ASSUME Legal(conf), NEW t \in Tables \ {"cdec"}, Len(measured) \in Nat, Len(measured) < Len(Samples(t))
  PROVE  CurrentSample(t) \in Nat
<1>1. PICK n \in Nat, k \in Nat :
        n = Len(measured) /\ k = Len(Samples(t)) /\ Sizes(Samples(t)) /\ n < k
  <2>1. Sizes(Samples(t)) /\ Len(Samples(t)) > 0
    BY SamplesRise DEF Samples
  <2>2. Len(Samples(t)) \in Nat
    BY <2>1, QueueFacts DEF Sizes
  <2>3. QED
    BY <2>1, <2>2
<1>2. k - n \in 1 .. k /\ n + 1 \in 1 .. k
  BY <1>1
<1>3. Samples(t)[k - n] \in Nat /\ Samples(t)[n + 1] \in Nat
  BY <1>1, <1>2 DEF Sizes
<1>4. QED
  BY <1>1, <1>3 DEF CurrentSample

LEMMA CurrentCellKnown ==
  ASSUME Legal(conf), Len(measured) \in Nat, Len(measured) < Cells("cdec")
  PROVE  /\ CurrentCell[1] \in 1 .. Len(CdecSList(conf)) /\ CurrentCell[2] \in 1 .. Len(CdecAgg(conf))
         /\ CdecSList(conf)[CurrentCell[1]] \in Nat \ {0} /\ CdecAgg(conf)[CurrentCell[2]] \in Nat
<1>1. PICK n \in Nat, a \in Nat, w \in Nat :
        n = Len(measured) /\ a = Len(CdecSList(conf)) /\ w = Len(CdecAgg(conf))
  BY CdecSRises, CdecAggRises, QueueFacts DEF Rising
<1>2. Samples("cdec") = CdecAgg(conf)
  BY DEF Samples, SampleList
<1>3. n < a * w
  BY <1>1, <1>2 DEF Cells
<1>4. CurrentCell = <<(n \div w) + 1, (n % w) + 1>>
  BY <1>1, <1>2 DEF CurrentCell
<1>5. CurrentCell[1] \in 1 .. a /\ CurrentCell[2] \in 1 .. w
  BY <1>3, <1>4, RowAndColumn
<1>6. QED
  BY <1>1, <1>5, CdecSRises, CdecAggRises DEF Rising

(* A test case is of requests on one device, and their lengths are sizes.  *)
OneDevice(tc) ==
  /\ Sizes(tc.pref) /\ Sizes(tc.gdec) /\ Sizes(tc.cdec)
  /\ tc.pref = << >> \/ tc.gdec = << >>

LEMMA NoneSized == Sizes(<< >>)
BY NoSteps DEF Steps

LEMMA GdecCaseSized ==
  ASSUME Legal(conf), NEW N \in Nat
  PROVE  OneDevice(GdecCase(N))
<1>1. PICK L \in Nat \ {0} : L = MaxSeqLen(conf)
  BY Positive DEF Legal, MaxSeqLen
<1>2. (N - 1) \div L \in Int /\ (N - 1) % L \in Nat
  BY <1>1, Divided
<1>3. PICK q \in Int, r \in Nat : q = (N - 1) \div L /\ r = ((N - 1) % L) + 1
  BY <1>2
<1>4. Sizes(Repeated(q, L) \o <<r>>)
  BY <1>1, RepeatedSizes, OneSize, JoinNaturals
<1>5. GdecCase(N) = [pref |-> << >>, gdec |-> Repeated(q, L) \o <<r>>, cdec |-> << >>]
  BY <1>1, <1>3 DEF GdecCase
<1>6. QED
  BY <1>4, <1>5, NoneSized DEF OneDevice

LEMMA CdecCaseSized ==
  ASSUME Legal(conf), NEW S \in Nat \ {0}, NEW N \in Nat
  PROVE  OneDevice(CdecCase(S, N))
<1>1. PICK b \in Nat \ {0} : b = conf.block_size
  BY DEF Legal
<1>2. PICK NB \in Nat : NB = N \div b
  BY <1>1, Divided
<1>3. PICK q \in Nat, r \in Nat : q = NB \div S /\ r = NB % S
  <2>1. NB \div S \in Nat /\ NB % S \in Nat
    BY Divided
  <2>2. QED
    BY <2>1
<1>4. PICK u \in Nat, v \in Nat : u = q * b /\ v = (q + 1) * b
  BY <1>1, <1>3
<1>5. Sizes(Repeated(S - r, u) \o Repeated(r, v))
  BY <1>3, <1>4, RepeatedSizes, JoinNaturals
<1>6. CdecCase(S, N) = [pref |-> << >>, gdec |-> << >>, cdec |-> Repeated(S - r, u) \o Repeated(r, v)]
  BY <1>1, <1>2, <1>3, <1>4 DEF CdecCase
<1>7. QED
  BY <1>5, <1>6, NoneSized DEF OneDevice

LEMMA TestCaseSized ==
  ASSUME Legal(conf), NEW t \in Tables, Len(measured) \in Nat, Len(measured) < Cells(t)
  PROVE  OneDevice(TestCase(t))
<1>1. CASE t \in {"linr", "pref"}
  <2>1. CurrentSample(t) \in Nat
    BY <1>1, CurrentSampleKnown DEF Cells
  <2>2. OneDevice(PromptCase(CurrentSample(t)))
    BY <2>1, OneSize, NoneSized DEF PromptCase, OneDevice
  <2>3. QED
    BY <1>1, <2>2 DEF TestCase
<1>2. CASE t = "gdec"
  <2>1. CurrentSample(t) \in Nat
    BY <1>2, CurrentSampleKnown DEF Cells
  <2>2. QED
    BY <1>2, <2>1, GdecCaseSized DEF TestCase
<1>3. CASE t = "cdec"
  BY <1>3, CurrentCellKnown, CdecCaseSized DEF TestCase
<1>4. QED
  BY <1>1, <1>2, <1>3 DEF Tables

(* What a test case takes it gives back.                                   *)
LEMMA CaseReturned ==
  ASSUME Legal(conf), NEW tc, OneDevice(tc)
  PROVE  /\ BlocksOf(tc.pref \o tc.gdec) \in Nat /\ BlocksOf(tc.cdec) \in Nat
         /\ BlocksOf(tc.pref \o tc.gdec) = BlocksOf(tc.pref) + BlocksOf(tc.gdec)
<1>1. /\ BlocksOf(tc.pref) \in Nat /\ BlocksOf(tc.gdec) \in Nat /\ BlocksOf(tc.cdec) \in Nat
      /\ BlocksOf(<< >>) = 0
  BY BlocksCounted DEF OneDevice
<1>2. CASE tc.pref = << >>
  <2>1. PICK S : tc.gdec \in Seq(S)
    BY DEF OneDevice, Sizes, Queue
  <2>2. << >> \o tc.gdec = tc.gdec
    BY <2>1, ConcatEmptySeq
  <2>3. QED
    BY <1>1, <1>2, <2>2
<1>3. CASE tc.gdec = << >>
  <2>1. PICK S : tc.pref \in Seq(S)
    BY DEF OneDevice, Sizes, Queue
  <2>2. tc.pref \o << >> = tc.pref
    BY <2>1, ConcatEmptySeq
  <2>3. QED
    BY <1>1, <1>3, <2>2
<1>4. QED
  BY <1>2, <1>3 DEF OneDevice

-----------------------------------------------------------------------------
(* The invariant.  The tables are profiled under a configuration that the  *)
(* start did not refuse, ...                                               *)
Configured ==
  \E c \in Configs, peak \in Peaks :
    ~StartRaises(c, peak) /\ conf = WithBlocks(c, peak) /\ free = UsableMemory - peak

Working == pc \in Tables \cup {"serving"}

ControlInv ==
  /\ pc \in Tables \cup {"down", "serving", "failed"} /\ starts \in 0 .. MaxStarts
  /\ Working => Configured

(* ... every file that was closed has a time for each of its samples, and  *)
(* a linear table the samples of some size of batch, ...                   *)
Complete(f, t) ==
  /\ f = File(f.S, f.xs, f.ys)
  /\ t # "cdec" => Len(f.ys) = Len(f.xs)
  /\ t = "linr" => \E m \in Nat : f.xs = LinrUpTo(m)
  /\ t = "cdec" => /\ Len(f.ys) = Len(f.S)
                   /\ \A i \in 1 .. Len(f.ys) : Len(f.ys[i]) = Len(f.xs)

Earlier ==
  [linr |-> {}, pref |-> {"linr"}, gdec |-> {"linr", "pref"}, cdec |-> {"linr", "pref", "gdec"},
   serving |-> Tables]

FilesInv ==
  /\ DOMAIN disk = Tables /\ DOMAIN pp = Tables
  /\ \A t \in Tables : disk[t] \in {Absent, Torn} \/ Complete(disk[t], t)
  /\ \A t \in Tables : pp[t] = Absent \/ pp[t].state = "complete"
  /\ Working =>
       \A t \in Earlier[pc] : /\ Complete(disk[t], t) /\ Reaches(disk[t], t)
                              /\ pp[t] = Loaded(disk[t], t)

(* ... and between two test cases, and only there, no block is held and    *)
(* nothing is monitored.                                                   *)
MonitorInv ==
  /\ run \in Idle .. NRepeat /\ monitor \in BOOLEAN /\ Queue(results)
  /\ run <= 0 => ~monitor /\ results = << >>
  /\ run > 0 => monitor /\ Len(results) = run

CaseInv ==
  /\ Queue(measured) /\ held \in Nat \X Nat
  /\ \A t \in Tables : pc = t => Len(measured) <= Cells(t)
  /\ run = Idle => held = <<0, 0>>
  /\ \A t \in Tables : run # Idle /\ pc = t =>
       /\ Len(measured) < Cells(t) /\ disk[t] # Torn /\ ~Reaches(disk[t], t)
       /\ held = <<BlocksOf(TestCase(t).pref \o TestCase(t).gdec), BlocksOf(TestCase(t).cdec)>>

StartInv == ControlInv /\ FilesInv /\ MonitorInv /\ CaseInv

LEMMA ConfiguredLegal ==
  ASSUME Configured
  PROVE  Legal(conf)
BY StartLegal DEF Configured

(* What is written has a time for every sample that was configured.        *)
LEMMA LastSample ==
  ASSUME NEW list, Sizes(list), Len(list) > 0
  PROVE  Last(list) \in Nat
<1>1. Len(list) \in Nat
  BY QueueFacts DEF Sizes
<1>2. Len(list) \in 1 .. Len(list)
  BY <1>1
<1>3. QED
  BY <1>2 DEF Last, Sizes

LEMMA ReverseLength ==
  ASSUME NEW q, Queue(q)
  PROVE  Len(Reverse(q)) = Len(q)
<1>1. PICK n \in Nat : n = Len(q)
  BY QueueFacts
<1>2. PICK r : r = Reverse(q)
  OBVIOUS
<1>3. r = [i \in 1 .. n |-> r[i]]
  BY <1>1, <1>2 DEF Reverse
<1>4. QED
  BY <1>1, <1>2, <1>3, QueueOfFunction

LEMMA ProfiledComplete ==
  ASSUME Legal(conf), NEW t \in Tables, Queue(measured), Len(measured) = Cells(t)
  PROVE  /\ Complete(Profiled(t), t) /\ Reaches(Profiled(t), t)
         /\ Loaded(Profiled(t), t) = Profiled(t) /\ Profiled(t).state = "complete"
<1>1. PICK xs : xs = Samples(t)
  OBVIOUS
<1>2. Sizes(xs) /\ Len(xs) > 0 /\ Last(xs) \in Nat
  BY <1>1, SamplesRise, LastSample DEF Samples
<1>3. CASE t = "linr"
  <2>1. Profiled(t) = File(<< >>, xs, Reverse(measured))
    BY <1>1, <1>3 DEF Profiled
  <2>2. PICK f : f = Profiled(t)
    OBVIOUS
  <2>3. f = File(f.S, f.xs, f.ys) /\ f.state = "complete" /\ f.xs = xs /\ f.ys = Reverse(measured)
    BY <2>1, <2>2 DEF File
  <2>4. Len(f.ys) = Len(f.xs)
    BY <1>1, <1>3, <2>3, ReverseLength DEF Cells
  <2>5. \E m \in Nat : f.xs = LinrUpTo(m)
    <3>1. xs = LinrUpTo(conf.max_tokens_in_batch)
      BY <1>1, <1>3 DEF Samples, SampleList, LinrList, LinrUpTo
    <3>2. QED
      BY <2>3, <3>1 DEF Legal
  <2>6. Reaches(f, t)
    BY <1>1, <1>2, <1>3, <2>3 DEF Reaches
  <2>7. QED
    BY <1>3, <2>2, <2>3, <2>4, <2>5, <2>6 DEF Complete, Loaded
<1>4. CASE t \in {"pref", "gdec"}
  <2>1. Profiled(t) = File(<< >>, xs, measured)
    BY <1>1, <1>4 DEF Profiled
  <2>2. PICK f : f = Profiled(t)
    OBVIOUS
  <2>3. f = File(f.S, f.xs, f.ys) /\ f.state = "complete" /\ f.xs = xs /\ f.ys = measured
    BY <2>1, <2>2 DEF File
  <2>4. Len(f.ys) = Len(f.xs)
    BY <1>1, <1>4, <2>3 DEF Cells
  <2>5. Reaches(f, t)
    BY <1>1, <1>2, <1>4, <2>3 DEF Reaches
  <2>6. QED
    BY <1>4, <2>2, <2>3, <2>4, <2>5 DEF Complete, Loaded
<1>5. CASE t = "cdec"
  <2>1. PICK Ss : Ss = CdecSList(conf)
    OBVIOUS
  <2>2. Queue(Ss) /\ Last(Ss) \in Nat
    BY <2>1, CdecSRises, LastSample DEF Rising, Sizes, Legal
  <2>3. PICK n \in Nat, w \in Nat : n = Len(Ss) /\ DOMAIN Ss = 1 .. n /\ w = Len(xs) /\ DOMAIN xs = 1 .. w
    BY <1>2, <2>2, QueueFacts DEF Sizes
  <2>4. PICK filled : filled = InfFilled
    OBVIOUS
  <2>5. PICK ys : ys = [i \in 1 .. n |-> [j \in 1 .. w |-> filled[<<i, j>>]]]
    OBVIOUS
  <2>6. Profiled(t) = File(Ss, xs, ys)
    BY <1>1, <1>5, <2>1, <2>3, <2>4, <2>5 DEF Profiled
  <2>7. Len(ys) = n
    <3>1. ys = [i \in 1 .. n |-> ys[i]]
      BY <2>5
    <3>2. QED
      BY <3>1, QueueOfFunction
  <2>8. ASSUME NEW i \in 1 .. n PROVE Len(ys[i]) = w
    <3>1. PICK row : row = ys[i]
      OBVIOUS
    <3>2. row = [j \in 1 .. w |-> row[j]]
      BY <2>5, <3>1
    <3>3. QED
      BY <3>1, <3>2, QueueOfFunction
  <2>9. PICK f : f = Profiled(t)
    OBVIOUS
  <2>10. f = File(f.S, f.xs, f.ys) /\ f.state = "complete" /\ f.S = Ss /\ f.xs = xs /\ f.ys = ys
    BY <2>6, <2>9 DEF File
  <2>11. Complete(f, t)
    BY <1>5, <2>3, <2>7, <2>8, <2>10 DEF Complete
  <2>12. Reaches(f, t)
    BY <1>1, <1>2, <1>5, <2>1, <2>2, <2>10 DEF Reaches
  <2>13. Loaded(f, t) = f
    <3>1. Loaded(f, t) = [File(Ss, xs, ys) EXCEPT !.xs = xs]
      BY <1>1, <1>5, <2>6, <2>9 DEF Loaded
    <3>2. [File(Ss, xs, ys) EXCEPT !.xs = xs] = File(Ss, xs, ys)
      BY DEF File
    <3>3. QED
      BY <2>6, <2>9, <3>1, <3>2
  <2>14. QED
    BY <2>9, <2>10, <2>11, <2>12, <2>13
<1>6. QED
  BY <1>3, <1>4, <1>5 DEF Tables

LEMMA CellsCounted ==
  ASSUME Legal(conf), NEW t \in Tables
  PROVE  Cells(t) \in Nat
<1>1. Len(Samples(t)) \in Nat
  BY SamplesRise, QueueFacts DEF Samples, Sizes
<1>2. Len(CdecSList(conf)) \in Nat
  BY CdecSRises, QueueFacts DEF Rising
<1>3. QED
  BY <1>1, <1>2 DEF Cells

(* What depends on the configuration and on the times measured so far.     *)
LEMMA SameConf ==
  ASSUME conf' = conf
  PROVE  /\ \A t \in Tables : Cells(t)' = Cells(t)
         /\ \A t \in Tables : disk'[t] = disk[t] => Reaches(disk[t], t)' = Reaches(disk[t], t)
         /\ \A t \in Tables : disk'[t] = disk[t] => Loaded(disk[t], t)' = Loaded(disk[t], t)
         /\ \A x : BlocksOf(x)' = BlocksOf(x)
         /\ free' = free /\ Configured => Configured'
BY DEF Cells, Reaches, Loaded, Samples, BlocksOf, Configured

LEMMA SameCase ==
  ASSUME conf' = conf, measured' = measured
  PROVE  \A t \in Tables : TestCase(t)' = TestCase(t)
<1>1. \A t \in Tables : CurrentSample(t)' = CurrentSample(t)
  BY DEF CurrentSample, Samples
<1>2. CurrentCell' = CurrentCell
  BY DEF CurrentCell, Samples
<1>3. \A x : PromptCase(x)' = PromptCase(x)
  BY DEF PromptCase
<1>4. \A x : GdecCase(x)' = GdecCase(x)
  BY DEF GdecCase
<1>5. \A x, y : CdecCase(x, y)' = CdecCase(x, y)
  BY DEF CdecCase
<1>6. QED
  BY <1>1, <1>2 DEF TestCase, PromptCase, GdecCase, CdecCase

-----------------------------------------------------------------------------
(* The steps.                                                              *)
LEMMA InitStart ==
  ASSUME Init
  PROVE  StartInv
<1>1. NWarmup \in Nat /\ NRepeat \in Nat \ {0} /\ MaxStarts \in Nat
  BY StartAssumption
<1>2. Idle \in Int /\ Idle <= 0 /\ Idle <= NRepeat
  BY <1>1 DEF Idle
<1>3. Queue(<< >>)
  BY QueueOfOne
<1>4. pc = "down" /\ ~Working /\ pc \notin Tables
  BY DEF Init, Working, Tables
<1>5. ControlInv
  BY <1>1, <1>4 DEF ControlInv, Init
<1>6. FilesInv
  BY <1>4 DEF FilesInv, Init, NoTables
<1>7. MonitorInv
  <2>1. run \in Idle .. NRepeat /\ ~(run > 0)
    BY <1>1, <1>2 DEF Init
  <2>2. monitor \in BOOLEAN /\ ~monitor /\ results = << >>
    BY Zenon DEF Init
  <2>3. QED
    BY <1>3, <2>1, <2>2, Zenon DEF MonitorInv
<1>8. CaseInv
  BY <1>3, <1>4 DEF CaseInv, Init
<1>9. QED
  BY <1>5, <1>6, <1>7, <1>8 DEF StartInv

LEMMA StartKeeps ==
  ASSUME StartInv, NEW c \in Configs, NEW peak \in Peaks, Start(c, peak)
  PROVE  StartInv'
<1>1. NWarmup \in Nat /\ NRepeat \in Nat \ {0} /\ MaxStarts \in Nat
  BY StartAssumption
<1>2. Idle \in Int /\ Idle <= 0 /\ Idle <= NRepeat
  BY <1>1 DEF Idle
<1>3. Queue(<< >>) /\ Len(<< >>) = 0
  BY QueueOfOne
<1>4. pc' \in {"failed", "linr"} /\ (pc' = "linr" => ~StartRaises(c, peak))
  BY DEF Start
<1>5. Working' => Configured'
  BY <1>4 DEF Start, Working, Tables, Configured
<1>6. ControlInv'
  BY <1>1, <1>4, <1>5 DEF ControlInv, StartInv, Start, Tables
<1>7. FilesInv'
  <2>1. Working' => pc' = "linr" /\ Earlier[pc'] = {}
    BY <1>4 DEF Working, Tables, Earlier
  <2>2. \A t \in Tables : pp'[t] = Absent
    BY DEF Start, NoTables
  <2>3. DOMAIN pp' = Tables /\ disk' = disk
    BY DEF Start, NoTables
  <2>4. QED
    BY <2>1, <2>2, <2>3 DEF StartInv, FilesInv
<1>8. MonitorInv'
  <2>1. run' \in Idle .. NRepeat /\ ~(run' > 0)
    BY <1>1, <1>2 DEF Start
  <2>2. monitor' \in BOOLEAN /\ ~monitor' /\ results' = << >>
    BY Zenon DEF Start
  <2>3. QED
    BY <1>3, <2>1, <2>2, Zenon DEF MonitorInv
<1>9. CaseInv'
  <2>1. measured' = << >> /\ held' = <<0, 0>> /\ run' = Idle
    BY DEF Start
  <2>2. ASSUME NEW t \in Tables, pc' = t PROVE Len(measured') <= Cells(t)'
    <3>1. Working'
      BY <2>2 DEF Working
    <3>2. Legal(conf)'
      BY <1>5, <3>1, ConfiguredLegal, PTL
    <3>3. (Cells(t) \in Nat)'
      BY <3>2, CellsCounted, PTL
    <3>4. QED
      BY <1>3, <2>1, <3>3
  <2>3. QED
    BY <1>3, <2>1, <2>2 DEF CaseInv
<1>10. QED
  BY <1>6, <1>7, <1>8, <1>9 DEF StartInv

(* The start fails, or the server is killed: only pc changes.              *)
LEMMA StopKeeps ==
  ASSUME StartInv, pc' \in {"failed", "down"},
         UNCHANGED <<disk, conf, pp, measured, case, held, free, starts>>
  PROVE  StartInv'
<1>1. ~Working' /\ pc' \notin Tables
  BY DEF Working, Tables
<1>2. ControlInv'
  BY <1>1 DEF StartInv, ControlInv
<1>3. FilesInv'
  BY <1>1 DEF StartInv, FilesInv
<1>4. MonitorInv'
  BY Zenon DEF StartInv, MonitorInv, case
<1>5. CaseInv'
  BY <1>1 DEF StartInv, CaseInv, case
<1>6. QED
  BY <1>2, <1>3, <1>4, <1>5 DEF StartInv

(* A table is adopted that disk then holds, complete and far enough.       *)
NextPlaces ==
  /\ Tables = {"linr", "pref", "gdec", "cdec"}
  /\ \A t \in Tables : /\ NextTable[t] \in Tables \cup {"serving"} /\ t \notin Earlier[t]
                       /\ Earlier[NextTable[t]] = Earlier[t] \cup {t} /\ Earlier[t] \subseteq Tables

LEMMA Places == NextPlaces
BY DEF NextPlaces, Tables, NextTable, Earlier

LEMMA AdoptKeeps ==
  ASSUME StartInv, NEW t \in Tables, pc = t, NEW file, Adopt(t, file), run = Idle,
         file.state = "complete", file = Loaded(disk[t], t)',
         Complete(disk'[t], t), Reaches(disk[t], t)',
         DOMAIN disk' = Tables, \A u \in Tables : u # t => disk'[u] = disk[u],
         UNCHANGED <<conf, case, held, free, starts>>
  PROVE  StartInv'
<1>1. Working /\ Configured /\ Legal(conf)
  <2>1. Working
    BY DEF Working
  <2>2. Configured
    BY <2>1 DEF StartInv, ControlInv
  <2>3. QED
    BY <2>1, <2>2, ConfiguredLegal
<1>2. pc' = NextTable[t] /\ measured' = << >> /\ pp' = [pp EXCEPT ![t] = file]
  BY DEF Adopt
<1>3. Working'
  BY <1>2, Places DEF Working, NextPlaces
<1>4. ControlInv'
  <2>1. Configured'
    BY <1>1, SameConf
  <2>2. pc' \in Tables \cup {"down", "serving", "failed"}
    BY <1>2, Places DEF NextPlaces
  <2>3. QED
    BY <2>1, <2>2 DEF StartInv, ControlInv
<1>5. FilesInv'
  <2>1. /\ DOMAIN disk = Tables /\ DOMAIN pp = Tables
        /\ \A u \in Tables : disk[u] \in {Absent, Torn} \/ Complete(disk[u], u)
        /\ \A u \in Tables : pp[u] = Absent \/ pp[u].state = "complete"
        /\ \A u \in Earlier[t] : /\ Complete(disk[u], u) /\ Reaches(disk[u], u)
                                 /\ pp[u] = Loaded(disk[u], u)
    BY <1>1 DEF StartInv, FilesInv
  <2>2. /\ DOMAIN disk' = Tables /\ DOMAIN pp' = Tables /\ pp'[t] = file
        /\ \A u \in Tables : u # t => disk'[u] = disk[u] /\ pp'[u] = pp[u]
    BY <1>2, <2>1
  <2>3. \A u \in Tables : disk'[u] \in {Absent, Torn} \/ Complete(disk'[u], u)
    BY <2>1, <2>2
  <2>4. \A u \in Tables : pp'[u] = Absent \/ pp'[u].state = "complete"
    BY <2>1, <2>2
  <2>5. ASSUME NEW u \in Earlier[pc']
        PROVE  Complete(disk'[u], u) /\ Reaches(disk[u], u)' /\ pp'[u] = Loaded(disk[u], u)'
    <3>1. CASE u = t
      BY <2>2, <3>1
    <3>2. CASE u # t
      <4>1. u \in Earlier[t] /\ u \in Tables
        BY <1>2, <3>2, Places DEF NextPlaces
      <4>2. disk'[u] = disk[u] /\ pp'[u] = pp[u]
        BY <2>2, <3>2, <4>1
      <4>3. Reaches(disk[u], u)' = Reaches(disk[u], u) /\ Loaded(disk[u], u)' = Loaded(disk[u], u)
        BY <4>1, <4>2, SameConf
      <4>4. QED
        BY <2>1, <4>1, <4>2, <4>3
    <3>3. QED
      BY <3>1, <3>2
  <2>6. QED
    BY <2>2, <2>3, <2>4, <2>5 DEF FilesInv
<1>6. MonitorInv'
  BY Zenon DEF StartInv, MonitorInv, case
<1>7. CaseInv'
  <2>1. run' = Idle /\ held' = held /\ held \in Nat \X Nat /\ held = <<0, 0>>
    BY DEF StartInv, CaseInv, case
  <2>2. Queue(<< >>) /\ Len(<< >>) = 0
    BY QueueOfOne
  <2>3. \A u \in Tables : Cells(u)' \in Nat
    BY <1>1, CellsCounted, SameConf
  <2>4. QED
    BY <1>2, <2>1, <2>2, <2>3 DEF CaseInv
<1>8. QED
  BY <1>4, <1>5, <1>6, <1>7 DEF StartInv

LEMMA Profiles ==
  ASSUME StartInv, NEW t \in Tables, pc = t
  PROVE  Legal(conf) /\ Configured /\ Working /\ Cells(t) \in Nat /\ Queue(measured) /\ Len(measured) \in Nat
<1>1. Working
  BY DEF Working
<1>2. Configured
  BY <1>1 DEF StartInv, ControlInv
<1>3. Legal(conf)
  BY <1>2, ConfiguredLegal
<1>4. Queue(measured)
  BY DEF StartInv, CaseInv
<1>5. QED
  BY <1>1, <1>2, <1>3, <1>4, CellsCounted, QueueFacts

LEMMA LoadKeeps ==
  ASSUME StartInv, NEW t \in Tables, Load(t)
  PROVE  StartInv'
<1>1. pc = t /\ Reaches(disk[t], t) /\ Adopt(t, Loaded(disk[t], t))
  BY DEF Load
<1>2. UNCHANGED <<disk, conf, case, held, free, starts>>
  BY DEF Load
<1>3. run = Idle
  BY <1>1 DEF StartInv, CaseInv
<1>4. Complete(disk[t], t)
  <2>1. disk[t].state = "complete"
    BY <1>1 DEF Reaches
  <2>2. disk[t] \in {Absent, Torn} \/ Complete(disk[t], t)
    BY DEF StartInv, FilesInv
  <2>3. QED
    BY <2>1, <2>2 DEF Absent, Torn
<1>5. Loaded(disk[t], t).state = "complete"
  <2>1. disk[t] = File(disk[t].S, disk[t].xs, disk[t].ys)
    BY <1>4 DEF Complete
  <2>2. PICK a, b, c : disk[t] = File(a, b, c)
    BY <2>1
  <2>3. QED
    BY <2>2 DEF Loaded, File
<1>6. Loaded(disk[t], t)' = Loaded(disk[t], t) /\ Reaches(disk[t], t)' = Reaches(disk[t], t)
  BY <1>2, SameConf
<1>7. DOMAIN disk' = Tables
  BY <1>2 DEF StartInv, FilesInv
<1>8. QED
  BY <1>1, <1>2, <1>3, <1>4, <1>5, <1>6, <1>7, AdoptKeeps

LEMMA WriteFileKeeps ==
  ASSUME StartInv, NEW t \in Tables, WriteFile(t)
  PROVE  StartInv'
<1>1. /\ pc = t /\ Len(measured) = Cells(t) /\ disk[t] = Torn
      /\ disk' = [disk EXCEPT ![t] = Profiled(t)] /\ Adopt(t, Profiled(t))
  BY DEF WriteFile, AllMeasured
<1>2. UNCHANGED <<conf, case, held, free, starts>>
  BY DEF WriteFile
<1>3. run = Idle
  BY <1>1 DEF StartInv, CaseInv
<1>4. /\ DOMAIN disk' = Tables /\ disk'[t] = Profiled(t)
      /\ \A u \in Tables : u # t => disk'[u] = disk[u]
  BY <1>1 DEF StartInv, FilesInv
<1>5. /\ Complete(Profiled(t), t) /\ Reaches(Profiled(t), t)
      /\ Loaded(Profiled(t), t) = Profiled(t) /\ Profiled(t).state = "complete"
  BY <1>1, Profiles, ProfiledComplete
<1>6. Reaches(disk[t], t)' /\ Loaded(disk[t], t)' = Profiled(t)
  <2>1. PICK f : f = Profiled(t)
    OBVIOUS
  <2>2. disk'[t] = f /\ conf' = conf
    BY <1>2, <1>4, <2>1
  <2>3. Reaches(f, t) /\ Loaded(f, t) = f
    BY <1>5, <2>1
  <2>4. Reaches(disk[t], t)'
    BY <2>2, <2>3 DEF Reaches, Samples
  <2>5. Loaded(disk[t], t)' = f
    BY <2>2, <2>3 DEF Loaded, Samples
  <2>6. QED
    BY <2>1, <2>4, <2>5
<1>7. QED
  BY <1>1, <1>2, <1>3, <1>4, <1>5, <1>6, AdoptKeeps

(* Between two tables nothing that is complete changes.                    *)
LEMMA FilesKept ==
  ASSUME StartInv, UNCHANGED <<disk, conf, pp, pc>>
  PROVE  FilesInv'
<1>1. Working' => Working
  BY DEF Working
<1>2. \A t \in Tables : Reaches(disk[t], t)' = Reaches(disk[t], t) /\ Loaded(disk[t], t)' = Loaded(disk[t], t)
  BY SameConf
<1>3. Working => Earlier[pc] \subseteq Tables
  BY DEF Working, Earlier, Tables
<1>4. QED
  BY <1>1, <1>2, <1>3 DEF StartInv, FilesInv

LEMMA ControlKept ==
  ASSUME StartInv, UNCHANGED <<conf, pc, free, starts>>
  PROVE  ControlInv'
BY SameConf DEF StartInv, ControlInv, Working

LEMMA OneLonger ==
  ASSUME NEW q, NEW x, Queue(q)
  PROVE  Queue(Append(q, x)) /\ Len(Append(q, x)) = Len(q) + 1
<1>1. Append(q, x) = q \o <<x>>
  BY QueueAppend
<1>2. Joined(q, <<x>>, q \o <<x>>) /\ Len(<<x>>) = 1
  BY QueueConcat, QueueOfOne
<1>3. QED
  BY <1>1, <1>2 DEF Joined

LEMMA TakeKnownKeeps ==
  ASSUME StartInv, NEW t \in Tables, TakeKnown(t)
  PROVE  StartInv'
<1>1. pc = t /\ run = Idle /\ Len(measured) # Cells(t) /\ measured' = Append(measured, KnownTime(t))
  BY DEF TakeKnown, Profiling, AllMeasured
<1>2. UNCHANGED <<disk, conf, pp, case, held, pc, free, starts>>
  BY DEF TakeKnown
<1>3. ControlInv' /\ FilesInv'
  BY <1>2, ControlKept, FilesKept
<1>4. MonitorInv'
  BY <1>2, Zenon DEF StartInv, MonitorInv, case
<1>5. CaseInv'
  <2>1. Len(measured) < Cells(t)
    BY <1>1, Profiles DEF StartInv, CaseInv
  <2>2. Queue(measured') /\ Len(measured') <= Cells(t)
    BY <1>1, <2>1, Profiles, OneLonger
  <2>3. QED
    BY <1>1, <1>2, <2>2, SameConf DEF StartInv, CaseInv, case
<1>6. QED
  BY <1>3, <1>4, <1>5 DEF StartInv

LEMMA OpenFileKeeps ==
  ASSUME StartInv, NEW t \in Tables, OpenFile(t)
  PROVE  StartInv'
<1>1. pc = t /\ run = Idle /\ disk' = [disk EXCEPT ![t] = Torn]
  BY DEF OpenFile
<1>2. UNCHANGED <<conf, pp, measured, case, held, pc, free, starts>>
  BY DEF OpenFile
<1>3. ControlInv'
  BY <1>2, ControlKept
<1>4. FilesInv'
  <2>1. DOMAIN disk' = Tables /\ disk'[t] = Torn /\ \A u \in Tables : u # t => disk'[u] = disk[u]
    BY <1>1 DEF StartInv, FilesInv
  <2>2. \A u \in Earlier[pc] : u \in Tables /\ u # t
    BY <1>1, Places DEF NextPlaces
  <2>3. \A u \in Earlier[pc] :
          Reaches(disk[u], u)' = Reaches(disk[u], u) /\ Loaded(disk[u], u)' = Loaded(disk[u], u)
    BY <1>2, <2>1, <2>2, SameConf
  <2>4. Working' /\ Working
    BY <1>1, <1>2 DEF Working
  <2>5. \A u \in Earlier[pc'] : /\ Complete(disk'[u], u) /\ Reaches(disk[u], u)'
                                /\ pp'[u] = Loaded(disk[u], u)'
    BY <1>2, <2>1, <2>2, <2>3, <2>4 DEF StartInv, FilesInv
  <2>6. QED
    BY <1>2, <2>1, <2>5 DEF StartInv, FilesInv
<1>5. MonitorInv'
  BY <1>2, Zenon DEF StartInv, MonitorInv, case
<1>6. CaseInv'
  BY <1>1, <1>2, SameConf DEF StartInv, CaseInv, case
<1>7. QED
  BY <1>3, <1>4, <1>5, <1>6 DEF StartInv

LEMMA BeginCaseKeeps ==
  ASSUME StartInv, NEW t \in Tables, BeginCase(t)
  PROVE  StartInv'
<1>1. /\ pc = t /\ run = Idle /\ disk[t] # Torn /\ ~Reaches(disk[t], t) /\ Len(measured) # Cells(t)
      /\ held' = Allocated(TestCase(t)) /\ run' = -NWarmup
  BY DEF BeginCase, Profiling, AllMeasured
<1>2. UNCHANGED <<disk, conf, pp, measured, monitor, events, results, pc, free, starts>>
  BY DEF BeginCase
<1>3. NWarmup \in Nat /\ NRepeat \in Nat
  BY StartAssumption
<1>4. ControlInv' /\ FilesInv'
  BY <1>2, ControlKept, FilesKept
<1>5. MonitorInv'
  <2>1. run' \in Idle .. NRepeat /\ ~(run' > 0) /\ run <= 0
    BY <1>1, <1>3 DEF Idle
  <2>2. monitor \in BOOLEAN /\ ~monitor /\ results = << >> /\ Queue(results)
    BY <2>1, Zenon DEF StartInv, MonitorInv
  <2>3. QED
    BY <1>2, <2>1, <2>2, Zenon DEF MonitorInv
<1>6. CaseInv'
  <2>1. Len(measured) < Cells(t) /\ held = <<0, 0>>
    BY <1>1, Profiles DEF StartInv, CaseInv
  <2>2. PICK tc : tc = TestCase(t)
    OBVIOUS
  <2>3. OneDevice(tc)
    BY <1>1, <2>1, <2>2, Profiles, TestCaseSized
  <2>4. PICK g \in Nat, h \in Nat : g = BlocksOf(tc.pref \o tc.gdec) /\ h = BlocksOf(tc.cdec)
    BY <1>1, <2>3, Profiles, CaseReturned
  <2>5. held' = <<g, h>>
    BY <1>1, <2>1, <2>2, <2>4 DEF Allocated
  <2>6. run' # Idle
    BY <1>1, <1>3 DEF Idle
  <2>7. TestCase(t)' = tc /\ BlocksOf(tc.pref \o tc.gdec)' = g /\ BlocksOf(tc.cdec)' = h
    BY <1>2, <2>2, <2>4, SameConf, SameCase
  <2>8. (BlocksOf(TestCase(t).pref \o TestCase(t).gdec))' = g /\ (BlocksOf(TestCase(t).cdec))' = h
    BY <2>7 DEF BlocksOf
  <2>9. ~Reaches(disk[t], t)' /\ Cells(t)' = Cells(t) /\ disk'[t] = disk[t]
    BY <1>1, <1>2, SameConf
  <2>10. QED
    BY <1>1, <1>2, <2>1, <2>5, <2>6, <2>8, <2>9, Profiles DEF CaseInv
<1>7. QED
  BY <1>4, <1>5, <1>6 DEF StartInv

LEMMA IterateKeeps ==
  ASSUME StartInv, NEW t \in Tables, Iterate(t)
  PROVE  StartInv'
<1>1. /\ pc = t /\ run \in (-NWarmup) .. (NRepeat - 1) /\ run' = run + 1
      /\ monitor' = (monitor \/ run = 0)
      /\ results' = IF monitor' THEN Append(results, PerfResult(t)) ELSE results
  BY DEF Iterate
<1>2. UNCHANGED <<disk, conf, pp, measured, held, pc, free, starts>>
  BY DEF Iterate
<1>3. NWarmup \in Nat /\ NRepeat \in Nat
  BY StartAssumption
<1>4. run \in Int /\ run' \in Idle .. NRepeat /\ run # Idle /\ run' # Idle
  BY <1>1, <1>3 DEF Idle
<1>5. ControlInv' /\ FilesInv'
  BY <1>2, ControlKept, FilesKept
<1>6. MonitorInv'
  <2>1. monitor \in BOOLEAN /\ Queue(results)
    BY Zenon DEF StartInv, MonitorInv
  <2>2. monitor' \in BOOLEAN
    BY <1>1, Zenon
  <2>3. CASE run < 0
    <3>1. run <= 0 /\ run # 0 /\ run' <= 0 /\ ~(run' > 0)
      BY <1>1, <1>4, <2>3
    <3>2. ~monitor /\ results = << >>
      BY <3>1, Zenon DEF StartInv, MonitorInv
    <3>3. ~monitor' /\ results' = << >>
      BY <1>1, <3>1, <3>2, Zenon
    <3>4. QED
      BY <1>4, <2>1, <2>2, <3>1, <3>2, <3>3, Zenon DEF MonitorInv
  <2>4. CASE run >= 0
    <3>1. run' > 0 /\ ~(run' <= 0) /\ (run = 0 \/ run > 0) /\ (run = 0 => run <= 0)
      BY <1>1, <1>4, <2>4
    <3>2. Len(results) = run
      <4>1. CASE run = 0
        BY <3>1, <4>1, QueueOfOne DEF StartInv, MonitorInv
      <4>2. CASE run > 0
        BY <4>2 DEF StartInv, MonitorInv
      <4>3. QED
        BY <3>1, <4>1, <4>2
    <3>3. monitor'
      BY <1>1, <3>1, Zenon DEF StartInv, MonitorInv
    <3>4. results' = Append(results, PerfResult(t))
      BY <1>1, <3>3, Zenon
    <3>5. Queue(results') /\ Len(results') = run'
      BY <1>1, <2>1, <3>2, <3>4, OneLonger
    <3>6. QED
      BY <1>4, <2>2, <3>1, <3>3, <3>5, Zenon DEF MonitorInv
  <2>5. QED
    BY <1>4, <2>3, <2>4
<1>7. CaseInv'
  <2>1. /\ Queue(measured) /\ held \in Nat \X Nat
        /\ Len(measured) < Cells(t) /\ disk[t] # Torn /\ ~Reaches(disk[t], t)
        /\ held = <<BlocksOf(TestCase(t).pref \o TestCase(t).gdec), BlocksOf(TestCase(t).cdec)>>
        /\ Len(measured) <= Cells(t)
    BY <1>1, <1>4 DEF StartInv, CaseInv
  <2>2. PICK tc : tc = TestCase(t)
    OBVIOUS
  <2>3. TestCase(t)' = tc
    BY <1>2, <2>2, SameCase
  <2>4. /\ (BlocksOf(TestCase(t).pref \o TestCase(t).gdec))' = BlocksOf(tc.pref \o tc.gdec)
        /\ (BlocksOf(TestCase(t).cdec))' = BlocksOf(tc.cdec)
    BY <1>2, <2>3 DEF BlocksOf
  <2>5. ~Reaches(disk[t], t)' /\ Cells(t)' = Cells(t) /\ disk'[t] = disk[t]
    BY <1>2, <2>1, SameConf
  <2>6. QED
    BY <1>1, <1>2, <1>4, <2>1, <2>2, <2>4, <2>5 DEF CaseInv
<1>8. QED
  BY <1>5, <1>6, <1>7 DEF StartInv

(* update_and_free releases all that prepare took.                         *)
LEMMA EndCaseKeeps ==
  ASSUME StartInv, NEW t \in Tables, EndCase(t)
  PROVE  StartInv'
<1>1. /\ pc = t /\ run = NRepeat /\ held' = Released(TestCase(t))
      /\ measured' = Append(measured, Measured(results))
      /\ run' = Idle /\ monitor' = FALSE /\ results' = << >>
  BY DEF EndCase, Flush
<1>2. UNCHANGED <<disk, conf, pp, pc, free, starts>>
  BY DEF EndCase
<1>3. NWarmup \in Nat /\ NRepeat \in Nat
  BY StartAssumption
<1>4. run # Idle /\ run' \in Idle .. NRepeat /\ ~(run' > 0)
  BY <1>1, <1>3 DEF Idle
<1>5. ControlInv' /\ FilesInv'
  BY <1>2, ControlKept, FilesKept
<1>6. MonitorInv'
  <2>1. monitor' \in BOOLEAN /\ ~monitor' /\ results' = << >>
    BY <1>1, Zenon
  <2>2. QED
    BY <1>4, <2>1, QueueOfOne, Zenon DEF MonitorInv
<1>7. CaseInv'
  <2>1. PICK tc : tc = TestCase(t)
    OBVIOUS
  <2>2. Len(measured) < Cells(t) /\ held = <<BlocksOf(tc.pref \o tc.gdec), BlocksOf(tc.cdec)>>
    BY <1>1, <1>4, <2>1 DEF StartInv, CaseInv
  <2>3. OneDevice(tc)
    BY <1>1, <2>1, <2>2, Profiles, TestCaseSized
  <2>4. PICK a \in Nat, b \in Nat, d \in Nat :
          a = BlocksOf(tc.pref) /\ b = BlocksOf(tc.gdec) /\ d = BlocksOf(tc.cdec)
    BY <1>1, <2>3, Profiles, BlocksCounted DEF OneDevice
  <2>5. held = <<a + b, d>>
    BY <1>1, <2>2, <2>3, <2>4, Profiles, CaseReturned
  <2>6. FinishedAfterOne(CreateRequest(0)) /\ FinishedAfterOne(CreateRequest(1))
    BY DEF FinishedAfterOne, CreateRequest
  <2>7. Released(tc) = <<(a + b) - a - b, d - d>>
    BY <2>4, <2>5, <2>6 DEF Released
  <2>8. held' = <<0, 0>>
    BY <1>1, <2>1, <2>4, <2>7
  <2>9. Queue(measured') /\ Len(measured') <= Cells(t)
    BY <1>1, <2>2, Profiles, OneLonger
  <2>10. QED
    BY <1>1, <1>2, <2>8, <2>9, SameConf DEF CaseInv
<1>8. QED
  BY <1>5, <1>6, <1>7 DEF StartInv

LEMMA StartInductive ==
  ASSUME StartInv, [Next]_vars
  PROVE  StartInv'
<1>1. CASE UNCHANGED vars
  <2>1. ControlInv' /\ FilesInv'
    BY <1>1, ControlKept, FilesKept DEF vars
  <2>2. MonitorInv'
    BY <1>1, Zenon DEF StartInv, MonitorInv, case, vars
  <2>3. CaseInv'
    <3>1. \A t \in Tables : /\ Cells(t)' = Cells(t) /\ Reaches(disk[t], t)' = Reaches(disk[t], t)
                            /\ TestCase(t)' = TestCase(t)
      BY <1>1, SameConf, SameCase DEF vars
    <3>2. \A t \in Tables :
            /\ (BlocksOf(TestCase(t).pref \o TestCase(t).gdec))' = BlocksOf(TestCase(t).pref \o TestCase(t).gdec)
            /\ (BlocksOf(TestCase(t).cdec))' = BlocksOf(TestCase(t).cdec)
      BY <1>1, <3>1 DEF BlocksOf, vars
    <3>3. QED
      BY <1>1, <3>1, <3>2 DEF StartInv, CaseInv, case, vars
  <2>4. QED
    BY <2>1, <2>2, <2>3 DEF StartInv
<1>2. ASSUME NEW c \in Configs, NEW peak \in Peaks, Start(c, peak) PROVE StartInv'
  BY <1>2, StartKeeps
<1>3. ASSUME NEW t \in Tables, LoadFails(t) PROVE StartInv'
  BY <1>3, StopKeeps DEF LoadFails, Fail
<1>4. ASSUME NEW t \in Tables, Load(t) PROVE StartInv'
  BY <1>4, LoadKeeps
<1>5. ASSUME NEW t \in Tables, TakeKnown(t) PROVE StartInv'
  BY <1>5, TakeKnownKeeps
<1>6. ASSUME NEW t \in Tables, OpenFile(t) PROVE StartInv'
  BY <1>6, OpenFileKeeps
<1>7. ASSUME NEW t \in Tables, WriteFile(t) PROVE StartInv'
  BY <1>7, WriteFileKeeps
<1>8. ASSUME NEW t \in Tables, BeginCase(t) PROVE StartInv'
  BY <1>8, BeginCaseKeeps
<1>9. ASSUME NEW t \in Tables, BeginFails(t) PROVE StartInv'
  BY <1>9, StopKeeps DEF BeginFails, Fail
<1>10. ASSUME NEW t \in Tables, IterationFails(t) PROVE StartInv'
  BY <1>10, StopKeeps DEF IterationFails, Fail
<1>11. ASSUME NEW t \in Tables, Iterate(t) PROVE StartInv'
  BY <1>11, IterateKeeps
<1>12. ASSUME NEW t \in Tables, EndCase(t) PROVE StartInv'
  BY <1>12, EndCaseKeeps
<1>13. CASE FillFails
  BY <1>13, StopKeeps DEF FillFails, Fail
<1>14. CASE Crash
  BY <1>14, StopKeeps DEF Crash
<1>15. QED
  BY <1>1, <1>2, <1>3, <1>4, <1>5, <1>6, <1>7, <1>8, <1>9, <1>10, <1>11, <1>12, <1>13, <1>14 DEF Next

LEMMA StartsRight == Spec => []StartInv
<1>1. Init => StartInv
  BY InitStart
<1>2. StartInv /\ [Next]_vars => StartInv'
  BY StartInductive
<1>3. QED
  BY <1>1, <1>2, PTL DEF Spec

-----------------------------------------------------------------------------
(* The variables keep their types: no sum of blocks goes below zero, no    *)
(* list of results grows past the timed iterations.                        *)
LEMMA CompleteState ==
  ASSUME NEW f, NEW t, Complete(f, t)
  PROVE  f.state = "complete"
<1>1. PICK a, b, c : f = File(a, b, c)
  BY DEF Complete
<1>2. QED
  BY <1>1 DEF File

THEOREM TablesTyped == Spec => []TypeOK
<1>1. StartInv => TypeOK
  <2>1. SUFFICES ASSUME StartInv PROVE TypeOK
    OBVIOUS
  <2>2. DOMAIN disk = Tables /\ DOMAIN pp = Tables
    BY <2>1 DEF StartInv, FilesInv
  <2>3. \A t \in Tables : disk[t].state \in {"absent", "torn", "complete"}
    BY <2>1, CompleteState DEF StartInv, FilesInv, Absent, Torn
  <2>4. \A t \in Tables : pp[t].state \in {"absent", "complete"}
    BY <2>1 DEF StartInv, FilesInv, Absent
  <2>5. held \in Nat \X Nat
    BY <2>1 DEF StartInv, CaseInv
  <2>6. starts \in 0 .. MaxStarts /\ pc \in Tables \cup {"down", "serving", "failed"}
    BY <2>1 DEF StartInv, ControlInv
  <2>7. run \in Idle .. NRepeat
    BY <2>1 DEF StartInv, MonitorInv
  <2>8. monitor \in BOOLEAN
    BY <2>1, Zenon DEF StartInv, MonitorInv
  <2>9. Len(results) <= NRepeat
    <3>1. NWarmup \in Nat /\ NRepeat \in Nat
      BY StartAssumption
    <3>2. run \in Int /\ run <= NRepeat
      BY <2>7, <3>1 DEF Idle
    <3>3. CASE run <= 0
      BY <2>1, <3>1, <3>3, QueueOfOne DEF StartInv, MonitorInv
    <3>4. CASE run > 0
      BY <2>1, <3>2, <3>4 DEF StartInv, MonitorInv
    <3>5. QED
      BY <3>2, <3>3, <3>4
  <2>10. QED
    BY <2>2, <2>3, <2>4, <2>5, <2>6, <2>7, <2>8, <2>9, Zenon DEF TypeOK
<1>2. QED
  BY <1>1, StartsRight, PTL

(* The blocks a test case takes in prepare are all given back when it ends *)
(* (the profiler's _run_test_case): between two of them, and when the      *)
(* scheduler starts, the cache is as empty as it is taken to be.           *)
THEOREM ProfilingReturnsAll == Spec => []ProfilingLeavesNothing
<1>1. StartInv => ProfilingLeavesNothing
  BY DEF StartInv, CaseInv, ProfilingLeavesNothing
<1>2. QED
  BY <1>1, StartsRight, PTL

(* The cache that the workers allocate fits the memory its blocks were     *)
(* counted in (profile_num_blocks and Swapper.__init__), and an evaluated  *)
(* server's cache is no larger than the base's (evaluation/server.py).     *)
LEMMA BlocksFit ==
  ASSUME NEW u \in Int, NEW k \in Nat \ {0}, NEW b \in Nat \ {0}
  PROVE  k * (u \div (b * k)) * b <= u
<1>1. PICK d \in Nat \ {0} : d = b * k
  BY Positive
<1>2. PICK q \in Int : q = u \div d /\ q * d <= u
  BY Divided
<1>3. k * q * b = q * d
  BY <1>1
<1>4. QED
  BY <1>1, <1>2, <1>3

THEOREM CacheAllocated == Spec => []CacheFits
<1>1. StartInv => CacheFits
  <2>1. SUFFICES ASSUME StartInv, pc \in Tables PROVE CacheFits
    BY DEF CacheFits
  <2>2. PICK c \in Configs, peak \in Peaks :
          ~StartRaises(c, peak) /\ conf = WithBlocks(c, peak) /\ free = UsableMemory - peak
    BY <2>1, Profiles DEF Configured
  <2>3. c \in CommandLines /\ peak \in Nat /\ UsableMemory \in Nat /\ NumLayers \in Nat \ {0}
    BY StartAssumption, LayersAssumption
  <2>4. conf.num_gpu_blocks_override = -1 => CacheSlots(conf) <= free
    <3>1. SUFFICES ASSUME conf.num_gpu_blocks_override = -1 PROVE CacheSlots(conf) <= free
      OBVIOUS
    <3>2. PICK b \in Nat \ {0} : b = c.block_size
      BY <2>3 DEF CommandLines
    <3>3. PICK k \in Nat \ {0} : k = KvSlotSize(c.extra_layer_for_cprf)
      BY <2>3 DEF KvSlotSize
    <3>4. /\ conf.block_size = b /\ conf.extra_layer_for_cprf = c.extra_layer_for_cprf
          /\ c.num_gpu_blocks_override = -1 /\ conf.num_gpu_blocks = NumGpuBlocks(c, peak)
      BY <2>2, <2>3, <3>1, <3>2 DEF WithBlocks, CommandLines
    <3>5. PICK u \in Int : u = UsableMemory - peak /\ free = u
      BY <2>2, <2>3
    <3>6. conf.num_gpu_blocks = u \div (b * k)
      BY <3>2, <3>3, <3>4, <3>5 DEF NumGpuBlocks
    <3>7. CacheSlots(conf) = k * (u \div (b * k)) * b
      BY <3>3, <3>4, <3>6 DEF CacheSlots, KvSlotSize
    <3>8. QED
      BY <3>5, <3>7, BlocksFit
  <2>5. ASSUME NEW name \in Servers, NEW config \in Evaluations,
               conf = WithBlocks(CommandLine(name, config), UsableMemory - free)
        PROVE  CacheSlots(conf) <= NumLayers * config.num_gpu_blocks_override * config.block_size
    <3>1. PICK o \in Nat, b \in Nat, n \in Nat \ {0} :
            o = config.num_gpu_blocks_override /\ b = config.block_size /\ n = NumLayers
      BY <2>3, StartAssumption
    <3>2. PICK e : e = CommandLine(name, config)
      OBVIOUS
    <3>3. /\ e.num_gpu_blocks_override = Override(name, config) /\ e.block_size = b
          /\ e.extra_layer_for_cprf = (name # "base")
      BY <3>1, <3>2 DEF CommandLine, CliDefaults
    <3>4. PICK g \in Nat : g = Override(name, config) /\ g = IF name = "base" THEN o ELSE (o * n) \div (n + 1)
      <4>1. o * n \in Nat /\ n + 1 \in Nat \ {0}
        BY <3>1
      <4>2. (o * n) \div (n + 1) \in Nat
        BY <4>1, Divided
      <4>3. QED
        BY <3>1, <4>2 DEF Override
    <3>5. conf.num_gpu_blocks = g /\ conf.block_size = b /\ conf.extra_layer_for_cprf = (name # "base")
      <4>1. NumGpuBlocks(e, UsableMemory - free) = g
        BY <3>3, <3>4 DEF NumGpuBlocks
      <4>2. PICK num : num = NumCpuBlocks(e)
        OBVIOUS
      <4>3. conf = [e EXCEPT !.num_cpu_blocks = num, !.num_gpu_blocks = g]
        BY <2>5, <3>2, <4>1, <4>2 DEF WithBlocks
      <4>4. "num_gpu_blocks" \in DOMAIN e /\ "block_size" \in DOMAIN e /\ "extra_layer_for_cprf" \in DOMAIN e
        BY <3>2 DEF CommandLine, CliDefaults
      <4>5. QED
        BY <3>3, <4>3, <4>4
    <3>6. CASE name = "base"
      <4>1. CacheSlots(conf) = (n + 0) * o * b
        BY <3>1, <3>4, <3>5, <3>6 DEF CacheSlots
      <4>2. QED
        BY <3>1, <4>1
    <3>7. CASE name # "base"
      <4>1. CacheSlots(conf) = (n + 1) * g * b
        BY <3>1, <3>4, <3>5, <3>7 DEF CacheSlots
      <4>2. PICK w \in Nat, d \in Nat \ {0} : w = o * n /\ d = n + 1
        BY <3>1
      <4>3. g * d <= w
        <5>1. g = w \div d
          BY <3>4, <3>7, <4>2
        <5>2. (w \div d) * d <= w
          BY Divided
        <5>3. QED
          BY <5>1, <5>2
      <4>4. (g * d) * b <= w * b
        BY <4>3
      <4>5. (n + 1) * g * b = (g * d) * b /\ n * o * b = w * b
        BY <4>2
      <4>6. QED
        BY <3>1, <4>1, <4>4, <4>5
    <3>8. QED
      BY <3>6, <3>7
  <2>6. QED
    BY <2>4, <2>5 DEF CacheFits
<1>2. QED
  BY <1>1, StartsRight, PTL

(* Whatever was found on disk and wherever earlier starts were killed:     *)
(* once it serves, every width a batch can have has an answer in the       *)
(* linear table, which reads the width's own sample or its neighbours,     *)
(* and so it is in the other tables if they are of this configuration      *)
(* (_interp_1d, get_cdec_T; init_profile_tables loads longer files).       *)
LEMMA SelfGoesOn ==
  ASSUME NEW list, Rising(list)
  PROVE  GoesOn(list, list)
<1>1. PICK n \in Nat : n = Len(list) /\ n > 0
  BY QueueFacts DEF Rising
<1>2. Last(list) = list[n] /\ list[n] \in Nat
  BY <1>1 DEF Last, Rising
<1>3. QED
  BY <1>1, <1>2 DEF GoesOn, Rising

LEMMA CdecLookups ==
  ASSUME Legal(conf), NEW Ns, Ns = Samples("cdec"), NEW Ss, Ss = CdecSList(conf), NEW ys,
         Len(ys) = Len(Ss), \A i \in 1 .. Len(ys) : Len(ys[i]) = Len(Ns),
         NEW S \in 0 .. conf.max_batch_size, NEW N \in 0 .. Last(Ns)
  PROVE  /\ CdecAnswers(S, N, Ss, Ns, ys, CdecRowLb, Lb("cdec"))
         /\ Bracketed(S, Ss, SamplesRead(S, Ss, CdecRowLb))
         /\ Bracketed(N, Ns, SamplesRead(N, Ns, Lb("cdec")))
<1>1. Rising(Ns) /\ GoesOn(Ns, Ns) /\ Lb("cdec") = LbIdx(Ns)
  BY SamplesRise, SelfGoesOn DEF Samples, Lb, Tables
<1>2. /\ Rising(Ss) /\ GoesOn(Ss, Ss) /\ CdecRowLb = LbIdx(Ss)
      /\ Last(Ss) = conf.max_batch_size
  BY CdecSRises, SelfGoesOn DEF CdecRowLb
<1>3. PICK a \in Nat, w \in Nat : a = Len(Ss) /\ w = Len(Ns)
  BY <1>1, <1>2, QueueFacts DEF Rising
<1>4. /\ Answers(N, Ns, w, LbIdx(Ns))
      /\ Bracketed(N, Ns, SamplesRead(N, Ns, LbIdx(Ns)))
  BY <1>1, <1>3, LookupsExact
<1>5. /\ Answers(S, Ss, a, LbIdx(Ss))
      /\ Bracketed(S, Ss, SamplesRead(S, Ss, LbIdx(Ss)))
  BY <1>2, <1>3, LookupsExact
<1>6. PICK lb : lb = LbIdx(Ss)
  OBVIOUS
<1>7. S < Len(lb)
  <2>1. Len(lb) = Last(Ss) + 1
    BY <1>2, <1>6, LbIdxRight
  <2>2. Last(Ss) \in Nat
    BY <1>2 DEF Legal
  <2>3. QED
    BY <1>2, <2>1, <2>2
<1>8. ASSUME S > 0, NEW i \in SamplesRead(S, Ss, lb)
      PROVE  i <= Len(ys) /\ Answers(N, Ns, Len(ys[i]), LbIdx(Ns))
  <2>1. PICK k : k = lb[S + 1]
    OBVIOUS
  <2>2. k \in 1 .. a /\ (k > 1 => k - 1 \in 1 .. a)
    <3>1. FirstFrom(Ss, S, k)
      BY <1>2, <1>6, <2>1, LbIdxRight
    <3>2. QED
      BY <1>3, <3>1 DEF FirstFrom
  <2>3. i \in 1 .. a
    <3>1. S # 0
      BY <1>8
    <3>2. i = k \/ (k # 1 /\ i = k - 1)
      BY <1>8, <2>1, <3>1 DEF SamplesRead
    <3>3. QED
      BY <2>2, <3>2
  <2>4. Len(ys[i]) = w /\ i <= Len(ys)
    BY <1>3, <2>3
  <2>5. QED
    BY <1>4, <2>4
<1>9. CdecAnswers(S, N, Ss, Ns, ys, lb, LbIdx(Ns))
  BY <1>7, <1>8 DEF CdecAnswers
<1>10. QED
  BY <1>1, <1>2, <1>4, <1>5, <1>6, <1>9

LEMMA ServedLookups ==
  ASSUME StartInv, Initialized, Supported(conf), NEW t \in Tables, t = "linr" \/ OwnSamples(t)
  PROVE  LookupsRight(t)
<1>1. Working /\ Legal(conf)
  BY ConfiguredLegal DEF Initialized, Working, StartInv, ControlInv
<1>2. Complete(disk[t], t) /\ Reaches(disk[t], t) /\ pp[t] = Loaded(disk[t], t)
  BY <1>1 DEF Initialized, StartInv, FilesInv, Earlier
<1>3. 2^DenseBits - 1 <= conf.max_tokens_in_batch
  <2>1. 2^DenseBits \in Nat
    BY Dense
  <2>2. conf.max_tokens_in_batch \in (2^DenseBits - 1) .. (MaxSeqLen(conf) + RotarySlack)
    BY DEF Supported
  <2>3. QED
    BY <1>1, <2>1, <2>2 DEF Legal
<1>4. PICK list : list = Samples(t)
  OBVIOUS
<1>5. Rising(list) /\ Lb(t) = LbIdx(list)
  BY <1>1, <1>3, <1>4, SamplesRise DEF Samples, Lb
<1>6. CASE t \in {"pref", "gdec"}
  <2>1. pp[t] = disk[t] /\ disk[t].xs = list /\ Len(disk[t].ys) = Len(list)
    BY <1>2, <1>4, <1>6 DEF Loaded, OwnSamples, Complete
  <2>2. Len(list) \in Nat /\ GoesOn(list, list)
    BY <1>5, SelfGoesOn, QueueFacts DEF Rising
  <2>3. ASSUME NEW x \in 0 .. Last(list)
        PROVE  Answers(x, list, Len(list), LbIdx(list)) /\ Bracketed(x, list, SamplesRead(x, list, LbIdx(list)))
    BY <1>5, <2>2, LookupsExact
  <2>4. QED
    BY <1>4, <1>5, <1>6, <2>1, <2>3 DEF LookupsRight
<1>7. CASE t = "linr"
  <2>1. PICK f : f = disk[t] /\ pp[t] = f /\ Len(f.ys) = Len(f.xs)
    BY <1>2, <1>7 DEF Loaded, Complete
  <2>2. PICK m \in Nat : f.xs = LinrUpTo(m)
    BY <1>2, <1>7, <2>1 DEF Complete
  <2>3. PICK n \in Nat \ {0} : n = conf.max_tokens_in_batch
    BY <1>1 DEF Legal
  <2>4. list = LinrUpTo(n)
    BY <1>4, <1>7, <2>3 DEF Samples, SampleList, LinrList, LinrUpTo
  <2>5. n <= m
    <3>1. Last(f.xs) = m /\ Last(list) = n
      BY <2>2, <2>3, <2>4, LinrSizes
    <3>2. Last(f.xs) >= Last(list)
      BY <1>2, <1>4, <2>1 DEF Reaches
    <3>3. QED
      BY <3>1, <3>2
  <2>6. GoesOn(f.xs, list)
    BY <1>3, <2>2, <2>3, <2>4, <2>5, LinrGoesOn
  <2>7. Len(f.xs) \in Nat /\ Len(list) <= Len(f.xs)
    BY <2>6, QueueFacts DEF GoesOn
  <2>8. ASSUME NEW x \in 0 .. Last(list)
        PROVE  Answers(x, f.xs, Len(f.xs), LbIdx(list)) /\ Bracketed(x, f.xs, SamplesRead(x, f.xs, LbIdx(list)))
    BY <1>5, <2>6, <2>7, LookupsExact
  <2>9. QED
    BY <1>4, <1>5, <1>7, <2>1, <2>8 DEF LookupsRight
<1>8. CASE t = "cdec"
  <2>1. PICK Ss, xs, ys : disk[t] = File(Ss, xs, ys)
    BY <1>2 DEF Complete
  <2>2. disk[t].S = Ss /\ disk[t].xs = xs /\ disk[t].ys = ys
    BY <2>1 DEF File
  <2>3. Ss = CdecSList(conf) /\ xs = list
    BY <1>4, <1>8, <2>2 DEF OwnSamples
  <2>4. pp[t].S = Ss /\ pp[t].xs = list /\ pp[t].ys = ys
    <3>1. pp[t] = [File(Ss, xs, ys) EXCEPT !.xs = list]
      BY <1>2, <1>4, <1>8, <2>1 DEF Loaded
    <3>2. QED
      BY <3>1 DEF File
  <2>5. Len(ys) = Len(Ss) /\ \A i \in 1 .. Len(ys) : Len(ys[i]) = Len(list)
    BY <1>2, <1>8, <2>2, <2>3 DEF Complete
  <2>6. ASSUME NEW S \in 0 .. conf.max_batch_size, NEW N \in 0 .. Last(list)
        PROVE  /\ CdecAnswers(S, N, Ss, list, ys, CdecRowLb, Lb("cdec"))
               /\ Bracketed(S, Ss, SamplesRead(S, Ss, CdecRowLb))
               /\ Bracketed(N, list, SamplesRead(N, list, Lb("cdec")))
    BY <1>1, <1>4, <1>8, <2>3, <2>5, CdecLookups
  <2>7. QED
    BY <1>4, <1>8, <2>4, <2>6 DEF LookupsRight
<1>9. QED
  BY <1>6, <1>7, <1>8 DEF Tables

THEOREM LookupsServed == Spec => []LookupsBracket
<1>1. StartInv => LookupsBracket
  BY ServedLookups DEF LookupsBracket
<1>2. QED
  BY <1>1, StartsRight, PTL

-----------------------------------------------------------------------------
(* Part V.  What is measured.  The steps of one layer, ...                 *)
LayerSteps(cdecs) == IF cdecs THEN 11 ELSE 9

LayerStep(cdecs, s, n) ==
  IF s = 1
  THEN IF n = "stage_s" THEN LayerSteps(cdecs) - 2 ELSE LayerSteps(cdecs)
  ELSE CASE n = "stage_s" -> 1 [] n = "lnch_s" -> 2 [] n = "linr_e" -> 3 [] n = "pref_e" -> 4
         [] n = "gdec_e" -> 5 [] n = "lnch_m" -> 6 [] n = "cdec_s" -> IF cdecs THEN 7 ELSE 6
         [] n = "cdec_e" -> IF cdecs THEN 8 ELSE 6 [] n = "lnch_e" -> LayerSteps(cdecs) - 1

LayerNames ==
  {<<0, "stage_s">>, <<0, "lnch_s">>, <<0, "linr_e">>, <<0, "pref_e">>, <<0, "gdec_e">>, <<0, "lnch_m">>,
   <<0, "cdec_s">>, <<0, "cdec_e">>, <<1, "stage_s">>, <<0, "lnch_e">>, <<1, "linr_e">>}

LEMMA NamesOfLayer ==
  /\ <<0, "stage_s">> \in LayerNames /\ <<0, "lnch_s">> \in LayerNames /\ <<0, "linr_e">> \in LayerNames
  /\ <<0, "pref_e">> \in LayerNames /\ <<0, "gdec_e">> \in LayerNames /\ <<0, "lnch_m">> \in LayerNames
  /\ <<0, "cdec_s">> \in LayerNames /\ <<0, "cdec_e">> \in LayerNames /\ <<1, "stage_s">> \in LayerNames
  /\ <<0, "lnch_e">> \in LayerNames /\ <<1, "linr_e">> \in LayerNames
  /\ \A p \in LayerNames :
       \/ (p[1] = 0 /\ p[2] = "stage_s") \/ (p[1] = 0 /\ p[2] = "lnch_s") \/ (p[1] = 0 /\ p[2] = "linr_e")
       \/ (p[1] = 0 /\ p[2] = "pref_e") \/ (p[1] = 0 /\ p[2] = "gdec_e") \/ (p[1] = 0 /\ p[2] = "lnch_m")
       \/ (p[1] = 0 /\ p[2] = "cdec_s") \/ (p[1] = 0 /\ p[2] = "cdec_e") \/ (p[1] = 1 /\ p[2] = "stage_s")
       \/ (p[1] = 0 /\ p[2] = "lnch_e") \/ (p[1] = 1 /\ p[2] = "linr_e")
BY DEF LayerNames

LEMMA ThreeSteps ==
  ASSUME NEW a, NEW b, NEW c
  PROVE  /\ Queue(<<a, b, c>>) /\ Len(<<a, b, c>>) = 3
         /\ <<a, b, c>>[1] = a /\ <<a, b, c>>[2] = b /\ <<a, b, c>>[3] = c
<1>1. <<a, b, c>> \in Seq({a, b, c})
  OBVIOUS
<1>2. QED
  BY <1>1 DEF Queue

LEMMA TwoSteps ==
  ASSUME NEW a, NEW b
  PROVE  /\ Queue(<<a, b>>) /\ Len(<<a, b>>) = 2 /\ <<a, b>>[1] = a /\ <<a, b>>[2] = b
<1>1. <<a, b>> \in Seq({a, b})
  OBVIOUS
<1>2. QED
  BY <1>1 DEF Queue

LEMMA AttentionParts ==
  ASSUME NEW l
  PROVE  /\ LET q == AttentionEvents(l, TRUE)
            IN  /\ Queue(q) /\ Len(q) = 5
                /\ q[1] = {<<l, 0, "pref_e">>} /\ q[2] = {<<l, 0, "gdec_e">>}
                /\ q[3] = {<<l, 0, "lnch_m">>} /\ q[4] = {<<l, 0, "cdec_s">>} /\ q[5] = {<<l, 0, "cdec_e">>}
         /\ LET q == AttentionEvents(l, FALSE)
            IN  /\ Queue(q) /\ Len(q) = 3
                /\ q[1] = {<<l, 0, "pref_e">>} /\ q[2] = {<<l, 0, "gdec_e">>}
                /\ q[3] = {<<l, 0, "lnch_m">>, <<l, 0, "cdec_s">>, <<l, 0, "cdec_e">>}
<1>1. PICK a, b, c, d, e, x :
        /\ a = {<<l, 0, "pref_e">>} /\ b = {<<l, 0, "gdec_e">>}
        /\ c = {<<l, 0, "lnch_m">>} /\ d = {<<l, 0, "cdec_s">>} /\ e = {<<l, 0, "cdec_e">>}
        /\ x = {<<l, 0, "lnch_m">>, <<l, 0, "cdec_s">>, <<l, 0, "cdec_e">>}
  OBVIOUS
<1>2. x = {<<l, 0, n>> : n \in {"lnch_m", "cdec_s", "cdec_e"}}
  BY <1>1
<1>3. PICK s, t, u, p, q : s = <<a, b>> /\ t = <<c, d, e>> /\ u = <<x>> /\ p = s \o t /\ q = s \o u
  OBVIOUS
<1>4. Joined(s, t, p) /\ Joined(s, u, q)
  BY <1>3, TwoSteps, ThreeSteps, QueueOfOne, QueueConcat
<1>5. /\ Len(s) = 2 /\ s[1] = a /\ s[2] = b
      /\ Len(t) = 3 /\ t[1] = c /\ t[2] = d /\ t[3] = e
      /\ Len(u) = 1 /\ u[1] = x
  BY <1>3, TwoSteps, ThreeSteps, QueueOfOne
<1>6. /\ Queue(p) /\ Len(p) = 5 /\ p[1] = a /\ p[2] = b /\ p[3] = c /\ p[4] = d /\ p[5] = e
  BY <1>4, <1>5 DEF Joined
<1>7. /\ Queue(q) /\ Len(q) = 3 /\ q[1] = a /\ q[2] = b /\ q[3] = x
  BY <1>4, <1>5 DEF Joined
<1>8. AttentionEvents(l, TRUE) = p /\ AttentionEvents(l, FALSE) = q
  BY <1>1, <1>2, <1>3 DEF AttentionEvents
<1>9. QED
  BY <1>1, <1>6, <1>7, <1>8

LEMMA ForwardParts ==
  ASSUME NEW l
  PROVE  /\ LET q == ForwardEvents(l, TRUE)
            IN  /\ Queue(q) /\ Len(q) = 11
                /\ q[1] = {<<l, 0, "stage_s">>} /\ q[2] = {<<l, 0, "lnch_s">>} /\ q[3] = {<<l, 0, "linr_e">>}
                /\ q[4] = {<<l, 0, "pref_e">>} /\ q[5] = {<<l, 0, "gdec_e">>} /\ q[6] = {<<l, 0, "lnch_m">>}
                /\ q[7] = {<<l, 0, "cdec_s">>} /\ q[8] = {<<l, 0, "cdec_e">>}
                /\ q[9] = {<<l, 1, "stage_s">>} /\ q[10] = {<<l, 0, "lnch_e">>} /\ q[11] = {<<l, 1, "linr_e">>}
         /\ LET q == ForwardEvents(l, FALSE)
            IN  /\ Queue(q) /\ Len(q) = 9
                /\ q[1] = {<<l, 0, "stage_s">>} /\ q[2] = {<<l, 0, "lnch_s">>} /\ q[3] = {<<l, 0, "linr_e">>}
                /\ q[4] = {<<l, 0, "pref_e">>} /\ q[5] = {<<l, 0, "gdec_e">>}
                /\ q[6] = {<<l, 0, "lnch_m">>, <<l, 0, "cdec_s">>, <<l, 0, "cdec_e">>}
                /\ q[7] = {<<l, 1, "stage_s">>} /\ q[8] = {<<l, 0, "lnch_e">>} /\ q[9] = {<<l, 1, "linr_e">>}
<1>1. PICK a, b, c, x, y, z :
        /\ a = {<<l, 0, "stage_s">>} /\ b = {<<l, 0, "lnch_s">>} /\ c = {<<l, 0, "linr_e">>}
        /\ x = {<<l, 1, "stage_s">>} /\ y = {<<l, 0, "lnch_e">>} /\ z = {<<l, 1, "linr_e">>}
  OBVIOUS
<1>2. PICK s, u, p, q : s = <<a, b, c>> /\ u = <<x, y, z>> /\ p = AttentionEvents(l, TRUE) /\ q = AttentionEvents(l, FALSE)
  OBVIOUS
<1>3. PICK v, w, g, h : v = s \o p /\ w = s \o q /\ g = v \o u /\ h = w \o u
  OBVIOUS
<1>4. /\ Queue(s) /\ Len(s) = 3 /\ s[1] = a /\ s[2] = b /\ s[3] = c
      /\ Queue(u) /\ Len(u) = 3 /\ u[1] = x /\ u[2] = y /\ u[3] = z
  BY <1>2, ThreeSteps
<1>5. Queue(p) /\ Len(p) = 5 /\ Queue(q) /\ Len(q) = 3
  BY <1>2, AttentionParts
<1>6. Joined(s, p, v) /\ Joined(s, q, w)
  BY <1>3, <1>4, <1>5, QueueConcat
<1>7. Joined(v, u, g) /\ Joined(w, u, h)
  <2>1. Queue(v) /\ Queue(w)
    BY <1>6 DEF Joined
  <2>2. QED
    BY <1>3, <1>4, <2>1, QueueConcat
<1>8. /\ Queue(v) /\ Len(v) = 8 /\ v[1] = a /\ v[2] = b /\ v[3] = c
      /\ \A k \in 1 .. 5 : v[3 + k] = p[k]
  BY <1>4, <1>5, <1>6 DEF Joined
<1>9. /\ Queue(w) /\ Len(w) = 6 /\ w[1] = a /\ w[2] = b /\ w[3] = c
      /\ \A k \in 1 .. 3 : w[3 + k] = q[k]
  BY <1>4, <1>5, <1>6 DEF Joined
<1>10. /\ Queue(g) /\ Len(g) = 11 /\ g[1] = a /\ g[2] = b /\ g[3] = c /\ g[9] = x /\ g[10] = y /\ g[11] = z
       /\ g[4] = p[1] /\ g[5] = p[2] /\ g[6] = p[3] /\ g[7] = p[4] /\ g[8] = p[5]
  <2>1. /\ Queue(g) /\ Len(g) = 8 + 3 /\ \A k \in 1 .. 8 : g[k] = v[k]
        /\ \A k \in 1 .. 3 : g[8 + k] = u[k]
    BY <1>4, <1>7, <1>8 DEF Joined
  <2>2. g[1] = a /\ g[2] = b /\ g[3] = c /\ \A k \in 1 .. 5 : g[3 + k] = p[k]
    BY <1>8, <2>1
  <2>3. QED
    BY <1>4, <2>1, <2>2
<1>11. /\ Queue(h) /\ Len(h) = 9 /\ h[1] = a /\ h[2] = b /\ h[3] = c /\ h[7] = x /\ h[8] = y /\ h[9] = z
       /\ h[4] = q[1] /\ h[5] = q[2] /\ h[6] = q[3]
  <2>1. /\ Queue(h) /\ Len(h) = 6 + 3 /\ \A k \in 1 .. 6 : h[k] = w[k]
        /\ \A k \in 1 .. 3 : h[6 + k] = u[k]
    BY <1>4, <1>7, <1>9 DEF Joined
  <2>2. h[1] = a /\ h[2] = b /\ h[3] = c /\ \A k \in 1 .. 3 : h[3 + k] = q[k]
    BY <1>9, <2>1
  <2>3. QED
    BY <1>4, <2>1, <2>2
<1>12. ForwardEvents(l, TRUE) = g /\ ForwardEvents(l, FALSE) = h
  BY <1>1, <1>2, <1>3 DEF ForwardEvents
<1>13. QED
  BY <1>1, <1>2, <1>10, <1>11, <1>12, AttentionParts

(* ... each of which records events of that layer, ...                     *)
LEMMA ForwardRecords ==
  ASSUME NEW l, NEW cdecs \in BOOLEAN
  PROVE  LET q == ForwardEvents(l, cdecs)
         IN  /\ Queue(q) /\ Len(q) = LayerSteps(cdecs)
             /\ \A j \in 1 .. Len(q) : \A e \in q[j] :
                  /\ e = <<l, e[2], e[3]>> /\ <<e[2], e[3]>> \in LayerNames /\ LayerStep(cdecs, e[2], e[3]) = j
             /\ \A p \in LayerNames : /\ LayerStep(cdecs, p[1], p[2]) \in 1 .. Len(q)
                                      /\ <<l, p[1], p[2]>> \in q[LayerStep(cdecs, p[1], p[2])]
<1>1. CASE cdecs = TRUE
  <2>1. PICK q : q = ForwardEvents(l, TRUE)
    OBVIOUS
  <2>2. /\ Queue(q) /\ Len(q) = 11
        /\ q[1] = {<<l, 0, "stage_s">>} /\ q[2] = {<<l, 0, "lnch_s">>} /\ q[3] = {<<l, 0, "linr_e">>}
        /\ q[4] = {<<l, 0, "pref_e">>} /\ q[5] = {<<l, 0, "gdec_e">>} /\ q[6] = {<<l, 0, "lnch_m">>}
        /\ q[7] = {<<l, 0, "cdec_s">>} /\ q[8] = {<<l, 0, "cdec_e">>}
        /\ q[9] = {<<l, 1, "stage_s">>} /\ q[10] = {<<l, 0, "lnch_e">>} /\ q[11] = {<<l, 1, "linr_e">>}
    BY <2>1, ForwardParts
  <2>4. /\ LayerStep(TRUE, 0, "stage_s") = 1 /\ LayerStep(TRUE, 0, "lnch_s") = 2
        /\ LayerStep(TRUE, 0, "linr_e") = 3 /\ LayerStep(TRUE, 0, "pref_e") = 4
        /\ LayerStep(TRUE, 0, "gdec_e") = 5 /\ LayerStep(TRUE, 0, "lnch_m") = 6
        /\ LayerStep(TRUE, 0, "cdec_s") = 7 /\ LayerStep(TRUE, 0, "cdec_e") = 8
        /\ LayerStep(TRUE, 1, "stage_s") = 9 /\ LayerStep(TRUE, 0, "lnch_e") = 10
        /\ LayerStep(TRUE, 1, "linr_e") = 11
    BY DEF LayerStep, LayerSteps
  <2>5. ASSUME NEW j \in 1 .. 11, NEW e \in q[j]
        PROVE  e = <<l, e[2], e[3]>> /\ <<e[2], e[3]>> \in LayerNames /\ LayerStep(TRUE, e[2], e[3]) = j
    <3>1. \/ (j = 1 /\ e = <<l, 0, "stage_s">>) \/ (j = 2 /\ e = <<l, 0, "lnch_s">>)
          \/ (j = 3 /\ e = <<l, 0, "linr_e">>) \/ (j = 4 /\ e = <<l, 0, "pref_e">>)
          \/ (j = 5 /\ e = <<l, 0, "gdec_e">>) \/ (j = 6 /\ e = <<l, 0, "lnch_m">>)
          \/ (j = 7 /\ e = <<l, 0, "cdec_s">>) \/ (j = 8 /\ e = <<l, 0, "cdec_e">>)
          \/ (j = 9 /\ e = <<l, 1, "stage_s">>) \/ (j = 10 /\ e = <<l, 0, "lnch_e">>)
          \/ (j = 11 /\ e = <<l, 1, "linr_e">>)
      BY <2>2
    <3>2. ASSUME NEW s, NEW n, e = <<l, s, n>>, <<s, n>> \in LayerNames, LayerStep(TRUE, s, n) = j
          PROVE  e = <<l, e[2], e[3]>> /\ <<e[2], e[3]>> \in LayerNames /\ LayerStep(TRUE, e[2], e[3]) = j
      <4>1. e[2] = s /\ e[3] = n
        BY <3>2
      <4>2. QED
        BY <3>2, <4>1
    <3>3. QED
      BY <2>4, <3>1, <3>2, NamesOfLayer
  <2>6. ASSUME NEW p \in LayerNames
        PROVE  LayerStep(TRUE, p[1], p[2]) \in 1 .. 11 /\ <<l, p[1], p[2]>> \in q[LayerStep(TRUE, p[1], p[2])]
    <3>1. PICK s, n : s = p[1] /\ n = p[2]
      OBVIOUS
    <3>2. \/ (s = 0 /\ n = "stage_s") \/ (s = 0 /\ n = "lnch_s") \/ (s = 0 /\ n = "linr_e")
          \/ (s = 0 /\ n = "pref_e") \/ (s = 0 /\ n = "gdec_e") \/ (s = 0 /\ n = "lnch_m")
          \/ (s = 0 /\ n = "cdec_s") \/ (s = 0 /\ n = "cdec_e") \/ (s = 1 /\ n = "stage_s")
          \/ (s = 0 /\ n = "lnch_e") \/ (s = 1 /\ n = "linr_e")
      BY <3>1, NamesOfLayer
    <3>3. PICK k : k = LayerStep(TRUE, s, n)
      OBVIOUS
    <3>4. \/ (s = 0 /\ n = "stage_s" /\ k = 1) \/ (s = 0 /\ n = "lnch_s" /\ k = 2)
          \/ (s = 0 /\ n = "linr_e" /\ k = 3) \/ (s = 0 /\ n = "pref_e" /\ k = 4)
          \/ (s = 0 /\ n = "gdec_e" /\ k = 5) \/ (s = 0 /\ n = "lnch_m" /\ k = 6)
          \/ (s = 0 /\ n = "cdec_s" /\ k = 7) \/ (s = 0 /\ n = "cdec_e" /\ k = 8)
          \/ (s = 1 /\ n = "stage_s" /\ k = 9) \/ (s = 0 /\ n = "lnch_e" /\ k = 10)
          \/ (s = 1 /\ n = "linr_e" /\ k = 11)
      BY <2>4, <3>2, <3>3
    <3>5. k \in 1 .. 11 /\ <<l, s, n>> \in q[k]
      BY <2>2, <3>4
    <3>6. QED
      BY <3>1, <3>3, <3>5
  <2>7. QED
    BY <1>1, <2>1, <2>2, <2>5, <2>6 DEF LayerSteps
<1>2. CASE cdecs = FALSE
  <2>1. PICK q : q = ForwardEvents(l, FALSE)
    OBVIOUS
  <2>2. /\ Queue(q) /\ Len(q) = 9
        /\ q[1] = {<<l, 0, "stage_s">>} /\ q[2] = {<<l, 0, "lnch_s">>} /\ q[3] = {<<l, 0, "linr_e">>}
        /\ q[4] = {<<l, 0, "pref_e">>} /\ q[5] = {<<l, 0, "gdec_e">>}
        /\ q[6] = {<<l, 0, "lnch_m">>, <<l, 0, "cdec_s">>, <<l, 0, "cdec_e">>}
        /\ q[7] = {<<l, 1, "stage_s">>} /\ q[8] = {<<l, 0, "lnch_e">>} /\ q[9] = {<<l, 1, "linr_e">>}
    BY <2>1, ForwardParts
  <2>4. /\ LayerStep(FALSE, 0, "stage_s") = 1 /\ LayerStep(FALSE, 0, "lnch_s") = 2
        /\ LayerStep(FALSE, 0, "linr_e") = 3 /\ LayerStep(FALSE, 0, "pref_e") = 4
        /\ LayerStep(FALSE, 0, "gdec_e") = 5 /\ LayerStep(FALSE, 0, "lnch_m") = 6
        /\ LayerStep(FALSE, 0, "cdec_s") = 6 /\ LayerStep(FALSE, 0, "cdec_e") = 6
        /\ LayerStep(FALSE, 1, "stage_s") = 7 /\ LayerStep(FALSE, 0, "lnch_e") = 8
        /\ LayerStep(FALSE, 1, "linr_e") = 9
    BY DEF LayerStep, LayerSteps
  <2>5. ASSUME NEW j \in 1 .. 9, NEW e \in q[j]
        PROVE  e = <<l, e[2], e[3]>> /\ <<e[2], e[3]>> \in LayerNames /\ LayerStep(FALSE, e[2], e[3]) = j
    <3>1. \/ (j = 1 /\ e = <<l, 0, "stage_s">>) \/ (j = 2 /\ e = <<l, 0, "lnch_s">>)
          \/ (j = 3 /\ e = <<l, 0, "linr_e">>) \/ (j = 4 /\ e = <<l, 0, "pref_e">>)
          \/ (j = 5 /\ e = <<l, 0, "gdec_e">>) \/ (j = 6 /\ e = <<l, 0, "lnch_m">>)
          \/ (j = 6 /\ e = <<l, 0, "cdec_s">>) \/ (j = 6 /\ e = <<l, 0, "cdec_e">>)
          \/ (j = 7 /\ e = <<l, 1, "stage_s">>) \/ (j = 8 /\ e = <<l, 0, "lnch_e">>)
          \/ (j = 9 /\ e = <<l, 1, "linr_e">>)
      BY <2>2
    <3>2. ASSUME NEW s, NEW n, e = <<l, s, n>>, <<s, n>> \in LayerNames, LayerStep(FALSE, s, n) = j
          PROVE  e = <<l, e[2], e[3]>> /\ <<e[2], e[3]>> \in LayerNames /\ LayerStep(FALSE, e[2], e[3]) = j
      <4>1. e[2] = s /\ e[3] = n
        BY <3>2
      <4>2. QED
        BY <3>2, <4>1
    <3>3. QED
      BY <2>4, <3>1, <3>2, NamesOfLayer
  <2>6. ASSUME NEW p \in LayerNames
        PROVE  LayerStep(FALSE, p[1], p[2]) \in 1 .. 9 /\ <<l, p[1], p[2]>> \in q[LayerStep(FALSE, p[1], p[2])]
    <3>1. PICK s, n : s = p[1] /\ n = p[2]
      OBVIOUS
    <3>2. \/ (s = 0 /\ n = "stage_s") \/ (s = 0 /\ n = "lnch_s") \/ (s = 0 /\ n = "linr_e")
          \/ (s = 0 /\ n = "pref_e") \/ (s = 0 /\ n = "gdec_e") \/ (s = 0 /\ n = "lnch_m")
          \/ (s = 0 /\ n = "cdec_s") \/ (s = 0 /\ n = "cdec_e") \/ (s = 1 /\ n = "stage_s")
          \/ (s = 0 /\ n = "lnch_e") \/ (s = 1 /\ n = "linr_e")
      BY <3>1, NamesOfLayer
    <3>3. PICK k : k = LayerStep(FALSE, s, n)
      OBVIOUS
    <3>4. \/ (s = 0 /\ n = "stage_s" /\ k = 1) \/ (s = 0 /\ n = "lnch_s" /\ k = 2)
          \/ (s = 0 /\ n = "linr_e" /\ k = 3) \/ (s = 0 /\ n = "pref_e" /\ k = 4)
          \/ (s = 0 /\ n = "gdec_e" /\ k = 5) \/ (s = 0 /\ n = "lnch_m" /\ k = 6)
          \/ (s = 0 /\ n = "cdec_s" /\ k = 6) \/ (s = 0 /\ n = "cdec_e" /\ k = 6)
          \/ (s = 1 /\ n = "stage_s" /\ k = 7) \/ (s = 0 /\ n = "lnch_e" /\ k = 8)
          \/ (s = 1 /\ n = "linr_e" /\ k = 9)
      BY <2>4, <3>2, <3>3
    <3>5. k \in 1 .. 9 /\ <<l, s, n>> \in q[k]
      BY <2>2, <3>4
    <3>6. QED
      BY <3>1, <3>3, <3>5
  <2>7. QED
    BY <1>2, <2>1, <2>2, <2>5, <2>6 DEF LayerSteps
<1>3. QED
  BY <1>1, <1>2

(* Segments of one length, one after the other.                            *)
InSegments(flat, segs, n, L, N) ==
  /\ Queue(flat) /\ Len(flat) = N
  /\ \A i \in 1 .. n : \A j \in 1 .. L : (i - 1) * L + j \in 1 .. N /\ flat[(i - 1) * L + j] = segs[i][j]
  /\ \A k \in 1 .. N : \E i \in 1 .. n : \E j \in 1 .. L : k = (i - 1) * L + j

LEMMA EqualSegments ==
  ASSUME NEW n \in Nat \ {0}, NEW L \in Nat, NEW segs, Len(segs) = n,
         \A i \in 1 .. n : Queue(segs[i]) /\ Len(segs[i]) = L
  PROVE  InSegments(FlattenSeq(segs), segs, n, L, n * L)
<1>1. PICK f : Flattens(f, segs, n) /\ FlattenSeq(segs) = f[n]
  BY FlattenIs
<1> DEFINE Right(u, m) ==
             /\ Queue(u) /\ Len(u) = m * L
             /\ \A i \in 1 .. m : \A j \in 1 .. L :
                  (i - 1) * L + j \in 1 .. (m * L) /\ u[(i - 1) * L + j] = segs[i][j]
             /\ \A k \in 1 .. (m * L) : \E i \in 1 .. m : \E j \in 1 .. L : k = (i - 1) * L + j
           T == {m \in Nat : m \in 1 .. n /\ ~Right(f[m], m)}
<1>2. T = {}
  <2>1. SUFFICES ASSUME T # {} PROVE FALSE
    OBVIOUS
  <2>2. T \in SUBSET Nat
    OBVIOUS
  <2>3. PICK m \in T : \A k \in T : m <= k
    <3> HIDE DEF T
    <3>1. QED
      BY <2>1, <2>2, Least
  <2>4. m \in 1 .. n /\ m \in Nat /\ ~Right(f[m], m)
    OBVIOUS
  <2>5. PICK v : v = segs[m] /\ Queue(v) /\ Len(v) = L
    BY <2>4
  <2>6. f[m] = IF m = 1 THEN v ELSE f[m - 1] \o v
    BY <1>1, <2>4, <2>5 DEF Flattens
  <2>7. CASE m = 1
    <3>1. Right(v, 1)
      <4>1. 1 * L = L /\ (1 - 1) * L = 0
        OBVIOUS
      <4>2. \A i \in 1 .. 1 : i = 1
        OBVIOUS
      <4>3. \A k \in 1 .. (1 * L) : k \in 1 .. L /\ k = (1 - 1) * L + k
        BY <4>1
      <4>4. \A k \in 1 .. (1 * L) : \E i \in 1 .. 1 : \E j \in 1 .. L : k = (i - 1) * L + j
        BY <4>3
      <4>5. QED
        BY <2>5, <2>7, <4>1, <4>2, <4>4
    <3> HIDE DEF Right
    <3>2. QED
      BY <2>4, <2>6, <2>7, <3>1
  <2>8. CASE m # 1
    <3>1. PICK p \in 1 .. n : m = p + 1 /\ p \in Nat /\ ~(m <= p)
      <4>1. m - 1 \in 1 .. n /\ m = (m - 1) + 1 /\ m - 1 \in Nat /\ ~(m <= m - 1)
        BY <2>4, <2>8
      <4>2. QED
        BY <4>1
    <3>2. p \notin T
      <4> HIDE DEF T
      <4>1. QED
        BY <2>3, <3>1
    <3>3. PICK u, w : u = f[p] /\ w = u \o v
      OBVIOUS
    <3>4. Right(u, p) /\ f[m] = w
      <4>1. Right(f[p], p)
        BY <3>1, <3>2
      <4>2. m - 1 = p
        BY <3>1
      <4> HIDE DEF Right
      <4>3. QED
        BY <2>6, <2>8, <3>3, <4>1, <4>2
    <3>5. PICK a \in Nat, b \in Nat : a = p * L /\ b = m * L /\ b = a + L
      BY <3>1
    <3>6. /\ Queue(u) /\ Len(u) = a
          /\ \A i \in 1 .. p : \A j \in 1 .. L :
               (i - 1) * L + j \in 1 .. a /\ u[(i - 1) * L + j] = segs[i][j]
          /\ \A k \in 1 .. a : \E i \in 1 .. p : \E j \in 1 .. L : k = (i - 1) * L + j
      BY <3>4, <3>5
    <3>7. Joined(u, v, w)
      BY <2>5, <3>3, <3>6, QueueConcat
    <3>8. Queue(w) /\ Len(w) = b
      BY <2>5, <3>5, <3>6, <3>7 DEF Joined
    <3>9. ASSUME NEW i \in 1 .. m, NEW j \in 1 .. L
          PROVE  (i - 1) * L + j \in 1 .. b /\ w[(i - 1) * L + j] = segs[i][j]
      <4>1. CASE i = m
        <5>1. (i - 1) * L = a
          BY <3>1, <3>5, <4>1
        <5>2. w[a + j] = v[j]
          BY <2>5, <3>6, <3>7 DEF Joined
        <5>3. a + j \in 1 .. b
          BY <3>5
        <5>4. QED
          BY <2>5, <4>1, <5>1, <5>2, <5>3
      <4>2. CASE i # m
        <5>1. i \in 1 .. p
          BY <3>1, <4>2
        <5>2. PICK k \in 1 .. a : k = (i - 1) * L + j /\ u[k] = segs[i][j]
          BY <3>6, <5>1
        <5>3. k \in 1 .. b /\ w[k] = u[k]
          BY <3>5, <3>6, <3>7, <5>2 DEF Joined
        <5>4. QED
          BY <5>2, <5>3
      <4>3. QED
        BY <4>1, <4>2
    <3>10. ASSUME NEW k \in 1 .. b
           PROVE  \E i \in 1 .. m : \E j \in 1 .. L : k = (i - 1) * L + j
      <4>1. CASE k \in 1 .. a
        <5>1. PICK i \in 1 .. p : \E j \in 1 .. L : k = (i - 1) * L + j
          BY <3>6, <4>1
        <5>2. i \in 1 .. m
          BY <3>1
        <5>3. QED
          BY <5>1, <5>2
      <4>2. CASE k \notin 1 .. a
        <5>1. k - a \in 1 .. L /\ k = a + (k - a)
          BY <3>5, <4>2
        <5>2. m \in 1 .. m /\ (m - 1) * L = a
          BY <3>1, <3>5
        <5>3. QED
          BY <5>1, <5>2
      <4>3. QED
        BY <4>1, <4>2
    <3>11. Right(w, m)
      BY <3>5, <3>8, <3>9, <3>10
    <3> HIDE DEF Right
    <3>12. QED
      BY <2>4, <3>4, <3>11
  <2>9. QED
    BY <2>7, <2>8
<1>3. Right(f[n], n)
  <2>1. n \in Nat /\ n \in 1 .. n
    OBVIOUS
  <2>2. ~(n \in 1 .. n /\ ~Right(f[n], n))
    <3>1. n \notin T
      <4> HIDE DEF T
      <4>1. QED
        BY <1>2
    <3>2. QED
      BY <2>1, <3>1
  <2> HIDE DEF Right
  <2>3. QED
    BY <2>1, <2>2
<1>4. QED
  <2>1. PICK N, flat : N = n * L /\ flat = f[n]
    OBVIOUS
  <2>2. InSegments(flat, segs, n, L, N)
    BY <1>3, <2>1 DEF InSegments
  <2>3. QED
    BY <1>1, <2>1, <2>2

(* ... so that every time of a ModelPerfResult begins and ends in the      *)
(* iteration that has just run: its steps, one layer after the other, ...  *)
Before == <<{<<"frwd_s">>}, {<<"fstg_s">>}, {<<"mnbd_s">>}>>

After == <<{<<"mnbd_e">>}, {<<"lstg_e">>}, {<<"frwd_e">>}>>

InLayers(steps, n, L, N, cdecs) ==
  /\ Queue(steps) /\ Len(steps) = N + 6
  /\ steps[1] = {<<"frwd_s">>} /\ steps[2] = {<<"fstg_s">>} /\ steps[3] = {<<"mnbd_s">>}
  /\ steps[N + 4] = {<<"mnbd_e">>} /\ steps[N + 5] = {<<"lstg_e">>} /\ steps[N + 6] = {<<"frwd_e">>}
  /\ \A l \in 0 .. (n - 1) : \A j \in 1 .. L :
       l * L + j + 3 \in 1 .. (N + 6) /\ steps[l * L + j + 3] = ForwardEvents(l, cdecs)[j]
  /\ \A k \in 1 .. (N + 6) :
       \/ k \in {1, 2, 3, N + 4, N + 5, N + 6}
       \/ \E l \in 0 .. (n - 1) : \E j \in 1 .. L : k = l * L + j + 3

LEMMA IterationParts ==
  ASSUME NEW cdecs \in BOOLEAN, NEW L, L = LayerSteps(cdecs), NEW steps, steps = IterationEvents(cdecs),
         NEW n \in Nat \ {0}, n = NumLayers, NEW N \in Nat, N = n * L
  PROVE  InLayers(steps, n, L, N, cdecs)
<1>2. L \in Nat
  BY DEF LayerSteps
<1>3. PICK segs, flat : /\ segs = [i \in 1 .. n |-> ForwardEvents(i - 1, cdecs)]
                        /\ flat = FlattenSeq(segs)
  OBVIOUS
<1>4. Len(segs) = n
  <2>1. segs = [i \in 1 .. n |-> segs[i]]
    BY <1>3
  <2>2. QED
    BY <2>1, QueueOfFunction
<1>5. \A i \in 1 .. n : Queue(segs[i]) /\ Len(segs[i]) = L
  <2>1. ASSUME NEW i \in 1 .. n PROVE Queue(segs[i]) /\ Len(segs[i]) = L
    <3>1. PICK l : l = i - 1
      OBVIOUS
    <3>2. segs[i] = ForwardEvents(l, cdecs)
      BY <1>3, <3>1
    <3>3. QED
      BY <3>2, ForwardRecords
  <2>2. QED
    BY <2>1
<1>7. /\ Queue(flat) /\ Len(flat) = N
      /\ \A i \in 1 .. n : \A j \in 1 .. L :
           (i - 1) * L + j \in 1 .. N /\ flat[(i - 1) * L + j] = segs[i][j]
      /\ \A k \in 1 .. N : \E i \in 1 .. n : \E j \in 1 .. L : k = (i - 1) * L + j
  <2>1. InSegments(FlattenSeq(segs), segs, n, L, n * L)
    BY <1>2, <1>4, <1>5, EqualSegments
  <2>2. InSegments(flat, segs, n, L, N)
    BY <1>3, <2>1
  <2>3. QED
    BY <2>2 DEF InSegments
<1>8. PICK a, b, u : a = Before /\ b = After /\ u = a \o flat
  OBVIOUS
<1>9. /\ Queue(a) /\ Len(a) = 3 /\ a[1] = {<<"frwd_s">>} /\ a[2] = {<<"fstg_s">>} /\ a[3] = {<<"mnbd_s">>}
      /\ Queue(b) /\ Len(b) = 3 /\ b[1] = {<<"mnbd_e">>} /\ b[2] = {<<"lstg_e">>} /\ b[3] = {<<"frwd_e">>}
  BY <1>8, ThreeSteps DEF Before, After
<1>10. steps = u \o b
  BY <1>3, <1>8 DEF IterationEvents, Before, After
<1>11. Joined(a, flat, u)
  BY <1>7, <1>8, <1>9, QueueConcat
<1>12. Queue(u) /\ Len(u) = 3 + N
  BY <1>7, <1>9, <1>11 DEF Joined
<1>13. Joined(u, b, steps)
  BY <1>9, <1>10, <1>12, QueueConcat
<1>14. /\ Queue(steps) /\ Len(steps) = N + 6
       /\ steps[1] = a[1] /\ steps[2] = a[2] /\ steps[3] = a[3]
       /\ \A k \in 1 .. N : steps[3 + k] = flat[k]
       /\ steps[N + 4] = b[1] /\ steps[N + 5] = b[2] /\ steps[N + 6] = b[3]
  <2>1. /\ Queue(steps) /\ Len(steps) = (3 + N) + 3
        /\ \A k \in 1 .. (3 + N) : steps[k] = u[k]
        /\ \A k \in 1 .. 3 : steps[(3 + N) + k] = b[k]
    BY <1>9, <1>12, <1>13 DEF Joined
  <2>2. u[1] = a[1] /\ u[2] = a[2] /\ u[3] = a[3] /\ \A k \in 1 .. N : u[3 + k] = flat[k]
    BY <1>7, <1>9, <1>11 DEF Joined
  <2>3. (3 + N) + 3 = N + 6 /\ (3 + N) + 1 = N + 4 /\ (3 + N) + 2 = N + 5
    OBVIOUS
  <2>4. 1 \in 1 .. 3 /\ 2 \in 1 .. 3 /\ 3 \in 1 .. 3
    OBVIOUS
  <2>5. QED
    BY <2>1, <2>2, <2>3, <2>4
<1>15. ASSUME NEW l \in 0 .. (n - 1), NEW j \in 1 .. L
       PROVE  l * L + j + 3 \in 1 .. (N + 6) /\ steps[l * L + j + 3] = ForwardEvents(l, cdecs)[j]
  <2>1. PICK i \in 1 .. n : l = i - 1
    <3>1. l + 1 \in 1 .. n /\ l = (l + 1) - 1
      OBVIOUS
    <3>2. QED
      BY <3>1
  <2>2. PICK k \in 1 .. N : k = l * L + j /\ flat[k] = segs[i][j]
    BY <1>7, <2>1
  <2>3. l * L + j + 3 = 3 + k /\ 3 + k \in 1 .. (N + 6)
    BY <2>2
  <2>4. segs[i] = ForwardEvents(l, cdecs)
    BY <1>3, <2>1
  <2>5. QED
    BY <1>14, <2>2, <2>3, <2>4
<1>16. ASSUME NEW k \in 1 .. (N + 6)
       PROVE  \/ k \in {1, 2, 3, N + 4, N + 5, N + 6}
              \/ \E l \in 0 .. (n - 1) : \E j \in 1 .. L : k = l * L + j + 3
  <2>1. SUFFICES ASSUME k \notin {1, 2, 3, N + 4, N + 5, N + 6}
                 PROVE  \E l \in 0 .. (n - 1) : \E j \in 1 .. L : k = l * L + j + 3
    OBVIOUS
  <2>2. k - 3 \in 1 .. N
    BY <2>1
  <2>3. PICK i \in 1 .. n : \E j \in 1 .. L : k - 3 = (i - 1) * L + j
    BY <1>7, <2>2
  <2>4. PICK j \in 1 .. L : k - 3 = (i - 1) * L + j
    BY <2>3
  <2>5. PICK l \in 0 .. (n - 1) : l = i - 1
    BY <2>3
  <2>6. PICK m \in Nat : m = l * L
    BY <1>2
  <2>7. k = m + j + 3
    BY <2>4, <2>5, <2>6
  <2>8. QED
    BY <2>6, <2>7
<1>17. QED
  BY <1>9, <1>14, <1>15, <1>16 DEF InLayers

(* ... each of which records other events than the ones before it.         *)
LEMMA RecordedOnce ==
  ASSUME NEW steps, Queue(steps), NEW e, NEW k \in 1 .. Len(steps), e \in steps[k],
         \A m \in 1 .. Len(steps) : e \in steps[m] => m = k, e \in Events, NEW ev, NEW it
  PROVE  Recorded(ev, steps, it)[e] = <<it, k>>
<1>1. DOMAIN steps = 1 .. Len(steps)
  BY QueueFacts
<1>2. (CHOOSE i \in DOMAIN steps : e \in steps[i]) = k
  BY <1>1
<1>3. QED
  BY <1>1, <1>2 DEF Recorded

LEMMA IterationTimes ==
  ASSUME NEW cdecs \in BOOLEAN, NEW ev, NEW it
  PROVE  TimesOf(Recorded(ev, IterationEvents(cdecs), it), it)
<1>1. PICK n \in Nat \ {0} : n = NumLayers
  BY LayersAssumption
<1>2. PICK L \in Nat : L = LayerSteps(cdecs)
  BY DEF LayerSteps
<1>3. PICK steps, rec : steps = IterationEvents(cdecs) /\ rec = Recorded(ev, steps, it)
  OBVIOUS
<1>4. PICK N \in Nat : N = n * L
  OBVIOUS
<1>5. /\ Queue(steps) /\ Len(steps) = N + 6
      /\ steps[1] = {<<"frwd_s">>} /\ steps[2] = {<<"fstg_s">>} /\ steps[3] = {<<"mnbd_s">>}
      /\ steps[N + 4] = {<<"mnbd_e">>} /\ steps[N + 5] = {<<"lstg_e">>}
      /\ steps[N + 6] = {<<"frwd_e">>}
      /\ \A l \in 0 .. (n - 1) : \A j \in 1 .. L :
           l * L + j + 3 \in 1 .. (N + 6) /\ steps[l * L + j + 3] = ForwardEvents(l, cdecs)[j]
      /\ \A k \in 1 .. (N + 6) :
           \/ k \in {1, 2, 3, N + 4, N + 5, N + 6}
           \/ \E l \in 0 .. (n - 1) : \E j \in 1 .. L : k = l * L + j + 3
  <2>1. InLayers(steps, n, L, N, cdecs)
    BY <1>1, <1>2, <1>3, <1>4, IterationParts
  <2>2. QED
    BY <2>1 DEF InLayers
<1>6. ASSUME NEW l \in 0 .. (n - 1), NEW j \in 1 .. L, NEW e \in steps[l * L + j + 3]
      PROVE  /\ e = <<l, e[2], e[3]>> /\ <<e[2], e[3]>> \in LayerNames
             /\ LayerStep(cdecs, e[2], e[3]) = j
  <2>1. PICK q : q = ForwardEvents(l, cdecs)
    OBVIOUS
  <2>2. /\ Len(q) = L
        /\ \A i \in 1 .. Len(q) : \A x \in q[i] :
             /\ x = <<l, x[2], x[3]>> /\ <<x[2], x[3]>> \in LayerNames /\ LayerStep(cdecs, x[2], x[3]) = i
    BY <1>2, <2>1, ForwardRecords
  <2>3. e \in q[j]
    BY <1>5, <1>6, <2>1
  <2>4. QED
    BY <2>2, <2>3
<1>7. ASSUME NEW l \in 0 .. (n - 1), NEW s, NEW nm, <<s, nm>> \in LayerNames,
             NEW j, j = LayerStep(cdecs, s, nm)
      PROVE  j \in 1 .. L /\ rec[<<l, s, nm>>] = <<it, l * L + j + 3>>
  <2>1. j \in 1 .. L /\ <<l, s, nm>> \in ForwardEvents(l, cdecs)[j]
    <3>1. PICK q : q = ForwardEvents(l, cdecs)
      OBVIOUS
    <3>2. /\ Len(q) = L
          /\ \A p \in LayerNames : /\ LayerStep(cdecs, p[1], p[2]) \in 1 .. Len(q)
                                   /\ <<l, p[1], p[2]>> \in q[LayerStep(cdecs, p[1], p[2])]
      BY <1>2, <3>1, ForwardRecords
    <3>3. PICK p : p = <<s, nm>> /\ p \in LayerNames
      BY <1>7
    <3>4. p[1] = s /\ p[2] = nm
      BY <3>3
    <3>5. QED
      BY <1>7, <3>1, <3>2, <3>3, <3>4
  <2>2. PICK k \in 1 .. (N + 6) : k = l * L + j + 3 /\ <<l, s, nm>> \in steps[k]
    BY <1>5, <2>1
  <2>3. ASSUME NEW m \in 1 .. (N + 6), <<l, s, nm>> \in steps[m] PROVE m = k
    <3>1. m \notin {1, 2, 3, N + 4, N + 5, N + 6}
      BY <1>5, <2>3
    <3>2. PICK d \in 0 .. (n - 1) : \E i \in 1 .. L : m = d * L + i + 3
      BY <1>5, <3>1
    <3>3. PICK i \in 1 .. L : m = d * L + i + 3
      BY <3>2
    <3>4. PICK e : e = <<l, s, nm>>
      OBVIOUS
    <3>5. e = <<d, s, nm>> /\ LayerStep(cdecs, s, nm) = i
      <4>1. e[2] = s /\ e[3] = nm
        BY <3>4
      <4>2. QED
        BY <1>6, <2>3, <3>3, <3>4, <4>1
    <3>6. d = l /\ i = j
      <4>1. e[1] = l /\ e[1] = d
        BY <3>4, <3>5
      <4>2. QED
        BY <1>7, <3>5, <4>1
    <3>7. QED
      BY <2>2, <3>3, <3>6
  <2>4. <<l, s, nm>> \in Events
    BY <1>1, <1>7 DEF Events, TransformerEvents, LayerNames
  <2>5. PICK e : e = <<l, s, nm>>
    OBVIOUS
  <2>6. rec[e] = <<it, k>>
    <3>1. k \in 1 .. Len(steps) /\ \A m \in 1 .. Len(steps) : e \in steps[m] => m = k
      BY <1>5, <2>2, <2>3, <2>5
    <3>2. e \in steps[k] /\ e \in Events /\ Queue(steps)
      BY <1>5, <2>2, <2>4, <2>5
    <3>3. Recorded(ev, steps, it)[e] = <<it, k>>
      BY <3>1, <3>2, RecordedOnce
    <3>4. QED
      BY <1>3, <3>3
  <2>7. QED
    BY <2>1, <2>2, <2>5, <2>6
<1>8. ASSUME NEW e \in ModelEvents, NEW k \in {1, 2, 3, N + 4, N + 5, N + 6}, steps[k] = {e},
             \A m \in {1, 2, 3, N + 4, N + 5, N + 6} : m # k => e \notin steps[m]
      PROVE  rec[e] = <<it, k>>
  <2>1. k \in 1 .. (N + 6)
    OBVIOUS
  <2>2. ASSUME NEW m \in 1 .. (N + 6), e \in steps[m] PROVE m = k
    <3>1. SUFFICES ASSUME m \notin {1, 2, 3, N + 4, N + 5, N + 6} PROVE FALSE
      BY <1>8, <2>2
    <3>2. PICK d \in 0 .. (n - 1) : \E i \in 1 .. L : m = d * L + i + 3
      BY <1>5, <3>1
    <3>3. PICK i \in 1 .. L : m = d * L + i + 3
      BY <3>2
    <3>4. PICK nm : e = <<nm>>
      BY DEF ModelEvents
    <3>5. e = <<d, e[2], e[3]>>
      BY <1>6, <2>2, <3>3
    <3>6. Len(e) = 1 /\ Len(e) = 3
      <4>1. \A x, y, z : Len(<<x, y, z>>) = 3
        OBVIOUS
      <4>2. \A x : Len(<<x>>) = 1
        OBVIOUS
      <4>3. QED
        BY <3>4, <3>5, <4>1, <4>2, Zenon
    <3>7. QED
      BY <3>6
  <2>3. e \in Events
    BY DEF Events
  <2>4. k \in 1 .. Len(steps) /\ e \in steps[k] /\ \A m \in 1 .. Len(steps) : e \in steps[m] => m = k
    BY <1>5, <1>8, <2>1, <2>2
  <2>5. Recorded(ev, steps, it)[e] = <<it, k>>
    BY <1>5, <2>3, <2>4, RecordedOnce
  <2>6. QED
    BY <1>3, <2>5
<1>9. /\ rec[<<"frwd_s">>] = <<it, 1>> /\ rec[<<"fstg_s">>] = <<it, 2>> /\ rec[<<"mnbd_s">>] = <<it, 3>>
      /\ rec[<<"mnbd_e">>] = <<it, N + 4>> /\ rec[<<"lstg_e">>] = <<it, N + 5>>
      /\ rec[<<"frwd_e">>] = <<it, N + 6>>
  <2>1. PICK a, b, c, x, y, z :
          /\ a = <<"frwd_s">> /\ b = <<"fstg_s">> /\ c = <<"mnbd_s">>
          /\ x = <<"mnbd_e">> /\ y = <<"lstg_e">> /\ z = <<"frwd_e">>
    OBVIOUS
  <2>2. {a, b, c, x, y, z} \subseteq ModelEvents
    BY <2>1 DEF ModelEvents
  <2>3. /\ a # b /\ a # c /\ a # x /\ a # y /\ a # z /\ b # c /\ b # x /\ b # y /\ b # z
        /\ c # x /\ c # y /\ c # z /\ x # y /\ x # z /\ y # z
    BY <2>1
  <2>4. /\ steps[1] = {a} /\ steps[2] = {b} /\ steps[3] = {c}
        /\ steps[N + 4] = {x} /\ steps[N + 5] = {y} /\ steps[N + 6] = {z}
    BY <1>5, <2>1
  <2>5. rec[a] = <<it, 1>> /\ rec[b] = <<it, 2>> /\ rec[c] = <<it, 3>>
    BY <1>8, <2>2, <2>3, <2>4
  <2>6. rec[x] = <<it, N + 4>> /\ rec[y] = <<it, N + 5>> /\ rec[z] = <<it, N + 6>>
    BY <1>8, <2>2, <2>3, <2>4
  <2>7. QED
    BY <2>1, <2>5, <2>6
<1> DEFINE Good(p) == /\ Never \notin {rec[p[1]], rec[p[2]]}
                      /\ rec[p[1]][1] = it /\ rec[p[2]][1] = it /\ rec[p[1]][2] <= rec[p[2]][2]
<1>10. ASSUME NEW x, NEW y, NEW i \in Nat, NEW k \in Nat, i <= k, rec[x] = <<it, i>>, rec[y] = <<it, k>>
       PROVE  Good(<<x, y>>)
  <2>1. <<it, i>> # Never /\ <<it, k>> # Never
    BY DEF Never
  <2>2. PICK p : p = <<x, y>>
    OBVIOUS
  <2>3. p[1] = x /\ p[2] = y
    BY <2>2
  <2>4. PICK a, b : a = <<it, i>> /\ b = <<it, k>>
    OBVIOUS
  <2>5. a[1] = it /\ b[1] = it /\ a[2] = i /\ b[2] = k
    BY <2>4
  <2>6. Good(p)
    BY <1>10, <2>1, <2>3, <2>4, <2>5
  <2> HIDE DEF Good
  <2>7. QED
    BY <2>2, <2>6
<1>11. ASSUME NEW p \in ModelTimes PROVE Good(p)
  <2>1. /\ Good(<<<<"frwd_s">>, <<"fstg_s">>>>) /\ Good(<<<<"fstg_s">>, <<"mnbd_s">>>>)
        /\ Good(<<<<"mnbd_s">>, <<"mnbd_e">>>>) /\ Good(<<<<"mnbd_e">>, <<"lstg_e">>>>)
        /\ Good(<<<<"lstg_e">>, <<"frwd_e">>>>)
    <3>1. 1 <= 2 /\ 2 <= 3 /\ 3 <= N + 4 /\ N + 4 <= N + 5 /\ N + 5 <= N + 6 /\ N + 4 \in Nat /\ N + 5 \in Nat /\ N + 6 \in Nat
      OBVIOUS
    <3> HIDE DEF Good
    <3>2. QED
      BY <1>9, <1>10, <3>1
  <2> HIDE DEF Good
  <2>2. QED
    BY <2>1 DEF ModelTimes
<1>12. ASSUME NEW l \in 0 .. (n - 1), NEW p \in LayerTimes(l) PROVE Good(p)
  <2>1. ASSUME NEW s, NEW a, NEW r, NEW b, <<s, a>> \in LayerNames, <<r, b>> \in LayerNames,
               LayerStep(cdecs, s, a) <= LayerStep(cdecs, r, b)
        PROVE  Good(<<<<l, s, a>>, <<l, r, b>>>>)
    <3>1. PICK i, k : i = LayerStep(cdecs, s, a) /\ k = LayerStep(cdecs, r, b)
      OBVIOUS
    <3>2. /\ i \in 1 .. L /\ rec[<<l, s, a>>] = <<it, l * L + i + 3>>
          /\ k \in 1 .. L /\ rec[<<l, r, b>>] = <<it, l * L + k + 3>>
      BY <1>7, <2>1, <3>1
    <3>3. PICK m \in Nat : m = l * L
      OBVIOUS
    <3>4. m + i + 3 \in Nat /\ m + k + 3 \in Nat /\ m + i + 3 <= m + k + 3
      BY <2>1, <3>1, <3>2
    <3> HIDE DEF Good
    <3>5. QED
      BY <1>10, <3>2, <3>3, <3>4
  <2>2. /\ LayerStep(cdecs, 0, "stage_s") = 1 /\ LayerStep(cdecs, 0, "linr_e") = 3
        /\ LayerStep(cdecs, 0, "pref_e") = 4 /\ LayerStep(cdecs, 0, "gdec_e") = 5
        /\ LayerStep(cdecs, 0, "lnch_s") = 2 /\ LayerStep(cdecs, 0, "lnch_m") = 6
        /\ LayerStep(cdecs, 1, "stage_s") <= LayerStep(cdecs, 1, "linr_e")
        /\ LayerStep(cdecs, 0, "cdec_s") <= LayerStep(cdecs, 0, "cdec_e")
        /\ LayerStep(cdecs, 0, "cdec_e") <= LayerStep(cdecs, 0, "lnch_e")
    <3>1. CASE cdecs = TRUE
      BY <3>1 DEF LayerStep, LayerSteps
    <3>2. CASE cdecs = FALSE
      BY <3>2 DEF LayerStep, LayerSteps
    <3>3. QED
      BY <3>1, <3>2
  <2>3. /\ LayerStep(cdecs, 0, "stage_s") <= LayerStep(cdecs, 0, "linr_e")
        /\ LayerStep(cdecs, 0, "linr_e") <= LayerStep(cdecs, 0, "pref_e")
        /\ LayerStep(cdecs, 0, "pref_e") <= LayerStep(cdecs, 0, "gdec_e")
        /\ LayerStep(cdecs, 0, "lnch_s") <= LayerStep(cdecs, 0, "lnch_m")
    BY <2>2
  <2> HIDE DEF Good
  <2>4. /\ Good(<<<<l, 0, "stage_s">>, <<l, 0, "linr_e">>>>) /\ Good(<<<<l, 1, "stage_s">>, <<l, 1, "linr_e">>>>)
        /\ Good(<<<<l, 0, "linr_e">>, <<l, 0, "pref_e">>>>) /\ Good(<<<<l, 0, "pref_e">>, <<l, 0, "gdec_e">>>>)
        /\ Good(<<<<l, 0, "cdec_s">>, <<l, 0, "cdec_e">>>>)
        /\ Good(<<<<l, 0, "lnch_s">>, <<l, 0, "lnch_m">>>>) /\ Good(<<<<l, 0, "cdec_e">>, <<l, 0, "lnch_e">>>>)
    BY <2>1, <2>2, <2>3, NamesOfLayer
  <2>5. QED
    BY <2>4 DEF LayerTimes
<1>13. QED
  <2>1. ASSUME NEW p \in PerfTimes PROVE Good(p)
    BY <1>1, <1>11, <1>12 DEF PerfTimes
  <2>2. QED
    BY <1>3, <2>1 DEF TimesOf
(* ... which is where the sample's own result is read.                     *)
Timed(sample) == Measured(Repeated(NRepeat, sample))

-----------------------------------------------------------------------------
(* Part VI.  How the placeholders are filled: of the cells C, those of one *)
(* kind from three others each, a, b and c, that lie nearer.               *)
Fill(z, raw, kind, a, b, c, p) ==
  IF raw[p].kind # kind THEN raw[p] ELSE Combine(z[a[p]], z[b[p]], z[c[p]])

Nearer(C, raw, kind, a, b, c, far) ==
  \A p \in C : raw[p].kind = kind =>
    /\ a[p] \in C /\ b[p] \in C /\ c[p] \in C
    /\ far[a[p]] < far[p] /\ far[b[p]] < far[p] /\ far[c[p]] < far[p]

LEMMA FillExists ==
  ASSUME NEW C, NEW raw, NEW kind, NEW a, NEW b, NEW c, NEW far, NEW M \in Nat,
         \A p \in C : far[p] \in 0 .. M, Nearer(C, raw, kind, a, b, c, far)
  PROVE  \E z : z = [p \in C |-> Fill(z, raw, kind, a, b, c, p)]
<1> DEFINE Upto(z, m) == \A p \in C : far[p] < m => z[p] = Fill(z, raw, kind, a, b, c, p)
           T == {m \in Nat : ~ \E z : Upto(z, m)}
<1>1. T = {}
  <2>1. SUFFICES ASSUME T # {} PROVE FALSE
    OBVIOUS
  <2>2. T \in SUBSET Nat
    OBVIOUS
  <2>3. PICK m \in T : \A k \in T : m <= k
    <3> HIDE DEF T
    <3>1. QED
      BY <2>1, <2>2, Least
  <2>4. m \in Nat /\ ~ \E z : Upto(z, m)
    OBVIOUS
  <2>5. m # 0
    <3>1. SUFFICES ASSUME m = 0 PROVE Upto(raw, m)
      BY <2>4
    <3>2. \A p \in C : ~(far[p] < m)
      BY <3>1
    <3>3. QED
      BY <3>2
  <2>6. PICK k \in Nat : m = k + 1 /\ ~(m <= k)
    <3>1. m - 1 \in Nat /\ m = (m - 1) + 1 /\ ~(m <= m - 1)
      BY <2>4, <2>5
    <3>2. QED
      BY <3>1
  <2>7. PICK z : Upto(z, k)
    <3>1. k \notin T
      <4> HIDE DEF T
      <4>1. QED
        BY <2>3, <2>6
    <3>2. QED
      BY <3>1
  <2>8. PICK g : g = [p \in C |-> Fill(z, raw, kind, a, b, c, p)]
    OBVIOUS
  <2>9. ASSUME NEW p \in C, far[p] < m PROVE g[p] = Fill(g, raw, kind, a, b, c, p)
    <3>1. g[p] = Fill(z, raw, kind, a, b, c, p)
      BY <2>8
    <3>2. CASE raw[p].kind # kind
      BY <3>1, <3>2 DEF Fill
    <3>3. CASE raw[p].kind = kind
      <4>1. /\ a[p] \in C /\ b[p] \in C /\ c[p] \in C
            /\ far[a[p]] < far[p] /\ far[b[p]] < far[p] /\ far[c[p]] < far[p]
        BY <3>3 DEF Nearer
      <4>2. ASSUME NEW q \in C, far[q] < far[p] PROVE g[q] = z[q]
        <5>1. far[p] \in Nat /\ far[q] \in Nat
          OBVIOUS
        <5>2. far[q] < k
          BY <2>6, <2>9, <4>2, <5>1
        <5>3. z[q] = Fill(z, raw, kind, a, b, c, q)
          BY <2>7, <5>2
        <5>4. QED
          BY <2>8, <5>3
      <4>3. g[a[p]] = z[a[p]] /\ g[b[p]] = z[b[p]] /\ g[c[p]] = z[c[p]]
        BY <4>1, <4>2
      <4>4. QED
        BY <3>1, <4>3 DEF Fill
    <3>4. QED
      BY <3>2, <3>3
  <2>10. QED
    BY <2>4, <2>9
<1>2. PICK z : Upto(z, M + 1)
  <2>1. M + 1 \in Nat /\ M + 1 \notin T
    <3> HIDE DEF T
    <3>1. QED
      BY <1>1
  <2>2. QED
    BY <2>1
<1>3. PICK g : g = [p \in C |-> z[p]]
  OBVIOUS
<1>4. \A p \in C : z[p] = Fill(z, raw, kind, a, b, c, p)
  <2>1. \A p \in C : far[p] < M + 1
    OBVIOUS
  <2>2. QED
    BY <1>2, <2>1
<1>5. \A p \in C : g[p] = z[p] /\ Fill(g, raw, kind, a, b, c, p) = Fill(z, raw, kind, a, b, c, p)
  BY <1>3 DEF Fill, Nearer
<1>6. g = [p \in C |-> Fill(g, raw, kind, a, b, c, p)]
  BY <1>3, <1>4, <1>5
<1>7. QED
  BY <1>6

(* Cells filled from times, or from cells that are filled themselves, get  *)
(* times.                                                                  *)
Known(C, raw, kind, a, b, c) ==
  \A p \in C : raw[p].kind = kind =>
    \A q \in {a[p], b[p], c[p]} : raw[q].kind \in {"measured", "extrapolated", kind}

LEMMA FillTimes ==
  ASSUME NEW C, NEW raw, NEW kind, NEW a, NEW b, NEW c, NEW far,
         \A p \in C : far[p] \in Nat, Nearer(C, raw, kind, a, b, c, far), Known(C, raw, kind, a, b, c),
         NEW z, \A p \in C : z[p] = Fill(z, raw, kind, a, b, c, p)
  PROVE  \A p \in C : z[p] = IF raw[p].kind = kind THEN Mark("extrapolated") ELSE raw[p]
<1> DEFINE Right(p) == z[p] = IF raw[p].kind = kind THEN Mark("extrapolated") ELSE raw[p]
           T == {m \in Nat : \E p \in C : far[p] = m /\ ~Right(p)}
<1>1. T = {}
  <2>1. SUFFICES ASSUME T # {} PROVE FALSE
    OBVIOUS
  <2>2. T \in SUBSET Nat
    OBVIOUS
  <2>3. PICK m \in T : \A k \in T : m <= k
    <3> HIDE DEF T
    <3>1. QED
      BY <2>1, <2>2, Least
  <2>4. PICK p \in C : far[p] = m /\ ~Right(p)
    OBVIOUS
  <2>5. z[p] = Fill(z, raw, kind, a, b, c, p)
    OBVIOUS
  <2>6. raw[p].kind = kind
    BY <2>4, <2>5 DEF Fill
  <2>7. /\ a[p] \in C /\ b[p] \in C /\ c[p] \in C
        /\ far[a[p]] < far[p] /\ far[b[p]] < far[p] /\ far[c[p]] < far[p]
    BY <2>6 DEF Nearer
  <2>8. ASSUME NEW q \in C, far[q] < far[p], raw[q].kind \in {"measured", "extrapolated", kind}
        PROVE  z[q].kind \in {"measured", "extrapolated"}
    <3>1. PICK k \in Nat : k = far[q] /\ ~(m <= k)
      <4>1. far[q] \in Nat /\ far[p] \in Nat /\ far[p] = m
        BY <2>4
      <4>2. QED
        BY <2>8, <4>1
    <3>2. k \notin T
      <4> HIDE DEF T
      <4>1. QED
        BY <2>3, <3>1
    <3>3. Right(q)
      BY <3>1, <3>2
    <3>4. Mark("extrapolated").kind = "extrapolated"
      BY DEF Mark
    <3>5. QED
      BY <2>8, <3>3, <3>4
  <2>9. /\ z[a[p]].kind \in {"measured", "extrapolated"} /\ z[b[p]].kind \in {"measured", "extrapolated"}
        /\ z[c[p]].kind \in {"measured", "extrapolated"}
    BY <2>6, <2>7, <2>8 DEF Known
  <2>10. Combine(z[a[p]], z[b[p]], z[c[p]]) = Mark("extrapolated")
    BY <2>9 DEF Combine
  <2>11. QED
    BY <2>4, <2>5, <2>6, <2>10 DEF Fill
<1>2. ASSUME NEW p \in C PROVE Right(p)
  <2>1. far[p] \notin T
    <3> HIDE DEF T
    <3>1. QED
      BY <1>1
  <2>2. QED
    BY <2>1
<1>3. QED
  BY <1>2

-----------------------------------------------------------------------------
(* Part VII.  The cdec table.  What a cell holds when it is filled: ...    *)
CellTime(i, j) ==
  IF Placeholder(i, j) = Mark("none") THEN Timed(<<CdecSList(conf)[i], CdecAgg(conf)[j]>>)
  ELSE Placeholder(i, j)

FirstOf(i) == CdecSList(conf)[i] * conf.block_size

LastOf(i) == Smaller(CdecSList(conf)[i] * MaxSeqLen(conf), MaxCpuTokens(conf))

LEMMA CellKinds ==
  ASSUME Legal(conf), NEW i \in 1 .. Len(CdecSList(conf)), NEW j, NEW v, v = CellTime(i, j)
  PROVE  /\ v.kind \in {"zero", "inf", "measured"}
         /\ v.kind = "zero" <=> CdecAgg(conf)[j] < FirstOf(i)
         /\ v.kind = "inf" <=> ~(CdecAgg(conf)[j] < FirstOf(i)) /\ CdecAgg(conf)[j] > LastOf(i)
         /\ v.kind = "measured" => v = Timed(<<CdecSList(conf)[i], CdecAgg(conf)[j]>>)
<1>1. PICK N, a, b : N = CdecAgg(conf)[j] /\ a = FirstOf(i) /\ b = LastOf(i)
  OBVIOUS
<1>2. PICK row : row = CdecNLists(conf)[i] /\ row[1] = a /\ Last(row) = b
  BY <1>1, RowSizes DEF FirstOf, LastOf
<1>3. Placeholder(i, j) = Mark(IF N < a THEN "zero" ELSE IF N > b THEN "inf" ELSE "none")
  BY <1>1, <1>2 DEF Placeholder
<1>4. Mark("zero").kind = "zero" /\ Mark("inf").kind = "inf" /\ Mark("none").kind = "none"
  BY DEF Mark
<1>5. PICK tm : tm = Timed(<<CdecSList(conf)[i], CdecAgg(conf)[j]>>) /\ tm.kind = "measured"
  <2>1. Timed(<<CdecSList(conf)[i], CdecAgg(conf)[j]>>).kind = "measured"
    BY DEF Timed, Measured
  <2>2. QED
    BY <2>1
<1>6. v = IF Placeholder(i, j) = Mark("none") THEN tm ELSE Placeholder(i, j)
  BY <1>5 DEF CellTime
<1>7. CASE N < a
  <2>1. v = Mark("zero")
    BY <1>3, <1>4, <1>6, <1>7
  <2>2. QED
    BY <1>1, <1>4, <1>7, <2>1
<1>8. CASE ~(N < a) /\ N > b
  <2>1. v = Mark("inf")
    BY <1>3, <1>4, <1>6, <1>8
  <2>2. QED
    BY <1>1, <1>4, <1>8, <2>1
<1>9. CASE ~(N < a) /\ ~(N > b)
  <2>1. v = tm
    BY <1>3, <1>6, <1>9
  <2>2. QED
    BY <1>1, <1>5, <1>9, <2>1
<1>10. QED
  BY <1>7, <1>8, <1>9

(* ... and the columns reach where a row begins.                           *)
LEMMA RowBegins ==
  ASSUME Legal(conf), NEW i \in 1 .. Len(CdecSList(conf))
  PROVE  /\ FirstOf(i) \in Nat /\ LastOf(i) \in Nat
         /\ \E m \in 1 .. Len(CdecAgg(conf)) : CdecAgg(conf)[m] = FirstOf(i)
<1>1. PICK row : row = CdecNLists(conf)[i] /\ Sizes(row) /\ Len(row) > 0 /\ row[1] = FirstOf(i) /\ Last(row) = LastOf(i)
  BY RowSizes DEF FirstOf, LastOf
<1>2. Len(row) \in Nat
  BY <1>1, QueueFacts DEF Sizes
<1>3. 1 \in 1 .. Len(row) /\ Len(row) \in 1 .. Len(row)
  BY <1>1, <1>2
<1>4. row[1] \in Nat /\ Last(row) \in Nat
  BY <1>1, <1>3 DEF Sizes, Last
<1>5. \E m \in 1 .. Len(CdecAgg(conf)) : CdecAgg(conf)[m] = row[1]
  <2>1. \A k \in 1 .. Len(CdecNLists(conf)[i]) :
          \E m \in 1 .. Len(CdecAgg(conf)) : CdecAgg(conf)[m] = CdecNLists(conf)[i][k]
    BY CdecAggRises
  <2>2. QED
    BY <1>1, <1>3, <2>1
<1>6. QED
  BY <1>1, <1>4, <1>5

(* The cells as functions.                                                 *)
Raw == [p \in CdecCells |-> RawTime(p[1], p[2])]

Above == [p \in CdecCells |-> <<p[1] - 1, p[2]>>]
RightOf == [p \in CdecCells |-> <<p[1], p[2] + 1>>]
AboveRight == [p \in CdecCells |-> <<p[1] - 1, p[2] + 1>>]
Below == [p \in CdecCells |-> <<p[1] + 1, p[2]>>]
LeftOf == [p \in CdecCells |-> <<p[1], p[2] - 1>>]
BelowLeft == [p \in CdecCells |-> <<p[1] + 1, p[2] - 1>>]

ZerosInside == \A p \in CdecCells : Raw[p].kind = "zero" => p[1] > 1 /\ p[2] < Len(CdecAgg(conf))

InfsInside == \A p \in CdecCells : ZeroFilled[p].kind = "inf" => p[1] < Len(CdecSList(conf)) /\ p[2] > 1

FarZero == [p \in CdecCells |-> p[1] + (Len(CdecAgg(conf)) - p[2])]
FarInf == [p \in CdecCells |-> p[2] + (Len(CdecSList(conf)) - p[1])]

LEMMA Grid ==
  ASSUME Legal(conf)
  PROVE  \E n \in Nat \ {0}, w \in Nat \ {0} :
           /\ n = Len(CdecSList(conf)) /\ w = Len(CdecAgg(conf)) /\ CdecCells = (1 .. n) \X (1 .. w)
           /\ \A p \in CdecCells : /\ p[1] \in 1 .. n /\ p[2] \in 1 .. w /\ p = <<p[1], p[2]>>
                                   /\ FarZero[p] \in 0 .. (n + w) /\ FarInf[p] \in 0 .. (n + w)
<1>1. PICK n \in Nat \ {0}, w \in Nat \ {0} : n = Len(CdecSList(conf)) /\ w = Len(CdecAgg(conf))
  BY CdecSRises, CdecAggRises, QueueFacts DEF Rising
<1>2. CdecCells = (1 .. n) \X (1 .. w)
  BY <1>1 DEF CdecCells
<1>3. \A p \in CdecCells : p[1] \in 1 .. n /\ p[2] \in 1 .. w /\ p = <<p[1], p[2]>>
  BY <1>2
<1>4. \A p \in CdecCells : FarZero[p] = p[1] + (w - p[2]) /\ FarInf[p] = p[2] + (n - p[1])
  BY <1>1 DEF FarZero, FarInf
<1>5. \A a \in 1 .. n, b \in 1 .. w : a + (w - b) \in 0 .. (n + w) /\ b + (n - a) \in 0 .. (n + w)
  OBVIOUS
<1>6. \A p \in CdecCells : FarZero[p] \in 0 .. (n + w) /\ FarInf[p] \in 0 .. (n + w)
  <2>1. ASSUME NEW p \in CdecCells PROVE FarZero[p] \in 0 .. (n + w) /\ FarInf[p] \in 0 .. (n + w)
    <3>1. PICK a \in 1 .. n, b \in 1 .. w : a = p[1] /\ b = p[2]
      BY <1>3
    <3>2. QED
      BY <1>4, <1>5, <3>1
  <2>2. QED
    BY <2>1
<1>7. QED
  BY <1>1, <1>2, <1>3, <1>6

LEMMA GridSize ==
  ASSUME Legal(conf)
  PROVE  Len(CdecSList(conf)) \in Nat \ {0} /\ Len(CdecAgg(conf)) \in Nat \ {0}
BY Grid

LEMMA Neighbours ==
  ASSUME Legal(conf)
  PROVE  /\ ZerosInside => Nearer(CdecCells, Raw, "zero", Above, RightOf, AboveRight, FarZero)
         /\ InfsInside => Nearer(CdecCells, ZeroFilled, "inf", Below, LeftOf, BelowLeft, FarInf)
<1>1. PICK n \in Nat \ {0}, w \in Nat \ {0} :
        /\ n = Len(CdecSList(conf)) /\ w = Len(CdecAgg(conf)) /\ CdecCells = (1 .. n) \X (1 .. w)
        /\ \A p \in CdecCells : p[1] \in 1 .. n /\ p[2] \in 1 .. w /\ p = <<p[1], p[2]>>
  BY Grid
<1>2. ASSUME NEW i \in 1 .. n, NEW j \in 1 .. w, NEW p, p = <<i, j>>
      PROVE  /\ p \in CdecCells /\ FarZero[p] = i + (w - j) /\ FarInf[p] = j + (n - i)
             /\ Above[p] = <<i - 1, j>> /\ RightOf[p] = <<i, j + 1>> /\ AboveRight[p] = <<i - 1, j + 1>>
             /\ Below[p] = <<i + 1, j>> /\ LeftOf[p] = <<i, j - 1>> /\ BelowLeft[p] = <<i + 1, j - 1>>
  <2>1. p \in CdecCells /\ p[1] = i /\ p[2] = j
    BY <1>1, <1>2
  <2>2. QED
    BY <1>1, <2>1 DEF FarZero, FarInf, Above, RightOf, AboveRight, Below, LeftOf, BelowLeft
<1>3. ASSUME ZerosInside, NEW p \in CdecCells, Raw[p].kind = "zero"
      PROVE  /\ Above[p] \in CdecCells /\ RightOf[p] \in CdecCells /\ AboveRight[p] \in CdecCells
             /\ FarZero[Above[p]] < FarZero[p] /\ FarZero[RightOf[p]] < FarZero[p]
             /\ FarZero[AboveRight[p]] < FarZero[p]
  <2>1. PICK i \in 1 .. n, j \in 1 .. w : p = <<i, j>> /\ i > 1 /\ j < w
    BY <1>1, <1>3 DEF ZerosInside
  <2>2. i - 1 \in 1 .. n /\ j + 1 \in 1 .. w
    BY <2>1
  <2>3. /\ FarZero[p] = i + (w - j) /\ Above[p] = <<i - 1, j>> /\ RightOf[p] = <<i, j + 1>>
        /\ AboveRight[p] = <<i - 1, j + 1>>
    BY <1>2, <2>1
  <2>4. /\ Above[p] \in CdecCells /\ FarZero[Above[p]] = (i - 1) + (w - j)
        /\ RightOf[p] \in CdecCells /\ FarZero[RightOf[p]] = i + (w - (j + 1))
        /\ AboveRight[p] \in CdecCells /\ FarZero[AboveRight[p]] = (i - 1) + (w - (j + 1))
    BY <1>2, <2>2, <2>3
  <2>5. QED
    BY <2>3, <2>4
<1>4. ASSUME InfsInside, NEW p \in CdecCells, ZeroFilled[p].kind = "inf"
      PROVE  /\ Below[p] \in CdecCells /\ LeftOf[p] \in CdecCells /\ BelowLeft[p] \in CdecCells
             /\ FarInf[Below[p]] < FarInf[p] /\ FarInf[LeftOf[p]] < FarInf[p]
             /\ FarInf[BelowLeft[p]] < FarInf[p]
  <2>1. PICK i \in 1 .. n, j \in 1 .. w : p = <<i, j>> /\ i < n /\ j > 1
    BY <1>1, <1>4 DEF InfsInside
  <2>2. i + 1 \in 1 .. n /\ j - 1 \in 1 .. w
    BY <2>1
  <2>3. /\ FarInf[p] = j + (n - i) /\ Below[p] = <<i + 1, j>> /\ LeftOf[p] = <<i, j - 1>>
        /\ BelowLeft[p] = <<i + 1, j - 1>>
    BY <1>2, <2>1
  <2>4. /\ Below[p] \in CdecCells /\ FarInf[Below[p]] = j + (n - (i + 1))
        /\ LeftOf[p] \in CdecCells /\ FarInf[LeftOf[p]] = (j - 1) + (n - i)
        /\ BelowLeft[p] \in CdecCells /\ FarInf[BelowLeft[p]] = (j - 1) + (n - (i + 1))
    BY <1>2, <2>2, <2>3
  <2>5. QED
    BY <2>3, <2>4
<1>5. QED
  BY <1>3, <1>4 DEF Nearer

(* The two fillings of the source are fillings of this kind, ...           *)
LEMMA ZeroFills ==
  ASSUME Legal(conf), ZerosInside
  PROVE  /\ ZeroFilled = [p \in CdecCells |-> ZeroFilled[p]]
         /\ \A p \in CdecCells : ZeroFilled[p] = Fill(ZeroFilled, Raw, "zero", Above, RightOf, AboveRight, p)
<1>1. \A p \in CdecCells : /\ Raw[p] = RawTime(p[1], p[2]) /\ Above[p] = <<p[1] - 1, p[2]>>
                           /\ RightOf[p] = <<p[1], p[2] + 1>> /\ AboveRight[p] = <<p[1] - 1, p[2] + 1>>
  BY DEF Raw, Above, RightOf, AboveRight
<1> DEFINE Body(z, p) ==
             IF RawTime(p[1], p[2]).kind # "zero" THEN RawTime(p[1], p[2])
             ELSE Combine(z[<<p[1] - 1, p[2]>>], z[<<p[1], p[2] + 1>>], z[<<p[1] - 1, p[2] + 1>>])
<1>2. \A z : \A p \in CdecCells : Body(z, p) = Fill(z, Raw, "zero", Above, RightOf, AboveRight, p)
  BY <1>1 DEF Fill
<1>3. ZeroFilled = CHOOSE z : z = [p \in CdecCells |-> Body(z, p)]
  BY DEF ZeroFilled
<1>4. PICK g : g = [p \in CdecCells |-> Fill(g, Raw, "zero", Above, RightOf, AboveRight, p)]
  <2>1. PICK M \in Nat : \A p \in CdecCells : FarZero[p] \in 0 .. M
    <3>1. PICK n \in Nat, w \in Nat : \A p \in CdecCells : FarZero[p] \in 0 .. (n + w)
      BY Grid
    <3>2. n + w \in Nat
      OBVIOUS
    <3>3. QED
      BY <3>1, <3>2
  <2>2. QED
    BY <2>1, Neighbours, FillExists
<1> HIDE DEF Body
<1>5. g = [p \in CdecCells |-> Body(g, p)]
  BY <1>2, <1>4
<1>6. ZeroFilled = [p \in CdecCells |-> Body(ZeroFilled, p)]
  BY <1>3, <1>5
<1>7. \A p \in CdecCells : ZeroFilled[p] = Body(ZeroFilled, p)
  BY <1>6
<1>8. QED
  BY <1>2, <1>6, <1>7

LEMMA InfFills ==
  ASSUME Legal(conf), InfsInside
  PROVE  \A p \in CdecCells : InfFilled[p] = Fill(InfFilled, ZeroFilled, "inf", Below, LeftOf, BelowLeft, p)
<1>0. PICK zf : zf = ZeroFilled
  OBVIOUS
<1>1. \A p \in CdecCells : /\ Below[p] = <<p[1] + 1, p[2]>> /\ LeftOf[p] = <<p[1], p[2] - 1>>
                           /\ BelowLeft[p] = <<p[1] + 1, p[2] - 1>>
  BY DEF Below, LeftOf, BelowLeft
<1> DEFINE Body(f, p) ==
             IF zf[p].kind # "inf" THEN zf[p]
             ELSE Combine(f[<<p[1] + 1, p[2]>>], f[<<p[1], p[2] - 1>>], f[<<p[1] + 1, p[2] - 1>>])
<1>2. \A f : \A p \in CdecCells : Body(f, p) = Fill(f, zf, "inf", Below, LeftOf, BelowLeft, p)
  BY <1>1 DEF Fill
<1>3. InfFilled = CHOOSE f : f = [p \in CdecCells |-> Body(f, p)]
  BY <1>0 DEF InfFilled
<1>4. PICK g : g = [p \in CdecCells |-> Fill(g, zf, "inf", Below, LeftOf, BelowLeft, p)]
  <2>1. PICK M \in Nat : \A p \in CdecCells : FarInf[p] \in 0 .. M
    <3>1. PICK n \in Nat, w \in Nat : \A p \in CdecCells : FarInf[p] \in 0 .. (n + w)
      BY Grid
    <3>2. n + w \in Nat
      OBVIOUS
    <3>3. QED
      BY <3>1, <3>2
  <2>2. Nearer(CdecCells, zf, "inf", Below, LeftOf, BelowLeft, FarInf)
    BY <1>0, Neighbours
  <2>3. QED
    BY <2>1, <2>2, FillExists
<1> HIDE DEF Body
<1>5. g = [p \in CdecCells |-> Body(g, p)]
  BY <1>2, <1>4
<1>6. InfFilled = [p \in CdecCells |-> Body(InfFilled, p)]
  BY <1>3, <1>5
<1>7. \A p \in CdecCells : InfFilled[p] = Body(InfFilled, p)
  BY <1>6
<1>8. QED
  BY <1>0, <1>2, <1>7

(* ... that end well: where the longest sequences have two blocks a row    *)
(* reaches the first sample of the next, as the last row has one.          *)
AllTimed ==
  \A i \in 1 .. Len(CdecSList(conf)) : \A j \in 1 .. Len(CdecAgg(conf)) : RawTime(i, j) = CellTime(i, j)

LEMMA RowsReach ==
  ASSUME Legal(conf), conf.max_blocks_per_seq >= 2,
         FirstOf(Len(CdecSList(conf))) <= LastOf(Len(CdecSList(conf))),
         NEW i \in 1 .. Len(CdecSList(conf)), i > 1
  PROVE  FirstOf(i) <= LastOf(i) /\ FirstOf(i) <= LastOf(i - 1)
<1>1. PICK n \in Nat, b \in Nat \ {0}, m \in Nat, cpu \in Nat :
        /\ n = Len(CdecSList(conf)) /\ n > 0 /\ b = conf.block_size /\ m = conf.max_blocks_per_seq /\ m >= 2
        /\ cpu = MaxCpuTokens(conf)
  <2>1. Len(CdecSList(conf)) \in Nat /\ Len(CdecSList(conf)) > 0
    BY CdecSRises, QueueFacts DEF Rising
  <2>2. MaxCpuTokens(conf) \in Nat
    BY DEF Legal, MaxCpuTokens
  <2>3. QED
    BY <2>1, <2>2 DEF Legal
<1>2. n \in 1 .. n /\ i - 1 \in 1 .. n
  BY <1>1
<1>3. PICK s \in Nat, r \in Nat, B \in Nat :
        /\ s = CdecSList(conf)[i] /\ r = CdecSList(conf)[i - 1] /\ B = CdecSList(conf)[n]
        /\ s <= 2 * r /\ s <= B
  <2>1. CdecSList(conf)[i] \in Nat /\ CdecSList(conf)[i - 1] \in Nat /\ CdecSList(conf)[n] \in Nat
    BY <1>1, <1>2, CdecSRises
  <2>2. CdecSList(conf)[i] <= 2 * CdecSList(conf)[i - 1]
    BY CdecSRises
  <2>3. CdecSList(conf)[i] <= CdecSList(conf)[n]
    <3>1. i <= n
      BY <1>1
    <3>2. QED
      BY <1>1, <1>2, <3>1, CdecSRises, RisingOrder
  <2>4. QED
    BY <2>1, <2>2, <2>3
<1>4. PICK L \in Nat : L = b * m /\ L >= 2 * b
  <2>1. PICK k \in Nat : m = 2 + k
    <3>1. m - 2 \in Nat /\ m = 2 + (m - 2)
      BY <1>1
    <3>2. QED
      BY <3>1
  <2>2. b * m = 2 * b + b * k /\ b * k \in Nat /\ b * m \in Nat
    BY <2>1
  <2>3. QED
    BY <2>2
<1>5. MaxSeqLen(conf) = L
  BY <1>1, <1>4 DEF MaxSeqLen
<1>6. PICK x \in Nat, y \in Nat : x = s * b /\ y = B * b /\ x <= y
  <2>1. PICK k \in Nat : B = s + k
    <3>1. B - s \in Nat /\ B = s + (B - s)
      BY <1>3
    <3>2. QED
      BY <3>1
  <2>2. B * b = s * b + k * b /\ k * b \in Nat /\ s * b \in Nat /\ B * b \in Nat
    BY <2>1
  <2>3. QED
    BY <2>2
<1>7. y <= cpu
  <2>1. PICK z \in Nat : z = B * L
    BY <1>3, <1>4
  <2>2. FirstOf(n) = y /\ LastOf(n) = Smaller(z, cpu)
    BY <1>1, <1>3, <1>5, <1>6, <2>1 DEF FirstOf, LastOf
  <2>3. y <= Smaller(z, cpu)
    BY <1>1, <2>2
  <2>4. QED
    BY <2>3 DEF Smaller
<1>8. PICK u \in Nat, v \in Nat : u = s * L /\ v = r * L /\ x <= u /\ x <= v
  <2>1. PICK k \in Nat : L = 2 * b + k
    <3>1. L - 2 * b \in Nat /\ L = 2 * b + (L - 2 * b)
      BY <1>4
    <3>2. QED
      BY <3>1
  <2>2. PICK h \in Nat : 2 * r = s + h
    <3>1. 2 * r - s \in Nat /\ 2 * r = s + (2 * r - s)
      BY <1>3
    <3>2. QED
      BY <3>1
  <2>3. s * L = 2 * (s * b) + s * k /\ s * k \in Nat /\ s * L \in Nat /\ s * b \in Nat
    BY <2>1
  <2>4. r * L = (2 * r) * b + r * k /\ r * k \in Nat /\ r * L \in Nat
    BY <2>1
  <2>5. (2 * r) * b = s * b + h * b /\ h * b \in Nat
    BY <2>2
  <2>6. QED
    BY <1>6, <2>3, <2>4, <2>5
<1>9. FirstOf(i) = x /\ LastOf(i) = Smaller(u, cpu) /\ LastOf(i - 1) = Smaller(v, cpu)
  BY <1>1, <1>3, <1>5, <1>6, <1>8 DEF FirstOf, LastOf
<1>10. x <= cpu
  BY <1>6, <1>7
<1>11. QED
  BY <1>8, <1>9, <1>10 DEF Smaller

LEMMA CellsFilled ==
  ASSUME Legal(conf), conf.max_blocks_per_seq >= 2, AllTimed, FillAsserts
  PROVE  \A i \in 1 .. Len(CdecSList(conf)) : \A j \in 1 .. Len(CdecAgg(conf)) :
           InfFilled[<<i, j>>] \in {Mark("extrapolated"), Timed(<<CdecSList(conf)[i], CdecAgg(conf)[j]>>)}
<1>1. PICK n \in Nat \ {0}, w \in Nat \ {0} :
        /\ n = Len(CdecSList(conf)) /\ w = Len(CdecAgg(conf)) /\ CdecCells = (1 .. n) \X (1 .. w)
        /\ \A p \in CdecCells : /\ p[1] \in 1 .. n /\ p[2] \in 1 .. w /\ p = <<p[1], p[2]>>
                                /\ FarZero[p] \in 0 .. (n + w) /\ FarInf[p] \in 0 .. (n + w)
  BY Grid
<1>2. PICK x : x = CdecAgg(conf) /\ Rising(x) /\ Len(x) = w
  BY <1>1, CdecAggRises
<1>3. ASSUME NEW i \in 1 .. n, NEW j \in 1 .. w
      PROVE  /\ <<i, j>> \in CdecCells /\ Raw[<<i, j>>] = CellTime(i, j)
             /\ Raw[<<i, j>>].kind \in {"zero", "inf", "measured"}
             /\ Raw[<<i, j>>].kind = "zero" <=> x[j] < FirstOf(i)
             /\ Raw[<<i, j>>].kind = "inf" <=> ~(x[j] < FirstOf(i)) /\ x[j] > LastOf(i)
             /\ Raw[<<i, j>>].kind = "measured" => Raw[<<i, j>>] = Timed(<<CdecSList(conf)[i], x[j]>>)
  <2>1. PICK p \in CdecCells : p = <<i, j>> /\ p[1] = i /\ p[2] = j
    <3>1. <<i, j>> \in CdecCells /\ <<i, j>>[1] = i /\ <<i, j>>[2] = j
      BY <1>1
    <3>2. QED
      BY <3>1
  <2>2. Raw[p] = RawTime(i, j)
    BY <2>1 DEF Raw
  <2>3. RawTime(i, j) = CellTime(i, j)
    BY <1>1 DEF AllTimed
  <2>4. PICK v : v = CellTime(i, j)
    OBVIOUS
  <2>5. /\ v.kind \in {"zero", "inf", "measured"}
        /\ v.kind = "zero" <=> x[j] < FirstOf(i)
        /\ v.kind = "inf" <=> ~(x[j] < FirstOf(i)) /\ x[j] > LastOf(i)
        /\ v.kind = "measured" => v = Timed(<<CdecSList(conf)[i], x[j]>>)
    <3>1. i \in 1 .. Len(CdecSList(conf)) /\ x[j] = CdecAgg(conf)[j]
      BY <1>1, <1>2
    <3>2. QED
      BY <2>4, <3>1, CellKinds
  <2>6. QED
    BY <2>1, <2>2, <2>3, <2>4, <2>5
<1>4. ZerosInside
  <2>1. \A p \in CdecCells : Raw[p] = RawTime(p[1], p[2])
    BY DEF Raw
  <2>2. QED
    BY <2>1 DEF ZerosInside, FillAsserts
<1>5. InfsInside
  BY DEF InfsInside, FillAsserts
<1>6. PICK zf : /\ zf = ZeroFilled
                /\ \A p \in CdecCells : zf[p] = Fill(zf, Raw, "zero", Above, RightOf, AboveRight, p)
  BY <1>4, ZeroFills
<1>7. FirstOf(n) <= LastOf(n)
  <2>1. n \in 1 .. n
    OBVIOUS
  <2>2. FirstOf(n) \in Nat /\ LastOf(n) \in Nat
    BY <1>1, <2>1, RowBegins
  <2>3. PICK m \in 1 .. w : x[m] = FirstOf(n)
    BY <1>1, <1>2, <2>1, RowBegins
  <2>4. SUFFICES ASSUME FirstOf(n) > LastOf(n) PROVE FALSE
    BY <2>2
  <2>5. PICK p \in CdecCells : p = <<n, m>> /\ p[1] = n /\ Raw[p].kind = "inf"
    <3>1. ~(x[m] < FirstOf(n)) /\ x[m] > LastOf(n)
      BY <2>2, <2>3, <2>4
    <3>2. PICK p : p = <<n, m>>
      OBVIOUS
    <3>3. p \in CdecCells /\ Raw[p].kind = "inf" /\ p[1] = n
      BY <1>3, <2>1, <3>1, <3>2
    <3>4. QED
      BY <3>2, <3>3
  <2>6. zf[p] = Raw[p]
    BY <1>6, <2>5 DEF Fill
  <2>7. p[1] < n
    BY <1>1, <1>5, <1>6, <2>5, <2>6 DEF InfsInside
  <2>8. QED
    BY <2>5, <2>7
<1>8. ASSUME NEW p \in CdecCells, Raw[p].kind = "zero", NEW q \in {Above[p], RightOf[p], AboveRight[p]}
      PROVE  Raw[q].kind \in {"measured", "extrapolated", "zero"}
  <2>1. PICK i \in 1 .. n, j \in 1 .. w : p = <<i, j>> /\ i > 1 /\ j < w
    BY <1>1, <1>4, <1>8 DEF ZerosInside
  <2>2. i - 1 \in 1 .. n /\ j + 1 \in 1 .. w
    BY <2>1
  <2>3. q \in {<<i - 1, j>>, <<i, j + 1>>, <<i - 1, j + 1>>}
    <3>1. p[1] = i /\ p[2] = j
      BY <2>1
    <3>2. Above[p] = <<i - 1, j>> /\ RightOf[p] = <<i, j + 1>> /\ AboveRight[p] = <<i - 1, j + 1>>
      BY <3>1 DEF Above, RightOf, AboveRight
    <3>3. QED
      BY <1>8, <3>2
  <2>4. PICK a \in Nat, b \in Nat, c \in Nat, d \in Nat, e \in Nat :
          /\ a = FirstOf(i) /\ b = LastOf(i) /\ c = LastOf(i - 1) /\ d = x[j] /\ e = x[j + 1]
          /\ a <= b /\ a <= c /\ d < a
    <3>1. FirstOf(i) \in Nat /\ LastOf(i) \in Nat /\ LastOf(i - 1) \in Nat
      BY <1>1, <2>2, RowBegins
    <3>2. x[j] \in Nat /\ x[j + 1] \in Nat
      BY <1>2, <2>2 DEF Rising
    <3>3. FirstOf(i) <= LastOf(i) /\ FirstOf(i) <= LastOf(i - 1)
      BY <1>1, <1>7, <2>1, RowsReach
    <3>4. x[j] < FirstOf(i)
      BY <1>3, <1>8, <2>1
    <3>5. QED
      BY <3>1, <3>2, <3>3, <3>4
  <2>5. e <= a
    <3>1. PICK m \in 1 .. w : x[m] = a
      BY <1>1, <1>2, <2>4, RowBegins
    <3>2. j + 1 <= m
      <4>1. SUFFICES ASSUME m <= j PROVE FALSE
        OBVIOUS
      <4>2. a <= d
        BY <1>2, <2>4, <3>1, <4>1, RisingOrder
      <4>3. QED
        BY <2>4, <4>2
    <3>3. QED
      BY <1>2, <2>2, <2>4, <3>1, <3>2, RisingOrder
  <2>6. ~(d > c) /\ ~(e > b) /\ ~(e > c)
    BY <2>4, <2>5
  <2>7. CASE q = <<i - 1, j>>
    <3>1. Raw[q].kind # "inf" /\ Raw[q].kind \in {"zero", "inf", "measured"}
      BY <1>3, <2>2, <2>4, <2>6, <2>7
    <3>2. QED
      BY <3>1
  <2>8. CASE q = <<i, j + 1>>
    <3>1. Raw[q].kind # "inf" /\ Raw[q].kind \in {"zero", "inf", "measured"}
      BY <1>3, <2>2, <2>4, <2>6, <2>8
    <3>2. QED
      BY <3>1
  <2>9. CASE q = <<i - 1, j + 1>>
    <3>1. Raw[q].kind # "inf" /\ Raw[q].kind \in {"zero", "inf", "measured"}
      BY <1>3, <2>2, <2>4, <2>6, <2>9
    <3>2. QED
      BY <3>1
  <2>10. QED
    BY <2>3, <2>7, <2>8, <2>9
<1>9. \A p \in CdecCells : zf[p] = IF Raw[p].kind = "zero" THEN Mark("extrapolated") ELSE Raw[p]
  <2>1. Known(CdecCells, Raw, "zero", Above, RightOf, AboveRight)
    BY <1>8 DEF Known
  <2>2. \A p \in CdecCells : FarZero[p] \in Nat
    BY <1>1
  <2>3. Nearer(CdecCells, Raw, "zero", Above, RightOf, AboveRight, FarZero)
    BY <1>4, Neighbours
  <2>4. QED
    BY <1>6, <2>1, <2>2, <2>3, FillTimes
<1>10. Mark("extrapolated").kind = "extrapolated"
  BY DEF Mark
<1>11. \A p \in CdecCells : Raw[p].kind \in {"zero", "inf", "measured"}
  BY <1>1, <1>3
<1>12. \A p \in CdecCells : zf[p].kind \in {"measured", "extrapolated", "inf"}
  BY <1>9, <1>10, <1>11
<1>13. \A p \in CdecCells : InfFilled[p] = IF zf[p].kind = "inf" THEN Mark("extrapolated") ELSE zf[p]
  <2>1. Nearer(CdecCells, zf, "inf", Below, LeftOf, BelowLeft, FarInf)
    BY <1>5, <1>6, Neighbours
  <2>2. Known(CdecCells, zf, "inf", Below, LeftOf, BelowLeft)
    <3>1. \A p \in CdecCells : zf[p].kind = "inf" => {Below[p], LeftOf[p], BelowLeft[p]} \subseteq CdecCells
      BY <2>1 DEF Nearer
    <3>2. QED
      BY <1>12, <3>1 DEF Known
  <2>3. \A p \in CdecCells : FarInf[p] \in Nat
    BY <1>1
  <2>4. PICK f : /\ f = InfFilled
                 /\ \A p \in CdecCells : f[p] = Fill(f, zf, "inf", Below, LeftOf, BelowLeft, p)
    BY <1>5, <1>6, InfFills
  <2>5. QED
    BY <2>1, <2>2, <2>3, <2>4, FillTimes
<1>14. ASSUME NEW i \in 1 .. n, NEW j \in 1 .. w
       PROVE  InfFilled[<<i, j>>] \in {Mark("extrapolated"), Timed(<<CdecSList(conf)[i], x[j]>>)}
  <2>1. PICK p \in CdecCells : p = <<i, j>>
    BY <1>1
  <2>2. InfFilled[p] = Mark("extrapolated") \/ (Raw[p].kind = "measured" /\ InfFilled[p] = Raw[p])
    BY <1>9, <1>10, <1>11, <1>13
  <2>3. QED
    BY <1>3, <2>1, <2>2
<1>15. QED
  BY <1>1, <1>2, <1>14

-----------------------------------------------------------------------------
(* Part VIII.  The invariant of what is measured.  The time of the k-th    *)
(* entry that is taken for a table: of a sample, or of a cell.             *)
SampleAt(t, k) ==
  IF t = "linr" THEN Samples(t)[Len(Samples(t)) + 1 - k] ELSE Samples(t)[k]

TimeAt(t, k) ==
  IF t = "cdec"
  THEN CellTime(((k - 1) \div Len(Samples("cdec"))) + 1, ((k - 1) % Len(Samples("cdec"))) + 1)
  ELSE Timed(<<SampleAt(t, k)>>)

MeasuredTimed ==
  \A t \in Tables : pc = t => \A k \in 1 .. Len(measured) : measured[k] = TimeAt(t, k)

(* While a case runs it is needed, and its results are its own.            *)
ResultsTimed ==
  /\ \A t \in Tables : pc = t /\ run > 0 => \A k \in 1 .. Len(results) : results[k] = CurrentCase(t)
  /\ pc = "cdec" /\ run # Idle => Placeholder(CurrentCell[1], CurrentCell[2]) = Mark("none")

(* Files have the times of their own samples, whoever wrote them, and what *)
(* is about to be written of the cdec table can be filled.                 *)
FileTimed(f, t) ==
  IF t = "cdec"
  THEN \A i \in 1 .. Len(f.S) : \A j \in 1 .. Len(f.xs) :
         f.ys[i][j] \in {Mark("extrapolated"), Timed(<<f.S[i], f.xs[j]>>)}
  ELSE /\ Queue(f.xs) /\ Queue(f.ys) /\ Len(f.ys) = Len(f.xs)
       /\ \A i \in 1 .. Len(f.xs) : f.ys[i] = Timed(<<f.xs[i]>>)

FilesTimed == \A t \in Tables : disk[t].state = "complete" => FileTimed(disk[t], t)

TornFills ==
  pc = "cdec" /\ disk["cdec"] = Torn /\ AllMeasured("cdec") => FillAsserts

TimedInv == MeasuredTimed /\ ResultsTimed /\ FilesTimed /\ TornFills

LEMMA SameTimes ==
  ASSUME conf' = conf
  PROVE  /\ \A t, k : TimeAt(t, k)' = TimeAt(t, k)
         /\ \A i, j : Placeholder(i, j)' = Placeholder(i, j)
<1>1. \A i, j : Placeholder(i, j)' = Placeholder(i, j)
  BY DEF Placeholder
<1>2. \A i, j : CellTime(i, j)' = CellTime(i, j)
  BY <1>1 DEF CellTime, Timed
<1>3. \A t, k : SampleAt(t, k)' = SampleAt(t, k)
  BY DEF SampleAt, Samples
<1>4. \A t : Samples(t)' = Samples(t)
  BY DEF Samples
<1>5. QED
  BY <1>1, <1>2, <1>3, <1>4 DEF TimeAt, Timed

LEMMA SameSample ==
  ASSUME conf' = conf, measured' = measured
  PROVE  /\ \A t : CurrentCase(t)' = CurrentCase(t)
         /\ CurrentCell' = CurrentCell /\ \A t : AllMeasured(t)' = AllMeasured(t)
         /\ FillAsserts' = FillAsserts
<1>1. \A t : CurrentSample(t)' = CurrentSample(t)
  BY DEF CurrentSample, Samples
<1>2. CurrentCell' = CurrentCell
  BY DEF CurrentCell, Samples
<1>3. \A t : CurrentCase(t)' = CurrentCase(t)
  BY <1>1, <1>2 DEF CurrentCase
<1>4. \A t : AllMeasured(t)' = AllMeasured(t)
  BY DEF AllMeasured, Cells, Samples
<1>5. ZeroFilled' = ZeroFilled
  BY DEF ZeroFilled, RawTime, CdecCells
<1>6. /\ \A i, j : RawTime(i, j)' = RawTime(i, j)
      /\ CdecCells' = CdecCells
  BY DEF RawTime, CdecCells
<1>7. FillAsserts' = FillAsserts
  BY <1>5, <1>6 DEF FillAsserts
<1>8. QED
  BY <1>2, <1>3, <1>4, <1>7

LEMMA AppendAt ==
  ASSUME NEW q, NEW x, Queue(q)
  PROVE  /\ Queue(Append(q, x)) /\ Len(Append(q, x)) = Len(q) + 1 /\ Append(q, x)[Len(q) + 1] = x
         /\ \A k \in 1 .. Len(q) : Append(q, x)[k] = q[k]
         /\ \A k \in 1 .. Len(Append(q, x)) : k \in 1 .. Len(q) \/ k = Len(q) + 1
<1>1. Append(q, x) = q \o <<x>>
  BY QueueAppend
<1>2. Joined(q, <<x>>, q \o <<x>>) /\ Len(<<x>>) = 1 /\ <<x>>[1] = x
  BY QueueConcat, QueueOfOne
<1>3. QED
  BY <1>1, <1>2 DEF Joined

(* The sample that is next is the one the next entry is the time of.       *)
LEMMA NextEntry ==
  ASSUME StartInv, NEW t \in Tables, pc = t, Len(measured) < Cells(t)
  PROVE  /\ t # "cdec" => TimeAt(t, Len(measured) + 1) = Timed(<<CurrentSample(t)>>)
         /\ t = "cdec" => TimeAt(t, Len(measured) + 1) = CellTime(CurrentCell[1], CurrentCell[2])
<1>1. PICK n \in Nat : n = Len(measured)
  BY Profiles
<1>2. ASSUME t # "cdec" PROVE SampleAt(t, n + 1) = CurrentSample(t)
  <2>1. Len(Samples(t)) \in Nat
    BY <1>2, Profiles DEF Cells
  <2>2. Len(Samples(t)) + 1 - (n + 1) = Len(Samples(t)) - n
    BY <2>1
  <2>3. QED
    BY <1>1, <2>2 DEF SampleAt, CurrentSample
<1>3. (n + 1) - 1 = n
  OBVIOUS
<1>4. CurrentCell = <<(n \div Len(Samples("cdec"))) + 1, (n % Len(Samples("cdec"))) + 1>>
  BY <1>1 DEF CurrentCell
<1>5. QED
  BY <1>1, <1>2, <1>3, <1>4 DEF TimeAt

LEMMA OneMoreTime ==
  ASSUME StartInv, MeasuredTimed, NEW t \in Tables, pc = t, Len(measured) < Cells(t),
         measured' = Append(measured, TimeAt(t, Len(measured) + 1)), UNCHANGED <<conf, pc>>
  PROVE  MeasuredTimed'
<1>1. PICK v : v = TimeAt(t, Len(measured) + 1)
  OBVIOUS
<1>2. /\ measured'[Len(measured) + 1] = v
      /\ \A k \in 1 .. Len(measured) : measured'[k] = measured[k]
      /\ \A k \in 1 .. Len(measured') : k \in 1 .. Len(measured) \/ k = Len(measured) + 1
  BY <1>1, Profiles, AppendAt
<1>3. \A k \in 1 .. Len(measured') : measured'[k] = TimeAt(t, k)
  BY <1>1, <1>2 DEF MeasuredTimed
<1>4. \A k : TimeAt(t, k)' = TimeAt(t, k)
  BY SameTimes
<1>5. QED
  BY <1>3, <1>4 DEF MeasuredTimed

(* Before anything is measured.                                            *)
LEMMA NothingTimed ==
  ASSUME measured' = << >>, (pc = "cdec" => Legal(conf))', ~(run' > 0), pc' = "cdec" => run' = Idle, FilesTimed'
  PROVE  TimedInv'
<1>1. Len(<< >>) = 0
  BY QueueOfOne
<1>2. MeasuredTimed'
  BY <1>1 DEF MeasuredTimed
<1>3. ResultsTimed'
  BY DEF ResultsTimed, Idle
<1>4. TornFills'
  <2>1. SUFFICES ASSUME pc' = "cdec" PROVE ~AllMeasured("cdec")'
    BY DEF TornFills
  <2>2. Legal(conf)'
    BY <2>1
  <2>3. (Len(CdecSList(conf)) \in Nat \ {0} /\ Len(CdecAgg(conf)) \in Nat \ {0})'
    BY <2>2, GridSize, PTL
  <2>4. (Samples("cdec") = CdecAgg(conf))'
    BY DEF Samples, SampleList
  <2>5. Cells("cdec")' # 0
    BY <2>3, <2>4, Positive DEF Cells
  <2>6. QED
    BY <1>1, <2>5 DEF AllMeasured
<1>5. QED
  BY <1>2, <1>3, <1>4 DEF TimedInv

-----------------------------------------------------------------------------
(* The steps.                                                              *)
LEMMA InitTimed ==
  ASSUME Init
  PROVE  TimedInv
<1>1. pc = "down" /\ run = Idle /\ \A t \in Tables : disk[t] = Absent
  BY DEF Init, NoTables
<1>2. pc # "cdec" /\ pc \notin Tables
  BY <1>1 DEF Tables
<1>3. Absent.state # "complete"
  BY DEF Absent
<1>4. QED
  BY <1>1, <1>2, <1>3 DEF TimedInv, MeasuredTimed, ResultsTimed, FilesTimed, TornFills

LEMMA StartTimed ==
  ASSUME TimedInv, NEW c \in Configs, NEW peak \in Peaks, Start(c, peak)
  PROVE  TimedInv'
<1>1. measured' = << >> /\ pc' # "cdec" /\ run' = Idle /\ disk' = disk
  BY DEF Start
<1>2. ~(run' > 0)
  BY <1>1, StartAssumption DEF Idle
<1>3. FilesTimed'
  BY <1>1 DEF FilesTimed, TimedInv, FileTimed, Timed
<1>4. QED
  BY <1>1, <1>2, <1>3, NothingTimed

LEMMA StopTimed ==
  ASSUME TimedInv, pc' \in {"failed", "down"}, disk' = disk
  PROVE  TimedInv'
<1>1. pc' # "cdec" /\ pc' \notin Tables
  BY DEF Tables
<1>2. FilesTimed'
  BY DEF FilesTimed, TimedInv, FileTimed, Timed
<1>3. QED
  BY <1>1, <1>2 DEF TimedInv, MeasuredTimed, ResultsTimed, TornFills

LEMMA AdoptTimed ==
  ASSUME StartInv, NEW t \in Tables, pc = t, NEW file, Adopt(t, file), run = Idle,
         FilesTimed', UNCHANGED <<conf, case>>
  PROVE  TimedInv'
<1>1. measured' = << >> /\ run' = Idle /\ conf' = conf
  BY DEF Adopt, case
<1>2. Legal(conf)'
  BY <1>1, Profiles DEF Legal, FractionalSamples, MaxGpuTokens
<1>3. ~(run' > 0)
  BY <1>1, StartAssumption DEF Idle
<1>4. QED
  BY <1>1, <1>2, <1>3, NothingTimed

LEMMA LoadTimed ==
  ASSUME StartInv, TimedInv, NEW t \in Tables, Load(t)
  PROVE  TimedInv'
<1>1. pc = t /\ Reaches(disk[t], t) /\ Adopt(t, Loaded(disk[t], t)) /\ UNCHANGED <<disk, conf, case>>
  BY DEF Load
<1>2. run = Idle
  BY <1>1 DEF StartInv, CaseInv
<1>3. FilesTimed'
  BY <1>1 DEF FilesTimed, TimedInv, FileTimed, Timed
<1>4. QED
  BY <1>1, <1>2, <1>3, AdoptTimed

(* The entry of a cell is where the row and the column say.                *)
LEMMA CellPosition ==
  ASSUME NEW a \in Nat, NEW w \in Nat, NEW i \in 1 .. a, NEW j \in 1 .. w
  PROVE  \E k \in 1 .. (a * w) : k = (i - 1) * w + j /\ (k - 1) \div w = i - 1 /\ (k - 1) % w = j - 1
<1>1. PICK p \in Nat, r \in Nat : p = i - 1 /\ r = j - 1 /\ r < w
  <2>1. i - 1 \in Nat /\ j - 1 \in Nat /\ j - 1 < w
    OBVIOUS
  <2>2. QED
    BY <2>1
<1>2. PICK n \in Nat : n = p * w + r
  BY <1>1
<1>3. PICK q \in Nat, s \in Nat : q = n \div w /\ s = n % w /\ s < w /\ n = q * w + s
  BY <1>1, Divided
<1>4. q = p
  <2>1. ASSUME NEW x \in Nat, NEW y \in Nat, x < y, NEW u \in Nat, NEW v \in Nat, u < w,
               x * w + u = y * w + v
        PROVE  FALSE
    <3>1. PICK d \in Nat : y = x + 1 + d
      <4>1. y - x - 1 \in Nat /\ y = x + 1 + (y - x - 1)
        BY <2>1
      <4>2. QED
        BY <4>1
    <3>2. y * w = x * w + w + d * w /\ d * w \in Nat /\ x * w \in Nat
      BY <3>1
    <3>3. QED
      BY <2>1, <3>2
  <2>2. ~(q < p) /\ ~(p < q)
    BY <1>1, <1>2, <1>3, <2>1
  <2>3. QED
    BY <2>2
<1>5. s = r
  <2>1. PICK m \in Nat : m = p * w
    OBVIOUS
  <2>2. n = m + r /\ n = m + s
    BY <1>2, <1>3, <1>4, <2>1
  <2>3. QED
    BY <2>2
<1>6. n < a * w
  <2>1. PICK d \in Nat : a = p + 1 + d
    <3>1. a - p - 1 \in Nat /\ a = p + 1 + (a - p - 1)
      BY <1>1
    <3>2. QED
      BY <3>1
  <2>2. a * w = p * w + w + d * w /\ d * w \in Nat /\ p * w \in Nat
    BY <2>1
  <2>3. QED
    BY <1>1, <1>2, <2>2
<1>7. PICK k \in Nat : k = n + 1 /\ k - 1 = n
  <2>1. n + 1 \in Nat /\ (n + 1) - 1 = n
    OBVIOUS
  <2>2. QED
    BY <2>1
<1>8. PICK N \in Nat : N = a * w
  OBVIOUS
<1>9. k \in 1 .. N
  BY <1>6, <1>7, <1>8
<1>10. k = (i - 1) * w + j
  <2>1. PICK m \in Nat : m = p * w
    OBVIOUS
  <2>2. k = m + j
    BY <1>1, <1>2, <1>7, <2>1
  <2>3. QED
    BY <1>1, <2>1, <2>2
<1>11. QED
  BY <1>1, <1>3, <1>4, <1>5, <1>7, <1>8, <1>9, <1>10

(* What is written of a table.                                             *)
LEMMA ProfiledTimed ==
  ASSUME StartInv, MeasuredTimed, NEW t \in Tables, pc = t, AllMeasured(t),
         t = "cdec" => FillAsserts /\ conf.max_blocks_per_seq >= 2
  PROVE  FileTimed(Profiled(t), t)
<1>0. PICK xs : xs = Samples(t) /\ Sizes(xs) /\ Queue(xs)
  BY Profiles, SamplesRise DEF Samples, Sizes
<1>1. PICK n \in Nat : /\ xs = Samples(t) /\ Sizes(xs) /\ n = Len(xs) /\ Queue(xs) /\ DOMAIN xs = 1 .. n
  BY <1>0, QueueFacts
<1>2. PICK m : m = measured /\ Queue(m) /\ \A k \in 1 .. Len(m) : m[k] = TimeAt(t, k)
  BY Profiles DEF MeasuredTimed
<1>3. PICK f : f = Profiled(t)
  OBVIOUS
<1>4. CASE t \in {"pref", "gdec"}
  <2>1. Len(m) = n
    BY <1>1, <1>2, <1>4 DEF AllMeasured, Cells
  <2>2. f.xs = xs /\ f.ys = m
    BY <1>1, <1>2, <1>3, <1>4 DEF Profiled, File
  <2>3. \A k \in 1 .. n : m[k] = Timed(<<xs[k]>>)
    BY <1>1, <1>2, <1>4, <2>1 DEF TimeAt, SampleAt
  <2>4. QED
    BY <1>1, <1>2, <1>3, <1>4, <2>1, <2>2, <2>3 DEF FileTimed
<1>5. CASE t = "linr"
  <2>1. Len(m) = n
    BY <1>1, <1>2, <1>5 DEF AllMeasured, Cells
  <2>2. PICK r : r = Reverse(m)
    OBVIOUS
  <2>3. f.xs = xs /\ f.ys = r
    BY <1>1, <1>2, <1>3, <1>5, <2>2 DEF Profiled, File
  <2>4. r = [k \in 1 .. n |-> r[k]] /\ \A k \in 1 .. n : r[k] = m[(n - k) + 1]
    BY <2>1, <2>2 DEF Reverse
  <2>5. Queue(r) /\ Len(r) = n
    BY <2>4, QueueOfFunction
  <2>6. ASSUME NEW k \in 1 .. n PROVE r[k] = Timed(<<xs[k]>>)
    <3>1. (n - k) + 1 \in 1 .. n /\ n + 1 - ((n - k) + 1) = k
      OBVIOUS
    <3>2. m[(n - k) + 1] = TimeAt(t, (n - k) + 1)
      BY <1>2, <2>1, <3>1
    <3>3. SampleAt(t, (n - k) + 1) = xs[k]
      BY <1>1, <1>5, <3>1 DEF SampleAt
    <3>4. QED
      BY <1>5, <2>4, <3>2, <3>3 DEF TimeAt
  <2>7. QED
    BY <1>1, <1>3, <1>5, <2>3, <2>5, <2>6 DEF FileTimed
<1>6. CASE t = "cdec"
  <2>0. PICK Ss : Ss = CdecSList(conf) /\ Queue(Ss)
    BY Profiles, CdecSRises DEF Rising
  <2>1. PICK a \in Nat : Ss = CdecSList(conf) /\ a = Len(Ss) /\ DOMAIN Ss = 1 .. a
    BY <2>0, QueueFacts
  <2>2. xs = CdecAgg(conf) /\ Len(m) = a * n
    BY <1>1, <1>2, <1>6, <2>1 DEF AllMeasured, Cells, Samples, SampleList
  <2>3. AllTimed
    <3>1. ASSUME NEW i \in 1 .. a, NEW j \in 1 .. n PROVE RawTime(i, j) = CellTime(i, j)
      <4>1. PICK k \in 1 .. (a * n) :
              k = (i - 1) * n + j /\ (k - 1) \div n = i - 1 /\ (k - 1) % n = j - 1
        BY CellPosition
      <4>2. m[k] = TimeAt(t, k)
        BY <1>2, <2>2
      <4>3. ((k - 1) \div n) + 1 = i /\ ((k - 1) % n) + 1 = j
        BY <4>1
      <4>4. TimeAt(t, k) = CellTime(i, j)
        BY <1>1, <1>6, <4>3 DEF TimeAt
      <4>5. RawTime(i, j) = m[k]
        BY <1>1, <1>2, <2>2, <4>1 DEF RawTime
      <4>6. QED
        BY <4>2, <4>4, <4>5
    <3>2. QED
      BY <1>1, <2>1, <2>2, <3>1 DEF AllTimed
  <2>4. \A i \in 1 .. a : \A j \in 1 .. n :
          InfFilled[<<i, j>>] \in {Mark("extrapolated"), Timed(<<Ss[i], xs[j]>>)}
    BY <1>1, <1>6, <2>1, <2>2, <2>3, Profiles, CellsFilled
  <2>5. PICK filled : filled = InfFilled
    OBVIOUS
  <2>6. PICK ys : ys = [i \in 1 .. a |-> [j \in 1 .. n |-> filled[<<i, j>>]]]
    OBVIOUS
  <2>7. Profiled(t) = File(Ss, xs, ys)
    BY <1>1, <1>6, <2>1, <2>5, <2>6 DEF Profiled
  <2>8. f.S = Ss /\ f.xs = xs /\ f.ys = ys
    BY <1>3, <2>7 DEF File
  <2>9. \A i \in 1 .. a : \A j \in 1 .. n : ys[i][j] = filled[<<i, j>>]
    BY <2>6
  <2>10. \A i \in 1 .. a : \A j \in 1 .. n : ys[i][j] \in {Mark("extrapolated"), Timed(<<Ss[i], xs[j]>>)}
    BY <2>4, <2>5, <2>9
  <2>11. QED
    BY <1>1, <1>3, <1>6, <2>1, <2>8, <2>10 DEF FileTimed
<1>7. QED
  BY <1>4, <1>5, <1>6 DEF Tables

(* The longest sequences of every configuration have two blocks.           *)
TwoBlocks == \A c \in Configs : c.max_blocks_per_seq >= 2

LEMMA LongSequences ==
  ASSUME StartInv, TwoBlocks, Working
  PROVE  conf.max_blocks_per_seq >= 2
<1>1. PICK c \in Configs, peak \in Peaks : conf = WithBlocks(c, peak)
  BY DEF StartInv, ControlInv, Configured
<1>2. c \in CommandLines
  BY StartAssumption
<1>3. conf.max_blocks_per_seq = c.max_blocks_per_seq
  BY <1>1, <1>2 DEF WithBlocks, CommandLines
<1>4. QED
  BY <1>3 DEF TwoBlocks

LEMMA WriteTimed ==
  ASSUME StartInv, TimedInv, TwoBlocks, NEW t \in Tables, WriteFile(t)
  PROVE  TimedInv'
<1>1. /\ pc = t /\ AllMeasured(t) /\ disk[t] = Torn /\ disk' = [disk EXCEPT ![t] = Profiled(t)]
      /\ Adopt(t, Profiled(t)) /\ UNCHANGED <<conf, case>>
  BY DEF WriteFile
<1>2. run = Idle
  BY <1>1 DEF StartInv, CaseInv
<1>3. t = "cdec" => FillAsserts /\ conf.max_blocks_per_seq >= 2
  <2>1. conf.max_blocks_per_seq >= 2
    BY <1>1, Profiles, LongSequences
  <2>2. QED
    BY <1>1, <2>1 DEF TimedInv, TornFills
<1>4. FileTimed(Profiled(t), t)
  BY <1>1, <1>3, ProfiledTimed DEF TimedInv
<1>5. disk'[t] = Profiled(t) /\ \A u \in Tables : u # t => disk'[u] = disk[u]
  BY <1>1 DEF StartInv, FilesInv
<1>6. \A u \in Tables : disk'[u].state = "complete" => FileTimed(disk'[u], u)
  BY <1>4, <1>5 DEF TimedInv, FilesTimed
<1>7. FilesTimed'
  BY <1>6 DEF FilesTimed, FileTimed, Timed
<1>8. QED
  BY <1>1, <1>2, <1>7, AdoptTimed

(* Opening the file of a table loses what it held.                         *)
LEMMA OpenTimed ==
  ASSUME StartInv, TimedInv, NEW t \in Tables, OpenFile(t)
  PROVE  TimedInv'
<1>1. /\ pc = t /\ run = Idle /\ disk' = [disk EXCEPT ![t] = Torn] /\ (t = "cdec" => FillAsserts)
      /\ UNCHANGED <<conf, pp, measured, case, held, pc, free, starts>>
  BY DEF OpenFile
<1>2. disk'[t] = Torn /\ \A u \in Tables : u # t => disk'[u] = disk[u]
  BY <1>1 DEF StartInv, FilesInv
<1>3. FilesTimed'
  <2>1. Torn.state # "complete"
    BY DEF Torn
  <2>2. \A u \in Tables : disk'[u].state = "complete" => FileTimed(disk'[u], u)
    BY <1>2, <2>1 DEF TimedInv, FilesTimed
  <2>3. QED
    BY <2>2 DEF FilesTimed, FileTimed, Timed
<1>4. MeasuredTimed'
  BY <1>1, SameTimes DEF TimedInv, MeasuredTimed
<1>5. ResultsTimed'
  <2>1. run' = Idle /\ ~(run' > 0)
    BY <1>1, StartAssumption DEF case, Idle
  <2>2. QED
    BY <2>1, Zenon DEF ResultsTimed, Idle
<1>6. TornFills'
  BY <1>1, SameSample DEF TornFills
<1>7. QED
  BY <1>3, <1>4, <1>5, <1>6 DEF TimedInv

(* An entry of the old linear table, or a placeholder.                     *)
LEMMA TakeKnownTimed ==
  ASSUME StartInv, TimedInv, NEW t \in Tables, TakeKnown(t)
  PROVE  TimedInv'
<1>1. /\ pc = t /\ run = Idle /\ disk[t] # Torn /\ ~AllMeasured(t) /\ KnownTime(t) # Mark("none")
      /\ measured' = Append(measured, KnownTime(t))
      /\ UNCHANGED <<disk, conf, pp, case, held, pc, free, starts>>
  BY DEF TakeKnown, Profiling
<1>2. Len(measured) < Cells(t)
  BY <1>1, Profiles DEF StartInv, CaseInv, AllMeasured
<1>3. KnownTime(t) = TimeAt(t, Len(measured) + 1)
  <2>1. CASE t = "cdec"
    <3>1. KnownTime(t) = Placeholder(CurrentCell[1], CurrentCell[2])
      BY <2>1 DEF KnownTime
    <3>2. KnownTime(t) = CellTime(CurrentCell[1], CurrentCell[2])
      BY <1>1, <3>1 DEF CellTime
    <3>3. QED
      BY <1>1, <1>2, <2>1, <3>2, NextEntry
  <2>2. CASE t = "linr"
    <3>1. PICK f, x : f = disk[t] /\ x = CurrentSample(t)
      OBVIOUS
    <3>2. KnownTime(t) = IF f.state = "complete" /\ x \in ToSet(f.xs)
                         THEN f.ys[CHOOSE k \in DOMAIN f.xs : f.xs[k] = x] ELSE Mark("none")
      BY <2>2, <3>1 DEF KnownTime
    <3>3. /\ f.state = "complete" /\ x \in ToSet(f.xs)
          /\ KnownTime(t) = f.ys[CHOOSE k \in DOMAIN f.xs : f.xs[k] = x]
      BY <1>1, <3>2
    <3>4. Queue(f.xs) /\ \A i \in 1 .. Len(f.xs) : f.ys[i] = Timed(<<f.xs[i]>>)
      BY <2>2, <3>1, <3>3 DEF TimedInv, FilesTimed, FileTimed
    <3>5. DOMAIN f.xs = 1 .. Len(f.xs)
      BY <3>4, QueueFacts
    <3>6. \E k \in DOMAIN f.xs : f.xs[k] = x
      BY <3>3, <3>4, <3>5, QueueSet
    <3>7. PICK k \in DOMAIN f.xs : f.xs[k] = x /\ KnownTime(t) = f.ys[k]
      BY <3>3, <3>6
    <3>8. KnownTime(t) = Timed(<<x>>)
      BY <3>4, <3>5, <3>7
    <3>9. QED
      BY <1>1, <1>2, <2>2, <3>1, <3>8, NextEntry
  <2>3. CASE t \notin {"cdec", "linr"}
    BY <1>1, <2>3 DEF KnownTime
  <2>4. QED
    BY <2>1, <2>2, <2>3
<1>4. MeasuredTimed'
  BY <1>1, <1>2, <1>3, OneMoreTime DEF TimedInv
<1>5. FilesTimed'
  BY <1>1 DEF FilesTimed, TimedInv, FileTimed, Timed
<1>6. ResultsTimed'
  <2>1. run' = Idle /\ ~(run' > 0)
    BY <1>1, StartAssumption DEF case, Idle
  <2>2. QED
    BY <2>1, Zenon DEF ResultsTimed, Idle
<1>7. TornFills'
  BY <1>1 DEF TornFills
<1>8. QED
  BY <1>4, <1>5, <1>6, <1>7 DEF TimedInv

LEMMA BeginTimed ==
  ASSUME StartInv, TimedInv, NEW t \in Tables, BeginCase(t)
  PROVE  TimedInv'
<1>1. /\ pc = t /\ disk[t] # Torn /\ KnownTime(t) = Mark("none") /\ run' = -NWarmup
      /\ UNCHANGED <<disk, conf, pp, measured, monitor, events, results, pc, free, starts>>
  BY DEF BeginCase, Profiling
<1>2. ~(run' > 0)
  BY <1>1, StartAssumption
<1>3. MeasuredTimed'
  BY <1>1, SameTimes DEF TimedInv, MeasuredTimed
<1>4. FilesTimed'
  BY <1>1 DEF FilesTimed, TimedInv, FileTimed, Timed
<1>5. ResultsTimed'
  <2>1. t = "cdec" => Placeholder(CurrentCell[1], CurrentCell[2]) = Mark("none")
    BY <1>1 DEF KnownTime
  <2>2. t = "cdec" => Placeholder(CurrentCell[1], CurrentCell[2])' = Mark("none")
    BY <1>1, <2>1, SameTimes, SameSample
  <2>3. (Mark("none"))' = Mark("none")
    BY DEF Mark
  <2>4. QED
    BY <1>1, <1>2, <2>2, <2>3 DEF ResultsTimed
<1>6. TornFills'
  BY <1>1 DEF TornFills
<1>7. QED
  BY <1>3, <1>4, <1>5, <1>6 DEF TimedInv

(* An iteration reports its own times.                                     *)
LEMMA IterateTimed ==
  ASSUME StartInv, TimedInv, NEW t \in Tables, Iterate(t)
  PROVE  TimedInv'
<1>1. /\ pc = t /\ run \in (-NWarmup) .. (NRepeat - 1) /\ run' = run + 1
      /\ monitor' = (monitor \/ run = 0)
      /\ events' = IF monitor' THEN Recorded(events, IterationEvents(t = "cdec"), <<t, CurrentCase(t), run>>)
                   ELSE events
      /\ results' = IF monitor' THEN Append(results, PerfResult(t)) ELSE results
      /\ UNCHANGED <<disk, conf, pp, measured, held, pc, free, starts>>
  BY DEF Iterate
<1>2. NWarmup \in Nat /\ NRepeat \in Nat
  BY StartAssumption
<1>3. run \in Int /\ run # Idle
  BY <1>1, <1>2 DEF Idle
<1>4. disk[t] # Torn
  BY <1>1, <1>3 DEF StartInv, CaseInv
<1>5. MeasuredTimed'
  BY <1>1, SameTimes DEF TimedInv, MeasuredTimed
<1>6. FilesTimed'
  BY <1>1 DEF FilesTimed, TimedInv, FileTimed, Timed
<1>7. TornFills'
  BY <1>1, <1>4 DEF TornFills
<1>8. ASSUME run' > 0 PROVE \A k \in 1 .. Len(results') : results'[k] = CurrentCase(t)
  <2>1. run = 0 \/ run > 0
    BY <1>1, <1>3, <1>8
  <2>2. monitor' = TRUE
    <3>1. run > 0 => monitor
      BY Zenon DEF StartInv, MonitorInv
    <3>2. QED
      BY <1>1, <2>1, <3>1, Zenon
  <2>3. PerfResult(t) = CurrentCase(t)
    <3>1. PICK it, c : it = <<t, CurrentCase(t), run>> /\ c \in BOOLEAN /\ c = (t = "cdec")
      OBVIOUS
    <3>2. events' = Recorded(events, IterationEvents(c), it)
      BY <1>1, <2>2, <3>1
    <3>3. TimesOf(events', it)
      BY <3>1, <3>2, IterationTimes
    <3>4. QED
      BY <3>1, <3>3 DEF PerfResult
  <2>4. results' = Append(results, CurrentCase(t))
    BY <1>1, <2>2, <2>3
  <2>5. Queue(results)
    BY Zenon DEF StartInv, MonitorInv
  <2>6. /\ results'[Len(results) + 1] = CurrentCase(t)
        /\ \A k \in 1 .. Len(results) : results'[k] = results[k]
        /\ \A k \in 1 .. Len(results') : k \in 1 .. Len(results) \/ k = Len(results) + 1
    BY <2>4, <2>5, AppendAt
  <2>7. \A k \in 1 .. Len(results) : results[k] = CurrentCase(t)
    <3>1. CASE run = 0
      <4>1. run <= 0
        BY <3>1
      <4>2. results = << >>
        BY <4>1, Zenon DEF StartInv, MonitorInv
      <4>3. Len(<< >>) = 0
        BY QueueOfOne
      <4>4. QED
        BY <4>2, <4>3
    <3>2. CASE run > 0
      BY <1>1, <3>2 DEF TimedInv, ResultsTimed
    <3>3. QED
      BY <2>1, <3>1, <3>2
  <2>8. QED
    BY <2>6, <2>7
<1>9. ResultsTimed'
  <2>1. CurrentCase(t)' = CurrentCase(t) /\ CurrentCell' = CurrentCell
    BY <1>1, SameSample
  <2>2. \A u \in Tables : pc' = u /\ run' > 0 => \A k \in 1 .. Len(results') : results'[k] = CurrentCase(u)'
    BY <1>1, <1>8, <2>1
  <2>3. pc = "cdec" => Placeholder(CurrentCell[1], CurrentCell[2]) = Mark("none")
    BY <1>3 DEF TimedInv, ResultsTimed
  <2>4. pc' = "cdec" => Placeholder(CurrentCell[1], CurrentCell[2])' = Mark("none")
    BY <1>1, <2>1, <2>3, SameTimes
  <2>5. QED
    BY <2>2, <2>4 DEF ResultsTimed, Mark
<1>10. QED
  BY <1>5, <1>6, <1>7, <1>9 DEF TimedInv

(* The mean that is kept is over the timed iterations of the sample.       *)
LEMMA EndTimed ==
  ASSUME StartInv, TimedInv, NEW t \in Tables, EndCase(t)
  PROVE  TimedInv'
<1>1. /\ pc = t /\ run = NRepeat /\ measured' = Append(measured, Measured(results)) /\ run' = Idle
      /\ UNCHANGED <<disk, conf, pp, pc, free, starts>>
  BY DEF EndCase
<1>2. NWarmup \in Nat /\ NRepeat \in Nat /\ NRepeat > 0
  BY StartAssumption
<1>3. run > 0 /\ run # Idle /\ ~(run' > 0)
  BY <1>1, <1>2 DEF Idle
<1>4. disk[t] # Torn /\ Len(measured) < Cells(t)
  BY <1>1, <1>3 DEF StartInv, CaseInv
<1>5. results = Repeated(NRepeat, CurrentCase(t))
  <2>1. Queue(results) /\ Len(results) = NRepeat
    BY <1>1, <1>3, Zenon DEF StartInv, MonitorInv
  <2>2. \A k \in 1 .. NRepeat : results[k] = CurrentCase(t)
    BY <1>1, <1>3, <2>1 DEF TimedInv, ResultsTimed
  <2>3. results = [k \in 1 .. NRepeat |-> results[k]]
    <3>1. PICK S : results \in Seq(S)
      BY <2>1 DEF Queue
    <3>2. results \in [1 .. Len(results) -> S]
      BY <3>1
    <3>3. QED
      BY <2>1, <3>2
  <2>4. Count(NRepeat) = NRepeat
    BY <1>2 DEF Count
  <2>5. QED
    BY <2>2, <2>3, <2>4 DEF Repeated
<1>6. Measured(results) = TimeAt(t, Len(measured) + 1)
  <2>1. Measured(results) = Timed(CurrentCase(t))
    BY <1>5 DEF Timed
  <2>2. CASE t = "cdec"
    <3>1. Placeholder(CurrentCell[1], CurrentCell[2]) = Mark("none")
      BY <1>1, <1>3, <2>2 DEF TimedInv, ResultsTimed
    <3>2. CurrentCase(t) = <<CdecSList(conf)[CurrentCell[1]], CdecAgg(conf)[CurrentCell[2]]>>
      BY <2>2 DEF CurrentCase
    <3>3. CellTime(CurrentCell[1], CurrentCell[2]) = Timed(CurrentCase(t))
      BY <3>1, <3>2 DEF CellTime
    <3>4. QED
      BY <1>1, <1>4, <2>1, <2>2, <3>3, NextEntry
  <2>3. CASE t # "cdec"
    <3>1. CurrentCase(t) = <<CurrentSample(t)>>
      BY <2>3 DEF CurrentCase
    <3>2. QED
      BY <1>1, <1>4, <2>1, <2>3, <3>1, NextEntry
  <2>4. QED
    BY <2>2, <2>3
<1>7. MeasuredTimed'
  BY <1>1, <1>4, <1>6, OneMoreTime DEF TimedInv
<1>8. FilesTimed'
  BY <1>1 DEF FilesTimed, TimedInv, FileTimed, Timed
<1>9. ResultsTimed'
  BY <1>1, <1>3, Zenon DEF ResultsTimed, Idle
<1>10. TornFills'
  BY <1>1, <1>4 DEF TornFills
<1>11. QED
  BY <1>7, <1>8, <1>9, <1>10 DEF TimedInv

LEMMA TimedInductive ==
  ASSUME StartInv, TimedInv, TwoBlocks, [Next]_vars
  PROVE  TimedInv'
<1>1. CASE UNCHANGED vars
  <2>1. UNCHANGED <<disk, conf, measured, run, results, pc>>
    BY <1>1 DEF vars, case
  <2>2. MeasuredTimed'
    BY <2>1, SameTimes DEF TimedInv, MeasuredTimed
  <2>3. FilesTimed'
    BY <2>1 DEF TimedInv, FilesTimed, FileTimed, Timed
  <2>4. ResultsTimed'
    BY <2>1, SameTimes, SameSample DEF TimedInv, ResultsTimed, Mark, Idle
  <2>5. TornFills'
    BY <2>1, SameSample DEF TimedInv, TornFills
  <2>6. QED
    BY <2>2, <2>3, <2>4, <2>5 DEF TimedInv
<1>2. ASSUME NEW c \in Configs, NEW peak \in Peaks, Start(c, peak) PROVE TimedInv'
  BY <1>2, StartTimed
<1>3. ASSUME NEW t \in Tables, LoadFails(t) PROVE TimedInv'
  BY <1>3, StopTimed DEF LoadFails, Fail
<1>4. ASSUME NEW t \in Tables, Load(t) PROVE TimedInv'
  BY <1>4, LoadTimed
<1>5. ASSUME NEW t \in Tables, TakeKnown(t) PROVE TimedInv'
  BY <1>5, TakeKnownTimed
<1>6. ASSUME NEW t \in Tables, OpenFile(t) PROVE TimedInv'
  BY <1>6, OpenTimed
<1>7. ASSUME NEW t \in Tables, WriteFile(t) PROVE TimedInv'
  BY <1>7, WriteTimed
<1>8. ASSUME NEW t \in Tables, BeginCase(t) PROVE TimedInv'
  BY <1>8, BeginTimed
<1>9. ASSUME NEW t \in Tables, BeginFails(t) PROVE TimedInv'
  BY <1>9, StopTimed DEF BeginFails, Fail
<1>10. ASSUME NEW t \in Tables, IterationFails(t) PROVE TimedInv'
  BY <1>10, StopTimed DEF IterationFails, Fail
<1>11. ASSUME NEW t \in Tables, Iterate(t) PROVE TimedInv'
  BY <1>11, IterateTimed
<1>12. ASSUME NEW t \in Tables, EndCase(t) PROVE TimedInv'
  BY <1>12, EndTimed
<1>13. CASE FillFails
  BY <1>13, StopTimed DEF FillFails, Fail
<1>14. CASE Crash
  BY <1>14, StopTimed DEF Crash
<1>15. QED
  BY <1>1, <1>2, <1>3, <1>4, <1>5, <1>6, <1>7, <1>8, <1>9, <1>10, <1>11, <1>12, <1>13, <1>14 DEF Next

(* What is served is what was measured.                                    *)
LEMMA ServedTimed ==
  ASSUME StartInv, TimedInv
  PROVE  TablesComplete
<1>1. SUFFICES ASSUME Initialized
               PROVE  /\ \A t \in Tables \ {"cdec"} :
                           pp[t].ys = [i \in DOMAIN pp[t].xs |-> Timed(<<pp[t].xs[i]>>)]
                      /\ OwnSamples("cdec") =>
                           \A p \in CdecCells :
                             pp["cdec"].ys[p[1]][p[2]] \in
                               {Mark("extrapolated"), Timed(<<CdecSList(conf)[p[1]], CdecAgg(conf)[p[2]]>>)}
  BY DEF TablesComplete, Timed
<1>2. \A t \in Tables : Complete(disk[t], t) /\ pp[t] = Loaded(disk[t], t)
  <2>1. pc = "serving" /\ Working /\ Earlier[pc] = Tables
    BY <1>1 DEF Initialized, Working, Earlier
  <2>2. QED
    BY <2>1 DEF StartInv, FilesInv
<1>3. \A t \in Tables : FileTimed(disk[t], t)
  BY <1>2, CompleteState DEF TimedInv, FilesTimed
<1>4. ASSUME NEW t \in Tables \ {"cdec"}
      PROVE  pp[t].ys = [i \in DOMAIN pp[t].xs |-> Timed(<<pp[t].xs[i]>>)]
  <2>1. PICK f : f = disk[t] /\ pp[t] = f
    BY <1>2 DEF Loaded
  <2>2. /\ Queue(f.xs) /\ Queue(f.ys) /\ Len(f.ys) = Len(f.xs)
        /\ \A i \in 1 .. Len(f.xs) : f.ys[i] = Timed(<<f.xs[i]>>)
    BY <1>3, <2>1 DEF FileTimed
  <2>3. DOMAIN f.xs = 1 .. Len(f.xs)
    BY <2>2, QueueFacts
  <2>4. f.ys = [i \in 1 .. Len(f.ys) |-> f.ys[i]]
    <3>1. PICK S : f.ys \in Seq(S)
      BY <2>2 DEF Queue
    <3>2. f.ys \in [1 .. Len(f.ys) -> S]
      BY <3>1
    <3>3. QED
      BY <3>2
  <2>5. QED
    BY <2>1, <2>2, <2>3, <2>4
<1>5. ASSUME OwnSamples("cdec"), NEW p \in CdecCells
      PROVE  pp["cdec"].ys[p[1]][p[2]] \in
               {Mark("extrapolated"), Timed(<<CdecSList(conf)[p[1]], CdecAgg(conf)[p[2]]>>)}
  <2>1. PICK f : f = disk["cdec"]
    OBVIOUS
  <2>2. "cdec" \in Tables
    BY DEF Tables
  <2>3. f.xs = CdecAgg(conf) /\ f.S = CdecSList(conf)
    BY <1>5, <2>1 DEF OwnSamples, Samples, SampleList
  <2>4. pp["cdec"].ys = f.ys
    <3>1. f = File(f.S, f.xs, f.ys) /\ pp["cdec"] = [f EXCEPT !.xs = Samples("cdec")]
      BY <1>2, <2>1, <2>2 DEF Complete, Loaded
    <3>2. PICK a, b, c : f = File(a, b, c) /\ f.ys = c
      BY <3>1
    <3>3. [File(a, b, c) EXCEPT !.xs = Samples("cdec")].ys = c
      BY DEF File
    <3>4. QED
      BY <3>1, <3>2, <3>3
  <2>5. p[1] \in 1 .. Len(f.S) /\ p[2] \in 1 .. Len(f.xs)
    BY <2>3 DEF CdecCells
  <2>6. f.ys[p[1]][p[2]] \in {Mark("extrapolated"), Timed(<<f.S[p[1]], f.xs[p[2]]>>)}
    BY <1>3, <2>1, <2>2, <2>5 DEF FileTimed
  <2>7. QED
    BY <2>3, <2>4, <2>6
<1>6. QED
  BY <1>4, <1>5

(* What is served is complete, whatever earlier starts left: every sample  *)
(* has the mean of the timed iterations of its own test case, and of the   *)
(* cdec table the cells that cannot be run have one that is extrapolated.  *)
(* The longest sequences must have two blocks under every configuration:   *)
(* a start with fewer leaves cells of its table without a number, and a    *)
(* later one that has the same samples loads them.                         *)
THEOREM ServedComplete ==
  ASSUME TwoBlocks
  PROVE  Spec => []TablesComplete
<1>1. Init => StartInv /\ TimedInv
  BY InitStart, InitTimed
<1>2. StartInv /\ TimedInv /\ [Next]_vars => StartInv' /\ TimedInv'
  BY StartInductive, TimedInductive
<1>3. StartInv /\ TimedInv => TablesComplete
  BY ServedTimed
<1>4. QED
  BY <1>1, <1>2, <1>3, PTL DEF Spec
=============================================================================
