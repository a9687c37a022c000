---------------------------- MODULE QueuesProofs ----------------------------
(***************************************************************************)
(* Facts about queues that the proofs about the scheduler and the engine   *)
(* need: what filtering, slicing and concatenating leave in a queue.       *)
(***************************************************************************)
EXTENDS Queues, SequencesExt, FiniteSetTheorems, SequenceTheorems, TLAPS

(* A non-empty set of naturals has a least element: the principle by which *)
(* the proofs that use it do induction over numbers.                       *)
LEMMA Least ==
  ASSUME NEW T \in SUBSET Nat, T # {}
  PROVE  \E n \in T : \A m \in T : n <= m
<1> DEFINE Up == {1 .. n : n \in T}
           R == StrictSubsetOrdering(Nat)
<1>1. IsWellFoundedOn(R, FiniteSubsetsOf(Nat))
  BY FS_StrictSubsetOrderingWellFounded
<1>2. Up \subseteq FiniteSubsetsOf(Nat)
  <2>1. ASSUME NEW n \in T PROVE 1 .. n \in FiniteSubsetsOf(Nat)
    BY FS_Interval, n \in Nat DEF FiniteSubsetsOf
  <2>2. QED
    BY <2>1
<1>3. Up # {}
  OBVIOUS
<1>4. PICK U \in Up : \A V \in Up : ~(<<V, U>> \in R)
  <2> HIDE DEF Up, R
  <2>1. QED
    BY <1>1, <1>2, <1>3, WFMin
<1>5. PICK n \in T : U = 1 .. n
  BY <1>4
<1>6. ASSUME NEW m \in T, m < n PROVE FALSE
  <2>1. 1 .. m \subseteq 1 .. n /\ 1 .. m # 1 .. n
    BY <1>6
  <2>2. <<1 .. m, 1 .. n>> \in R
    BY <2>1 DEF StrictSubsetOrdering
  <2>3. QED
    BY <2>2, <1>4, <1>5
<1>7. QED
  BY <1>6

(* A bounded non-empty set of integers has a greatest element, which Max   *)
(* finds.                                                                  *)
LEMMA Greatest ==
  ASSUME NEW k \in Nat, NEW T \in SUBSET (0 .. k), T # {}
  PROVE  Max(T) \in T /\ \A m \in T : m <= Max(T)
<1> DEFINE D == {k - m : m \in T}
<1>1. D \in SUBSET Nat /\ D # {}
  OBVIOUS
<1>2. PICK d \in D : \A e \in D : d <= e
  <2> HIDE DEF D
  <2>1. QED
    BY <1>1, Least
<1>3. PICK x \in T : d = k - x
  BY <1>2
<1>4. ASSUME NEW m \in T PROVE m <= x
  <2>1. k - m \in D
    OBVIOUS
  <2> HIDE DEF D
  <2>2. k - x <= k - m
    BY <1>2, <1>3, <2>1
  <2>3. QED
    BY <2>2
<1>5. \E y \in T : \A m \in T : y >= m
  BY <1>4
<1>6. QED
  BY <1>5 DEF Max

-----------------------------------------------------------------------------
(* Ranks.  In a finite set the number of smaller elements tells the        *)
(* elements apart, and takes every value below the cardinality.            *)

(* The rank of a number identifies it.                                     *)
LEMMA RankBijection ==
  ASSUME NEW T, IsFiniteSet(T), T \subseteq Int
  PROVE  [b \in T |-> Cardinality({c \in T : c < b})]
           \in Bijection(T, 0 .. (Cardinality(T) - 1))
<1> DEFINE below(b) == {c \in T : c < b}
           f == [b \in T |-> Cardinality(below(b))]
           m == Cardinality(T)
<1>1. m \in Nat
  BY FS_CardinalityType
<1>2. ASSUME NEW b \in T
      PROVE  Cardinality(below(b)) \in 0 .. (m - 1)
  <2>1. below(b) \in SUBSET T /\ b \notin below(b)
    OBVIOUS
  <2>2. Cardinality(below(b)) <= m /\ (Cardinality(below(b)) = m => below(b) = T)
    BY <2>1, FS_Subset
  <2>3. Cardinality(below(b)) \in Nat
    BY <2>1, FS_Subset, FS_CardinalityType
  <2>4. QED
    BY <1>1, <2>1, <2>2, <2>3
<1>3. f \in [T -> 0 .. (m - 1)]
  BY <1>2
<1>4. ASSUME NEW a \in T, NEW b \in T, a < b
      PROVE  f[a] # f[b]
  <2>1. below(a) \in SUBSET below(b)
    <3>1. \A c \in T : c < a => c < b
      BY <1>4
    <3>2. QED
      BY <3>1
  <2>2. a \in below(b) /\ a \notin below(a)
    BY <1>4
  <2>3. IsFiniteSet(below(b))
    BY FS_Subset
  <2>4. Cardinality(below(a)) # Cardinality(below(b))
    BY <2>1, <2>2, <2>3, FS_Subset
  <2>5. QED
    BY <2>4
<1>5. \A a, b \in T : f[a] = f[b] => a = b
  BY <1>4
<1>6. f \in Injection(T, 0 .. (m - 1))
  BY <1>3, <1>5 DEF Injection, IsInjective
<1>7. IsFiniteSet(0 .. (m - 1)) /\ Cardinality(0 .. (m - 1)) = m
  <2>1. 0 \in Int /\ m - 1 \in Int /\ (m = 0 <=> 0 > m - 1) /\ (m - 1) - 0 + 1 = m
    BY <1>1
  <2> HIDE DEF m
  <2>2. /\ IsFiniteSet(0 .. (m - 1))
        /\ Cardinality(0 .. (m - 1)) = IF 0 > m - 1 THEN 0 ELSE (m - 1) - 0 + 1
    BY <2>1, FS_Interval
  <2>3. QED
    BY <2>1, <2>2
<1>8. f \in Surjection(T, 0 .. (m - 1))
  BY <1>6, <1>7, FS_Injection
<1>9. QED
  BY <1>6, <1>8 DEF Bijection

(* Every rank below the cardinality is some number's.                      *)
LEMMA RankExists ==
  ASSUME NEW T, IsFiniteSet(T), T \subseteq Int, NEW k \in 0 .. (Cardinality(T) - 1)
  PROVE  \E b \in T : Cardinality({c \in T : c < b}) = k
<1> DEFINE f == [b \in T |-> Cardinality({c \in T : c < b})]
<1>1. f \in Surjection(T, 0 .. (Cardinality(T) - 1))
  BY RankBijection DEF Bijection
<1>2. PICK b \in T : f[b] = k
  BY <1>1 DEF Surjection
<1>3. Cardinality({c \in T : c < b}) = k
  BY <1>2
<1>4. QED
  BY <1>3

(* A number is identified by its rank.                                     *)
LEMMA RankUnique ==
  ASSUME NEW T, IsFiniteSet(T), T \subseteq Int
  PROVE  \A a, b \in T : Cardinality({c \in T : c < a}) = Cardinality({c \in T : c < b}) => a = b
<1> DEFINE f == [x \in T |-> Cardinality({c \in T : c < x})]
<1>1. f \in Injection(T, 0 .. (Cardinality(T) - 1))
  BY RankBijection DEF Bijection
<1>2. \A a, b \in T : f[a] = f[b] => a = b
  <2> HIDE DEF f
  <2>1. QED
    BY <1>1 DEF Injection, IsInjective
<1>3. QED
  BY <1>2

(* Nth lists the positions, each once.                                     *)
LEMMA NthPositions ==
  ASSUME NEW T, IsFiniteSet(T), T \subseteq Int
  PROVE  /\ Cardinality(T) \in Nat
         /\ \A i \in 1 .. Cardinality(T) :
              Nth(T, i) \in T /\ Cardinality({o \in T : o < Nth(T, i)}) = i - 1
         /\ \A i, j \in 1 .. Cardinality(T) : Nth(T, i) = Nth(T, j) => i = j
         /\ \A p \in T : \E i \in 1 .. Cardinality(T) : Nth(T, i) = p
<1>1. Cardinality(T) \in Nat
  BY FS_CardinalityType
<1>2. ASSUME NEW i \in 1 .. Cardinality(T)
      PROVE  Nth(T, i) \in T /\ Cardinality({o \in T : o < Nth(T, i)}) = i - 1
  <2>1. i - 1 \in 0 .. (Cardinality(T) - 1)
    BY <1>1
  <2>2. \E p \in T : Cardinality({o \in T : o < p}) = i - 1
    BY <2>1, RankExists
  <2>3. QED
    BY <2>2 DEF Nth
<1>3. ASSUME NEW i \in 1 .. Cardinality(T), NEW j \in 1 .. Cardinality(T), Nth(T, i) = Nth(T, j)
      PROVE  i = j
  <2>1. i - 1 = j - 1
    BY <1>2, <1>3
  <2>2. QED
    BY <1>1, <2>1
<1>4. ASSUME NEW p \in T PROVE \E i \in 1 .. Cardinality(T) : Nth(T, i) = p
  <2> DEFINE r == Cardinality({o \in T : o < p})
  <2>1. r \in 0 .. (Cardinality(T) - 1)
    <3> DEFINE f == [b \in T |-> Cardinality({c \in T : c < b})]
    <3>1. f \in [T -> 0 .. (Cardinality(T) - 1)]
      BY RankBijection DEF Bijection, Surjection
    <3>2. f[p] = r
      OBVIOUS
    <3> HIDE DEF f, r
    <3>3. QED
      BY <3>1, <3>2
  <2>2. r + 1 \in 1 .. Cardinality(T) /\ (r + 1) - 1 = r
    <3> HIDE DEF r
    <3>1. QED
      BY <1>1, <2>1
  <2>3. Nth(T, r + 1) \in T /\ Cardinality({o \in T : o < Nth(T, r + 1)}) = r
    <3> HIDE DEF r
    <3>1. QED
      BY <1>2, <2>2
  <2>4. Nth(T, r + 1) = p
    <3> DEFINE x == Nth(T, r + 1)
    <3>1. x \in T /\ Cardinality({o \in T : o < x}) = Cardinality({o \in T : o < p})
      BY <2>3
    <3> HIDE DEF x
    <3>2. \A a, b \in T : Cardinality({o \in T : o < a}) = Cardinality({o \in T : o < b}) => a = b
      BY RankUnique
    <3>3. x = p
      BY <3>1, <3>2
    <3>4. QED
      BY <3>3 DEF x
  <2>5. QED
    BY <2>2, <2>4
<1>5. QED
  BY <1>1, <1>2, <1>3, <1>4

LEMMA NthAt ==
  ASSUME NEW T, IsFiniteSet(T), T \subseteq Int, NEW i \in 1 .. Cardinality(T)
  PROVE  Nth(T, i) \in T /\ Cardinality({o \in T : o < Nth(T, i)}) = i - 1
BY NthPositions

(* How a position is recognised as the i-th one.                           *)
LEMMA NthIs ==
  ASSUME NEW T, IsFiniteSet(T), T \subseteq Int, NEW i \in 1 .. Cardinality(T),
         NEW p \in T, Cardinality({o \in T : o < p}) = i - 1
  PROVE  Nth(T, i) = p
<1> DEFINE a == Nth(T, i)
<1>1. a \in T /\ Cardinality({o \in T : o < a}) = i - 1
  BY NthAt
<1>2. Cardinality({o \in T : o < a}) = Cardinality({o \in T : o < p})
  BY <1>1
<1>3. \A x, y \in T : Cardinality({o \in T : o < x}) = Cardinality({o \in T : o < y}) => x = y
  BY RankUnique
<1> HIDE DEF a
<1>4. a = p
  BY <1>1, <1>2, <1>3
<1>5. QED
  BY <1>4 DEF a

-----------------------------------------------------------------------------
(* Elements of sequences.                                                  *)
LEMMA Members ==
  ASSUME NEW A, NEW s \in Seq(A)
  PROVE  /\ ToSet(s) \subseteq A
         /\ DOMAIN s = 1 .. Len(s) /\ Len(s) \in Nat
         /\ s \in Seq(ToSet(s))
         /\ ToSet(s) = {} <=> s = << >>
         /\ \A x : x \in ToSet(s) <=> \E i \in 1 .. Len(s) : s[i] = x
BY DEF ToSet

LEMMA ConcatMembers ==
  ASSUME NEW A, NEW s \in Seq(A), NEW t \in Seq(A)
  PROVE  /\ s \o t \in Seq(A)
         /\ ToSet(s \o t) = ToSet(s) \cup ToSet(t)
         /\ IsInjective(s \o t) <=>
              IsInjective(s) /\ IsInjective(t) /\ ToSet(s) \cap ToSet(t) = {}
<1> DEFINE u == s \o t
<1>1. /\ u \in Seq(A) /\ Len(u) = Len(s) + Len(t)
      /\ Len(s) \in Nat /\ Len(t) \in Nat
      /\ DOMAIN s = 1 .. Len(s) /\ DOMAIN t = 1 .. Len(t) /\ DOMAIN u = 1 .. Len(u)
      /\ \A i \in 1 .. Len(s) : i \in 1 .. Len(u) /\ u[i] = s[i]
      /\ \A i \in 1 .. Len(t) : Len(s) + i \in 1 .. Len(u) /\ u[Len(s) + i] = t[i]
  OBVIOUS
<1>2. \A i \in 1 .. Len(u) : i \in 1 .. Len(s) \/ \E j \in 1 .. Len(t) : i = Len(s) + j
  <2>1. ASSUME NEW i \in 1 .. Len(u), i \notin 1 .. Len(s)
        PROVE  \E j \in 1 .. Len(t) : i = Len(s) + j
    <3>1. i - Len(s) \in 1 .. Len(t) /\ i = Len(s) + (i - Len(s))
      BY <1>1, <2>1
    <3>2. QED
      BY <3>1
  <2>2. QED
    BY <2>1
<1> HIDE DEF u
<1>3. ToSet(u) = ToSet(s) \cup ToSet(t)
  <2>1. ASSUME NEW x \in ToSet(u) PROVE x \in ToSet(s) \cup ToSet(t)
    <3>1. PICK i \in 1 .. Len(u) : u[i] = x
      BY <1>1, <2>1 DEF ToSet
    <3>2. CASE i \in 1 .. Len(s)
      BY <1>1, <3>1, <3>2 DEF ToSet
    <3>3. CASE \E j \in 1 .. Len(t) : i = Len(s) + j
      BY <1>1, <3>1, <3>3 DEF ToSet
    <3>4. QED
      BY <1>2, <3>2, <3>3
  <2>2. ASSUME NEW x \in ToSet(s) PROVE x \in ToSet(u)
    BY <1>1, <2>2 DEF ToSet
  <2>3. ASSUME NEW x \in ToSet(t) PROVE x \in ToSet(u)
    <3>1. PICK j \in 1 .. Len(t) : t[j] = x
      BY <1>1, <2>3 DEF ToSet
    <3>2. Len(s) + j \in DOMAIN u /\ u[Len(s) + j] = x
      BY <1>1, <3>1
    <3>3. QED
      BY <3>2 DEF ToSet
  <2>4. QED
    BY <2>1, <2>2, <2>3
<1>4. ASSUME IsInjective(u)
      PROVE  IsInjective(s) /\ IsInjective(t) /\ ToSet(s) \cap ToSet(t) = {}
  <2>1. \A i, j \in 1 .. Len(u) : u[i] = u[j] => i = j
    BY <1>1, <1>4 DEF IsInjective
  <2>2. \A i, j \in 1 .. Len(s) : s[i] = s[j] => i = j
    BY <1>1, <2>1
  <2>3. ASSUME NEW i \in 1 .. Len(t), NEW j \in 1 .. Len(t), t[i] = t[j] PROVE i = j
    <3>1. /\ Len(s) + i \in 1 .. Len(u) /\ Len(s) + j \in 1 .. Len(u)
          /\ u[Len(s) + i] = u[Len(s) + j]
      BY <1>1, <2>3
    <3>2. Len(s) + i = Len(s) + j
      BY <2>1, <3>1
    <3>3. QED
      BY <1>1, <3>2
  <2>4. ASSUME NEW x \in ToSet(s), x \in ToSet(t) PROVE FALSE
    <3>1. PICK i \in 1 .. Len(s) : s[i] = x
      BY <1>1 DEF ToSet
    <3>2. PICK j \in 1 .. Len(t) : t[j] = x
      BY <1>1, <2>4 DEF ToSet
    <3>3. i \in 1 .. Len(u) /\ Len(s) + j \in 1 .. Len(u) /\ u[i] = u[Len(s) + j]
      BY <1>1, <3>1, <3>2
    <3>4. i = Len(s) + j
      BY <2>1, <3>3
    <3>5. QED
      BY <1>1, <3>4
  <2>5. QED
    BY <1>1, <2>2, <2>3, <2>4 DEF IsInjective
<1>5. ASSUME IsInjective(s), IsInjective(t), ToSet(s) \cap ToSet(t) = {}
      PROVE  IsInjective(u)
  <2>1. SUFFICES ASSUME NEW i \in 1 .. Len(u), NEW j \in 1 .. Len(u), u[i] = u[j] PROVE i = j
    BY <1>1 DEF IsInjective
  <2>2. \A a, b \in 1 .. Len(s) : s[a] = s[b] => a = b
    BY <1>1, <1>5 DEF IsInjective
  <2>3. \A a, b \in 1 .. Len(t) : t[a] = t[b] => a = b
    BY <1>1, <1>5 DEF IsInjective
  <2>4. \A a \in 1 .. Len(s), b \in 1 .. Len(t) : s[a] # t[b]
    BY <1>1, <1>5 DEF ToSet
  <2>5. CASE i \in 1 .. Len(s) /\ j \in 1 .. Len(s)
    BY <1>1, <2>1, <2>2, <2>5
  <2>6. CASE i \in 1 .. Len(s) /\ j \notin 1 .. Len(s)
    <3>1. PICK b \in 1 .. Len(t) : j = Len(s) + b
      BY <1>2, <2>6
    <3>2. QED
      BY <1>1, <2>1, <2>4, <2>6, <3>1
  <2>7. CASE i \notin 1 .. Len(s) /\ j \in 1 .. Len(s)
    <3>1. PICK b \in 1 .. Len(t) : i = Len(s) + b
      BY <1>2, <2>7
    <3>2. u[i] = t[b] /\ u[j] = s[j]
      BY <1>1, <2>7, <3>1
    <3>3. QED
      BY <2>1, <2>4, <2>7, <3>2
  <2>8. CASE i \notin 1 .. Len(s) /\ j \notin 1 .. Len(s)
    <3>1. PICK a \in 1 .. Len(t) : i = Len(s) + a
      BY <1>2, <2>8
    <3>2. PICK b \in 1 .. Len(t) : j = Len(s) + b
      BY <1>2, <2>8
    <3>3. t[a] = t[b]
      BY <1>1, <2>1, <3>1, <3>2
    <3>4. QED
      BY <2>3, <3>1, <3>2, <3>3
  <2>9. QED
    BY <2>5, <2>6, <2>7, <2>8
<1>6. QED
  BY <1>1, <1>3, <1>4, <1>5 DEF u

LEMMA AppendMembers ==
  ASSUME NEW A, NEW q \in Seq(A), NEW x \in A
  PROVE  /\ Append(q, x) \in Seq(A)
         /\ ToSet(Append(q, x)) = ToSet(q) \cup {x}
         /\ IsInjective(Append(q, x)) <=> IsInjective(q) /\ x \notin ToSet(q)
<1>1. PICK e : e = <<x>>
  OBVIOUS
<1>2. Append(q, x) = q \o e /\ e \in Seq(A) /\ ToSet(e) = {x} /\ IsInjective(e)
  BY <1>1 DEF ToSet, IsInjective
<1>3. /\ q \o e \in Seq(A) /\ ToSet(q \o e) = ToSet(q) \cup ToSet(e)
      /\ IsInjective(q \o e) <=> IsInjective(q) /\ IsInjective(e) /\ ToSet(q) \cap ToSet(e) = {}
  BY <1>2, ConcatMembers
<1>4. QED
  BY <1>2, <1>3

(* A queue cut in two: what first and rest hold.                           *)
LEMMA CutMembers ==
  ASSUME NEW A, NEW q \in Seq(A), NEW k \in 0 .. Len(q)
  PROVE  /\ SubSeq(q, 1, k) \in Seq(A) /\ Len(SubSeq(q, 1, k)) = k
         /\ SubSeq(q, k + 1, Len(q)) \in Seq(A) /\ Len(SubSeq(q, k + 1, Len(q))) = Len(q) - k
         /\ \A i \in 1 .. k : SubSeq(q, 1, k)[i] = q[i]
         /\ \A i \in 1 .. Len(q) - k : SubSeq(q, k + 1, Len(q))[i] = q[k + i]
         /\ SubSeq(q, 1, k) \o SubSeq(q, k + 1, Len(q)) = q
         /\ ToSet(q) = ToSet(SubSeq(q, 1, k)) \cup ToSet(SubSeq(q, k + 1, Len(q)))
         /\ IsInjective(q) =>
              /\ IsInjective(SubSeq(q, 1, k)) /\ IsInjective(SubSeq(q, k + 1, Len(q)))
              /\ ToSet(SubSeq(q, 1, k)) \cap ToSet(SubSeq(q, k + 1, Len(q))) = {}
<1> DEFINE f == SubSeq(q, 1, k)
           a == SubSeq(q, k + 1, Len(q))
<1>1. /\ Len(q) \in Nat /\ k \in Nat /\ k <= Len(q)
      /\ \A i \in 1 .. Len(q) : q[i] \in A
  OBVIOUS
<1>2. /\ f \in Seq(A) /\ Len(f) = k
      /\ \A i \in 1 .. k : f[i] = q[i]
  <2>1. \A i \in 1 .. k : q[i] \in A
    BY <1>1
  <2>2. /\ f \in Seq(A) /\ Len(f) = IF 1 <= k THEN k - 1 + 1 ELSE 0
        /\ \A i \in 1 .. k - 1 + 1 : f[i] = q[1 + i - 1]
    BY <1>1, <2>1, SubSeqProperties
  <2>3. QED
    BY <1>1, <2>2
<1>3. /\ a \in Seq(A) /\ Len(a) = Len(q) - k
      /\ \A i \in 1 .. Len(q) - k : a[i] = q[k + i]
  <2>1. \A i \in (k + 1) .. Len(q) : q[i] \in A
    BY <1>1
  <2>2. /\ a \in Seq(A) /\ Len(a) = IF k + 1 <= Len(q) THEN Len(q) - (k + 1) + 1 ELSE 0
        /\ \A i \in 1 .. Len(q) - (k + 1) + 1 : a[i] = q[(k + 1) + i - 1]
    BY <1>1, <2>1, SubSeqProperties
  <2>3. Len(a) = Len(q) - k
    BY <1>1, <2>2
  <2>4. ASSUME NEW i \in 1 .. Len(q) - k PROVE a[i] = q[k + i]
    <3>1. i \in 1 .. Len(q) - (k + 1) + 1 /\ (k + 1) + i - 1 = k + i
      BY <1>1
    <3>2. QED
      BY <2>2, <3>1
  <2>5. QED
    BY <2>2, <2>3, <2>4
<1> HIDE DEF f, a
<1>4. f \o a = q
  <2>1. /\ f \o a \in Seq(A) /\ Len(f \o a) = Len(q)
        /\ \A i \in 1 .. Len(q) : (f \o a)[i] = IF i <= k THEN f[i] ELSE a[i - k]
    BY <1>1, <1>2, <1>3
  <2>2. ASSUME NEW i \in 1 .. Len(q) PROVE (f \o a)[i] = q[i]
    <3>1. CASE i <= k
      BY <1>1, <1>2, <2>1, <3>1
    <3>2. CASE ~(i <= k)
      <4>1. i - k \in 1 .. Len(q) - k /\ k + (i - k) = i
        BY <1>1, <3>2
      <4>2. QED
        BY <1>3, <2>1, <3>2, <4>1
    <3>3. QED
      BY <3>1, <3>2
  <2>3. QED
    BY <2>1, <2>2, SeqEqual
<1>5. /\ ToSet(q) = ToSet(f) \cup ToSet(a)
      /\ IsInjective(q) => IsInjective(f) /\ IsInjective(a) /\ ToSet(f) \cap ToSet(a) = {}
  <2>1. /\ ToSet(f \o a) = ToSet(f) \cup ToSet(a)
        /\ IsInjective(f \o a) <=> IsInjective(f) /\ IsInjective(a) /\ ToSet(f) \cap ToSet(a) = {}
    BY <1>2, <1>3, ConcatMembers
  <2>2. QED
    BY <1>4, <2>1
<1>6. QED
  BY <1>2, <1>3, <1>4, <1>5 DEF f, a

(* A slice, and a queue read backwards.                                    *)
LEMMA SliceMembers ==
  ASSUME NEW A, NEW q \in Seq(A), NEW m \in 0 .. Len(q), NEW n \in m .. Len(q)
  PROVE  /\ SubSeq(q, m + 1, n) \in Seq(A) /\ Len(SubSeq(q, m + 1, n)) = n - m
         /\ \A i \in 1 .. n - m : SubSeq(q, m + 1, n)[i] = q[m + i]
         /\ SubSeq(q, 1, m) \o SubSeq(q, m + 1, n) = SubSeq(q, 1, n)
<1>1. /\ Len(q) \in Nat /\ m \in Nat /\ n \in Nat /\ m <= n /\ n <= Len(q)
      /\ \A i \in 1 .. Len(q) : q[i] \in A
  OBVIOUS
<1> DEFINE f == SubSeq(q, 1, n)
<1>2. /\ f \in Seq(A) /\ Len(f) = n /\ \A i \in 1 .. n : f[i] = q[i]
  <2>1. n \in 0 .. Len(q)
    BY <1>1
  <2>2. QED
    BY <2>1, CutMembers
<1> HIDE DEF f
<1>3. /\ SubSeq(f, m + 1, n) \in Seq(A) /\ Len(SubSeq(f, m + 1, n)) = n - m
      /\ \A i \in 1 .. n - m : SubSeq(f, m + 1, n)[i] = f[m + i]
      /\ SubSeq(f, 1, m) \o SubSeq(f, m + 1, n) = f
  <2>1. m \in 0 .. Len(f) /\ Len(f) = n
    BY <1>1, <1>2
  <2>2. QED
    BY <1>2, <2>1, CutMembers
<1>4. SubSeq(f, m + 1, n) = SubSeq(q, m + 1, n) /\ SubSeq(f, 1, m) = SubSeq(q, 1, m)
  <2>1. \A i \in 1 .. n - m : m + i \in 1 .. n /\ f[m + i] = q[m + i]
    BY <1>1, <1>2
  <2>2. SubSeq(f, m + 1, n) = [i \in 1 .. n - m |-> f[m + i]]
    <3>1. SubSeq(f, m + 1, n) = [i \in 1 .. Len(SubSeq(f, m + 1, n)) |-> SubSeq(f, m + 1, n)[i]]
      BY <1>3
    <3>2. QED
      BY <1>3, <3>1
  <2>3. /\ SubSeq(q, m + 1, n) \in Seq(A) /\ Len(SubSeq(q, m + 1, n)) = n - m
        /\ \A i \in 1 .. n - m : SubSeq(q, m + 1, n)[i] = q[m + i]
    <3>1. \A i \in (m + 1) .. n : q[i] \in A
      BY <1>1
    <3>2. /\ SubSeq(q, m + 1, n) \in Seq(A)
          /\ Len(SubSeq(q, m + 1, n)) = IF m + 1 <= n THEN n - (m + 1) + 1 ELSE 0
          /\ \A i \in 1 .. n - (m + 1) + 1 : SubSeq(q, m + 1, n)[i] = q[(m + 1) + i - 1]
      BY <1>1, <3>1, SubSeqProperties
    <3>3. Len(SubSeq(q, m + 1, n)) = n - m
      BY <1>1, <3>2
    <3>4. ASSUME NEW i \in 1 .. n - m PROVE SubSeq(q, m + 1, n)[i] = q[m + i]
      <4>1. i \in 1 .. n - (m + 1) + 1 /\ (m + 1) + i - 1 = m + i
        BY <1>1
      <4>2. QED
        BY <3>2, <4>1
    <3>5. QED
      BY <3>2, <3>3, <3>4
  <2>4. SubSeq(f, m + 1, n) = SubSeq(q, m + 1, n)
    <3> DEFINE u == SubSeq(f, m + 1, n)
               v == SubSeq(q, m + 1, n)
    <3>1. /\ u \in Seq(A) /\ v \in Seq(A) /\ Len(u) = n - m /\ Len(v) = n - m
          /\ \A i \in 1 .. n - m : u[i] = v[i]
      BY <1>3, <2>1, <2>3
    <3> HIDE DEF u, v
    <3>2. u = v
      BY <3>1, SeqEqual
    <3>3. QED
      BY <3>2 DEF u, v
  <2>5. SubSeq(f, 1, m) = SubSeq(q, 1, m)
    <3> DEFINE u == SubSeq(f, 1, m)
               v == SubSeq(q, 1, m)
    <3>1. m \in 0 .. Len(f)
      BY <1>1, <1>2
    <3>2. /\ u \in Seq(A) /\ Len(u) = m
          /\ \A i \in 1 .. m : u[i] = f[i]
      BY <1>2, <3>1, CutMembers
    <3>3. /\ v \in Seq(A) /\ Len(v) = m
          /\ \A i \in 1 .. m : v[i] = q[i]
      BY CutMembers
    <3> HIDE DEF u, v
    <3>4. u = v
      BY <1>1, <1>2, <3>2, <3>3, SeqEqual
    <3>5. QED
      BY <3>4 DEF u, v
  <2>6. QED
    BY <2>4, <2>5
<1>5. /\ SubSeq(q, m + 1, n) \in Seq(A) /\ Len(SubSeq(q, m + 1, n)) = n - m
      /\ SubSeq(q, 1, m) \o SubSeq(q, m + 1, n) = SubSeq(q, 1, n)
  BY <1>3, <1>4 DEF f
<1>6. ASSUME NEW i \in 1 .. n - m PROVE SubSeq(q, m + 1, n)[i] = q[m + i]
  BY <1>1, <1>2, <1>3, <1>4
<1>7. QED
  BY <1>5, <1>6

LEMMA ReverseMembers ==
  ASSUME NEW A, NEW q \in Seq(A)
  PROVE  /\ Reverse(q) \in Seq(A) /\ Len(Reverse(q)) = Len(q)
         /\ ToSet(Reverse(q)) = ToSet(q)
         /\ IsInjective(q) => IsInjective(Reverse(q))
<1> DEFINE r == Reverse(q)
<1>1. r = [i \in 1 .. Len(q) |-> q[(Len(q) - i) + 1]] /\ Len(q) \in Nat
  BY DEF Reverse
<1>2. \A i \in 1 .. Len(q) : (Len(q) - i) + 1 \in 1 .. Len(q)
  BY <1>1
<1> HIDE DEF r
<1>3. r \in Seq(A) /\ Len(r) = Len(q) /\ DOMAIN r = 1 .. Len(q) /\ DOMAIN q = 1 .. Len(q)
  BY <1>1, <1>2
<1>4. \A i \in 1 .. Len(q) : r[i] = q[(Len(q) - i) + 1]
  BY <1>1
<1>5. ASSUME NEW i \in 1 .. Len(q) PROVE r[(Len(q) - i) + 1] = q[i]
  <2>1. (Len(q) - ((Len(q) - i) + 1)) + 1 = i
    BY <1>1
  <2>2. QED
    BY <1>2, <1>4, <2>1
<1>6. ToSet(r) = ToSet(q)
  <2>1. ASSUME NEW x \in ToSet(r) PROVE x \in ToSet(q)
    <3>1. PICK i \in 1 .. Len(q) : x = r[i]
      BY <1>3 DEF ToSet
    <3>2. QED
      BY <1>2, <1>3, <1>4, <3>1 DEF ToSet
  <2>2. ASSUME NEW x \in ToSet(q) PROVE x \in ToSet(r)
    <3>1. PICK i \in 1 .. Len(q) : x = q[i]
      BY <1>3 DEF ToSet
    <3>2. QED
      BY <1>2, <1>3, <1>5, <3>1 DEF ToSet
  <2>3. QED
    BY <2>1, <2>2
<1>7. IsInjective(q) => IsInjective(r)
  <2>1. SUFFICES ASSUME IsInjective(q), NEW i \in 1 .. Len(q), NEW j \in 1 .. Len(q), r[i] = r[j]
                 PROVE  i = j
    BY <1>3 DEF IsInjective
  <2>2. (Len(q) - i) + 1 = (Len(q) - j) + 1
    BY <1>2, <1>3, <1>4, <2>1 DEF IsInjective
  <2>3. QED
    BY <1>1, <2>2
<1>8. QED
  BY <1>3, <1>6, <1>7 DEF r

-----------------------------------------------------------------------------
(* Filters.                                                                *)
LEMMA PickMembers ==
  ASSUME NEW A, NEW q \in Seq(A), NEW T, T \subseteq 1 .. Len(q)
  PROVE  /\ PickAt(q, T) \in Seq(A) /\ Len(PickAt(q, T)) = Cardinality(T)
         /\ ToSet(PickAt(q, T)) = {q[p] : p \in T}
         /\ IsInjective(q) => IsInjective(PickAt(q, T))
<1> DEFINE r == PickAt(q, T)
<1>1. IsFiniteSet(T) /\ T \subseteq Int /\ Len(q) \in Nat
  <2>1. Len(q) \in Nat /\ IsFiniteSet(1 .. Len(q))
    BY FS_Interval
  <2>2. T \in SUBSET (1 .. Len(q))
    OBVIOUS
  <2>3. IsFiniteSet(T)
    BY <2>1, <2>2, FS_Subset
  <2>4. QED
    BY <2>1, <2>3
<1>2. /\ Cardinality(T) \in Nat
      /\ \A i \in 1 .. Cardinality(T) : Nth(T, i) \in T
      /\ \A i, j \in 1 .. Cardinality(T) : Nth(T, i) = Nth(T, j) => i = j
      /\ \A p \in T : \E i \in 1 .. Cardinality(T) : Nth(T, i) = p
  BY <1>1, NthPositions
<1>3. r = [i \in 1 .. Cardinality(T) |-> q[Nth(T, i)]]
  BY DEF PickAt
<1>4. \A p \in T : p \in 1 .. Len(q) /\ q[p] \in A
  OBVIOUS
<1> HIDE DEF r
<1>5. /\ r \in Seq(A) /\ Len(r) = Cardinality(T) /\ DOMAIN r = 1 .. Cardinality(T)
      /\ \A i \in 1 .. Cardinality(T) : r[i] = q[Nth(T, i)]
  <2>1. PICK n \in Nat : n = Cardinality(T)
    BY <1>2
  <2>2. \A i \in 1 .. n : q[Nth(T, i)] \in A
    BY <1>2, <1>4, <2>1
  <2>3. r \in [1 .. n -> A] /\ \A i \in 1 .. n : r[i] = q[Nth(T, i)]
    BY <1>3, <2>1, <2>2
  <2>4. r \in Seq(A) /\ Len(r) = n /\ DOMAIN r = 1 .. n
    BY <2>3
  <2>5. QED
    BY <2>1, <2>3, <2>4
<1>6. ToSet(r) = {q[p] : p \in T}
  <2>1. ASSUME NEW x \in ToSet(r) PROVE x \in {q[p] : p \in T}
    <3>1. PICK i \in 1 .. Cardinality(T) : x = r[i]
      BY <1>5, <2>1 DEF ToSet
    <3>2. QED
      BY <1>2, <1>5, <3>1
  <2>2. ASSUME NEW p \in T PROVE q[p] \in ToSet(r)
    <3>1. PICK i \in 1 .. Cardinality(T) : Nth(T, i) = p
      BY <1>2
    <3>2. r[i] = q[p]
      BY <1>5, <3>1
    <3>3. QED
      BY <1>5, <3>2 DEF ToSet
  <2>3. QED
    BY <2>1, <2>2
<1>7. IsInjective(q) => IsInjective(r)
  <2>1. SUFFICES ASSUME IsInjective(q),
                        NEW i \in 1 .. Cardinality(T), NEW j \in 1 .. Cardinality(T), r[i] = r[j]
                 PROVE  i = j
    BY <1>5 DEF IsInjective
  <2>2. PICK a, b : a = Nth(T, i) /\ b = Nth(T, j)
    OBVIOUS
  <2>3. a \in T /\ b \in T
    BY <1>2, <2>2
  <2>4. q[a] = q[b]
    <3>1. r[i] = q[a] /\ r[j] = q[b]
      BY <1>5, <2>2
    <3>2. QED
      BY <2>1, <3>1
  <2>5. a \in DOMAIN q /\ b \in DOMAIN q
    BY <1>4, <2>3
  <2>6. a = b
    BY <2>1, <2>4, <2>5 DEF IsInjective
  <2>7. QED
    BY <1>2, <2>2, <2>6
<1>8. QED
  BY <1>5, <1>6, <1>7 DEF r

LEMMA KeptMembers ==
  ASSUME NEW A, NEW q \in Seq(A), NEW S
  PROVE  /\ Kept(q, S) \in Seq(A)
         /\ ToSet(Kept(q, S)) = ToSet(q) \cap S
         /\ IsInjective(q) => IsInjective(Kept(q, S))
<1> DEFINE T == {p \in DOMAIN q : q[p] \in S}
<1>1. T \subseteq 1 .. Len(q) /\ Kept(q, S) = PickAt(q, T)
  BY DEF Kept
<1>2. {q[p] : p \in T} = ToSet(q) \cap S
  BY DEF ToSet
<1> HIDE DEF T
<1>3. QED
  BY <1>1, <1>2, PickMembers

(* Only what the queue holds decides what is kept.                         *)
LEMMA KeptSame ==
  ASSUME NEW A, NEW q \in Seq(A), NEW S, NEW R, \A x \in ToSet(q) : x \in S <=> x \in R
  PROVE  Kept(q, S) = Kept(q, R)
<1>1. {p \in DOMAIN q : q[p] \in S} = {p \in DOMAIN q : q[p] \in R}
  BY DEF ToSet
<1>2. QED
  BY <1>1 DEF Kept

LEMMA KeptNone == ASSUME NEW S PROVE Kept(<< >>, S) = << >>
<1>1. {p \in DOMAIN << >> : << >>[p] \in S} = {} /\ Cardinality({}) = 0
  BY FS_EmptySet
<1>2. QED
  BY <1>1 DEF Kept, PickAt

LEMMA ShiftedCardinality ==
  ASSUME NEW n \in Nat, NEW U, IsFiniteSet(U), U \subseteq Int
  PROVE  LET W == {n + p : p \in U} IN IsFiniteSet(W) /\ Cardinality(W) = Cardinality(U)
<1> DEFINE W == {n + p : p \in U}
           shift == [p \in U |-> n + p]
<1>1. shift \in [U -> W] /\ \A p \in U : shift[p] = n + p
  OBVIOUS
<1>2. \A w \in W : \E p \in U : shift[p] = w
  BY <1>1
<1>3. \A a, b \in U : shift[a] = shift[b] => a = b
  BY <1>1
<1> HIDE DEF W, shift
<1>4. shift \in Bijection(U, W)
  BY <1>1, <1>2, <1>3 DEF Bijection, Injection, Surjection, IsInjective
<1>5. IsFiniteSet(W) /\ Cardinality(W) = Cardinality(U)
  BY <1>4, FS_Bijection DEF ExistsBijection
<1>6. QED
  BY <1>5 DEF W

(* The positions T of a queue of n, and the positions U of what follows it. *)
Joins(X, n, T, U) ==
  /\ T \subseteq 1 .. n /\ U \subseteq Nat \ {0} /\ IsFiniteSet(U)
  /\ X = T \cup {n + p : p \in U}

(* Positions past those already counted are counted after them.            *)
LEMMA NthJoin ==
  ASSUME NEW n \in Nat, NEW T, NEW U, NEW X, Joins(X, n, T, U)
  PROVE  /\ Cardinality(X) = Cardinality(T) + Cardinality(U)
         /\ \A i \in 1 .. Cardinality(T) : Nth(X, i) = Nth(T, i)
         /\ \A i \in 1 .. Cardinality(U) : Nth(X, Cardinality(T) + i) = n + Nth(U, i)
<1> DEFINE W == {n + p : p \in U}
           V == T \cup W
           t == Cardinality(T)
           u == Cardinality(U)
<1>0. T \subseteq 1 .. n /\ U \subseteq Nat \ {0} /\ IsFiniteSet(U) /\ X = V
  BY DEF Joins
<1>1. /\ IsFiniteSet(T) /\ T \subseteq Int /\ U \subseteq Int /\ t \in Nat /\ u \in Nat
  <2>1. IsFiniteSet(1 .. n)
    BY FS_Interval
  <2>2. IsFiniteSet(T)
    BY <1>0, <2>1, FS_Subset
  <2>3. QED
    BY <1>0, <2>2, FS_CardinalityType
<1>2. IsFiniteSet(W) /\ Cardinality(W) = u
  BY <1>0, <1>1, ShiftedCardinality
<1>3. T \cap W = {}
  <2>1. \A p \in U : ~(n + p <= n)
    BY <1>0
  <2>2. \A p \in T : p <= n
    BY <1>0
  <2>3. QED
    BY <2>1, <2>2
<1>4. IsFiniteSet(V) /\ V \subseteq Int /\ Cardinality(V) = t + u
  <2>1. W \subseteq Int
    BY <1>1
  <2> HIDE DEF W
  <2>2. /\ IsFiniteSet(T \cup W)
        /\ Cardinality(T \cup W) = Cardinality(T) + Cardinality(W) - Cardinality(T \cap W)
    BY <1>1, <1>2, FS_Union
  <2>3. Cardinality(T \cap W) = 0
    BY <1>3, FS_EmptySet
  <2>4. QED
    BY <1>1, <1>2, <2>1, <2>2, <2>3
<1>5. ASSUME NEW i \in 1 .. t PROVE Nth(V, i) = Nth(T, i)
  <2>1. Nth(T, i) \in T /\ Cardinality({o \in T : o < Nth(T, i)}) = i - 1
    BY <1>1, NthAt
  <2>2. {o \in V : o < Nth(T, i)} = {o \in T : o < Nth(T, i)}
    <3>0. PICK m \in 1 .. n : m = Nth(T, i)
      BY <1>0, <2>1
    <3>1. \A p \in U : ~(n + p < Nth(T, i))
      BY <1>0, <3>0
    <3>2. QED
      BY <3>1
  <2>3. i \in 1 .. Cardinality(V)
    BY <1>1, <1>4
  <2>4. Nth(T, i) \in V /\ Cardinality({o \in V : o < Nth(T, i)}) = i - 1
    BY <2>1, <2>2
  <2> HIDE DEF V
  <2>5. QED
    BY <1>4, <2>3, <2>4, NthIs
<1>6. ASSUME NEW i \in 1 .. u PROVE Nth(V, t + i) = n + Nth(U, i)
  <2> DEFINE b == Nth(U, i)
  <2>1. b \in U /\ Cardinality({o \in U : o < b}) = i - 1
    BY <1>0, <1>1, NthAt
  <2> HIDE DEF b
  <2>2. {o \in V : o < n + b} = T \cup {n + p : p \in {o \in U : o < b}}
    <3>1. \A p \in T : p < n + b
      BY <1>0, <2>1
    <3>2. \A p \in U : n + p < n + b <=> p < b
      BY <1>0, <2>1
    <3>3. QED
      BY <3>1, <3>2
  <2> DEFINE L == {o \in U : o < b}
             M == {n + p : p \in L}
  <2>3. IsFiniteSet(L) /\ L \subseteq U
    BY <1>0, FS_Subset
  <2>4. IsFiniteSet(M) /\ Cardinality(M) = i - 1
    <3>1. Cardinality(L) = i - 1 /\ L \subseteq Int
      BY <1>1, <2>1, <2>3
    <3> HIDE DEF L
    <3>2. QED
      BY <2>3, <3>1, ShiftedCardinality
  <2>5. T \cap M = {}
    BY <1>3
  <2>6. Cardinality(T \cup M) = t + (i - 1)
    <3> HIDE DEF M, L
    <3>0. IsFiniteSet(T) /\ IsFiniteSet(M)
      BY <1>1, <2>4
    <3>1. Cardinality(T \cup M) = Cardinality(T) + Cardinality(M) - Cardinality(T \cap M)
      BY <3>0, FS_Union
    <3>2. Cardinality(T \cap M) = 0
      BY <2>5, FS_EmptySet
    <3>3. QED
      BY <1>1, <2>4, <3>1, <3>2
  <2>7. Cardinality({o \in V : o < n + b}) = (t + i) - 1
    <3>1. t + (i - 1) = (t + i) - 1
      BY <1>1
    <3>2. QED
      BY <2>2, <2>6, <3>1
  <2>8. t + i \in 1 .. Cardinality(V) /\ n + b \in V
    BY <1>1, <1>4, <2>1
  <2>9. PICK j, c : j = t + i /\ c = n + b
    OBVIOUS
  <2>10. /\ j \in 1 .. Cardinality(V) /\ c \in V
         /\ Cardinality({o \in V : o < c}) = j - 1
    BY <2>7, <2>8, <2>9
  <2> HIDE DEF V, L, M
  <2>11. Nth(V, j) = c
    BY <1>4, <2>10, NthIs
  <2>12. QED
    BY <2>9, <2>11 DEF b
<1>7. QED
  BY <1>0, <1>4, <1>5, <1>6

(* Filtering a concatenation.                                              *)
LEMMA KeptConcat ==
  ASSUME NEW A, NEW q \in Seq(A), NEW b \in Seq(A), NEW S
  PROVE  Kept(q \o b, S) = Kept(q, S) \o Kept(b, S)
<1> DEFINE n == Len(q)
           T == {p \in DOMAIN q : q[p] \in S}
           U == {p \in DOMAIN b : b[p] \in S}
           V == {p \in DOMAIN (q \o b) : (q \o b)[p] \in S}
           W == T \cup {n + p : p \in U}
           t == Cardinality(T)
           u == Cardinality(U)
<1>1. /\ n \in Nat /\ Len(b) \in Nat
      /\ DOMAIN q = 1 .. n /\ DOMAIN b = 1 .. Len(b) /\ DOMAIN (q \o b) = 1 .. n + Len(b)
      /\ \A p \in 1 .. n : (q \o b)[p] = q[p]
      /\ \A p \in 1 .. Len(b) : (q \o b)[n + p] = b[p]
  OBVIOUS
<1>2. V = W
  <2>1. ASSUME NEW p \in V PROVE p \in W
    <3>1. CASE p <= n
      BY <1>1, <3>1
    <3>2. CASE ~(p <= n)
      <4>1. p - n \in 1 .. Len(b) /\ p = n + (p - n)
        BY <1>1, <3>2
      <4>2. p - n \in U
        BY <1>1, <4>1
      <4>3. QED
        BY <4>1, <4>2
    <3>3. QED
      BY <3>1, <3>2
  <2>2. ASSUME NEW p \in T PROVE p \in V
    BY <1>1
  <2>3. ASSUME NEW p \in U PROVE n + p \in V
    BY <1>1
  <2>4. QED
    BY <2>1, <2>2, <2>3
<1>3. /\ T \subseteq 1 .. n /\ IsFiniteSet(T) /\ T \subseteq Int
      /\ IsFiniteSet(U) /\ U \subseteq Nat \ {0} /\ U \subseteq 1 .. Len(b) /\ U \subseteq Int
  <2>1. T \subseteq 1 .. n /\ U \subseteq 1 .. Len(b)
    BY <1>1
  <2>2. IsFiniteSet(1 .. n) /\ IsFiniteSet(1 .. Len(b))
    BY <1>1, FS_Interval
  <2> HIDE DEF T, U
  <2>3. IsFiniteSet(T) /\ IsFiniteSet(U)
    BY <2>1, <2>2, FS_Subset
  <2>4. QED
    BY <1>1, <2>1, <2>3
<1>4. Kept(q, S) = PickAt(q, T) /\ Kept(b, S) = PickAt(b, U) /\ Kept(q \o b, S) = PickAt(q \o b, V)
  BY DEF Kept
<1>5. t \in Nat /\ u \in Nat
  BY <1>3, FS_CardinalityType
<1> HIDE DEF n, T, U, V
<1>6. /\ Cardinality(W) = t + u
      /\ \A i \in 1 .. t : Nth(W, i) = Nth(T, i)
      /\ \A i \in 1 .. u : Nth(W, t + i) = n + Nth(U, i)
  <2>1. Joins(W, n, T, U)
    BY <1>1, <1>3 DEF Joins
  <2> HIDE DEF W
  <2>2. n \in Nat
    BY <1>1
  <2>3. QED
    BY <2>1, <2>2, NthJoin
<1> HIDE DEF W
<1>7. /\ \A i \in 1 .. t : Nth(T, i) \in T
      /\ \A i \in 1 .. u : Nth(U, i) \in U
  BY <1>3, NthPositions
<1> DEFINE x == PickAt(q, T)
           y == PickAt(b, U)
           z == PickAt(q \o b, V)
<1>8. /\ x \in Seq(A) /\ Len(x) = t /\ \A i \in 1 .. t : x[i] = q[Nth(T, i)]
      /\ y \in Seq(A) /\ Len(y) = u /\ \A i \in 1 .. u : y[i] = b[Nth(U, i)]
  <2>1. x \in Seq(A) /\ Len(x) = t /\ y \in Seq(A) /\ Len(y) = u
    BY <1>1, <1>3, PickMembers DEF n
  <2>2. QED
    BY <2>1 DEF PickAt
<1>9. /\ z \in Seq(A) /\ Len(z) = t + u
      /\ \A i \in 1 .. t + u : z[i] = (q \o b)[Nth(W, i)]
  <2>1. q \o b \in Seq(A) /\ V \subseteq 1 .. Len(q \o b)
    BY <1>1 DEF V
  <2>2. z \in Seq(A) /\ Len(z) = Cardinality(V)
    BY <2>1, PickMembers
  <2>3. QED
    BY <1>2, <1>6, <2>2 DEF PickAt
<1>10. ASSUME NEW i \in 1 .. t PROVE z[i] = x[i]
  <2>1. Nth(T, i) \in 1 .. n
    BY <1>3, <1>7
  <2> HIDE DEF z, x, t, u
  <2>2. i \in 1 .. t + u /\ Nth(W, i) = Nth(T, i)
    BY <1>5, <1>6
  <2>3. z[i] = (q \o b)[Nth(T, i)] /\ x[i] = q[Nth(T, i)]
    BY <1>8, <1>9, <2>2
  <2>4. QED
    BY <1>1, <2>1, <2>3
<1>11. ASSUME NEW i \in 1 .. u PROVE z[t + i] = y[i]
  <2>1. Nth(U, i) \in 1 .. Len(b)
    BY <1>3, <1>7
  <2> HIDE DEF z, y, t, u
  <2>2. t + i \in 1 .. t + u /\ Nth(W, t + i) = n + Nth(U, i)
    BY <1>5, <1>6
  <2>3. z[t + i] = (q \o b)[n + Nth(U, i)] /\ y[i] = b[Nth(U, i)]
    BY <1>8, <1>9, <2>2
  <2>4. QED
    BY <1>1, <2>1, <2>3
<1> HIDE DEF x, y, z, t, u
<1>12. z = x \o y
  <2>0. x \in Seq(A) /\ y \in Seq(A) /\ Len(x) = t /\ Len(y) = u
    BY <1>8
  <2>1. /\ x \o y \in Seq(A) /\ Len(x \o y) = t + u
        /\ \A i \in 1 .. t + u : (x \o y)[i] = IF i <= t THEN x[i] ELSE y[i - t]
    <3>1. PICK v, w : v = x /\ w = y
      OBVIOUS
    <3>2. /\ v \o w \in Seq(A) /\ Len(v \o w) = Len(v) + Len(w)
          /\ \A i \in 1 .. Len(v) + Len(w) :
               (v \o w)[i] = IF i <= Len(v) THEN v[i] ELSE w[i - Len(v)]
      BY <2>0, <3>1, ConcatProperties
    <3>3. QED
      BY <2>0, <3>1, <3>2
  <2>2. ASSUME NEW i \in 1 .. t + u PROVE z[i] = (x \o y)[i]
    <3>1. CASE i <= t
      BY <1>5, <1>10, <2>1, <3>1
    <3>2. CASE ~(i <= t)
      <4>1. i - t \in 1 .. u /\ t + (i - t) = i
        BY <1>5, <3>2
      <4>2. QED
        BY <1>11, <2>1, <3>2, <4>1
    <3>3. QED
      BY <3>1, <3>2
  <2>3. QED
    BY <1>9, <2>1, <2>2, SeqEqual
<1>13. QED
  BY <1>4, <1>12 DEF x, y, z

(* A filter that every element passes.                                     *)
LEMMA KeptAll ==
  ASSUME NEW A, NEW q \in Seq(A), NEW S, ToSet(q) \subseteq S
  PROVE  Kept(q, S) = q
<1> DEFINE n == Len(q)
           T == 1 .. n
<1>1. n \in Nat /\ DOMAIN q = T /\ {p \in DOMAIN q : q[p] \in S} = T
  BY DEF ToSet
<1>2. IsFiniteSet(T) /\ T \subseteq Int /\ Cardinality(T) = n
  BY <1>1, FS_Interval
<1>3. ASSUME NEW i \in 1 .. n PROVE Nth(T, i) = i
  <2>1. Nth(T, i) \in T /\ Cardinality({o \in T : o < Nth(T, i)}) = i - 1
    <3> HIDE DEF T
    <3>1. QED
      BY <1>2, NthPositions
  <2>2. Cardinality({o \in T : o < i}) = i - 1
    <3>1. {o \in T : o < i} = 1 .. (i - 1)
      BY <1>1
    <3>2. Cardinality(1 .. (i - 1)) = IF 1 > i - 1 THEN 0 ELSE (i - 1) - 1 + 1
      BY FS_Interval
    <3>3. i \in Nat /\ i >= 1
      OBVIOUS
    <3>4. Cardinality(1 .. (i - 1)) = i - 1
      BY <3>2, <3>3
    <3>5. QED
      BY <3>1, <3>4
  <2> DEFINE a == Nth(T, i)
  <2>3. a \in T /\ i \in T /\ Cardinality({o \in T : o < a}) = Cardinality({o \in T : o < i})
    BY <2>1, <2>2
  <2> HIDE DEF a, T
  <2>4. \A x, y \in T : Cardinality({o \in T : o < x}) = Cardinality({o \in T : o < y}) => x = y
    BY <1>2, RankUnique
  <2>5. a = i
    BY <2>3, <2>4
  <2>6. QED
    BY <2>5 DEF a
<1>4. Kept(q, S) = [i \in 1 .. n |-> q[Nth(T, i)]]
  BY <1>1, <1>2 DEF Kept, PickAt
<1>5. QED
  BY <1>1, <1>3, <1>4

LEMMA KeptAppend ==
  ASSUME NEW A, NEW q \in Seq(A), NEW x \in A, NEW S
  PROVE  Kept(Append(q, x), S) = IF x \in S THEN Append(Kept(q, S), x) ELSE Kept(q, S)
<1>1. PICK e : e = <<x>>
  OBVIOUS
<1>2. Append(q, x) = q \o e /\ e \in Seq(A) /\ ToSet(e) = {x}
  BY <1>1 DEF ToSet
<1>3. Kept(Append(q, x), S) = Kept(q, S) \o Kept(e, S)
  BY <1>2, KeptConcat
<1>4. Kept(q, S) \in Seq(A)
  BY KeptMembers
<1>5. CASE x \in S
  <2>1. Kept(e, S) = e
    BY <1>2, <1>5, KeptAll
  <2>2. QED
    BY <1>1, <1>3, <1>4, <1>5, <2>1, AppendIsConcat
<1>6. CASE x \notin S
  <2>1. Kept(e, S) \in Seq(A) /\ ToSet(Kept(e, S)) = {}
    BY <1>2, <1>6, KeptMembers
  <2>2. PICK y : y = Kept(e, S)
    OBVIOUS
  <2>3. y = << >>
    BY <2>1, <2>2, Members
  <2>4. QED
    BY <1>3, <1>4, <1>6, <2>2, <2>3, ConcatEmptySeq
<1>7. QED
  BY <1>5, <1>6
-----------------------------------------------------------------------------
(* Sums.  A sum of naturals is a number of slots: every element has as     *)
(* many as it adds.  What is known of the size of finite sets is then      *)
(* known of sums.                                                          *)
Slots(S, w) == UNION {{x} \X (1 .. w[x]) : x \in S}

Weight(S, w) == Cardinality(Slots(S, w))

Weighs(S, w) == IsFiniteSet(S) /\ \A x \in S : w[x] \in Nat

LEMMA SlotsMember ==
  ASSUME NEW S, NEW w
  PROVE  /\ \A x, j : <<x, j>> \in Slots(S, w) <=> x \in S /\ j \in 1 .. w[x]
         /\ \A v \in Slots(S, w) : v = <<v[1], v[2]>> /\ v[1] \in S /\ v[2] \in 1 .. w[v[1]]
BY DEF Slots

LEMMA WeightFinite ==
  ASSUME NEW S, NEW w, Weighs(S, w)
  PROVE  IsFiniteSet(Slots(S, w)) /\ Weight(S, w) \in Nat
<1> DEFINE f == [x \in S |-> {x} \X (1 .. w[x])]
           T == {{x} \X (1 .. w[x]) : x \in S}
<1>1. f \in Surjection(S, T)
  BY DEF Surjection
<1>2. IsFiniteSet(T)
  BY <1>1, FS_Surjection DEF Weighs
<1>3. ASSUME NEW x \in S PROVE IsFiniteSet({x} \X (1 .. w[x]))
  <2>1. IsFiniteSet({x})
    BY FS_Singleton
  <2>2. IsFiniteSet(1 .. w[x])
    <3>1. 1 \in Int /\ w[x] \in Int
      BY DEF Weighs
    <3>2. QED
      BY <3>1, FS_Interval
  <2>3. QED
    BY <2>1, <2>2, FS_Product
<1>4. \A U \in T : IsFiniteSet(U)
  BY <1>3
<1>5. Slots(S, w) = UNION T
  BY DEF Slots
<1> HIDE DEF T
<1>6. IsFiniteSet(Slots(S, w))
  BY <1>2, <1>4, <1>5, FS_UNION
<1>7. QED
  BY <1>6, FS_CardinalityType DEF Weight

(* Nothing weighs nothing, and one element what it adds.                   *)
LEMMA WeightNone == ASSUME NEW w PROVE Weight({}, w) = 0
<1>1. Slots({}, w) = {}
  BY DEF Slots
<1>2. QED
  BY <1>1, FS_EmptySet DEF Weight

LEMMA WeightOne == ASSUME NEW x, NEW w, w[x] \in Nat PROVE Weight({x}, w) = w[x]
<1>1. Slots({x}, w) = {x} \X (1 .. w[x])
  BY DEF Slots
<1>2. IsFiniteSet({x}) /\ Cardinality({x}) = 1
  BY FS_Singleton
<1>3. IsFiniteSet(1 .. w[x]) /\ Cardinality(1 .. w[x]) = w[x]
  <2>1. 1 \in Int /\ w[x] \in Int
    OBVIOUS
  <2>2. /\ IsFiniteSet(1 .. w[x])
        /\ Cardinality(1 .. w[x]) = IF 1 > w[x] THEN 0 ELSE w[x] - 1 + 1
    BY <2>1, FS_Interval
  <2>3. QED
    BY <2>2
<1>4. ASSUME NEW X, NEW Y, IsFiniteSet(X), IsFiniteSet(Y), Cardinality(X) = 1,
             Cardinality(Y) = w[x]
      PROVE  Cardinality(X \X Y) = w[x]
  <2>1. Cardinality(X \X Y) = Cardinality(X) * Cardinality(Y)
    BY <1>4, FS_Product
  <2>2. QED
    BY <1>4, <2>1
<1>5. Cardinality({x} \X (1 .. w[x])) = w[x]
  BY ONLY <1>2, <1>3, <1>4
<1>6. QED
  BY <1>1, <1>5 DEF Weight

(* The weight of sets that share nothing is the sum of theirs.             *)
LEMMA WeightJoin ==
  ASSUME NEW S, NEW T, NEW w, Weighs(S, w), Weighs(T, w), S \cap T = {}
  PROVE  Weighs(S \cup T, w) /\ Weight(S \cup T, w) = Weight(S, w) + Weight(T, w)
<1>1. Weighs(S \cup T, w)
  BY FS_Union DEF Weighs
<1>2. Slots(S \cup T, w) = Slots(S, w) \cup Slots(T, w)
  BY DEF Slots
<1>3. Slots(S, w) \cap Slots(T, w) = {}
  BY SlotsMember
<1>4. /\ IsFiniteSet(Slots(S, w)) /\ Weight(S, w) \in Nat
      /\ IsFiniteSet(Slots(T, w)) /\ Weight(T, w) \in Nat
  BY WeightFinite
<1>5. PICK A, B : A = Slots(S, w) /\ B = Slots(T, w)
  OBVIOUS
<1>6. Cardinality(A \cup B) = Cardinality(A) + Cardinality(B) - Cardinality(A \cap B)
  BY <1>4, <1>5, FS_Union
<1>7. Cardinality(A \cap B) = 0
  BY <1>3, <1>5, FS_EmptySet
<1>8. /\ Weight(S, w) = Cardinality(A) /\ Weight(T, w) = Cardinality(B)
      /\ Weight(S \cup T, w) = Cardinality(A \cup B)
  BY <1>2, <1>5 DEF Weight
<1>9. Weight(S \cup T, w) = Weight(S, w) + Weight(T, w)
  BY <1>4, <1>6, <1>7, <1>8
<1>10. QED
  BY <1>1, <1>9

Parts(U, S, T) == U = S \cup T /\ S \cap T = {}

LEMMA WeightParts ==
  ASSUME NEW U, NEW S, NEW T, NEW w, Parts(U, S, T), Weighs(S, w), Weighs(T, w)
  PROVE  Weighs(U, w) /\ Weight(U, w) = Weight(S, w) + Weight(T, w)
BY WeightJoin DEF Parts

(* A part weighs no more than the whole, and less adds up to less.         *)
LEMMA WeightSubset ==
  ASSUME NEW S, NEW T, T \subseteq S, NEW w, Weighs(S, w), NEW v,
         \A x \in T : v[x] \in Nat /\ v[x] <= w[x]
  PROVE  Weighs(T, v) /\ Weight(T, v) <= Weight(S, w)
<1>1. Weighs(T, v)
  BY FS_Subset DEF Weighs
<1>2. Slots(T, v) \subseteq Slots(S, w)
  <2>1. ASSUME NEW u \in Slots(T, v) PROVE u \in Slots(S, w)
    <3>1. u = <<u[1], u[2]>> /\ u[1] \in T /\ u[2] \in 1 .. v[u[1]]
      BY SlotsMember
    <3>2. u[2] \in 1 .. w[u[1]]
      BY <3>1 DEF Weighs
    <3>3. <<u[1], u[2]>> \in Slots(S, w)
      BY <3>1, <3>2, SlotsMember
    <3>4. QED
      BY <3>1, <3>3
  <2>2. QED
    BY <2>1
<1>3. IsFiniteSet(Slots(S, w))
  BY WeightFinite
<1>4. QED
  BY <1>1, <1>2, <1>3, FS_Subset DEF Weight

(* Elements that weigh one each are counted, and an element weighs no more *)
(* than all of them.                                                       *)
LEMMA WeightCount ==
  ASSUME NEW S, IsFiniteSet(S), NEW b \in Nat, NEW w, \A x \in S : w[x] \in Nat /\ w[x] <= b
  PROVE  Weight(S, w) <= Cardinality(S) * b /\ Cardinality(S) \in Nat
<1>1. Slots(S, w) \subseteq S \X (1 .. b)
  <2>1. ASSUME NEW u \in Slots(S, w) PROVE u \in S \X (1 .. b)
    <3>1. u = <<u[1], u[2]>> /\ u[1] \in S /\ u[2] \in 1 .. w[u[1]]
      BY SlotsMember
    <3>2. u[2] \in 1 .. b
      BY <3>1
    <3>3. QED
      BY <3>1, <3>2
  <2>2. QED
    BY <2>1
<1>2. IsFiniteSet(1 .. b) /\ Cardinality(1 .. b) = b
  <2>1. 1 \in Int /\ b \in Int
    OBVIOUS
  <2>2. IsFiniteSet(1 .. b) /\ Cardinality(1 .. b) = IF 1 > b THEN 0 ELSE b - 1 + 1
    BY <2>1, FS_Interval
  <2>3. QED
    BY <2>2
<1>3. IsFiniteSet(S \X (1 .. b)) /\ Cardinality(S \X (1 .. b)) = Cardinality(S) * b
  BY <1>2, FS_Product
<1>4. Cardinality(Slots(S, w)) <= Cardinality(S \X (1 .. b))
  BY <1>1, <1>3, FS_Subset
<1>5. QED
  BY <1>3, <1>4, FS_CardinalityType DEF Weight

LEMMA WeightOnes ==
  ASSUME NEW S, IsFiniteSet(S), NEW w, \A x \in S : w[x] = 1
  PROVE  Weight(S, w) = Cardinality(S) /\ Cardinality(S) \in Nat
<1>1. Slots(S, w) = S \X {1}
  <2>1. \A x \in S : 1 .. w[x] = {1}
    OBVIOUS
  <2>2. Slots(S, w) = UNION {{x} \X {1} : x \in S}
    BY <2>1 DEF Slots
  <2>3. QED
    BY <2>2
<1>2. IsFiniteSet({1}) /\ Cardinality({1}) = 1
  BY FS_Singleton
<1>3. Cardinality(S \X {1}) = Cardinality(S) * 1
  BY <1>2, FS_Product
<1>4. Cardinality(S) \in Nat
  BY FS_CardinalityType
<1>5. QED
  BY <1>1, <1>3, <1>4 DEF Weight

(* Elements renamed, each to its own name, weigh the same.                 *)
LEMMA WeightImage ==
  ASSUME NEW S, NEW v, Weighs(S, v), NEW g, NEW w,
         \A x, y \in S : g[x] = g[y] => x = y, \A x \in S : w[g[x]] = v[x],
         NEW T, T = {g[x] : x \in S}
  PROVE  Weighs(T, w) /\ Weight(T, w) = Weight(S, v)
<1> DEFINE h == [u \in Slots(S, v) |-> <<g[u[1]], u[2]>>]
           k == [x \in S |-> g[x]]
<1>1. h \in Bijection(Slots(S, v), Slots(T, w))
  <2>1. ASSUME NEW u \in Slots(S, v) PROVE h[u] \in Slots(T, w)
    <3>1. u = <<u[1], u[2]>> /\ u[1] \in S /\ u[2] \in 1 .. v[u[1]]
      BY SlotsMember
    <3>2. g[u[1]] \in T /\ u[2] \in 1 .. w[g[u[1]]]
      BY <3>1
    <3>3. <<g[u[1]], u[2]>> \in Slots(T, w)
      BY <3>2, SlotsMember
    <3>4. QED
      BY <3>3
  <2>2. ASSUME NEW a \in Slots(S, v), NEW b \in Slots(S, v), h[a] = h[b] PROVE a = b
    <3>1. /\ a = <<a[1], a[2]>> /\ a[1] \in S /\ a[2] \in 1 .. v[a[1]]
          /\ b = <<b[1], b[2]>> /\ b[1] \in S /\ b[2] \in 1 .. v[b[1]]
      BY SlotsMember
    <3>2. g[a[1]] = g[b[1]] /\ a[2] = b[2]
      BY <2>2
    <3>3. QED
      BY <3>1, <3>2
  <2>3. ASSUME NEW t \in Slots(T, w) PROVE \E u \in Slots(S, v) : h[u] = t
    <3>1. t = <<t[1], t[2]>> /\ t[1] \in T /\ t[2] \in 1 .. w[t[1]]
      BY SlotsMember
    <3>2. PICK x \in S : t[1] = g[x]
      BY <3>1
    <3>3. <<x, t[2]>> \in Slots(S, v)
      BY <3>1, <3>2, SlotsMember
    <3>4. h[<<x, t[2]>>] = t
      BY <3>1, <3>2, <3>3
    <3>5. QED
      BY <3>3, <3>4
  <2> HIDE DEF h
  <2>4. h \in [Slots(S, v) -> Slots(T, w)]
    BY <2>1 DEF h
  <2>5. QED
    BY <2>2, <2>3, <2>4 DEF Bijection, Injection, Surjection, IsInjective
<1>2. k \in Surjection(S, T)
  BY DEF Surjection
<1>3. IsFiniteSet(T)
  BY <1>2, FS_Surjection DEF Weighs
<1>4. Weighs(T, w)
  BY <1>3 DEF Weighs
<1> HIDE DEF h
<1>5. ExistsBijection(Slots(S, v), Slots(T, w))
  BY <1>1 DEF ExistsBijection
<1>6. IsFiniteSet(Slots(S, v))
  BY WeightFinite
<1>7. Cardinality(Slots(T, w)) = Cardinality(Slots(S, v))
  BY <1>5, <1>6, FS_Bijection
<1>8. QED
  BY <1>4, <1>7 DEF Weight

(* What costs a unit for every b tokens or part of them.                   *)
LEMMA WeightScale ==
  ASSUME NEW S, NEW w, Weighs(S, w), NEW b \in Nat, b # 0, NEW v,
         \A x \in S : v[x] \in Nat /\ v[x] <= b * w[x]
  PROVE  Weighs(S, v) /\ Weight(S, v) <= b * Weight(S, w)
<1>1. Weighs(S, v)
  BY DEF Weighs
<1> DEFINE h == [u \in Slots(S, v) |-> <<<<u[1], ((u[2] - 1) \div b) + 1>>, (u[2] - 1) % b>>]
           C == Slots(S, w) \X (0 .. (b - 1))
<1>2. \A j \in Nat : /\ j \div b \in Nat /\ j % b \in 0 .. (b - 1) /\ j = b * (j \div b) + (j % b)
  OBVIOUS
<1>3. h \in Injection(Slots(S, v), C)
  <2>1. ASSUME NEW u \in Slots(S, v) PROVE h[u] \in C
    <3>1. u = <<u[1], u[2]>> /\ u[1] \in S /\ u[2] \in 1 .. v[u[1]]
      BY SlotsMember
    <3>2. v[u[1]] \in Nat /\ w[u[1]] \in Nat /\ v[u[1]] <= b * w[u[1]]
      BY <3>1 DEF Weighs
    <3>3. PICK j \in Nat : j = u[2] - 1
      BY <3>1, <3>2
    <3>4. PICK q \in Nat, r \in 0 .. (b - 1) : q = j \div b /\ r = j % b /\ j = b * q + r
      BY <1>2
    <3>5. PICK m \in Nat : m = w[u[1]]
      BY <3>2
    <3>6. b * q < b * m
      <4>1. b * q \in Nat /\ b * m \in Nat
        OBVIOUS
      <4>2. PICK k \in Nat, l \in Nat, t \in Nat : k = b * q /\ l = b * m /\ t = v[u[1]]
        BY <3>2, <4>1
      <4>3. /\ j + 1 <= t
            /\ t <= l
            /\ k <= j
        <5>1. u[2] \in 1 .. t
          BY <3>1, <4>2
        <5>2. j + 1 <= t
          BY <3>3, <5>1
        <5>3. t <= l
          BY <3>2, <3>5, <4>2
        <5>4. j = k + r
          BY <3>4, <4>2
        <5>5. QED
          BY <5>2, <5>3, <5>4
      <4>4. QED
        BY <4>2, <4>3
    <3>7. q < m
      <4>1. ASSUME m <= q PROVE FALSE
        <5>1. q - m \in Nat /\ b * (q - m) = b * q - b * m /\ b * (q - m) >= 0
          BY <4>1
        <5>2. QED
          BY <3>6, <5>1
      <4>2. QED
        BY <4>1
    <3>8. q + 1 \in 1 .. w[u[1]]
      BY <3>5, <3>7
    <3>9. <<u[1], q + 1>> \in Slots(S, w)
      BY <3>1, <3>8, SlotsMember
    <3>10. h[u] = <<<<u[1], q + 1>>, r>>
      BY <3>3, <3>4
    <3>11. QED
      BY <3>9, <3>10
  <2>2. ASSUME NEW a \in Slots(S, v), NEW c \in Slots(S, v), h[a] = h[c] PROVE a = c
    <3>1. /\ a = <<a[1], a[2]>> /\ a[1] \in S /\ a[2] \in 1 .. v[a[1]]
          /\ c = <<c[1], c[2]>> /\ c[1] \in S /\ c[2] \in 1 .. v[c[1]]
      BY SlotsMember
    <3>2. /\ a[1] = c[1] /\ ((a[2] - 1) \div b) + 1 = ((c[2] - 1) \div b) + 1
          /\ (a[2] - 1) % b = (c[2] - 1) % b
      BY <2>2
    <3>3. PICK i \in Nat, j \in Nat : i = a[2] - 1 /\ j = c[2] - 1
      BY <3>1
    <3>4. i \div b = j \div b /\ i % b = j % b
      BY <1>2, <3>2, <3>3
    <3>5. i = j
      BY <1>2, <3>4
    <3>6. a[2] = c[2]
      BY <3>1, <3>3, <3>5
    <3>7. QED
      BY <3>1, <3>2, <3>6
  <2> HIDE DEF h, C
  <2>3. h \in [Slots(S, v) -> C]
    BY <2>1 DEF h
  <2>4. QED
    BY <2>2, <2>3 DEF Injection, IsInjective
<1>4. IsFiniteSet(Slots(S, w)) /\ Weight(S, w) \in Nat
  BY WeightFinite
<1>5. IsFiniteSet(0 .. (b - 1)) /\ Cardinality(0 .. (b - 1)) = b
  <2>1. 0 \in Int /\ b - 1 \in Int
    OBVIOUS
  <2>2. /\ IsFiniteSet(0 .. (b - 1))
        /\ Cardinality(0 .. (b - 1)) = IF 0 > b - 1 THEN 0 ELSE (b - 1) - 0 + 1
    BY <2>1, FS_Interval
  <2>3. QED
    BY <2>2
<1>6. IsFiniteSet(C) /\ Cardinality(C) = Cardinality(Slots(S, w)) * b
  BY <1>4, <1>5, FS_Product
<1> HIDE DEF h, C
<1>7. Cardinality(Slots(S, v)) <= Cardinality(C)
  BY <1>3, <1>6, FS_Injection
<1>8. QED
  BY <1>1, <1>4, <1>6, <1>7 DEF Weight

(* How SumFunction sums: over the subsets of its domain, one element after *)
(* another.                                                                *)
SumsOver(iter, f, D) ==
  iter = [s \in SUBSET D |-> IF s = {} THEN 0
                             ELSE LET x == CHOOSE x \in s : TRUE
                                  IN f[x] + iter[s \ {x}]]

LEMMA SumIs ==
  ASSUME NEW f, NEW g, SumsOver(g, f, DOMAIN f),
         \A h : SumsOver(h, f, DOMAIN f) => h[DOMAIN f] = g[DOMAIN f]
  PROVE  SumFunction(f) = g[DOMAIN f]
<1>1. SumFunction(f) = (CHOOSE h : SumsOver(h, f, DOMAIN f))[DOMAIN f]
  BY DEF SumFunction, SumFunctionOnSet, FoldFunctionOnSet, MapThenFoldSet, SumsOver
<1>2. SumsOver(CHOOSE h : SumsOver(h, f, DOMAIN f), f, DOMAIN f)
  OBVIOUS
<1>3. QED
  BY <1>1, <1>2

(* The sum of a function is the weight of its domain: weights are sums     *)
(* over all subsets, and a least subset at which other sums differ would   *)
(* have one element more than one at which they do.                        *)
LEMMA SumIsWeight ==
  ASSUME NEW f, NEW D, D = DOMAIN f, Weighs(D, f)
  PROVE  SumFunction(f) = Weight(D, f)
<1> DEFINE g == [s \in SUBSET D |-> Weight(s, f)]
           Choice(s) == CHOOSE x \in s : TRUE
<1>1. ASSUME NEW s \in SUBSET D, s # {}
      PROVE  /\ Choice(s) \in s /\ s \ {Choice(s)} \in SUBSET D
             /\ Weight(s, f) = f[Choice(s)] + Weight(s \ {Choice(s)}, f)
  <2>1. PICK x : x = Choice(s)
    OBVIOUS
  <2>2. x \in s
    BY <1>1, <2>1
  <2>3. PICK u : u = s \ {x}
    OBVIOUS
  <2>4. u \in SUBSET D /\ {x} \in SUBSET D /\ u \cup {x} = s /\ u \cap {x} = {}
    BY <2>2, <2>3
  <2>5. Weighs(u, f) /\ Weighs({x}, f)
    BY <2>4, FS_Subset DEF Weighs
  <2>6. Weight(s, f) = Weight(u, f) + Weight({x}, f)
    BY <2>4, <2>5, WeightJoin
  <2>7. f[x] \in Nat /\ Weight({x}, f) = f[x] /\ Weight(u, f) \in Nat
    BY <2>5, WeightOne, WeightFinite DEF Weighs
  <2>8. QED
    BY <2>1, <2>2, <2>3, <2>4, <2>6, <2>7
<1>2. SumsOver(g, f, D)
  <2>1. ASSUME NEW s \in SUBSET D
        PROVE  g[s] = IF s = {} THEN 0 ELSE f[Choice(s)] + g[s \ {Choice(s)}]
    <3>1. CASE s = {}
      BY <3>1, WeightNone
    <3>2. CASE s # {}
      BY <1>1, <3>2
    <3>3. QED
      BY <3>1, <3>2
  <2>2. QED
    BY <2>1 DEF SumsOver
<1>3. ASSUME NEW h, SumsOver(h, f, D)
      PROVE  h[D] = g[D]
  <2> DEFINE wrong == {s \in SUBSET D : h[s] # g[s]}
             sizes == {Cardinality(s) : s \in wrong}
  <2>1. \A s \in SUBSET D : IsFiniteSet(s) /\ Cardinality(s) \in Nat
    BY FS_Subset, FS_CardinalityType DEF Weighs
  <2>2. \A s \in SUBSET D : h[s] = IF s = {} THEN 0 ELSE f[Choice(s)] + h[s \ {Choice(s)}]
    BY <1>3 DEF SumsOver
  <2>3. SUFFICES ASSUME D \in wrong PROVE FALSE
    OBVIOUS
  <2>4. sizes \in SUBSET Nat /\ sizes # {}
    BY <2>1, <2>3
  <2> HIDE DEF sizes
  <2>5. PICK n \in sizes : \A m \in sizes : n <= m
    BY <2>4, Least
  <2>6. PICK s \in wrong : n = Cardinality(s)
    BY <2>5 DEF sizes
  <2>7. s \in SUBSET D /\ h[s] # g[s]
    BY <2>6
  <2>8. CASE s = {}
    BY <2>2, <2>7, <2>8, WeightNone
  <2>9. CASE s # {}
    <3>1. PICK x, u : x = Choice(s) /\ u = s \ {x}
      OBVIOUS
    <3>2. x \in s /\ u \in SUBSET D /\ Weight(s, f) = f[x] + Weight(u, f)
      BY <1>1, <2>7, <2>9, <3>1
    <3>3. Cardinality(u) < n
      <4>1. IsFiniteSet(s) /\ Cardinality(s) \in Nat
        BY <2>1, <2>7
      <4>2. Cardinality(s \ {x}) = Cardinality(s) - 1
        BY <3>2, <4>1, FS_RemoveElement
      <4>3. QED
        BY <2>6, <3>1, <4>1, <4>2
    <3>4. u \notin wrong
      <4>1. ASSUME u \in wrong PROVE FALSE
        <5>1. Cardinality(u) \in sizes
          BY <4>1 DEF sizes
        <5>2. n <= Cardinality(u) /\ n \in Nat /\ Cardinality(u) \in Nat
          BY <2>1, <2>6, <2>7, <2>5, <3>2, <5>1
        <5>3. QED
          BY <3>3, <5>2
      <4>2. QED
        BY <4>1
    <3>5. h[u] = Weight(u, f)
      BY <3>2, <3>4
    <3>6. h[s] = f[x] + h[u]
      BY <2>2, <2>7, <2>9, <3>1
    <3>7. h[s] = Weight(s, f)
      BY <3>2, <3>5, <3>6
    <3>8. QED
      BY <2>7, <3>7
  <2>10. QED
    BY <2>8, <2>9
<1>4. g[D] = Weight(D, f)
  OBVIOUS
<1> HIDE DEF g
<1>5. SumFunction(f) = g[D]
  BY <1>2, <1>3, SumIs
<1>6. QED
  BY <1>4, <1>5

(* The sum over a queue of different elements.                             *)
LEMMA SumOfQueue ==
  ASSUME NEW A, NEW q \in Seq(A), IsInjective(q), NEW w, \A x \in ToSet(q) : w[x] \in Nat
  PROVE  /\ Weighs(ToSet(q), w)
         /\ SumFunction([i \in DOMAIN q |-> w[q[i]]]) = Weight(ToSet(q), w)
<1> DEFINE f == [i \in DOMAIN q |-> w[q[i]]]
<1>1. PICK D : D = DOMAIN q
  OBVIOUS
<1>2. D = 1 .. Len(q) /\ Len(q) \in Nat /\ \A i \in D : q[i] \in ToSet(q)
  BY <1>1 DEF ToSet
<1>3. IsFiniteSet(D)
  BY <1>2, FS_Interval
<1>4. DOMAIN f = D /\ \A i \in D : f[i] = w[q[i]]
  BY <1>1
<1> HIDE DEF f
<1>5. Weighs(D, f)
  BY <1>2, <1>3, <1>4 DEF Weighs
<1>6. SumFunction(f) = Weight(D, f)
  BY <1>4, <1>5, SumIsWeight
<1>7. ToSet(q) = {q[i] : i \in D}
  BY <1>1 DEF ToSet
<1>8. \A i, j \in D : q[i] = q[j] => i = j
  BY <1>1 DEF IsInjective
<1>9. Weighs(ToSet(q), w) /\ Weight(ToSet(q), w) = Weight(D, f)
  BY <1>4, <1>5, <1>7, <1>8, WeightImage
<1>10. QED
  BY <1>6, <1>9 DEF f

(* Sums over few elements.                                                 *)
LEMMA SumNone == ASSUME NEW f, DOMAIN f = {} PROVE SumFunction(f) = 0
<1>1. Weighs(DOMAIN f, f)
  BY FS_EmptySet DEF Weighs
<1>2. QED
  BY <1>1, SumIsWeight, WeightNone

LEMMA SumOne ==
  ASSUME NEW f, DOMAIN f = {1}, f[1] \in Nat
  PROVE  SumFunction(f) = f[1]
<1>1. Weighs({1}, f)
  BY FS_Singleton DEF Weighs
<1>2. QED
  BY <1>1, SumIsWeight, WeightOne

LEMMA SumTwo ==
  ASSUME NEW f, DOMAIN f = {1, 2}, f[1] \in Nat, f[2] \in Nat
  PROVE  SumFunction(f) = f[1] + f[2]
<1>1. Weighs({1}, f) /\ Weighs({2}, f)
  BY FS_Singleton DEF Weighs
<1>2. {1} \cap {2} = {} /\ {1} \cup {2} = {1, 2}
  OBVIOUS
<1>3. Weighs({1, 2}, f) /\ Weight({1, 2}, f) = Weight({1}, f) + Weight({2}, f)
  BY <1>1, <1>2, WeightJoin
<1>4. SumFunction(f) = Weight({1, 2}, f)
  BY <1>3, SumIsWeight
<1>5. Weight({1}, f) = f[1] /\ Weight({2}, f) = f[2]
  BY WeightOne
<1>6. QED
  BY <1>3, <1>4, <1>5

-----------------------------------------------------------------------------
(* Queues of whatever elements.                                            *)
Queue(q) == \E S : q \in Seq(S)

LEMMA QueueFacts ==
  ASSUME NEW q, Queue(q)
  PROVE  /\ Len(q) \in Nat /\ DOMAIN q = 1 .. Len(q)
         /\ Len(q) = 0 <=> q = << >>
         /\ q # << >> => /\ Head(q) = q[1] /\ Queue(Tail(q))
                         /\ Len(Tail(q)) = Len(q) - 1
                         /\ \A i \in 1 .. Len(Tail(q)) : Tail(q)[i] = q[i + 1]
<1>1. PICK S : q \in Seq(S)
  BY DEF Queue
<1>2. /\ Len(q) \in Nat /\ DOMAIN q = 1 .. Len(q)
      /\ Len(q) = 0 <=> q = << >>
      /\ q # << >> => /\ Head(q) = q[1] /\ Tail(q) \in Seq(S)
                      /\ Len(Tail(q)) = Len(q) - 1
                      /\ \A i \in 1 .. Len(Tail(q)) : Tail(q)[i] = q[i + 1]
  BY <1>1, HeadTailProperties, EmptySeq
<1>3. QED
  BY <1>2 DEF Queue

(* u is s with t behind it.                                                *)
Joined(s, t, u) ==
  /\ Queue(u) /\ Len(u) = Len(s) + Len(t)
  /\ Len(s) \in Nat /\ Len(t) \in Nat
  /\ \A i \in 1 .. Len(s) : u[i] = s[i]
  /\ \A i \in 1 .. Len(t) : u[Len(s) + i] = t[i]
  /\ \A i \in 1 .. Len(u) :
       i \in 1 .. Len(s) \/ \E k \in 1 .. Len(t) : i = Len(s) + k

LEMMA QueueConcat ==
  ASSUME NEW s, NEW t, Queue(s), Queue(t)
  PROVE  Joined(s, t, s \o t)
<1> DEFINE u == s \o t
<1>1. PICK S : s \in Seq(S)
  BY DEF Queue
<1>2. PICK T : t \in Seq(T)
  BY DEF Queue
<1>3. s \in Seq(S \cup T) /\ t \in Seq(S \cup T)
  BY <1>1, <1>2, SeqMonotonic
<1>4. /\ u \in Seq(S \cup T) /\ Len(u) = Len(s) + Len(t)
      /\ Len(s) \in Nat /\ Len(t) \in Nat
      /\ \A i \in 1 .. Len(s) + Len(t) :
           u[i] = IF i <= Len(s) THEN s[i] ELSE t[i - Len(s)]
  BY <1>3, ConcatProperties, LenProperties
<1>5. \A i \in 1 .. Len(t) : Len(s) + i \in 1 .. Len(s) + Len(t) /\ (Len(s) + i) - Len(s) = i
  BY <1>4
<1>6. \A i \in 1 .. Len(t) : u[Len(s) + i] = t[i]
  <2>1. TAKE i \in 1 .. Len(t)
  <2>2. PICK n \in Nat : n = Len(s)
    BY <1>4
  <2>3. n + i \in 1 .. n + Len(t) /\ ~(n + i <= n) /\ (n + i) - n = i
    BY <1>4, <2>2
  <2>4. QED
    BY <1>4, <2>2, <2>3
<1>7. ASSUME NEW i \in 1 .. Len(u), i \notin 1 .. Len(s)
      PROVE  \E k \in 1 .. Len(t) : i = Len(s) + k
  <2>1. i - Len(s) \in 1 .. Len(t) /\ i = Len(s) + (i - Len(s))
    BY <1>4, <1>7
  <2>2. QED
    BY <2>1
<1>8. QED
  BY <1>4, <1>6, <1>7 DEF Queue, Joined

LEMMA QueueOfFunction ==
  ASSUME NEW n \in Nat, NEW f, f = [i \in 1 .. n |-> f[i]]
  PROVE  Queue(f) /\ Len(f) = n
<1>1. f \in [1 .. n -> {f[i] : i \in 1 .. n}]
  OBVIOUS
<1>2. f \in Seq({f[i] : i \in 1 .. n}) /\ Len(f) = n
  BY <1>1
<1>3. QED
  BY <1>2 DEF Queue

LEMMA QueueOfOne ==
  ASSUME NEW x
  PROVE  Queue(<<x>>) /\ Len(<<x>>) = 1 /\ <<x>>[1] = x /\ Queue(<< >>) /\ Len(<< >>) = 0
<1>1. <<x>> \in Seq({x}) /\ << >> \in Seq({x})
  OBVIOUS
<1>2. QED
  BY <1>1 DEF Queue

(* Append is concatenation.                                                *)
LEMMA QueueAppend ==
  ASSUME NEW q, NEW x, Queue(q)
  PROVE  Append(q, x) = q \o <<x>>
<1>1. PICK S : q \in Seq(S)
  BY DEF Queue
<1>2. q \in Seq(S \cup {x}) /\ <<x>> \in Seq(S \cup {x})
  BY <1>1, SeqMonotonic
<1>3. /\ Append(q, x) \in Seq(S \cup {x}) /\ q \o <<x>> \in Seq(S \cup {x})
      /\ Len(Append(q, x)) = Len(q \o <<x>>)
      /\ \A i \in 1 .. Len(q) + 1 : Append(q, x)[i] = (q \o <<x>>)[i]
      /\ Len(Append(q, x)) = Len(q) + 1
  BY <1>2
<1>4. QED
  BY <1>3, SeqEqual

(* The recursion of FlattenSeq has a solution for every sequence: one for  *)
(* its first n elements extends to one for n + 1.                          *)
Flattens(f, seqs, n) ==
  f = [i \in 1 .. n |-> IF i = 1 THEN seqs[i] ELSE f[i - 1] \o seqs[i]]

LEMMA FlattenIs ==
  ASSUME NEW seqs, NEW n \in Nat \ {0}, Len(seqs) = n
  PROVE  \E f : Flattens(f, seqs, n) /\ FlattenSeq(seqs) = f[n]
<1> DEFINE T == {k \in Nat : ~\E f : Flattens(f, seqs, k)}
<1>1. T = {}
  <2>1. SUFFICES ASSUME T # {} PROVE FALSE
    OBVIOUS
  <2>2. T \in SUBSET Nat
    OBVIOUS
  <2>3. PICK k \in T : \A m \in T : k <= m
    <3> HIDE DEF T
    <3>1. QED
      BY <2>1, <2>2, Least
  <2>4. k \in Nat /\ ~\E f : Flattens(f, seqs, k)
    OBVIOUS
  <2>5. CASE k = 0
    <3>1. Flattens([i \in 1 .. 0 |-> seqs[i]], seqs, k)
      BY <2>5 DEF Flattens
    <3>2. QED
      BY <2>4, <3>1
  <2>6. CASE k # 0
    <3>1. k - 1 \in Nat /\ k - 1 \notin T
      <4>1. k - 1 \in Nat /\ ~(k <= k - 1)
        BY <2>4, <2>6
      <4> HIDE DEF T
      <4>2. QED
        BY <2>3, <4>1
    <3>2. PICK f : Flattens(f, seqs, k - 1)
      BY <3>1
    <3>3. PICK g : g = [i \in 1 .. k |-> IF i < k THEN f[i] ELSE
                                          IF i = 1 THEN seqs[i] ELSE f[i - 1] \o seqs[i]]
      OBVIOUS
    <3>4. ASSUME NEW i \in 1 .. k
          PROVE  g[i] = IF i = 1 THEN seqs[i] ELSE g[i - 1] \o seqs[i]
      <4>1. CASE i < k
        <5>1. i \in 1 .. (k - 1) /\ g[i] = f[i] /\ (i # 1 => i - 1 \in 1 .. k /\ i - 1 < k)
          BY <2>4, <3>3, <4>1
        <5>2. f[i] = IF i = 1 THEN seqs[i] ELSE f[i - 1] \o seqs[i]
          BY <3>2, <5>1 DEF Flattens
        <5>3. i # 1 => g[i - 1] = f[i - 1]
          BY <3>3, <5>1
        <5>4. QED
          BY <5>1, <5>2, <5>3
      <4>2. CASE ~(i < k)
        <5>1. g[i] = IF i = 1 THEN seqs[i] ELSE f[i - 1] \o seqs[i]
          BY <3>3, <4>2
        <5>2. i # 1 => i - 1 \in 1 .. k /\ i - 1 < k
          BY <2>4
        <5>3. i # 1 => g[i - 1] = f[i - 1]
          BY <3>3, <5>2
        <5>4. QED
          BY <5>1, <5>3
      <4>3. QED
        BY <4>1, <4>2
    <3>5. Flattens(g, seqs, k)
      BY <3>3, <3>4 DEF Flattens
    <3>6. QED
      BY <2>4, <3>5
  <2>7. QED
    BY <2>5, <2>6
<1>2. \E f : Flattens(f, seqs, n)
  BY <1>1
<1>3. FlattenSeq(seqs) = (CHOOSE f : Flattens(f, seqs, n))[n]
  BY DEF FlattenSeq, Flattens
<1>4. Flattens(CHOOSE f : Flattens(f, seqs, n), seqs, n)
  BY <1>2
<1>5. QED
  BY <1>3, <1>4

(* What FlattenSeq makes of queues is a queue of their elements.           *)
LEMMA FlattenQueue ==
  ASSUME NEW n \in Nat, NEW seqs, Queue(seqs), Len(seqs) = n,
         \A i \in 1 .. n : Queue(seqs[i])
  PROVE  /\ Queue(FlattenSeq(seqs))
         /\ \A k \in 1 .. Len(FlattenSeq(seqs)) :
              \E i \in 1 .. n : \E j \in 1 .. Len(seqs[i]) : FlattenSeq(seqs)[k] = seqs[i][j]
<1>0. PICK X : X = UNION {{seqs[i][j] : j \in 1 .. Len(seqs[i])} : i \in 1 .. n}
  OBVIOUS
<1> DEFINE Made(u) == Queue(u) /\ \A k \in 1 .. Len(u) : u[k] \in X
<1>1. CASE n = 0
  <2>1. FlattenSeq(seqs) = << >> /\ Queue(<< >>) /\ Len(<< >>) = 0
    BY <1>1, QueueFacts, QueueOfOne DEF FlattenSeq
  <2>2. QED
    BY <2>1
<1>2. CASE n # 0
  <2>1. PICK f : Flattens(f, seqs, n) /\ FlattenSeq(seqs) = f[n]
    BY <1>2, FlattenIs
  <2> DEFINE T == {k \in Nat : k \in 1 .. n /\ ~Made(f[k])}
  <2>2. T = {}
    <3>1. SUFFICES ASSUME T # {} PROVE FALSE
      OBVIOUS
    <3>2. T \in SUBSET Nat
      OBVIOUS
    <3>3. PICK k \in T : \A m \in T : k <= m
      <4> HIDE DEF T
      <4>1. QED
        BY <3>1, <3>2, Least
    <3>4. k \in 1 .. n /\ ~Made(f[k])
      OBVIOUS
    <3>5. f[k] = IF k = 1 THEN seqs[k] ELSE f[k - 1] \o seqs[k]
      BY <2>1, <3>4 DEF Flattens
    <3>6. Made(seqs[k])
      BY <1>0, <3>4
    <3>7. CASE k = 1
      <4> HIDE DEF Made
      <4>1. QED
        BY <3>4, <3>5, <3>6, <3>7
    <3>8. CASE k # 1
      <4>1. k - 1 \in 1 .. n /\ k - 1 \in Nat /\ ~(k <= k - 1)
        BY <3>4, <3>8
      <4>2. k - 1 \notin T
        <5> HIDE DEF T
        <5>1. QED
          BY <3>3, <4>1
      <4>3. PICK u, v : u = f[k - 1] /\ v = seqs[k]
        OBVIOUS
      <4>4. Made(u) /\ Made(v)
        BY <3>6, <4>1, <4>2, <4>3
      <4>5. Joined(u, v, u \o v)
        BY <4>4, QueueConcat
      <4>6. Made(u \o v)
        <5>1. PICK w : w = u \o v
          OBVIOUS
        <5>2. ASSUME NEW i \in 1 .. Len(w) PROVE w[i] \in X
          <6>1. CASE i \in 1 .. Len(u)
            BY <4>4, <4>5, <5>1, <6>1 DEF Joined
          <6>2. CASE \E m \in 1 .. Len(v) : i = Len(u) + m
            BY <4>4, <4>5, <5>1, <6>2 DEF Joined
          <6>3. QED
            BY <4>5, <5>1, <6>1, <6>2 DEF Joined
        <5>3. QED
          BY <4>5, <5>1, <5>2 DEF Joined
      <4>7. QED
        <5> HIDE DEF Made
        <5>1. QED
          BY <3>4, <3>5, <3>8, <4>3, <4>6
    <3>9. QED
      BY <3>7, <3>8
  <2>3. n \in 1 .. n
    BY <1>2
  <2>4. Made(f[n])
    BY <2>2, <2>3
  <2>5. \A x \in X : \E i \in 1 .. n : \E j \in 1 .. Len(seqs[i]) : x = seqs[i][j]
    BY <1>0
  <2>6. PICK u : u = FlattenSeq(seqs) /\ u = f[n]
    BY <2>1
  <2>7. \A k \in 1 .. Len(u) : \E i \in 1 .. n : \E j \in 1 .. Len(seqs[i]) : u[k] = seqs[i][j]
    BY <2>4, <2>5, <2>6
  <2>8. QED
    BY <2>4, <2>6, <2>7
<1>3. QED
  BY <1>1, <1>2

-----------------------------------------------------------------------------
(* Sums over queues of naturals.                                           *)
LEMMA FoldSums ==
  ASSUME NEW q
  PROVE  FoldSeq(LAMBDA a, b : a + b, 0, q) = SumFunction(q)
BY DEF FoldSeq, FoldFunction, SumFunction, SumFunctionOnSet, FoldFunctionOnSet, MapThenFoldSet

LEMMA FoldNaturals ==
  ASSUME NEW q, Queue(q), \A i \in 1 .. Len(q) : q[i] \in Nat
  PROVE  FoldSeq(LAMBDA a, b : a + b, 0, q) \in Nat
<1>1. PICK D : D = DOMAIN q
  OBVIOUS
<1>2. D = 1 .. Len(q) /\ Len(q) \in Nat
  BY <1>1, QueueFacts
<1>3. IsFiniteSet(D)
  BY <1>2, FS_Interval
<1>4. Weighs(D, q)
  BY <1>2, <1>3 DEF Weighs
<1>5. SumFunction(q) = Weight(D, q) /\ Weight(D, q) \in Nat
  BY <1>1, <1>4, SumIsWeight, WeightFinite
<1>6. QED
  BY <1>5, FoldSums
=============================================================================
