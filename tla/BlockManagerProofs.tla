------------------------- MODULE BlockManagerProofs -------------------------
(***************************************************************************)
(* Theorems about BlockManager: for every number of requests, block size,  *)
(* cache size and legal caller, the bookkeeping stays exact.  They rest on *)
(* what one call of alloc or free does to the accounting of a device, for  *)
(* every device, every list of requests and every target.                  *)
(***************************************************************************)
EXTENDS BlockManager, Functions, FiniteSetTheorems, SequenceTheorems, TLAPS

-----------------------------------------------------------------------------
(* Ranks.  In a finite set the number of smaller elements tells the        *)
(* elements apart, and takes every value below the cardinality.            *)

(* The rank of a free block identifies it.                                 *)
LEMMA FreeRank ==
  ASSUME NEW free, IsFiniteSet(free), free \subseteq Int
  PROVE  [b \in free |-> Cardinality({c \in free : c < b})]
           \in Bijection(free, 0 .. (Cardinality(free) - 1))
<1> DEFINE below(b) == {c \in free : c < b}
           f == [b \in free |-> Cardinality(below(b))]
           m == Cardinality(free)
<1>1. m \in Nat
  BY FS_CardinalityType
<1>2. ASSUME NEW b \in free
      PROVE  Cardinality(below(b)) \in 0 .. (m - 1)
  <2>1. below(b) \in SUBSET free /\ b \notin below(b)
    OBVIOUS
  <2>2. Cardinality(below(b)) <= m /\ (Cardinality(below(b)) = m => below(b) = free)
    BY <2>1, FS_Subset
  <2>3. Cardinality(below(b)) \in Nat
    BY <2>1, FS_Subset, FS_CardinalityType
  <2>4. QED
    BY <1>1, <2>1, <2>2, <2>3
<1>3. f \in [free -> 0 .. (m - 1)]
  BY <1>2
<1>4. ASSUME NEW a \in free, NEW b \in free, a < b
      PROVE  f[a] # f[b]
  <2>1. below(a) \in SUBSET below(b)
    <3>1. \A c \in free : c < a => c < b
      BY <1>4
    <3>2. QED
      BY <3>1
  <2>2. a \in below(b) /\ a \notin below(a)
    BY <1>4
  <2>3. IsFiniteSet(below(b))
    BY FS_Subset
  <2>4. Cardinality(below(a)) # Cardinality(below(b))
    BY <2>1, <2>2, <2>3, FS_Subset
  <2>5. QED
    BY <2>4
<1>5. \A a, b \in free : f[a] = f[b] => a = b
  BY <1>4
<1>6. f \in Injection(free, 0 .. (m - 1))
  BY <1>3, <1>5 DEF Injection, IsInjective
<1>7. IsFiniteSet(0 .. (m - 1)) /\ Cardinality(0 .. (m - 1)) = m
  <2>1. 0 \in Int /\ m - 1 \in Int /\ (m = 0 <=> 0 > m - 1) /\ (m - 1) - 0 + 1 = m
    BY <1>1
  <2> HIDE DEF m
  <2>2. /\ IsFiniteSet(0 .. (m - 1))
        /\ Cardinality(0 .. (m - 1)) = IF 0 > m - 1 THEN 0 ELSE (m - 1) - 0 + 1
    BY <2>1, FS_Interval
  <2>3. QED
    BY <2>1, <2>2
<1>8. f \in Surjection(free, 0 .. (m - 1))
  BY <1>6, <1>7, FS_Injection
<1>9. QED
  BY <1>6, <1>8 DEF Bijection

(* Entry k of torch.nonzero exists when fewer than all blocks were asked.  *)
LEMMA NthFreeProperty ==
  ASSUME NEW free, IsFiniteSet(free), free \subseteq Int,
         NEW k \in 0 .. (Cardinality(free) - 1)
  PROVE  /\ NthFree(free, k) \in free
         /\ Cardinality({c \in free : c < NthFree(free, k)}) = k
<1> DEFINE f == [b \in free |-> Cardinality({c \in free : c < b})]
<1>1. f \in Surjection(free, 0 .. (Cardinality(free) - 1))
  BY FreeRank DEF Bijection
<1>2. PICK b \in free : f[b] = k
  BY <1>1 DEF Surjection
<1>3. Cardinality({c \in free : c < b}) = k
  BY <1>2
<1>4. QED
  BY <1>3 DEF NthFree

(* The rank of a slot identifies it.                                       *)
LEMMA SlotRank ==
  ASSUME NEW V, IsFiniteSet(V), V \subseteq Int \X Int
  PROVE  /\ \A v \in V : Cardinality({w \in V : Before(w, v)}) \in 0 .. (Cardinality(V) - 1)
         /\ \A v, w \in V :
              Cardinality({u \in V : Before(u, v)}) = Cardinality({u \in V : Before(u, w)})
                => v = w
<1> DEFINE below(v) == {w \in V : Before(w, v)}
<1>1. Cardinality(V) \in Nat
  BY FS_CardinalityType
<1>2. ASSUME NEW v \in V
      PROVE  Cardinality(below(v)) \in 0 .. (Cardinality(V) - 1)
  <2>1. below(v) \in SUBSET V /\ v \notin below(v)
    BY DEF Before
  <2>2. /\ Cardinality(below(v)) <= Cardinality(V)
        /\ Cardinality(below(v)) = Cardinality(V) => below(v) = V
    BY <2>1, FS_Subset
  <2>3. Cardinality(below(v)) \in Nat
    BY <2>1, FS_Subset, FS_CardinalityType
  <2>4. QED
    BY <1>1, <2>1, <2>2, <2>3
<1>3. ASSUME NEW v \in V, NEW w \in V, Before(v, w)
      PROVE  Cardinality(below(v)) # Cardinality(below(w))
  <2>1. \A u \in V : Before(u, v) => Before(u, w)
    BY <1>3 DEF Before
  <2>2. below(v) \in SUBSET below(w)
    BY <2>1
  <2>3. v \in below(w) /\ v \notin below(v)
    BY <1>3 DEF Before
  <2>4. IsFiniteSet(below(w))
    BY FS_Subset
  <2>5. QED
    BY <2>2, <2>3, <2>4, FS_Subset
<1>4. ASSUME NEW v \in V, NEW w \in V, v # w
      PROVE  Before(v, w) \/ Before(w, v)
  BY <1>4 DEF Before
<1>5. QED
  BY <1>2, <1>3, <1>4

(* _get_new_blk_ids gives distinct slots distinct free blocks.             *)
LEMMA AssignInjective ==
  ASSUME NEW free, IsFiniteSet(free), free \subseteq Int,
         NEW V, IsFiniteSet(V), V \subseteq Int \X Int,
         Cardinality(V) <= Cardinality(free)
  PROVE  /\ Assign(free, V) \in [V -> free]
         /\ \A v, w \in V : Assign(free, V)[v] = Assign(free, V)[w] => v = w
<1> DEFINE rank(v) == Cardinality({w \in V : Before(w, v)})
<1>1. Cardinality(V) \in Nat /\ Cardinality(free) \in Nat
  BY FS_CardinalityType
<1>2. \A v \in V : rank(v) \in 0 .. (Cardinality(free) - 1)
  BY <1>1, SlotRank
<1>3. \A v \in V : /\ NthFree(free, rank(v)) \in free
                   /\ Cardinality({c \in free : c < NthFree(free, rank(v))}) = rank(v)
  BY <1>2, NthFreeProperty
<1>4. \A v \in V : Assign(free, V)[v] = NthFree(free, rank(v))
  BY DEF Assign
<1>5. Assign(free, V) \in [V -> free]
  BY <1>3 DEF Assign
<1>6. \A v, w \in V : Assign(free, V)[v] = Assign(free, V)[w] => rank(v) = rank(w)
  BY <1>3, <1>4
<1>7. \A v, w \in V : rank(v) = rank(w) => v = w
  BY SlotRank
<1>8. QED
  BY <1>5, <1>6, <1>7

-----------------------------------------------------------------------------
(* A function on 1..m is a sequence of length m.                           *)
LEMMA FunctionIsSeq ==
  ASSUME NEW S, NEW m \in Nat, NEW f \in [1 .. m -> S]
  PROVE  f \in Seq(S) /\ Len(f) = m
OBVIOUS

(* A device whose accounting is exact, with the rows of itm in split 1.    *)
Sound(d, itm, n) == DeviceType(d, n) /\ d.ok /\ ExactAccounting(d, itm, n)

(* The logical blocks a set of requests holds.                             *)
LEMMA HeldSlotsMember ==
  ASSUME NEW d, NEW S
  PROVE  /\ \A id, j : <<id, j>> \in HeldSlots(d, S) <=> id \in S /\ j \in 1 .. Len(d.table[id])
         /\ \A v \in HeldSlots(d, S) : v = <<v[1], v[2]>>
BY DEF HeldSlots

(* A call asks for finitely many slots, numbered by pairs of integers.     *)
LEMMA NewSlotsFinite ==
  ASSUME NEW d, NEW ids \in Seq(Ids), NEW target \in [Ids -> Int],
         NEW X, d.table \in [Ids -> Seq(X)]
  PROVE  /\ IsFiniteSet(NewSlots(d, ids, target))
         /\ NewSlots(d, ids, target) \subseteq Int \X Int
         /\ \A i, j : <<i, j>> \in NewSlots(d, ids, target) <=>
              /\ i \in 1 .. Len(ids)
              /\ j \in (Len(d.table[ids[i]]) + 1) .. target[ids[i]]
<1> DEFINE col(i) == (Len(d.table[ids[i]]) + 1) .. target[ids[i]]
           f == [i \in 1 .. Len(ids) |-> {i} \X col(i)]
           T == {{i} \X col(i) : i \in 1 .. Len(ids)}
<1>1. Len(ids) \in Nat /\ \A i \in 1 .. Len(ids) : ids[i] \in Ids
  OBVIOUS
<1>2. \A i \in 1 .. Len(ids) : Len(d.table[ids[i]]) \in Nat /\ target[ids[i]] \in Int
  BY <1>1
<1>3. IsFiniteSet(1 .. Len(ids))
  BY <1>1, FS_Interval
<1>4. f \in Surjection(1 .. Len(ids), T)
  BY DEF Surjection
<1>5. IsFiniteSet(T)
  BY <1>3, <1>4, FS_Surjection
<1>6. ASSUME NEW i \in 1 .. Len(ids)
      PROVE  IsFiniteSet({i} \X col(i))
  <2>1. IsFiniteSet({i})
    BY FS_Singleton
  <2>2. IsFiniteSet(col(i))
    <3>1. Len(d.table[ids[i]]) + 1 \in Int /\ target[ids[i]] \in Int
      BY <1>2
    <3>2. QED
      BY <3>1, FS_Interval
  <2>3. QED
    BY <2>1, <2>2, FS_Product
<1>7. \A U \in T : IsFiniteSet(U)
  BY <1>6
<1>8. NewSlots(d, ids, target) = UNION T
  BY DEF NewSlots
<1>9. IsFiniteSet(NewSlots(d, ids, target))
  BY <1>5, <1>7, <1>8, FS_UNION
<1>10. NewSlots(d, ids, target) \subseteq Int \X Int
  BY <1>1, <1>2 DEF NewSlots
<1>11. QED
  BY <1>9, <1>10 DEF NewSlots

(* The image of a finite set under an injection has as many elements.      *)
LEMMA ImageCardinality ==
  ASSUME NEW S, NEW T, NEW f \in [S -> T], IsFiniteSet(S),
         \A v, w \in S : f[v] = f[w] => v = w
  PROVE  /\ IsFiniteSet({f[v] : v \in S})
         /\ Cardinality({f[v] : v \in S}) = Cardinality(S)
<1> DEFINE I == {f[v] : v \in S}
<1>1. f \in Surjection(S, I)
  BY DEF Surjection
<1>2. f \in Injection(S, I)
  BY DEF Injection, IsInjective
<1>3. QED
  BY <1>1, <1>2, FS_Surjection

(* Taking distinct blocks out of the free ones leaves the difference.      *)
LEMMA TakenCardinality ==
  ASSUME NEW D, IsFiniteSet(D), NEW W, IsFiniteSet(W), NEW g \in [W -> D],
         \A v, w \in W : g[v] = g[w] => v = w
  PROVE  LET left == D \ {g[u] : u \in W}
         IN /\ Cardinality(left) = Cardinality(D) - Cardinality(W)
            /\ Cardinality(left) \in Nat
<1> DEFINE I == {g[u] : u \in W}
<1>1. IsFiniteSet(I) /\ Cardinality(I) = Cardinality(W)
  BY ImageCardinality
<1>2. D \cap I = I
  OBVIOUS
<1> HIDE DEF I
<1>3. /\ IsFiniteSet(D \ I)
      /\ Cardinality(D \ I) = Cardinality(D) - Cardinality(D \cap I)
  BY FS_Difference
<1>4. Cardinality(D \ I) \in Nat
  BY <1>3, FS_CardinalityType
<1>5. Cardinality(D \ I) = Cardinality(D) - Cardinality(W)
  BY <1>1, <1>2, <1>3
<1>6. QED
  BY <1>4, <1>5 DEF I

-----------------------------------------------------------------------------
(* A row that only got longer.                                             *)
Extends(old, new) ==
  Len(old) <= Len(new) /\ \A j \in 1 .. Len(old) : new[j] = old[j]

(* A successful alloc keeps the accounting exact, gives every request its  *)
(* target and leaves the blocks that were there in place, provided the     *)
(* first splitPoint requests hold nothing yet and the others hold blocks   *)
(* of split 0 only.                                                        *)
AllocPre(n, d, itm, ids, splitPoint, target, itm2, e) ==
  /\ n \in Nat /\ Sound(d, itm, n)
  /\ ids \in Seq(Ids) /\ Distinct(ids)
  /\ splitPoint \in Nat /\ (splitPoint > 0 => ExtraLayer)
  /\ target \in [Ids -> Int]
  /\ \A i \in 1 .. Len(ids) : IF i <= splitPoint THEN d.table[ids[i]] = << >>
                                                ELSE ids[i] \notin itm
  /\ \A id : id \in itm2 <=> \/ id \in itm
                             \/ \E i \in 1 .. Len(ids) : i <= splitPoint /\ ids[i] = id
  /\ e = Alloc(d, ids, splitPoint, target) /\ e.ok

AllocPost(n, d, ids, target, itm2, e) ==
  /\ Sound(e, itm2, n)
  /\ \A id \in Ids :
       /\ Len(e.table[id]) = IF id \in Elems(ids) THEN target[id] ELSE Len(d.table[id])
       /\ Extends(d.table[id], e.table[id])

LEMMA AllocSound ==
  ASSUME NEW n, NEW d, NEW itm, NEW ids, NEW splitPoint, NEW target, NEW itm2, NEW e,
         AllocPre(n, d, itm, ids, splitPoint, target, itm2, e)
  PROVE  AllocPost(n, d, ids, target, itm2, e)
<1> SUFFICES ASSUME n \in Nat, Sound(d, itm, n),
                    ids \in Seq(Ids), Distinct(ids),
                    splitPoint \in Nat, splitPoint > 0 => ExtraLayer,
                    target \in [Ids -> Int],
                    \A i \in 1 .. Len(ids) : IF i <= splitPoint THEN d.table[ids[i]] = << >>
                                                               ELSE ids[i] \notin itm,
                    Alloc(d, ids, splitPoint, target).ok,
                    e = Alloc(d, ids, splitPoint, target),
                    \A id : id \in itm2 <=> \/ id \in itm
                                            \/ \E i \in 1 .. Len(ids) : i <= splitPoint /\ ids[i] = id
             PROVE  AllocPost(n, d, ids, target, itm2, e)
  BY DEF AllocPre
<1> DEFINE blocks == 0 .. (n - 1)
           sp(i) == IF i <= splitPoint THEN 1 ELSE 0
           V(s) == SlotsOf(s, d, ids, splitPoint, target)
           given == [s \in Splits |-> Assign(d.free[s], V(s))]
           row(i) == [j \in 1 .. target[ids[i]] |->
                        IF j <= Len(d.table[ids[i]]) THEN d.table[ids[i]][j]
                                                     ELSE given[sp(i)][<<i, j>>]]
           pos(id) == CHOOSE i \in 1 .. Len(ids) : ids[i] = id
<1>1. /\ d.table \in [Ids -> Seq(blocks)]
      /\ d.free \in [Splits -> SUBSET blocks]
      /\ d.nfree \in [Splits -> Nat]
      /\ d.ok
      /\ NoSharing(d, itm) /\ FreeIsComplement(d, itm, n) /\ CounterExact(d)
  BY DEF Sound, DeviceType, ExactAccounting
<1>2. ~AllocRaises(d, ids, splitPoint, target)
  <2>1. SUFFICES ASSUME AllocRaises(d, ids, splitPoint, target) PROVE FALSE
    OBVIOUS
  <2>2. Alloc(d, ids, splitPoint, target) = [d EXCEPT !.ok = FALSE]
    BY <2>1 DEF Alloc
  <2>3. d = [table |-> d.table, free |-> d.free, nfree |-> d.nfree, ok |-> d.ok]
    BY DEF Sound, DeviceType
  <2>4. QED
    BY <2>2, <2>3
<1>3. /\ e.table = [id \in Ids |-> IF id \in Elems(ids) THEN row(pos(id)) ELSE d.table[id]]
      /\ e.free = [s \in Splits |-> d.free[s] \ {given[s][v] : v \in DOMAIN given[s]}]
      /\ e.nfree = [s \in Splits |-> d.nfree[s] - Cardinality(DOMAIN given[s])]
      /\ e.ok = TRUE
      /\ e = [table |-> e.table, free |-> e.free, nfree |-> e.nfree, ok |-> e.ok]
  BY <1>1, <1>2 DEF Alloc, NewRows
<1>4. /\ IsFiniteSet(NewSlots(d, ids, target))
      /\ NewSlots(d, ids, target) \subseteq Int \X Int
      /\ \A i, j : <<i, j>> \in NewSlots(d, ids, target) <=>
           /\ i \in 1 .. Len(ids)
           /\ j \in (Len(d.table[ids[i]]) + 1) .. target[ids[i]]
  BY <1>1, NewSlotsFinite
<1>5. ASSUME NEW s \in Splits
      PROVE  /\ IsFiniteSet(d.free[s]) /\ IsFiniteSet(V(s))
             /\ V(s) \subseteq Int \X Int
             /\ given[s] \in [V(s) -> d.free[s]]
             /\ \A v, w \in V(s) : given[s][v] = given[s][w] => v = w
  <2>1. IsFiniteSet(blocks)
    BY FS_Interval
  <2>2. d.free[s] \in SUBSET blocks
    BY <1>1
  <2>3. IsFiniteSet(d.free[s]) /\ d.free[s] \subseteq Int
    BY <2>1, <2>2, FS_Subset
  <2>4. V(s) \in SUBSET NewSlots(d, ids, target)
    BY DEF SlotsOf
  <2>5. IsFiniteSet(V(s)) /\ V(s) \subseteq Int \X Int
    BY <1>4, <2>4, FS_Subset
  <2>6. ~(Cardinality(V(s)) > d.nfree[s])
    BY <1>2 DEF AllocRaises
  <2>7. d.nfree[s] = Cardinality(d.free[s])
    BY <1>1 DEF CounterExact
  <2>8. Cardinality(V(s)) \in Nat /\ d.nfree[s] \in Nat
    BY <2>5, <1>1, FS_CardinalityType
  <2>9. Cardinality(V(s)) <= Cardinality(d.free[s])
    BY <2>6, <2>7, <2>8
  <2>10. /\ Assign(d.free[s], V(s)) \in [V(s) -> d.free[s]]
         /\ \A v, w \in V(s) : Assign(d.free[s], V(s))[v] = Assign(d.free[s], V(s))[w] => v = w
    BY <2>3, <2>5, <2>9, AssignInjective
  <2>11. QED
    BY <2>3, <2>5, <2>10
<1> HIDE DEF row, pos, given, V
<1>6. ASSUME NEW i \in 1 .. Len(ids)
      PROVE  /\ ids[i] \in Ids /\ ids[i] \in Elems(ids)
             /\ sp(i) \in Splits
             /\ Len(d.table[ids[i]]) \in Nat
             /\ Len(d.table[ids[i]]) <= target[ids[i]]
             /\ target[ids[i]] \in Nat
  <2>1. ids[i] \in Ids /\ ids[i] \in Elems(ids)
    BY DEF Elems
  <2>2. sp(i) \in Splits
    BY DEF Splits
  <2>3. ~(Len(d.table[ids[i]]) > target[ids[i]])
    BY <1>2 DEF AllocRaises
  <2>4. Len(d.table[ids[i]]) \in Nat /\ target[ids[i]] \in Int
    BY <1>1, <2>1
  <2>5. QED
    BY <2>1, <2>2, <2>3, <2>4
<1>7. ASSUME NEW i \in 1 .. Len(ids)
      PROVE  e.table[ids[i]] = row(i)
  <2>1. pos(ids[i]) = i
    BY DEF Distinct, pos
  <2>2. QED
    BY <1>3, <1>6, <2>1
<1>8. ASSUME NEW i \in 1 .. Len(ids), NEW j \in (Len(d.table[ids[i]]) + 1) .. target[ids[i]]
      PROVE  /\ <<i, j>> \in V(sp(i))
             /\ row(i)[j] = given[sp(i)][<<i, j>>]
             /\ row(i)[j] \in d.free[sp(i)]
             /\ row(i)[j] \in blocks
  <2>1. <<i, j>> \in V(sp(i))
    BY <1>4 DEF SlotsOf, V
  <2>2. j \in 1 .. target[ids[i]] /\ ~(j <= Len(d.table[ids[i]]))
    BY <1>6
  <2>3. row(i)[j] = given[sp(i)][<<i, j>>]
    BY <2>2 DEF row
  <2>4. given[sp(i)][<<i, j>>] \in d.free[sp(i)]
    BY <2>1, <1>5, <1>6, SMTT(30)
  <2>5. d.free[sp(i)] \subseteq blocks
    BY <1>1, <1>6
  <2>6. QED
    BY <2>1, <2>3, <2>4, <2>5
<1> HIDE DEF sp
<1>9. ASSUME NEW i \in 1 .. Len(ids)
      PROVE  /\ row(i) \in Seq(blocks) /\ Len(row(i)) = target[ids[i]]
             /\ \A j \in 1 .. Len(d.table[ids[i]]) : row(i)[j] = d.table[ids[i]][j]
  <2>1. ASSUME NEW j \in 1 .. Len(d.table[ids[i]])
        PROVE  row(i)[j] = d.table[ids[i]][j] /\ row(i)[j] \in blocks
    <3>1. j \in 1 .. target[ids[i]] /\ j <= Len(d.table[ids[i]])
      BY <1>6
    <3>2. row(i)[j] = d.table[ids[i]][j]
      BY <3>1 DEF row
    <3>3. d.table[ids[i]] \in Seq(blocks)
      BY <1>1, <1>6
    <3>4. QED
      BY <3>2, <3>3, SMTT(30)
  <2>2. ASSUME NEW j \in 1 .. target[ids[i]]
        PROVE  row(i)[j] \in blocks
    <3>1. CASE j <= Len(d.table[ids[i]])
      BY <2>1, <3>1
    <3>2. CASE ~(j <= Len(d.table[ids[i]]))
      <4>1. j \in (Len(d.table[ids[i]]) + 1) .. target[ids[i]]
        BY <3>2, <1>6
      <4>2. QED
        BY <4>1, <1>8
    <3>3. QED
      BY <3>1, <3>2
  <2>3. row(i) \in [1 .. target[ids[i]] -> blocks]
    BY <2>2 DEF row
  <2>4. target[ids[i]] \in Nat
    BY <1>6
  <2>5. row(i) \in Seq(blocks) /\ Len(row(i)) = target[ids[i]]
    <3> HIDE DEF blocks
    <3>1. PICK m \in Nat : m = target[ids[i]]
      BY <2>4
    <3>2. row(i) \in [1 .. m -> blocks]
      BY <2>3, <3>1
    <3>3. PICK f \in [1 .. m -> blocks] : f = row(i)
      BY <3>2
    <3>4. f \in Seq(blocks) /\ Len(f) = m
      BY FunctionIsSeq
    <3>5. QED
      BY <3>1, <3>3, <3>4
  <2>6. QED
    BY <2>1, <2>5
<1>10. ASSUME NEW id \in Ids
       PROVE  /\ e.table[id] \in Seq(blocks)
              /\ Len(e.table[id]) = IF id \in Elems(ids) THEN target[id] ELSE Len(d.table[id])
              /\ Len(d.table[id]) <= Len(e.table[id])
              /\ \A j \in 1 .. Len(d.table[id]) : e.table[id][j] = d.table[id][j]
  <2>1. CASE id \in Elems(ids)
    <3>1. PICK i \in 1 .. Len(ids) : ids[i] = id
      BY <2>1 DEF Elems
    <3>2. e.table[id] = row(i)
      BY <3>1, <1>7
    <3>3. /\ row(i) \in Seq(blocks) /\ Len(row(i)) = target[ids[i]]
          /\ \A j \in 1 .. Len(d.table[ids[i]]) : row(i)[j] = d.table[ids[i]][j]
      BY <1>9
    <3>4. Len(d.table[ids[i]]) <= target[ids[i]]
      BY <1>6
    <3>5. QED
      BY <2>1, <3>1, <3>2, <3>3, <3>4
  <2>2. CASE id \notin Elems(ids)
    <3>1. e.table[id] = d.table[id] /\ d.table[id] \in Seq(blocks)
      BY <2>2, <1>1, <1>3
    <3>2. QED
      BY <2>2, <3>1
  <2>3. QED
    BY <2>1, <2>2
(* A row of split s either held the slot before or was given it.           *)
<1>11. ASSUME NEW s \in Splits, NEW v \in Held(e, itm2, s)
       PROVE  \/ v \in Held(d, itm, s) /\ PidOf(e, v) = PidOf(d, v)
              \/ \E u \in V(s) : /\ v = <<ids[u[1]], u[2]>>
                                /\ u[1] \in 1 .. Len(ids)
                                /\ u = <<u[1], u[2]>>
                                /\ PidOf(e, v) = given[s][u]
  <2> DEFINE S == {id \in Ids : SplitOf(itm2, id) = s}
  <2>0. v = <<v[1], v[2]>> /\ v[1] \in S /\ v[2] \in 1 .. Len(e.table[v[1]])
    <3> HIDE DEF S
    <3>1. v \in HeldSlots(e, S)
      BY DEF Held, S
    <3>2. QED
      BY <3>1, HeldSlotsMember
  <2>1. PICK id \in Ids :
         \E j \in 1 .. Len(e.table[id]) : v = <<id, j>> /\ SplitOf(itm2, id) = s
    BY <2>0
  <2> PICK j \in 1 .. Len(e.table[id]) : v = <<id, j>> /\ SplitOf(itm2, id) = s
    BY <2>1
  <2>2. PidOf(e, v) = e.table[id][j]
    BY DEF PidOf
  <2>3. CASE id \notin Elems(ids)
    <3>1. e.table[id] = d.table[id]
      BY <2>3, <1>3
    <3>2. id \in itm2 <=> id \in itm
      BY <2>3 DEF Elems
    <3>3. v \in Held(d, itm, s)
      BY <2>1, <3>1, <3>2, HeldSlotsMember DEF Held, SplitOf
    <3>4. QED
      BY <2>1, <3>1, <3>3 DEF PidOf
  <2>4. CASE id \in Elems(ids)
    <3>1. PICK i \in 1 .. Len(ids) : ids[i] = id
      BY <2>4 DEF Elems
    <3>2. i <= splitPoint => s = 1 /\ d.table[id] = << >>
      BY <2>1, <3>1 DEF SplitOf
    <3>3. ~(i <= splitPoint) => s = 0 /\ id \notin itm
      <4>1. ASSUME ~(i <= splitPoint) PROVE id \notin itm /\ id \notin itm2
        <5>1. ids[i] \notin itm
          BY <4>1
        <5>2. \A k \in 1 .. Len(ids) : ids[k] = id => k = i
          BY <3>1 DEF Distinct
        <5>3. QED
          BY <3>1, <4>1, <5>1, <5>2
      <4>2. QED
        BY <2>1, <4>1 DEF SplitOf
    <3>4. sp(i) = s
      BY <3>2, <3>3 DEF sp
    <3>5. CASE j <= Len(d.table[id])
      <4>1. d.table[id] \in Seq(blocks)
        BY <1>1
      <4>2. j \in 1 .. Len(d.table[id])
        BY <3>5, <4>1
      <4>3. d.table[id] # << >>
        BY <4>1, <4>2, SMTT(30)
      <4>4. SplitOf(itm, id) = s
        BY <4>3, <3>2, <3>3 DEF SplitOf
      <4>5. v \in Held(d, itm, s)
        BY <2>1, <4>2, <4>4, HeldSlotsMember DEF Held
      <4>6. e.table[id][j] = d.table[id][j]
        BY <1>10, <4>2
      <4>7. PidOf(e, v) = PidOf(d, v)
        BY <2>1, <4>6 DEF PidOf
      <4>8. QED
        BY <4>5, <4>7
    <3>6. CASE ~(j <= Len(d.table[id]))
      <4>1. j \in (Len(d.table[ids[i]]) + 1) .. target[ids[i]]
        <5>1. Len(e.table[id]) = target[id]
          BY <2>4, <1>10
        <5>2. Len(d.table[id]) \in Nat /\ target[id] \in Nat
          BY <3>1, <1>6
        <5>3. QED
          BY <3>1, <3>6, <5>1, <5>2, SMTT(30)
      <4>2. <<i, j>> \in V(s) /\ e.table[id][j] = given[s][<<i, j>>]
        <5>1. <<i, j>> \in V(sp(i)) /\ row(i)[j] = given[sp(i)][<<i, j>>]
          BY <4>1, <1>8
        <5>2. e.table[ids[i]] = row(i)
          BY <1>7
        <5>3. QED
          BY <3>1, <3>4, <5>1, <5>2
      <4>3. QED
        BY <2>1, <2>2, <3>1, <4>2
    <3>7. QED
      BY <3>5, <3>6
  <2>5. QED
    BY <2>3, <2>4
(* Conversely, no slot is lost and every slot asked for is served.         *)
<1>12. ASSUME NEW s \in Splits, NEW v \in Held(d, itm, s)
       PROVE  v \in Held(e, itm2, s) /\ PidOf(e, v) = PidOf(d, v)
  <2>1. PICK id \in Ids :
         \E j \in 1 .. Len(d.table[id]) : v = <<id, j>> /\ SplitOf(itm, id) = s
    BY DEF Held, HeldSlots
  <2> PICK j \in 1 .. Len(d.table[id]) : v = <<id, j>> /\ SplitOf(itm, id) = s
    BY <2>1
  <2>2. d.table[id] \in Seq(blocks) /\ d.table[id] # << >>
    BY <1>1, <2>1
  <2>3. ASSUME NEW i \in 1 .. Len(ids), ids[i] = id
        PROVE  ~(i <= splitPoint)
    BY <2>2, <2>3
  <2>4. id \in itm2 <=> id \in itm
    BY <2>3
  <2>5. j \in 1 .. Len(e.table[id]) /\ e.table[id][j] = d.table[id][j]
    <3>1. e.table[id] \in Seq(blocks) /\ Len(d.table[id]) <= Len(e.table[id])
      BY <1>10
    <3>2. e.table[id][j] = d.table[id][j]
      BY <1>10
    <3>3. Len(d.table[id]) \in Nat /\ Len(e.table[id]) \in Nat
      <4> HIDE DEF blocks
      <4>1. QED
        BY <2>2, <3>1
    <3>4. QED
      BY <3>1, <3>2, <3>3
  <2>6. QED
    BY <2>1, <2>4, <2>5, HeldSlotsMember DEF Held, SplitOf, PidOf
<1>13. ASSUME NEW s \in Splits, NEW u \in V(s)
       PROVE  \E v \in Held(e, itm2, s) : PidOf(e, v) = given[s][u]
  <2>1. PICK i \in 1 .. Len(ids) :
         \E j \in (Len(d.table[ids[i]]) + 1) .. target[ids[i]] : u = <<i, j>> /\ sp(i) = s
    BY DEF V, SlotsOf, NewSlots, sp
  <2> PICK j \in (Len(d.table[ids[i]]) + 1) .. target[ids[i]] : u = <<i, j>> /\ sp(i) = s
    BY <2>1
  <2>2. e.table[ids[i]][j] = given[s][u]
    <3>1. e.table[ids[i]] = row(i)
      BY <1>7
    <3>2. row(i)[j] = given[sp(i)][<<i, j>>]
      BY <1>8
    <3>3. QED
      BY <3>1, <3>2
  <2>3. j \in 1 .. Len(e.table[ids[i]]) /\ ids[i] \in Ids
    <3>1. /\ ids[i] \in Ids /\ ids[i] \in Elems(ids)
          /\ Len(d.table[ids[i]]) \in Nat
      BY <1>6
    <3>2. Len(e.table[ids[i]]) = target[ids[i]]
      BY <3>1, <1>10
    <3>3. QED
      BY <3>1, <3>2, SMTT(30)
  <2>4. i <= splitPoint => ids[i] \in itm2
    OBVIOUS
  <2>5. ASSUME ~(i <= splitPoint) PROVE ids[i] \notin itm2
    <3>1. ids[i] \notin itm
      BY <2>5
    <3>2. \A k \in 1 .. Len(ids) : ids[k] = ids[i] => k = i
      BY DEF Distinct
    <3>3. QED
      BY <2>5, <3>1, <3>2
  <2>6. SplitOf(itm2, ids[i]) = s
    BY <2>1, <2>4, <2>5 DEF SplitOf, sp
  <2>7. <<ids[i], j>> \in Held(e, itm2, s)
    BY <2>3, <2>6, HeldSlotsMember DEF Held
  <2>8. QED
    BY <2>2, <2>7 DEF PidOf
<1>14. NoSharing(e, itm2)
  <2>1. SUFFICES ASSUME NEW s \in Splits, NEW v \in Held(e, itm2, s), NEW w \in Held(e, itm2, s),
                        PidOf(e, v) = PidOf(e, w)
                 PROVE  v = w
    BY DEF NoSharing
  <2> DEFINE old(x) == x \in Held(d, itm, s) /\ PidOf(e, x) = PidOf(d, x)
             new(x) == \E u \in V(s) : /\ x = <<ids[u[1]], u[2]>>
                                     /\ u[1] \in 1 .. Len(ids)
                                     /\ u = <<u[1], u[2]>>
                                     /\ PidOf(e, x) = given[s][u]
  <2>2. (old(v) \/ new(v)) /\ (old(w) \/ new(w))
    BY <1>11
  <2>3. ASSUME NEW x, old(x) PROVE PidOf(e, x) \notin d.free[s]
    BY <2>3, <1>1 DEF FreeIsComplement
  <2>4. ASSUME NEW x, new(x) PROVE PidOf(e, x) \in d.free[s]
    BY <2>4, <1>5
  <2>5. CASE old(v) /\ old(w)
    BY <2>1, <2>5, <1>1 DEF NoSharing
  <2>6. CASE new(v) /\ new(w)
    <3>1. PICK u \in V(s) : v = <<ids[u[1]], u[2]>> /\ PidOf(e, v) = given[s][u]
      BY <2>6
    <3>2. PICK t \in V(s) : w = <<ids[t[1]], t[2]>> /\ PidOf(e, w) = given[s][t]
      BY <2>6
    <3>3. u = t
      BY <2>1, <3>1, <3>2, <1>5
    <3>4. QED
      BY <3>1, <3>2, <3>3
  <2>7. QED
    BY <2>1, <2>2, <2>3, <2>4, <2>5, <2>6
<1>15. FreeIsComplement(e, itm2, n)
  <2>1. SUFFICES ASSUME NEW s \in Splits
                 PROVE  e.free[s] = blocks \ {PidOf(e, v) : v \in Held(e, itm2, s)}
    BY DEF FreeIsComplement
  <2>2. d.free[s] = blocks \ {PidOf(d, v) : v \in Held(d, itm, s)}
    BY <1>1 DEF FreeIsComplement
  <2>3. e.free[s] = d.free[s] \ {given[s][u] : u \in V(s)}
    BY <1>3, <1>5
  <2>4. \A v \in Held(e, itm2, s) : \/ \E u \in Held(d, itm, s) : PidOf(e, v) = PidOf(d, u)
                                   \/ \E u \in V(s) : PidOf(e, v) = given[s][u]
    BY <1>11
  <2>5. \A u \in Held(d, itm, s) : \E v \in Held(e, itm2, s) : PidOf(e, v) = PidOf(d, u)
    BY <1>12
  <2>6. \A u \in V(s) : \E v \in Held(e, itm2, s) : PidOf(e, v) = given[s][u]
    BY <1>13
  <2> DEFINE P == {PidOf(d, v) : v \in Held(d, itm, s)}
             I == {given[s][u] : u \in V(s)}
             Q == {PidOf(e, v) : v \in Held(e, itm2, s)}
  <2>7. Q \subseteq P \cup I
    BY <2>4
  <2>8. P \subseteq Q
    BY <2>5
  <2>9. I \subseteq Q
    BY <2>6
  <2>10. d.free[s] = blocks \ P /\ e.free[s] = d.free[s] \ I
    BY <2>2, <2>3
  <2> HIDE DEF P, I, Q, blocks
  <2>11. e.free[s] = blocks \ Q
    BY <2>7, <2>8, <2>9, <2>10
  <2>12. QED
    BY <2>11 DEF Q
<1>16. ASSUME NEW s \in Splits
       PROVE  /\ e.free[s] \in SUBSET blocks
              /\ e.nfree[s] \in Nat
              /\ e.nfree[s] = Cardinality(e.free[s])
  <2>1. /\ IsFiniteSet(d.free[s]) /\ IsFiniteSet(V(s))
        /\ given[s] \in [V(s) -> d.free[s]]
        /\ \A v, w \in V(s) : given[s][v] = given[s][w] => v = w
    BY <1>5
  <2>2. LET left == d.free[s] \ {given[s][u] : u \in V(s)}
        IN /\ Cardinality(left) = Cardinality(d.free[s]) - Cardinality(V(s))
           /\ Cardinality(left) \in Nat
    BY <2>1, TakenCardinality
  <2>3. /\ e.free[s] = d.free[s] \ {given[s][u] : u \in V(s)}
        /\ e.nfree[s] = d.nfree[s] - Cardinality(V(s))
    BY <1>3, <2>1
  <2>4. d.nfree[s] = Cardinality(d.free[s])
    BY <1>1 DEF CounterExact
  <2>5. d.free[s] \subseteq blocks
    BY <1>1
  <2>6. QED
    BY <2>2, <2>3, <2>4, <2>5
<1>17. DeviceType(e, n)
  <2>1. e.table \in [Ids -> Seq(blocks)]
    BY <1>3, <1>10
  <2>2. e.free \in [Splits -> SUBSET blocks] /\ e.nfree \in [Splits -> Nat]
    BY <1>3, <1>16
  <2>3. QED
    BY <1>3, <2>1, <2>2 DEF DeviceType
<1>18. Sound(e, itm2, n)
  BY <1>3, <1>14, <1>15, <1>16, <1>17 DEF Sound, ExactAccounting, CounterExact
<1>19. QED
  BY <1>10, <1>18 DEF AllocPost, Extends

(* Returning distinct blocks to a set that has none of them adds them all. *)
LEMMA ReturnedCardinality ==
  ASSUME NEW D, IsFiniteSet(D), NEW W, IsFiniteSet(W), NEW I, D \cap I = {},
         NEW g \in [W -> I], I = {g[u] : u \in W},
         \A v, w \in W : g[v] = g[w] => v = w
  PROVE  /\ Cardinality(D \cup I) = Cardinality(D) + Cardinality(W)
         /\ Cardinality(W) \in Nat
<1>1. g \in Surjection(W, I) /\ g \in Injection(W, I)
  BY DEF Surjection, Injection, IsInjective
<1>2. IsFiniteSet(I) /\ Cardinality(I) = Cardinality(W)
  BY <1>1, FS_Surjection
<1>3. Cardinality(D \cup I) = Cardinality(D) + Cardinality(I) - Cardinality(D \cap I)
  BY <1>2, FS_Union
<1>4. Cardinality(D \cap I) = 0
  BY FS_EmptySet
<1>5. Cardinality(D) \in Nat /\ Cardinality(W) \in Nat
  BY FS_CardinalityType
<1>6. QED
  BY <1>2, <1>3, <1>4, <1>5

(* The rows of a sound device: distinct slots of one split hold distinct   *)
(* blocks, so that a split holds no more slots than the device has blocks. *)
HeldPre(n, d, itm, s, H) ==
  n \in Nat /\ Sound(d, itm, n) /\ s \in Splits /\ H \subseteq Held(d, itm, s)

HeldPost(n, d, H) ==
  /\ IsFiniteSet(H)
  /\ \A v \in H : PidOf(d, v) \in 0 .. (n - 1)
  /\ \A v, w \in H : PidOf(d, v) = PidOf(d, w) => v = w

LEMMA HeldFinite ==
  ASSUME NEW n, NEW d, NEW itm, NEW s, NEW H, HeldPre(n, d, itm, s, H)
  PROVE  HeldPost(n, d, H)
<1> SUFFICES ASSUME n \in Nat, Sound(d, itm, n), s \in Splits, H \subseteq Held(d, itm, s)
             PROVE  HeldPost(n, d, H)
  BY DEF HeldPre
<1> DEFINE blocks == 0 .. (n - 1)
           f == [v \in H |-> PidOf(d, v)]
<1>1. d.table \in [Ids -> Seq(blocks)] /\ NoSharing(d, itm)
  BY DEF Sound, DeviceType, ExactAccounting
<1>2. ASSUME NEW v \in H PROVE PidOf(d, v) \in blocks
  <2>1. PICK id \in Ids : \E j \in 1 .. Len(d.table[id]) : v = <<id, j>>
    BY DEF Held, HeldSlots
  <2>2. d.table[id] \in Seq(blocks)
    BY <1>1
  <2> HIDE DEF blocks
  <2>3. QED
    BY <2>1, <2>2 DEF PidOf
<1>3. \A v, w \in H : PidOf(d, v) = PidOf(d, w) => v = w
  BY <1>1 DEF NoSharing
<1>4. IsFiniteSet(blocks)
  BY FS_Interval
<1>5. f \in Injection(H, blocks)
  BY <1>2, <1>3 DEF Injection, IsInjective
<1>6. IsFiniteSet(H)
  <2> HIDE DEF f, blocks
  <2>1. QED
    BY <1>4, <1>5, FS_Injection
<1>7. QED
  BY <1>2, <1>3, <1>6 DEF HeldPost

(* free: a sound device stays sound when all blocks of some requests are   *)
(* released into the split they were taken from.                           *)
FreePre(n, d, itm, S, s, itm2, e) ==
  /\ n \in Nat /\ Sound(d, itm, n)
  /\ S \subseteq Ids /\ s \in Splits
  /\ \A id \in S : d.table[id] # << >> => SplitOf(itm, id) = s
  /\ itm2 = itm \ S
  /\ e = Free(d, S, s)

FreePost(n, d, S, itm2, e) ==
  /\ Sound(e, itm2, n)
  /\ \A id \in Ids : e.table[id] = IF id \in S THEN << >> ELSE d.table[id]

LEMMA FreeSound ==
  ASSUME NEW n, NEW d, NEW itm, NEW S, NEW s, NEW itm2, NEW e,
         FreePre(n, d, itm, S, s, itm2, e)
  PROVE  FreePost(n, d, S, itm2, e)
<1> SUFFICES ASSUME n \in Nat, Sound(d, itm, n), S \subseteq Ids, s \in Splits,
                    \A id \in S : d.table[id] # << >> => SplitOf(itm, id) = s,
                    e = Free(d, S, s), itm2 = itm \ S
             PROVE  FreePost(n, d, S, itm2, e)
  BY DEF FreePre
<1> DEFINE blocks == 0 .. (n - 1)
           H == HeldSlots(d, S)
           P == {PidOf(d, v) : v \in H}
           old(t) == {PidOf(d, v) : v \in Held(d, itm, t)}
           new(t) == {PidOf(e, v) : v \in Held(e, itm2, t)}
<1>1. /\ d = [table |-> d.table, free |-> d.free, nfree |-> d.nfree, ok |-> d.ok]
      /\ d.table \in [Ids -> Seq(blocks)]
      /\ d.free \in [Splits -> SUBSET blocks]
      /\ d.nfree \in [Splits -> Nat]
      /\ d.ok
      /\ NoSharing(d, itm) /\ FreeIsComplement(d, itm, n) /\ CounterExact(d)
  BY DEF Sound, DeviceType, ExactAccounting
<1>2. /\ e.table = [id \in Ids |-> IF id \in S THEN << >> ELSE d.table[id]]
      /\ e.free = [d.free EXCEPT ![s] = @ \cup P]
      /\ e.nfree = [d.nfree EXCEPT ![s] = @ + Cardinality(H)]
      /\ e.ok = d.ok
      /\ e = [table |-> e.table, free |-> e.free, nfree |-> e.nfree, ok |-> e.ok]
  BY <1>1 DEF Free
<1> HIDE DEF blocks
<1>3. H \subseteq Held(d, itm, s)
  <2>1. SUFFICES ASSUME NEW v \in H PROVE v \in Held(d, itm, s)
    OBVIOUS
  <2>2. PICK id \in S : \E j \in 1 .. Len(d.table[id]) : v = <<id, j>>
    BY DEF HeldSlots
  <2> PICK j \in 1 .. Len(d.table[id]) : v = <<id, j>>
    BY <2>2
  <2>3. d.table[id] \in Seq(blocks) /\ d.table[id] # << >> /\ id \in Ids
    BY <1>1
  <2>4. SplitOf(itm, id) = s
    BY <2>3
  <2>5. QED
    BY <2>2, <2>3, <2>4, HeldSlotsMember DEF Held
<1>4. /\ IsFiniteSet(H) /\ P \subseteq blocks
      /\ \A v, w \in H : PidOf(d, v) = PidOf(d, w) => v = w
  <2>1. /\ IsFiniteSet(H)
        /\ \A v \in H : PidOf(d, v) \in 0 .. (n - 1)
        /\ \A v, w \in H : PidOf(d, v) = PidOf(d, w) => v = w
    <3> HIDE DEF H, P, old, new
    <3>1. HeldPre(n, d, itm, s, H)
      BY <1>3 DEF HeldPre
    <3>2. HeldPost(n, d, H)
      BY <3>1, HeldFinite
    <3>3. QED
      BY <3>2 DEF HeldPost
  <2>2. QED
    BY <2>1 DEF blocks
<1>5. ASSUME NEW t \in Splits, NEW v
      PROVE  v \in Held(e, itm2, t) <=> v \in Held(d, itm, t) /\ v \notin H
  <2>1. ASSUME NEW id \in Ids, NEW j, v = <<id, j>>
        PROVE  v \in Held(e, itm2, t) <=> v \in Held(d, itm, t) /\ v \notin H
    <3>1. CASE id \in S
      <4>1. e.table[id] = << >>
        BY <1>2, <3>1
      <4>2. v \notin Held(e, itm2, t)
        BY <2>1, <4>1 DEF Held, HeldSlots
      <4>3. v \in Held(d, itm, t) => v \in H
        BY <2>1, <3>1 DEF Held, HeldSlots
      <4>4. QED
        BY <4>2, <4>3
    <3>2. CASE id \notin S
      <4>1. e.table[id] = d.table[id] /\ SplitOf(itm2, id) = SplitOf(itm, id)
        BY <1>2, <3>2 DEF SplitOf
      <4>2. v \notin H
        BY <2>1, <3>2 DEF HeldSlots
      <4>3. v \in Held(e, itm2, t) <=> SplitOf(itm2, id) = t /\ j \in 1 .. Len(e.table[id])
        BY <2>1 DEF Held, HeldSlots
      <4>4. v \in Held(d, itm, t) <=> SplitOf(itm, id) = t /\ j \in 1 .. Len(d.table[id])
        BY <2>1 DEF Held, HeldSlots
      <4>5. QED
        BY <4>1, <4>2, <4>3, <4>4
    <3>3. QED
      BY <3>1, <3>2
  <2>2. CASE \E id \in Ids : \E j \in Int : v = <<id, j>>
    BY <2>1, <2>2
  <2>3. CASE ~(\E id \in Ids : \E j \in Int : v = <<id, j>>)
    BY <2>3 DEF Held, HeldSlots
  <2>4. QED
    BY <2>2, <2>3
<1>6. ASSUME NEW t \in Splits, NEW v \in Held(e, itm2, t)
      PROVE  PidOf(e, v) = PidOf(d, v)
  <2>1. v \in Held(d, itm, t) /\ v \notin H
    BY <1>5
  <2>2. PICK id \in Ids : \E j \in 1 .. Len(d.table[id]) : v = <<id, j>>
    BY <2>1 DEF Held, HeldSlots
  <2>3. id \notin S
    BY <2>1, <2>2 DEF HeldSlots
  <2>4. QED
    BY <1>2, <2>2, <2>3 DEF PidOf
<1>7. NoSharing(e, itm2)
  <2>1. SUFFICES ASSUME NEW t \in Splits, NEW v \in Held(e, itm2, t), NEW w \in Held(e, itm2, t),
                        PidOf(e, v) = PidOf(e, w)
                 PROVE  v = w
    BY DEF NoSharing
  <2>2. v \in Held(d, itm, t) /\ w \in Held(d, itm, t)
    BY <1>5
  <2>3. PidOf(d, v) = PidOf(d, w)
    BY <1>6, <2>1
  <2>4. QED
    BY <1>1, <2>2, <2>3 DEF NoSharing
<1> HIDE DEF H
<1>8. FreeIsComplement(e, itm2, n)
  <2>1. SUFFICES ASSUME NEW t \in Splits PROVE e.free[t] = blocks \ new(t)
    BY DEF FreeIsComplement, blocks
  <2>2. d.free[t] = blocks \ old(t)
    BY <1>1 DEF FreeIsComplement, blocks
  <2>3. CASE t # s
    <3>1. e.free[t] = d.free[t]
      BY <1>1, <1>2, <2>3
    <3>2. \A v \in H : v \notin Held(d, itm, t)
      <4>1. \A v \in H : v \in Held(d, itm, s)
        BY <1>3
      <4>2. QED
        BY <4>1, <2>3 DEF Held, HeldSlots
    <3>3. new(t) = old(t)
      BY <1>5, <1>6, <3>2, ZenonT(60)
    <3>4. QED
      BY <2>2, <3>1, <3>3
  <2>4. CASE t = s
    <3>1. e.free[t] = d.free[t] \cup P
      BY <1>1, <1>2, <2>4
    <3>2. ASSUME NEW b \in new(t) PROVE b \in old(t) /\ b \notin P
      <4>1. PICK v \in Held(e, itm2, t) : b = PidOf(e, v)
        BY <3>2
      <4>2. v \in Held(d, itm, t) /\ v \notin H /\ b = PidOf(d, v)
        BY <4>1, <1>5, <1>6
      <4>3. \A w \in H : PidOf(d, w) = PidOf(d, v) => w = v
        BY <4>2, <1>1, <1>3, <2>4 DEF NoSharing
      <4>4. QED
        BY <4>2, <4>3
    <3>3. ASSUME NEW b \in old(t), b \notin P PROVE b \in new(t)
      <4>1. PICK v \in Held(d, itm, t) : b = PidOf(d, v)
        BY <3>3
      <4>2. v \notin H
        BY <4>1, <3>3
      <4>3. v \in Held(e, itm2, t) /\ PidOf(e, v) = b
        BY <4>1, <4>2, <1>5, <1>6
      <4>4. QED
        BY <4>3
    <3> HIDE DEF P, new, old
    <3>4. QED
      BY <1>4, <2>2, <3>1, <3>2, <3>3
  <2>5. QED
    BY <2>3, <2>4
<1>9. ASSUME NEW t \in Splits
      PROVE  /\ e.free[t] \in SUBSET blocks
             /\ e.nfree[t] \in Nat
             /\ e.nfree[t] = Cardinality(e.free[t])
  <2>1. d.free[t] \in SUBSET blocks /\ d.nfree[t] \in Nat /\ d.nfree[t] = Cardinality(d.free[t])
    BY <1>1 DEF CounterExact
  <2>2. CASE t # s
    <3>1. e.free[t] = d.free[t] /\ e.nfree[t] = d.nfree[t]
      BY <1>1, <1>2, <2>2
    <3>2. QED
      BY <2>1, <3>1
  <2>3. CASE t = s
    <3>1. e.free[t] = d.free[t] \cup P /\ e.nfree[t] = d.nfree[t] + Cardinality(H)
      BY <1>1, <1>2, <2>3
    <3>2. d.free[t] \cap P = {}
      <4>1. d.free[t] = blocks \ old(t)
        BY <1>1 DEF FreeIsComplement, blocks
      <4>2. P \subseteq old(t)
        BY <1>3, <2>3
      <4> HIDE DEF old, P
      <4>3. QED
        BY <4>1, <4>2
    <3>3. IsFiniteSet(d.free[t])
      <4>1. IsFiniteSet(blocks)
        BY FS_Interval DEF blocks
      <4>2. QED
        BY <2>1, <4>1, FS_Subset
    <3>4. PICK f : f = [v \in H |-> PidOf(d, v)]
      OBVIOUS
    <3>5. /\ f \in [H -> P] /\ \A v, w \in H : f[v] = f[w] => v = w
          /\ P = {f[v] : v \in H}
      BY <1>4, <3>4
    <3> HIDE DEF P
    <3>6. /\ Cardinality(d.free[t] \cup P) = Cardinality(d.free[t]) + Cardinality(H)
          /\ Cardinality(H) \in Nat
      <4>1. PICK D, K, Q : D = d.free[t] /\ K = H /\ Q = P
        OBVIOUS
      <4>2. IsFiniteSet(D) /\ IsFiniteSet(K)
        BY <1>4, <3>3, <4>1
      <4>3. f \in [K -> Q]
        BY <3>5, <4>1
      <4>4. \A v, w \in K : f[v] = f[w] => v = w
        BY <3>5, <4>1
      <4>5. Q = {f[v] : v \in K} /\ D \cap Q = {}
        BY <3>2, <3>5, <4>1
      <4>6. Cardinality(D \cup Q) = Cardinality(D) + Cardinality(K) /\ Cardinality(K) \in Nat
        BY <4>2, <4>3, <4>4, <4>5, ReturnedCardinality, ZenonT(60)
      <4>7. QED
        BY <4>1, <4>6
    <3>7. QED
      BY <1>4, <2>1, <3>1, <3>6
  <2>4. QED
    BY <2>2, <2>3
<1>10. DeviceType(e, n)
  <2>1. e.table \in [Ids -> Seq(blocks)]
    <3>1. ASSUME NEW id \in Ids PROVE e.table[id] \in Seq(blocks)
      <4>1. d.table[id] \in Seq(blocks) /\ << >> \in Seq(blocks)
        BY <1>1
      <4>2. QED
        BY <1>2, <4>1
    <3>2. QED
      BY <1>2, <3>1
  <2>2. e.free \in [Splits -> SUBSET blocks] /\ e.nfree \in [Splits -> Nat]
    <3>1. e.free = [t \in Splits |-> e.free[t]] /\ e.nfree = [t \in Splits |-> e.nfree[t]]
      BY <1>1, <1>2
    <3>2. QED
      BY <1>9, <3>1
  <2>3. QED
    BY <1>1, <1>2, <2>1, <2>2 DEF DeviceType, blocks
<1>11. \A id \in Ids : e.table[id] = IF id \in S THEN << >> ELSE d.table[id]
  BY <1>2
<1>12. CounterExact(e)
  BY <1>9 DEF CounterExact
<1>13. e.ok
  BY <1>1, <1>2
<1>14. QED
  BY <1>7, <1>8, <1>10, <1>11, <1>12, <1>13 DEF FreePost, Sound, ExactAccounting

(* __init__: a new device is sound, and all its rows are empty.            *)
LEMMA NewDeviceSound ==
  ASSUME NEW n \in Nat
  PROVE  /\ Sound(NewDevice(n), {}, n)
         /\ \A id \in Ids : NewDevice(n).table[id] = << >>
<1> DEFINE d == NewDevice(n)
           blocks == 0 .. (n - 1)
<1>1. /\ d.table = [id \in Ids |-> << >>]
      /\ d.free = [s \in Splits |-> blocks]
      /\ d.nfree = [s \in Splits |-> n]
      /\ d.ok = TRUE
      /\ d = [table |-> d.table, free |-> d.free, nfree |-> d.nfree, ok |-> d.ok]
  BY DEF NewDevice
<1>2. \A s \in Splits : Held(d, {}, s) = {}
  BY <1>1 DEF Held, HeldSlots
<1>3. Cardinality(blocks) = n
  <2>1. 0 .. (n - 1) = {} \/ n > 0
    OBVIOUS
  <2>2. Cardinality(0 .. (n - 1)) = IF 0 > n - 1 THEN 0 ELSE (n - 1) - 0 + 1
    BY FS_Interval
  <2>3. QED
    BY <2>2
<1>4. DeviceType(d, n)
  <2> HIDE DEF d
  <2>1. << >> \in Seq(blocks)
    OBVIOUS
  <2>2. QED
    BY <1>1, <2>1, ZenonT(60) DEF DeviceType
<1>5. NoSharing(d, {}) /\ FreeIsComplement(d, {}, n) /\ CounterExact(d)
  <2> HIDE DEF d
  <2>1. QED
    BY <1>1, <1>2, <1>3 DEF NoSharing, FreeIsComplement, CounterExact
<1>6. QED
  BY <1>1, <1>4, <1>5 DEF Sound, ExactAccounting

(* alloc does not raise when its requests hold no more than their targets  *)
(* and, in each split, a set of no more slots than the device has blocks   *)
(* includes the slots that are held and those that are asked for.          *)
AllocFits(n, d, itm, ids, splitPoint, target, F) ==
  /\ n \in Nat /\ Sound(d, itm, n)
  /\ ids \in Seq(Ids) /\ Distinct(ids)
  /\ target \in [Ids -> Int]
  /\ \A i \in 1 .. Len(ids) : Len(d.table[ids[i]]) <= target[ids[i]]
  /\ \A s \in Splits : IsFiniteSet(F[s]) /\ Cardinality(F[s]) <= n /\ Held(d, itm, s) \subseteq F[s]
  /\ \A i \in 1 .. Len(ids) : \A j \in 1 .. target[ids[i]] :
       <<ids[i], j>> \in F[IF i <= splitPoint THEN 1 ELSE 0]

LEMMA AllocRuns ==
  ASSUME NEW n, NEW d, NEW itm, NEW ids, NEW splitPoint, NEW target, NEW F,
         AllocFits(n, d, itm, ids, splitPoint, target, F)
  PROVE  Alloc(d, ids, splitPoint, target).ok
<1>1. /\ n \in Nat /\ Sound(d, itm, n)
      /\ ids \in Seq(Ids) /\ Distinct(ids)
      /\ target \in [Ids -> Int]
      /\ \A i \in 1 .. Len(ids) : Len(d.table[ids[i]]) <= target[ids[i]]
      /\ \A i \in 1 .. Len(ids) : \A j \in 1 .. target[ids[i]] :
           <<ids[i], j>> \in F[IF i <= splitPoint THEN 1 ELSE 0]
  BY DEF AllocFits
<1>2. \A s \in Splits : IsFiniteSet(F[s]) /\ Cardinality(F[s]) <= n /\ Held(d, itm, s) \subseteq F[s]
  BY DEF AllocFits
<1>3. /\ d.table \in [Ids -> Seq(0 .. (n - 1))] /\ d.ok
      /\ FreeIsComplement(d, itm, n) /\ CounterExact(d)
  BY <1>1 DEF Sound, DeviceType, ExactAccounting
<1>4. \A i \in 1 .. Len(ids) : ids[i] \in Ids /\ target[ids[i]] \in Int /\ Len(d.table[ids[i]]) \in Nat
  BY <1>1, <1>3
<1>5. /\ IsFiniteSet(NewSlots(d, ids, target))
      /\ NewSlots(d, ids, target) \subseteq Int \X Int
      /\ \A i, j : <<i, j>> \in NewSlots(d, ids, target) <=>
           /\ i \in 1 .. Len(ids)
           /\ j \in (Len(d.table[ids[i]]) + 1) .. target[ids[i]]
  BY <1>1, <1>3, NewSlotsFinite
<1>6. ASSUME NEW s \in Splits
      PROVE  ~(Cardinality(SlotsOf(s, d, ids, splitPoint, target)) > d.nfree[s])
  <2>1. PICK V, H : V = SlotsOf(s, d, ids, splitPoint, target) /\ H = Held(d, itm, s)
    OBVIOUS
  <2>2. /\ IsFiniteSet(V)
        /\ \A v \in V : /\ v = <<v[1], v[2]>> /\ v[1] \in 1 .. Len(ids)
                        /\ v[2] \in (Len(d.table[ids[v[1]]]) + 1) .. target[ids[v[1]]]
                        /\ s = (IF v[1] <= splitPoint THEN 1 ELSE 0)
    <3>1. V \subseteq NewSlots(d, ids, target)
      BY <2>1 DEF SlotsOf
    <3>2. IsFiniteSet(V)
      BY <1>5, <3>1, FS_Subset
    <3>3. ASSUME NEW v \in V
          PROVE  /\ v = <<v[1], v[2]>> /\ v[1] \in 1 .. Len(ids)
                 /\ v[2] \in (Len(d.table[ids[v[1]]]) + 1) .. target[ids[v[1]]]
                 /\ s = (IF v[1] <= splitPoint THEN 1 ELSE 0)
      <4>1. v \in NewSlots(d, ids, target) /\ s = (IF v[1] <= splitPoint THEN 1 ELSE 0)
        BY <2>1 DEF SlotsOf
      <4>2. v = <<v[1], v[2]>>
        BY <1>5, <4>1
      <4>3. QED
        BY <1>5, <4>1, <4>2
    <3>4. QED
      BY <3>2, <3>3
  <2>3. /\ IsFiniteSet(H) /\ \A v \in H : PidOf(d, v) \in 0 .. (n - 1)
        /\ \A v, w \in H : PidOf(d, v) = PidOf(d, w) => v = w
    <3>1. HeldPre(n, d, itm, s, H)
      BY <1>1, <2>1 DEF HeldPre
    <3>2. HeldPost(n, d, H)
      BY <3>1, HeldFinite
    <3>3. QED
      BY <3>2 DEF HeldPost
  <2>4. d.nfree[s] = n - Cardinality(H)
    <3>1. PICK g : g = [v \in H |-> PidOf(d, v)]
      OBVIOUS
    <3>2. g \in [H -> 0 .. (n - 1)] /\ \A v, w \in H : g[v] = g[w] => v = w
      BY <2>3, <3>1
    <3>3. IsFiniteSet(0 .. (n - 1)) /\ Cardinality(0 .. (n - 1)) = n
      <4>1. /\ IsFiniteSet(0 .. (n - 1))
            /\ Cardinality(0 .. (n - 1)) = IF 0 > n - 1 THEN 0 ELSE (n - 1) - 0 + 1
        BY <1>1, FS_Interval
      <4>2. QED
        BY <1>1, <4>1
    <3>4. Cardinality((0 .. (n - 1)) \ {g[u] : u \in H}) = Cardinality(0 .. (n - 1)) - Cardinality(H)
      BY <2>3, <3>2, <3>3, TakenCardinality
    <3>5. d.free[s] = (0 .. (n - 1)) \ {g[u] : u \in H}
      <4>1. d.free[s] = (0 .. (n - 1)) \ {PidOf(d, v) : v \in H}
        BY <1>3, <2>1 DEF FreeIsComplement
      <4>2. {PidOf(d, v) : v \in H} = {g[u] : u \in H}
        BY <3>1
      <4>3. QED
        BY <4>1, <4>2
    <3>6. d.nfree[s] = Cardinality(d.free[s])
      BY <1>3 DEF CounterExact
    <3>7. QED
      BY <3>3, <3>4, <3>5, <3>6
  <2>5. PICK h : h = [v \in V |-> <<ids[v[1]], v[2]>>]
    OBVIOUS
  <2>6. h \in [V -> F[s]]
    <3>1. ASSUME NEW v \in V PROVE <<ids[v[1]], v[2]>> \in F[s]
      <4>1. v[1] \in 1 .. Len(ids) /\ v[2] \in 1 .. target[ids[v[1]]]
        BY <1>4, <2>2
      <4>2. QED
        BY <1>1, <2>2, <4>1
    <3>2. QED
      BY <2>5, <3>1
  <2>7. \A v, w \in V : h[v] = h[w] => v = w
    <3>1. ASSUME NEW v \in V, NEW w \in V, h[v] = h[w] PROVE v = w
      <4>1. ids[v[1]] = ids[w[1]] /\ v[2] = w[2]
        BY <2>5, <3>1
      <4>2. v[1] = w[1]
        BY <1>1, <2>2, <4>1 DEF Distinct
      <4>3. QED
        BY <2>2, <4>1, <4>2
    <3>2. QED
      BY <3>1
  <2>8. PICK I : I = {h[v] : v \in V}
    OBVIOUS
  <2>9. IsFiniteSet(I) /\ Cardinality(I) = Cardinality(V) /\ I \subseteq F[s]
    <3>1. PICK T : T = F[s]
      OBVIOUS
    <3>2. IsFiniteSet(V) /\ h \in [V -> T]
      BY <2>2, <2>6, <3>1
    <3>3. IsFiniteSet({h[v] : v \in V}) /\ Cardinality({h[v] : v \in V}) = Cardinality(V)
      BY ONLY <2>7, <3>2, ImageCardinality
    <3>4. I \subseteq F[s]
      BY <2>6, <2>8
    <3>5. QED
      BY <2>8, <3>3, <3>4
  <2>10. I \cap H = {}
    <3>1. ASSUME NEW v \in V, h[v] \in H PROVE FALSE
      <4>1. <<ids[v[1]], v[2]>> \in H
        BY <2>5, <3>1
      <4>2. v[2] \in 1 .. Len(d.table[ids[v[1]]])
        BY <2>1, <4>1, HeldSlotsMember DEF Held
      <4>3. QED
        BY <1>4, <2>2, <4>2
    <3>2. QED
      BY <2>8, <3>1
  <2>11. Cardinality(I \cup H) = Cardinality(I) + Cardinality(H)
    <3>1. Cardinality(I \cup H) = Cardinality(I) + Cardinality(H) - Cardinality(I \cap H)
      BY <2>3, <2>9, FS_Union
    <3>2. Cardinality(I \cap H) = 0
      BY <2>10, FS_EmptySet
    <3>3. Cardinality(I) \in Nat /\ Cardinality(H) \in Nat
      BY <2>3, <2>9, FS_CardinalityType
    <3>4. QED
      BY <3>1, <3>2, <3>3
  <2>12. Cardinality(I \cup H) <= Cardinality(F[s]) /\ Cardinality(F[s]) \in Nat
    <3>1. I \cup H \subseteq F[s] /\ IsFiniteSet(F[s])
      BY <1>2, <2>1, <2>9
    <3>2. QED
      BY <3>1, FS_Subset, FS_CardinalityType
  <2>13. Cardinality(V) \in Nat /\ Cardinality(H) \in Nat
    BY <2>2, <2>3, FS_CardinalityType
  <2>14. Cardinality(V) + Cardinality(H) <= n
    BY <1>1, <1>2, <2>9, <2>11, <2>12, <2>13
  <2>15. QED
    BY <1>1, <2>1, <2>4, <2>13, <2>14
<1>7. ~AllocRaises(d, ids, splitPoint, target)
  <2>1. \A i \in 1 .. Len(ids) : ~(Len(d.table[ids[i]]) > target[ids[i]])
    BY <1>1, <1>4
  <2>2. QED
    BY <1>6, <2>1 DEF AllocRaises
<1>8. QED
  BY <1>3, <1>7 DEF Alloc

-----------------------------------------------------------------------------
(* The control plane.                                                      *)

(* Number arithmetic of a row.                                             *)
LEMMA BlocksForType ==
  ASSUME NEW len \in Int
  PROVE  BlocksFor(len) \in Int
BY BlockSizeAssumption DEF BlocksFor

LEMMA BlocksForZero == BlocksFor(0) = 0
<1>1. 0 + BlockSize - 1 = BlockSize - 1 /\ BlockSize - 1 < BlockSize /\ BlockSize - 1 >= 0
  BY BlockSizeAssumption
<1>2. (BlockSize - 1) \div BlockSize = 0
  BY <1>1, BlockSizeAssumption
<1>3. QED
  BY <1>1, <1>2 DEF BlocksFor

(* Lists of requests put one after another.                                *)
LEMMA ConcatElems ==
  ASSUME NEW s \in Seq(Ids), NEW t \in Seq(Ids)
  PROVE  /\ s \o t \in Seq(Ids)
         /\ Elems(s \o t) = Elems(s) \cup Elems(t)
         /\ \A i \in 1 .. Len(s) : (s \o t)[i] = s[i]
         /\ Distinct(s \o t) =>
              Distinct(s) /\ Distinct(t) /\ Elems(s) \cap Elems(t) = {}
<1> DEFINE u == s \o t
<1>1. /\ u \in Seq(Ids)
      /\ Len(u) = Len(s) + Len(t)
      /\ \A i \in 1 .. Len(s) : u[i] = s[i]
      /\ \A i \in 1 .. Len(t) : u[Len(s) + i] = t[i]
      /\ Len(s) \in Nat /\ Len(t) \in Nat
  OBVIOUS
<1> HIDE DEF u
<1>2. ASSUME NEW x \in Elems(u) PROVE x \in Elems(s) \cup Elems(t)
  <2>1. PICK i \in 1 .. Len(u) : u[i] = x
    BY <1>2 DEF Elems
  <2>2. CASE i <= Len(s)
    BY <1>1, <2>1, <2>2 DEF Elems
  <2>3. CASE ~(i <= Len(s))
    <3>1. i - Len(s) \in 1 .. Len(t) /\ i = Len(s) + (i - Len(s))
      BY <1>1, <2>3
    <3>2. t[i - Len(s)] = x
      BY <1>1, <2>1, <3>1
    <3>3. QED
      BY <3>1, <3>2 DEF Elems
  <2>4. QED
    BY <2>2, <2>3
<1>3. ASSUME NEW x \in Elems(s) PROVE x \in Elems(u)
  <2>1. PICK i \in 1 .. Len(s) : s[i] = x
    BY <1>3 DEF Elems
  <2>2. i \in 1 .. Len(u) /\ u[i] = x
    BY <1>1, <2>1
  <2>3. QED
    BY <2>2 DEF Elems
<1>4. ASSUME NEW x \in Elems(t) PROVE x \in Elems(u)
  <2>1. PICK i \in 1 .. Len(t) : t[i] = x
    BY <1>4 DEF Elems
  <2>2. Len(s) + i \in 1 .. Len(u) /\ u[Len(s) + i] = x
    BY <1>1, <2>1
  <2>3. QED
    BY <2>2 DEF Elems
<1>5. ASSUME Distinct(u)
      PROVE  Distinct(s) /\ Distinct(t) /\ Elems(s) \cap Elems(t) = {}
  <2>1. \A i, j \in 1 .. Len(u) : u[i] = u[j] => i = j
    BY <1>5 DEF Distinct
  <2>2. \A i, j \in 1 .. Len(s) : s[i] = s[j] => i = j
    BY <1>1, <2>1
  <2>3. ASSUME NEW i \in 1 .. Len(t), NEW j \in 1 .. Len(t), t[i] = t[j] PROVE i = j
    <3>1. Len(s) + i \in 1 .. Len(u) /\ Len(s) + j \in 1 .. Len(u)
      BY <1>1
    <3>2. u[Len(s) + i] = u[Len(s) + j]
      BY <1>1, <2>3
    <3>3. Len(s) + i = Len(s) + j
      BY <2>1, <3>1, <3>2
    <3>4. QED
      BY <1>1, <3>3
  <2>4. ASSUME NEW x \in Elems(s), x \in Elems(t) PROVE FALSE
    <3>1. PICK i \in 1 .. Len(s) : s[i] = x
      BY DEF Elems
    <3>2. PICK j \in 1 .. Len(t) : t[j] = x
      BY <2>4 DEF Elems
    <3>3. i \in 1 .. Len(u) /\ Len(s) + j \in 1 .. Len(u) /\ u[i] = u[Len(s) + j]
      BY <1>1, <3>1, <3>2
    <3>4. i = Len(s) + j
      BY <2>1, <3>3
    <3>5. QED
      BY <1>1, <3>4
  <2>5. QED
    BY <2>2, <2>3, <2>4 DEF Distinct
<1>6. QED
  BY <1>1, <1>2, <1>3, <1>4, <1>5 DEF u

(* The lists of a batch.                                                   *)
LEMMA BatchLists ==
  ASSUME NEW b, BatchType(b)
  PROVE  /\ b.cprf \in Seq(Ids) /\ b.gprf \in Seq(Ids)
         /\ b.gdec \in Seq(Ids) /\ b.cdec \in Seq(Ids)
         /\ PrGds(b) \in Seq(Ids) /\ AllReqs(b) \in Seq(Ids)
         /\ Prefs(b) = Elems(b.cprf) \cup Elems(b.gprf)
         /\ Elems(PrGds(b)) = Elems(b.cprf) \cup Elems(b.gprf) \cup Elems(b.gdec)
         /\ Elems(AllReqs(b)) = Elems(PrGds(b)) \cup Elems(b.cdec)
         /\ \A i \in 1 .. Len(b.cprf) : PrGds(b)[i] = b.cprf[i]
         /\ Len(b.cprf) <= Len(PrGds(b))
         /\ Distinct(AllReqs(b)) =>
              /\ Distinct(b.cprf) /\ Distinct(PrGds(b)) /\ Distinct(b.cdec)
              /\ Elems(PrGds(b)) \cap Elems(b.cdec) = {}
              /\ Elems(b.cprf) \cap (Elems(b.gprf) \cup Elems(b.gdec)) = {}
<1> DEFINE c == b.cprf
           g == b.gprf
           e == b.gdec
           d == b.cdec
<1>1. c \in Seq(Ids) /\ g \in Seq(Ids) /\ e \in Seq(Ids) /\ d \in Seq(Ids)
  BY DEF BatchType
<1>2. PrGds(b) = (c \o g) \o e /\ AllReqs(b) = PrGds(b) \o d /\ Prefs(b) = Elems(c \o g)
  BY DEF PrGds, AllReqs, Prefs
<1> HIDE DEF c, g, e, d
<1>3. /\ c \o g \in Seq(Ids)
      /\ Elems(c \o g) = Elems(c) \cup Elems(g)
      /\ \A i \in 1 .. Len(c) : (c \o g)[i] = c[i]
      /\ Distinct(c \o g) => Distinct(c) /\ Elems(c) \cap Elems(g) = {}
  BY <1>1, ConcatElems
<1>4. Len(c \o g) = Len(c) + Len(g) /\ Len(c) \in Nat /\ Len(g) \in Nat
  BY <1>1
<1> DEFINE cg == c \o g
<1> HIDE DEF cg
<1>5. /\ cg \o e \in Seq(Ids)
      /\ Elems(cg \o e) = Elems(cg) \cup Elems(e)
      /\ \A i \in 1 .. Len(cg) : (cg \o e)[i] = cg[i]
      /\ Distinct(cg \o e) => Distinct(cg) /\ Elems(cg) \cap Elems(e) = {}
  <2>1. cg \in Seq(Ids)
    BY <1>3 DEF cg
  <2>2. QED
    BY <1>1, <2>1, ConcatElems
<1>6. Len(cg \o e) = Len(cg) + Len(e) /\ Len(e) \in Nat
  BY <1>1, <1>3 DEF cg
<1> DEFINE cge == cg \o e
<1> HIDE DEF cge
<1>7. /\ cge \o d \in Seq(Ids)
      /\ Elems(cge \o d) = Elems(cge) \cup Elems(d)
      /\ Distinct(cge \o d) => Distinct(cge) /\ Distinct(d) /\ Elems(cge) \cap Elems(d) = {}
  <2>1. cge \in Seq(Ids)
    BY <1>5 DEF cge
  <2>2. QED
    BY <1>1, <2>1, ConcatElems
<1>8. PrGds(b) = cge /\ AllReqs(b) = cge \o d /\ Prefs(b) = Elems(cg)
  BY <1>2 DEF cge, cg
<1>9. \A i \in 1 .. Len(c) : cge[i] = c[i]
  BY <1>3, <1>4, <1>5 DEF cge, cg
<1>10. Len(c) <= Len(cge)
  BY <1>4, <1>6 DEF cge, cg
<1>11. Elems(cg) = Elems(c) \cup Elems(g) /\ Elems(cge) = Elems(cg) \cup Elems(e)
  BY <1>3, <1>5 DEF cge, cg
<1>12. Distinct(cge \o d) =>
         /\ Distinct(c) /\ Distinct(cge) /\ Distinct(d)
         /\ Elems(cge) \cap Elems(d) = {}
         /\ Elems(c) \cap (Elems(g) \cup Elems(e)) = {}
  <2>1. Distinct(cge) => Distinct(cg) /\ Elems(cg) \cap Elems(e) = {}
    BY <1>5 DEF cge
  <2>2. Distinct(cg) => Distinct(c) /\ Elems(c) \cap Elems(g) = {}
    BY <1>3 DEF cg
  <2>3. QED
    BY <1>7, <1>11, <2>1, <2>2
<1>13. cge \in Seq(Ids)
  BY <1>5 DEF cge
<1>14. QED
  BY <1>1, <1>7, <1>8, <1>9, <1>10, <1>11, <1>12, <1>13 DEF c, g, e, d

-----------------------------------------------------------------------------
(* A raise is final: what comes after it leaves the device alone.          *)
Shaped(d) ==
  /\ d = [table |-> d.table, free |-> d.free, nfree |-> d.nfree, ok |-> d.ok]
  /\ d.ok \in BOOLEAN

LEMMA ShapedFree ==
  ASSUME NEW d, Shaped(d), NEW S, NEW s
  PROVE  Shaped(Free(d, S, s)) /\ (Free(d, S, s).ok => d.ok)
<1>1. CASE d.ok
  <2>1. Free(d, S, s) = [table |-> Free(d, S, s).table, free |-> Free(d, S, s).free,
                         nfree |-> Free(d, S, s).nfree, ok |-> d.ok]
    BY <1>1 DEF Free, Shaped
  <2>2. Free(d, S, s).ok = d.ok
    BY <2>1
  <2>3. QED
    BY <1>1, <2>1, <2>2 DEF Shaped
<1>2. CASE ~d.ok
  BY <1>2 DEF Free, Shaped
<1>3. QED
  BY <1>1, <1>2

LEMMA ShapedAlloc ==
  ASSUME NEW d, Shaped(d), NEW ids, NEW splitPoint, NEW target
  PROVE  /\ Shaped(Alloc(d, ids, splitPoint, target))
         /\ Alloc(d, ids, splitPoint, target).ok => d.ok
<1> DEFINE e == Alloc(d, ids, splitPoint, target)
<1>1. CASE ~d.ok \/ AllocRaises(d, ids, splitPoint, target)
  <2>1. e = [d EXCEPT !.ok = FALSE]
    BY <1>1 DEF Alloc
  <2>2. QED
    BY <2>1 DEF Shaped
<1>2. CASE ~(~d.ok \/ AllocRaises(d, ids, splitPoint, target))
  <2>1. e = [table |-> e.table, free |-> e.free, nfree |-> e.nfree, ok |-> TRUE]
    BY <1>2 DEF Alloc
  <2>2. e.ok = TRUE
    BY <2>1
  <2>3. QED
    BY <1>2, <2>1, <2>2 DEF Shaped
<1>3. QED
  BY <1>1, <1>2

LEMMA ShapedSound ==
  ASSUME NEW d, NEW itm, NEW n, Sound(d, itm, n)
  PROVE  Shaped(d)
BY DEF Sound, DeviceType, Shaped

-----------------------------------------------------------------------------
(* What one step of prepare does to both devices.                          *)
(* alloc into split 0 only.                                                *)
LEMMA AllocPlain ==
  ASSUME NEW n, NEW d, NEW itm, NEW ids, NEW target, NEW e,
         n \in Nat, Sound(d, itm, n),
         ids \in Seq(Ids), Distinct(ids), Elems(ids) \cap itm = {},
         target \in [Ids -> Int],
         e = Alloc(d, ids, 0, target), e.ok
  PROVE  AllocPost(n, d, ids, target, itm, e)
<1>1. \A i \in 1 .. Len(ids) : ~(i <= 0) /\ ids[i] \notin itm
  BY DEF Elems
<1>2. AllocPre(n, d, itm, ids, 0, target, itm, e)
  BY <1>1 DEF AllocPre
<1>3. QED
  BY <1>2, AllocSound

(* _initiate_swap out of the GPU.                                          *)
SwapOutPost(p, itm, ids, target, q) ==
  /\ Sound(q.gpu, itm \ Elems(ids), NumGpu) /\ Sound(q.cpu, {}, NumCpu)
  /\ \A id \in Ids :
       /\ q.gpu.table[id] = IF id \in Elems(ids) THEN << >> ELSE p.gpu.table[id]
       /\ Len(q.cpu.table[id]) = IF id \in Elems(ids) THEN target[id] ELSE Len(p.cpu.table[id])
       /\ Extends(p.cpu.table[id], q.cpu.table[id])

LEMMA SwapOutSound ==
  ASSUME NEW p, NEW itm, NEW ids, NEW split, NEW target, NEW q,
         Sound(p.gpu, itm, NumGpu), Sound(p.cpu, {}, NumCpu),
         ids \in Seq(Ids), Distinct(ids), split \in Splits,
         \A id \in Elems(ids) : p.gpu.table[id] # << >> => SplitOf(itm, id) = split,
         target \in [Ids -> Int],
         q = SwapOut(p, ids, split, target), q.cpu.ok
  PROVE  SwapOutPost(p, itm, ids, target, q)
<1>1. q.gpu = Free(p.gpu, Elems(ids), split) /\ q.cpu = Alloc(p.cpu, ids, 0, target)
  BY DEF SwapOut
<1>2. Elems(ids) \subseteq Ids
  BY DEF Elems
<1>3. FreePre(NumGpu, p.gpu, itm, Elems(ids), split, itm \ Elems(ids), q.gpu)
  BY <1>1, <1>2, DeviceSizeAssumption DEF FreePre
<1>4. FreePost(NumGpu, p.gpu, Elems(ids), itm \ Elems(ids), q.gpu)
  BY <1>3, FreeSound
<1>5. AllocPost(NumCpu, p.cpu, ids, target, {}, q.cpu)
  <2>1. NumCpu \in Nat /\ Elems(ids) \cap {} = {}
    BY DeviceSizeAssumption
  <2>2. QED
    BY <1>1, <2>1, AllocPlain
<1>6. QED
  BY <1>4, <1>5 DEF FreePost, AllocPost, SwapOutPost

(* _initiate_swap into the GPU.                                            *)
SwapInPost(p, ids, target, q) ==
  /\ Sound(q.gpu, {}, NumGpu) /\ Sound(q.cpu, {}, NumCpu)
  /\ \A id \in Ids :
       /\ q.cpu.table[id] = IF id \in Elems(ids) THEN << >> ELSE p.cpu.table[id]
       /\ Len(q.gpu.table[id]) = IF id \in Elems(ids) THEN target[id] ELSE Len(p.gpu.table[id])
       /\ Extends(p.gpu.table[id], q.gpu.table[id])

LEMMA SwapInSound ==
  ASSUME NEW p, NEW ids, NEW target, NEW q,
         Sound(p.gpu, {}, NumGpu), Sound(p.cpu, {}, NumCpu),
         ids \in Seq(Ids), Distinct(ids),
         target \in [Ids -> Int],
         q = SwapIn(p, ids, target), q.gpu.ok
  PROVE  SwapInPost(p, ids, target, q)
<1>1. q.cpu = Free(p.cpu, Elems(ids), 0) /\ q.gpu = Alloc(p.gpu, ids, 0, target)
  BY DEF SwapIn
<1>2. Elems(ids) \subseteq Ids /\ 0 \in Splits /\ {} = {} \ Elems(ids)
  BY DEF Elems, Splits
<1>3. \A id \in Elems(ids) : p.cpu.table[id] # << >> => SplitOf({}, id) = 0
  BY DEF SplitOf
<1>4. FreePre(NumCpu, p.cpu, {}, Elems(ids), 0, {}, q.cpu)
  BY <1>1, <1>2, <1>3, DeviceSizeAssumption DEF FreePre
<1>5. FreePost(NumCpu, p.cpu, Elems(ids), {}, q.cpu)
  BY <1>4, FreeSound
<1>6. AllocPost(NumGpu, p.gpu, ids, target, {}, q.gpu)
  <2>1. NumGpu \in Nat /\ Elems(ids) \cap {} = {}
    BY DeviceSizeAssumption
  <2>2. QED
    BY <1>1, <2>1, AllocPlain
<1>7. QED
  BY <1>5, <1>6 DEF FreePost, AllocPost, SwapInPost

(* _alloc_blocks_for_batch: the prompts bound for the CPU get their blocks *)
(* in the intermediate layer when there is one.                            *)
ItmOf(b) == IF ExtraLayer THEN Elems(b.cprf) ELSE {}

AllocForBatchPost(p, itm, b, len, q) ==
  /\ Sound(q.gpu, itm \cup ItmOf(b), NumGpu) /\ Sound(q.cpu, {}, NumCpu)
  /\ \A id \in Ids :
       /\ Len(q.gpu.table[id]) = IF id \in Elems(PrGds(b)) THEN BlocksFor(len[id])
                                                           ELSE Len(p.gpu.table[id])
       /\ Extends(p.gpu.table[id], q.gpu.table[id])
       /\ Len(q.cpu.table[id]) = IF id \in Elems(b.cdec) THEN BlocksFor(len[id])
                                                         ELSE Len(p.cpu.table[id])
       /\ Extends(p.cpu.table[id], q.cpu.table[id])

LEMMA AllocForBatchSound ==
  ASSUME NEW p, NEW itm, NEW b, NEW len, NEW q,
         Sound(p.gpu, itm, NumGpu), Sound(p.cpu, {}, NumCpu),
         BatchType(b), Distinct(AllReqs(b)),
         Elems(AllReqs(b)) \cap itm = {},
         \A id \in Elems(b.cprf) : p.gpu.table[id] = << >>,
         len \in [Ids -> Int],
         q = AllocForBatch(p, b, len), q.gpu.ok, q.cpu.ok
  PROVE  AllocForBatchPost(p, itm, b, len, q)
<1> DEFINE sp == IF ExtraLayer THEN Len(b.cprf) ELSE 0
           ids == PrGds(b)
           target == Target(len)
<1>1. q.gpu = Alloc(p.gpu, ids, sp, target) /\ q.cpu = Alloc(p.cpu, b.cdec, 0, target)
  BY DEF AllocForBatch
<1>2. target \in [Ids -> Int] /\ \A id \in Ids : target[id] = BlocksFor(len[id])
  BY BlocksForType DEF Target
<1>3. /\ ids \in Seq(Ids) /\ Distinct(ids)
      /\ b.cdec \in Seq(Ids) /\ Distinct(b.cdec) /\ b.cprf \in Seq(Ids)
      /\ Elems(ids) \cap itm = {}
      /\ \A i \in 1 .. Len(b.cprf) : ids[i] = b.cprf[i]
      /\ Len(b.cprf) <= Len(ids) /\ Len(b.cprf) \in Nat
  BY BatchLists
<1>4. sp \in Nat /\ (sp > 0 => ExtraLayer)
  BY <1>3
<1>5. \A i \in 1 .. Len(ids) : IF i <= sp THEN p.gpu.table[ids[i]] = << >> ELSE ids[i] \notin itm
  <2>1. ASSUME NEW i \in 1 .. Len(ids), i <= sp PROVE p.gpu.table[ids[i]] = << >>
    <3>1. i \in 1 .. Len(b.cprf)
      BY <1>3, <2>1
    <3>2. ids[i] \in Elems(b.cprf)
      BY <1>3, <3>1 DEF Elems
    <3>3. QED
      BY <3>2
  <2>2. ASSUME NEW i \in 1 .. Len(ids) PROVE ids[i] \notin itm
    BY <1>3 DEF Elems
  <2>3. QED
    BY <2>1, <2>2
<1>6. \A id : id \in ItmOf(b) <=> \E i \in 1 .. Len(ids) : i <= sp /\ ids[i] = id
  <2>1. CASE ExtraLayer
    <3>1. sp = Len(b.cprf) /\ ItmOf(b) = {b.cprf[i] : i \in 1 .. Len(b.cprf)}
      BY <2>1 DEF ItmOf, Elems
    <3> HIDE DEF ids, sp
    <3>2. ASSUME NEW id \in ItmOf(b) PROVE \E i \in 1 .. Len(ids) : i <= sp /\ ids[i] = id
      <4>1. PICK i \in 1 .. Len(b.cprf) : b.cprf[i] = id
        BY <3>1, <3>2
      <4>2. i \in 1 .. Len(ids) /\ i <= sp /\ ids[i] = id
        BY <1>3, <3>1, <4>1, SMTT(30)
      <4>3. QED
        BY <4>2
    <3>3. ASSUME NEW i \in 1 .. Len(ids), i <= sp PROVE ids[i] \in ItmOf(b)
      <4>1. i \in 1 .. Len(b.cprf)
        BY <1>3, <3>1, <3>3
      <4>2. QED
        BY <1>3, <3>1, <4>1
    <3>4. QED
      BY <3>2, <3>3
  <2>2. CASE ~ExtraLayer
    BY <2>2 DEF ItmOf
  <2>3. QED
    BY <2>1, <2>2
<1>7. {} \cap Elems(b.cdec) = {}
  OBVIOUS
<1> HIDE DEF sp, ids, target
<1>8. AllocPost(NumCpu, p.cpu, b.cdec, target, {}, q.cpu)
  <2>1. NumCpu \in Nat /\ Elems(b.cdec) \cap {} = {}
    BY DeviceSizeAssumption
  <2>2. QED
    BY <1>1, <1>2, <1>3, <2>1, AllocPlain
<1>9. AllocPre(NumGpu, p.gpu, itm, ids, sp, target, itm \cup ItmOf(b), q.gpu)
  <2>1. \A id : id \in itm \cup ItmOf(b) <=>
          id \in itm \/ \E i \in 1 .. Len(ids) : i <= sp /\ ids[i] = id
    BY <1>6
  <2>2. QED
    BY <1>1, <1>2, <1>3, <1>4, <1>5, <2>1, DeviceSizeAssumption DEF AllocPre
<1>10. AllocPost(NumGpu, p.gpu, ids, target, itm \cup ItmOf(b), q.gpu)
  BY <1>9, AllocSound
<1>11. QED
  BY <1>2, <1>8, <1>10 DEF AllocPost, AllocForBatchPost, ids

-----------------------------------------------------------------------------
(* prepare as a whole: if its result is good, so was every stage.          *)
ShapedPair(p) == Shaped(p.gpu) /\ Shaped(p.cpu)

OkPair(p) == p.gpu.ok /\ p.cpu.ok

LEMMA OkBackwards ==
  ASSUME NEW p, ShapedPair(p)
  PROVE  /\ \A ids, split, target :
              LET q == SwapOut(p, ids, split, target)
              IN ShapedPair(q) /\ (OkPair(q) => OkPair(p))
         /\ \A ids, target :
              LET q == SwapIn(p, ids, target)
              IN ShapedPair(q) /\ (OkPair(q) => OkPair(p))
         /\ \A b, len :
              LET q == AllocForBatch(p, b, len)
              IN ShapedPair(q) /\ (OkPair(q) => OkPair(p))
<1>1. ASSUME NEW ids, NEW split, NEW target
      PROVE  LET q == SwapOut(p, ids, split, target)
             IN ShapedPair(q) /\ (OkPair(q) => OkPair(p))
  BY ShapedFree, ShapedAlloc DEF SwapOut, ShapedPair, OkPair
<1>2. ASSUME NEW ids, NEW target
      PROVE  LET q == SwapIn(p, ids, target)
             IN ShapedPair(q) /\ (OkPair(q) => OkPair(p))
  BY ShapedFree, ShapedAlloc DEF SwapIn, ShapedPair, OkPair
<1>3. ASSUME NEW b, NEW len
      PROVE  LET q == AllocForBatch(p, b, len)
             IN ShapedPair(q) /\ (OkPair(q) => OkPair(p))
  BY ShapedAlloc DEF AllocForBatch, ShapedPair, OkPair
<1>4. QED
  BY <1>1, <1>2, <1>3

(* The inductive invariant: the properties themselves, and no batch        *)
(* outside an iteration.                                                   *)
IInv ==
  /\ TypeOK
  /\ AccountingExact
  /\ BlocksMatchLength
  /\ pc # "exec" => running = << >>

(* The tokens whose KV a request holds between iterations.                 *)
Stored(id) == IF lens[id] = 0 THEN 0 ELSE lens[id] - 1

LEMMA IdleRows ==
  ASSUME IInv, pc = "idle"
  PROVE  /\ Sound(gpu, {}, NumGpu) /\ Sound(cpu, {}, NumCpu)
         /\ \A id \in Ids :
              /\ lens[id] \in Nat /\ Stored(id) \in Nat
              /\ Len(gpu.table[id]) \in Nat /\ Len(cpu.table[id]) \in Nat
              /\ {Len(gpu.table[id]), Len(cpu.table[id])} = {0, BlocksFor(Stored(id))}
              /\ lens[id] = 0 => Len(gpu.table[id]) = 0 /\ Len(cpu.table[id]) = 0
              /\ id \in OnGpu => Len(cpu.table[id]) = 0 /\ lens[id] # 0
              /\ id \in OnCpu => Len(gpu.table[id]) = 0 /\ lens[id] # 0
<1>1. Sound(gpu, {}, NumGpu) /\ Sound(cpu, {}, NumCpu)
  BY DEF IInv, TypeOK, AccountingExact, Sound
<1>2. ASSUME NEW id \in Ids
      PROVE  /\ lens[id] \in Nat /\ Stored(id) \in Nat
             /\ gpu.table[id] \in Seq(0 .. (NumGpu - 1))
             /\ cpu.table[id] \in Seq(0 .. (NumCpu - 1))
  BY DEF IInv, TypeOK, DeviceType, Stored
<1>3. ASSUME NEW id \in Ids
      PROVE  {Len(gpu.table[id]), Len(cpu.table[id])} = {0, BlocksFor(Stored(id))}
  <2>1. id \notin Reqs(running)
    BY DEF IInv, Reqs
  <2>2. QED
    BY <2>1 DEF IInv, BlocksMatchLength, Stored
<1>4. ASSUME NEW id \in Ids
      PROVE  /\ lens[id] = 0 => Len(gpu.table[id]) = 0 /\ Len(cpu.table[id]) = 0
             /\ id \in OnGpu => Len(cpu.table[id]) = 0 /\ lens[id] # 0
             /\ id \in OnCpu => Len(gpu.table[id]) = 0 /\ lens[id] # 0
  <2>1. lens[id] = 0 => Len(gpu.table[id]) = 0 /\ Len(cpu.table[id]) = 0
    BY <1>3, BlocksForZero DEF Stored
  <2>2. gpu.table[id] = << >> <=> Len(gpu.table[id]) = 0
    BY <1>2
  <2>3. cpu.table[id] = << >> <=> Len(cpu.table[id]) = 0
    BY <1>2
  <2>4. QED
    BY <1>3, <2>1, <2>2, <2>3 DEF OnGpu, OnCpu
<1>5. QED
  BY <1>1, <1>2, <1>3, <1>4

(* A legal call read one batch at a time.                                  *)
LEMMA CallBatches ==
  ASSUME NEW c, LegalCall(c), NEW k \in 1 .. Len(c.batches)
  PROVE  /\ BatchType(c.batches[k]) /\ Distinct(AllReqs(c.batches[k]))
         /\ Prefs(c.batches[k]) \subseteq Unused
         /\ Elems(c.batches[k].gdec) \subseteq (OnGpu \ Elems(c.swapOut)) \cup Elems(c.swapIn)
         /\ Elems(c.batches[k].cdec) \subseteq (OnCpu \ Elems(c.swapIn)) \cup Elems(c.swapOut)
         /\ Elems(AllReqs(c.batches[k])) \subseteq Ids
<1>1. /\ BatchType(c.batches[k]) /\ Distinct(AllReqs(c.batches[k]))
      /\ Prefs(c.batches[k]) \subseteq Unused
      /\ Elems(c.batches[k].gdec) \subseteq (OnGpu \ Elems(c.swapOut)) \cup Elems(c.swapIn)
      /\ Elems(c.batches[k].cdec) \subseteq (OnCpu \ Elems(c.swapIn)) \cup Elems(c.swapOut)
  BY DEF LegalCall
<1>2. AllReqs(c.batches[k]) \in Seq(Ids)
  BY <1>1, BatchLists
<1>3. Elems(AllReqs(c.batches[k])) \subseteq Ids
  <2>1. PICK r : r = AllReqs(c.batches[k])
    OBVIOUS
  <2>2. r \in Seq(Ids)
    BY <1>2, <2>1
  <2>3. Elems(r) \subseteq Ids
    BY <2>2 DEF Elems
  <2>4. QED
    BY <2>1, <2>3
<1>4. QED
  BY <1>1, <1>3

LEMMA CallLens ==
  ASSUME IInv, NEW c, LegalCall(c), NEW len, len = LensWith(c)
  PROVE  /\ len \in [Ids -> 0 .. MaxLen] /\ len \in [Ids -> Int]
         /\ \A id \in Ids :
              /\ id \in Prefilled(c.batches) => lens[id] = 0
              /\ id \notin Prefilled(c.batches) => len[id] = lens[id]
         /\ \A k \in 1 .. Len(c.batches) : Prefs(c.batches[k]) \subseteq Prefilled(c.batches)
<1>1. lens \in [Ids -> 0 .. MaxLen] /\ MaxLen \in Nat
  BY BudgetAssumption DEF IInv, TypeOK
<1>2. c.prompt \in [Ids -> 1 .. (MaxLen - 1)]
  BY DEF LegalCall
<1>3. len = [id \in Ids |-> IF id \in Prefilled(c.batches) THEN c.prompt[id] ELSE lens[id]]
  BY DEF LensWith
<1>4. len \in [Ids -> 0 .. MaxLen]
  BY <1>1, <1>2, <1>3
<1>5. len \in [Ids -> Int]
  BY <1>1, <1>4
<1>6. ASSUME NEW id \in Prefilled(c.batches) PROVE lens[id] = 0
  <2>1. PICK k \in 1 .. Len(c.batches) : id \in Prefs(c.batches[k])
    BY <1>6 DEF Prefilled
  <2>2. id \in Unused
    BY <2>1, CallBatches
  <2>3. QED
    BY <2>2 DEF Unused
<1>7. \A k \in 1 .. Len(c.batches) : Prefs(c.batches[k]) \subseteq Prefilled(c.batches)
  BY DEF Prefilled
<1>8. QED
  BY <1>3, <1>4, <1>5, <1>6, <1>7

(* Rows that keep what they had.                                           *)
LEMMA ExtendsItself ==
  ASSUME NEW row, Len(row) \in Nat
  PROVE  Extends(row, row)
BY DEF Extends

LEMMA ExtendsTwice ==
  ASSUME NEW x, NEW y, NEW z, Len(x) \in Nat, Len(y) \in Nat, Len(z) \in Nat,
         Extends(x, y), Extends(y, z)
  PROVE  Extends(x, z)
BY DEF Extends

LEMMA RowLen ==
  ASSUME NEW d, NEW itm, NEW n, Sound(d, itm, n), NEW id \in Ids
  PROVE  Len(d.table[id]) \in Nat
<1>1. d.table[id] \in Seq(0 .. (n - 1))
  BY DEF Sound, DeviceType
<1>2. QED
  BY <1>1

(* 1. After the conventional swaps every sequence is on one device, with   *)
(* blocks for all tokens but the newest, where the call runs it.           *)
SwapStage(c, q) ==
  /\ Sound(q.gpu, {}, NumGpu) /\ Sound(q.cpu, {}, NumCpu)
  /\ \A id \in Ids :
       /\ {Len(q.gpu.table[id]), Len(q.cpu.table[id])} = {0, BlocksFor(Stored(id))}
       /\ lens[id] = 0 => Len(q.gpu.table[id]) = 0 /\ Len(q.cpu.table[id]) = 0
       /\ id \in (OnGpu \ Elems(c.swapOut)) \cup Elems(c.swapIn) => Len(q.cpu.table[id]) = 0
       /\ id \in (OnCpu \ Elems(c.swapIn)) \cup Elems(c.swapOut) => Len(q.gpu.table[id]) = 0
       /\ id \notin Elems(c.swapOut) => Extends(gpu.table[id], q.gpu.table[id])
       /\ id \notin Elems(c.swapIn) => Extends(cpu.table[id], q.cpu.table[id])

LEMMA SwapSound ==
  ASSUME IInv, pc = "idle", NEW c, LegalCall(c), NEW len, len = LensWith(c),
         c.swapOut = << >> \/ c.swapIn = << >>,
         NEW q, q = Swap([gpu |-> gpu, cpu |-> cpu], c.swapOut, c.swapIn, len), OkPair(q)
  PROVE  SwapStage(c, q)
<1> DEFINE p == [gpu |-> gpu, cpu |-> cpu]
           target == Target(OmitLast(len))
<1>1. p.gpu = gpu /\ p.cpu = cpu
  OBVIOUS
<1>2. /\ c.swapOut \in Seq(Ids) /\ c.swapIn \in Seq(Ids)
      /\ Distinct(c.swapOut) /\ Distinct(c.swapIn)
      /\ Elems(c.swapOut) \subseteq OnGpu /\ Elems(c.swapIn) \subseteq OnCpu
  BY DEF LegalCall
<1>3. /\ target \in [Ids -> Int]
      /\ \A id \in Ids : target[id] = BlocksFor(len[id] - 1)
  <2>1. len \in [Ids -> Int]
    BY CallLens
  <2>2. QED
    BY <2>1, BlocksForType DEF Target, OmitLast
<1>4. ASSUME NEW id \in Ids, lens[id] # 0 PROVE target[id] = BlocksFor(Stored(id))
  BY <1>3, <1>4, CallLens DEF Stored
<1>5. Elems(<< >>) = {}
  BY DEF Elems
<1>6. Sound(p.gpu, {}, NumGpu) /\ Sound(p.cpu, {}, NumCpu)
  BY <1>1, IdleRows
<1>7. CASE c.swapOut # << >>
  <2>1. q = SwapOut(p, c.swapOut, 0, target) /\ c.swapIn = << >>
    BY <1>7 DEF Swap
  <2>2. /\ 0 \in Splits
        /\ \A id \in Elems(c.swapOut) : p.gpu.table[id] # << >> => SplitOf({}, id) = 0
    BY DEF Splits, SplitOf
  <2> HIDE DEF p, target
  <2>3. SwapOutPost(p, {}, c.swapOut, target, q)
    BY <1>2, <1>3, <1>6, <2>1, <2>2, SwapOutSound DEF OkPair
  <2>4. /\ Sound(q.gpu, {}, NumGpu) /\ Sound(q.cpu, {}, NumCpu)
        /\ \A id \in Ids :
             /\ q.gpu.table[id] = IF id \in Elems(c.swapOut) THEN << >> ELSE gpu.table[id]
             /\ Len(q.cpu.table[id]) = IF id \in Elems(c.swapOut) THEN target[id] ELSE Len(cpu.table[id])
             /\ Extends(cpu.table[id], q.cpu.table[id])
    <3>1. {} \ Elems(c.swapOut) = {}
      OBVIOUS
    <3>2. QED
      BY <1>1, <2>3, <3>1 DEF SwapOutPost
  <2>5. ASSUME NEW id \in Ids
        PROVE  /\ {Len(q.gpu.table[id]), Len(q.cpu.table[id])} = {0, BlocksFor(Stored(id))}
               /\ lens[id] = 0 => Len(q.gpu.table[id]) = 0 /\ Len(q.cpu.table[id]) = 0
               /\ id \in OnGpu \ Elems(c.swapOut) => Len(q.cpu.table[id]) = 0
               /\ id \in OnCpu \cup Elems(c.swapOut) => Len(q.gpu.table[id]) = 0
               /\ id \notin Elems(c.swapOut) => Extends(gpu.table[id], q.gpu.table[id])
    <3>1. CASE id \in Elems(c.swapOut)
      <4>1. id \in OnGpu /\ lens[id] # 0
        BY <1>2, <3>1, IdleRows
      <4>2. Len(q.gpu.table[id]) = 0 /\ Len(q.cpu.table[id]) = BlocksFor(Stored(id))
        BY <1>4, <2>4, <3>1, <4>1
      <4>3. QED
        BY <3>1, <4>1, <4>2
    <3>2. CASE id \notin Elems(c.swapOut)
      BY <2>4, <3>2, IdleRows, ExtendsItself
    <3>3. QED
      BY <3>1, <3>2
  <2>6. Elems(c.swapIn) = {}
    BY <1>5, <2>1
  <2>7. QED
    BY <2>4, <2>5, <2>6 DEF SwapStage
<1>8. CASE c.swapOut = << >>
  <2>1. q = SwapIn(p, c.swapIn, target)
    BY <1>8 DEF Swap
  <2> HIDE DEF p, target
  <2>2. SwapInPost(p, c.swapIn, target, q)
    BY <1>2, <1>3, <1>6, <2>1, SwapInSound DEF OkPair
  <2>3. /\ Sound(q.gpu, {}, NumGpu) /\ Sound(q.cpu, {}, NumCpu)
        /\ \A id \in Ids :
             /\ q.cpu.table[id] = IF id \in Elems(c.swapIn) THEN << >> ELSE cpu.table[id]
             /\ Len(q.gpu.table[id]) = IF id \in Elems(c.swapIn) THEN target[id] ELSE Len(gpu.table[id])
             /\ Extends(gpu.table[id], q.gpu.table[id])
    BY <1>1, <2>2 DEF SwapInPost
  <2>4. ASSUME NEW id \in Ids
        PROVE  /\ {Len(q.gpu.table[id]), Len(q.cpu.table[id])} = {0, BlocksFor(Stored(id))}
               /\ lens[id] = 0 => Len(q.gpu.table[id]) = 0 /\ Len(q.cpu.table[id]) = 0
               /\ id \in OnGpu \cup Elems(c.swapIn) => Len(q.cpu.table[id]) = 0
               /\ id \in OnCpu \ Elems(c.swapIn) => Len(q.gpu.table[id]) = 0
               /\ id \notin Elems(c.swapIn) => Extends(cpu.table[id], q.cpu.table[id])
    <3>1. CASE id \in Elems(c.swapIn)
      <4>1. id \in OnCpu /\ lens[id] # 0
        BY <1>2, <3>1, IdleRows
      <4>2. Len(q.cpu.table[id]) = 0 /\ Len(q.gpu.table[id]) = BlocksFor(Stored(id))
        BY <1>4, <2>3, <3>1, <4>1
      <4>3. QED
        BY <3>1, <4>1, <4>2
    <3>2. CASE id \notin Elems(c.swapIn)
      BY <2>3, <3>2, IdleRows, ExtendsItself
    <3>3. QED
      BY <3>1, <3>2
  <2>5. Elems(c.swapOut) = {}
    BY <1>5, <1>8
  <2>6. QED
    BY <2>3, <2>4, <2>5 DEF SwapStage
<1>9. QED
  BY <1>7, <1>8

(* The rows of the requests of a batch when it is about to be allocated.   *)
LEMMA BatchEntry ==
  ASSUME IInv, pc = "idle", NEW c, LegalCall(c), NEW p, SwapStage(c, p),
         NEW k \in 1 .. Len(c.batches), NEW b, b = c.batches[k]
  PROVE  /\ BatchType(b) /\ Distinct(AllReqs(b)) /\ Elems(AllReqs(b)) \subseteq Ids
         /\ \A id \in Elems(b.cprf) : p.gpu.table[id] = << >>
         /\ \A id \in Ids :
              /\ id \in Elems(b.cprf) \cup Elems(b.gprf) =>
                   Len(p.gpu.table[id]) = 0 /\ Len(p.cpu.table[id]) = 0
              /\ id \in Elems(b.gdec) => Len(p.cpu.table[id]) = 0
              /\ id \in Elems(b.cdec) => Len(p.gpu.table[id]) = 0
         /\ Elems(PrGds(b)) \cap Elems(c.swapOut) = {}
         /\ (Elems(b.cprf) \cup Elems(b.cdec)) \cap Elems(c.swapIn) = {}
<1>1. /\ BatchType(b) /\ Distinct(AllReqs(b))
      /\ Prefs(b) \subseteq Unused
      /\ Elems(b.gdec) \subseteq (OnGpu \ Elems(c.swapOut)) \cup Elems(c.swapIn)
      /\ Elems(b.cdec) \subseteq (OnCpu \ Elems(c.swapIn)) \cup Elems(c.swapOut)
      /\ Elems(AllReqs(b)) \subseteq Ids
  BY CallBatches
<1>2. Prefs(b) = Elems(b.cprf) \cup Elems(b.gprf)
  BY <1>1, BatchLists
<1>3. ASSUME NEW id \in Ids
      PROVE  /\ id \in Elems(b.cprf) \cup Elems(b.gprf) =>
                  Len(p.gpu.table[id]) = 0 /\ Len(p.cpu.table[id]) = 0
             /\ id \in Elems(b.gdec) => Len(p.cpu.table[id]) = 0
             /\ id \in Elems(b.cdec) => Len(p.gpu.table[id]) = 0
  BY <1>1, <1>2 DEF SwapStage, Unused
<1>4. ASSUME NEW id \in Elems(b.cprf) PROVE p.gpu.table[id] = << >>
  <2>1. id \in Ids
    BY <1>1, <1>2 DEF Unused
  <2>2. p.gpu.table[id] \in Seq(0 .. (NumGpu - 1))
    BY <2>1 DEF SwapStage, Sound, DeviceType
  <2>3. Len(p.gpu.table[id]) = 0
    BY <1>3, <2>1
  <2>4. QED
    BY <2>2, <2>3
<1>5. /\ Elems(c.swapOut) \subseteq OnGpu /\ Elems(c.swapIn) \subseteq OnCpu
      /\ OnGpu \cap OnCpu = {} /\ Unused \cap (OnGpu \cup OnCpu) = {}
  <2>1. Elems(c.swapOut) \subseteq OnGpu /\ Elems(c.swapIn) \subseteq OnCpu
    BY DEF LegalCall
  <2>2. ASSUME NEW id \in OnGpu PROVE id \in Ids /\ id \notin OnCpu /\ id \notin Unused
    BY IdleRows DEF OnGpu, OnCpu, Unused
  <2>3. ASSUME NEW id \in OnCpu PROVE id \notin Unused
    BY IdleRows DEF OnCpu, Unused
  <2>4. QED
    BY <2>1, <2>2, <2>3
<1>6. Elems(PrGds(b)) = Prefs(b) \cup Elems(b.gdec)
  BY <1>1, <1>2, BatchLists
<1>7. Elems(PrGds(b)) \cap Elems(c.swapOut) = {}
  BY <1>1, <1>5, <1>6
<1>8. (Elems(b.cprf) \cup Elems(b.cdec)) \cap Elems(c.swapIn) = {}
  BY <1>1, <1>2, <1>5
<1>9. QED
  BY <1>1, <1>3, <1>4, <1>7, <1>8

(* Where the sequences that run on a device, and the prompts, are not.     *)
LEMMA BatchPlaces ==
  ASSUME IInv, pc = "idle", NEW c, LegalCall(c),
         NEW k \in 1 .. Len(c.batches), NEW b, b = c.batches[k], NEW id \in Ids
  PROVE  /\ id \in (OnGpu \ Elems(c.swapOut)) \cup Elems(c.swapIn) =>
              id \notin Elems(b.cprf) /\ id \notin Elems(b.cdec)
         /\ id \in (OnCpu \ Elems(c.swapIn)) \cup Elems(c.swapOut) =>
              id \notin Elems(PrGds(b))
<1>1. /\ BatchType(b) /\ Prefs(b) \subseteq Unused
      /\ Elems(b.gdec) \subseteq (OnGpu \ Elems(c.swapOut)) \cup Elems(c.swapIn)
      /\ Elems(b.cdec) \subseteq (OnCpu \ Elems(c.swapIn)) \cup Elems(c.swapOut)
  BY CallBatches
<1>2. /\ Prefs(b) = Elems(b.cprf) \cup Elems(b.gprf)
      /\ Elems(PrGds(b)) = Elems(b.cprf) \cup Elems(b.gprf) \cup Elems(b.gdec)
  BY <1>1, BatchLists
<1>3. Elems(c.swapOut) \subseteq OnGpu /\ Elems(c.swapIn) \subseteq OnCpu
  BY DEF LegalCall
<1>4. /\ id \in OnGpu => id \notin OnCpu /\ id \notin Unused
      /\ id \in OnCpu => id \notin Unused
  BY IdleRows DEF OnGpu, OnCpu, Unused
<1>5. QED
  BY <1>1, <1>2, <1>3, <1>4

(* 3. Every prompt bound for the CPU is found in the split it was put in.  *)
LEMMA CprfsSound ==
  ASSUME NEW p, NEW itm, NEW b, NEW len, NEW q,
         Sound(p.gpu, itm, NumGpu), Sound(p.cpu, {}, NumCpu),
         BatchType(b), Distinct(AllReqs(b)), len \in [Ids -> Int],
         ItmOf(b) \subseteq itm,
         ~ExtraLayer => itm = {},
         q = SwapOutCprfs(p, b, len), OkPair(q)
  PROVE  SwapOutPost(p, itm, b.cprf, Target(len), q)
<1>1. b.cprf \in Seq(Ids) /\ Distinct(b.cprf)
  BY BatchLists
<1>2. Target(len) \in [Ids -> Int]
  BY BlocksForType DEF Target
<1>3. ItmSplit \in Splits
  BY DEF ItmSplit, Splits
<1>4. ASSUME NEW id \in Elems(b.cprf) PROVE SplitOf(itm, id) = ItmSplit
  BY DEF SplitOf, ItmSplit, ItmOf
<1>5. q = SwapOut(p, b.cprf, ItmSplit, Target(len)) /\ q.cpu.ok
  BY DEF SwapOutCprfs, OkPair
<1>6. QED
  BY <1>1, <1>2, <1>3, <1>4, <1>5, SwapOutSound

(* After prepare the requests of the call have blocks for all their tokens,*)
(* on the device they run on or leave for, and the others are as the swaps *)
(* left them.  No row that stays where it is loses or moves a block.       *)
PreparedRows(c, len, q) ==
  /\ Sound(q.gpu, {}, NumGpu) /\ Sound(q.cpu, {}, NumCpu)
  /\ \A id \in Ids :
       {Len(q.gpu.table[id]), Len(q.cpu.table[id])} =
         {0, IF id \in Reqs(c.batches) THEN BlocksFor(len[id]) ELSE BlocksFor(Stored(id))}

Cprfs(c) == UNION {Elems(c.batches[k].cprf) : k \in 1 .. Len(c.batches)}
Gprfs(c) == UNION {Elems(c.batches[k].gprf) : k \in 1 .. Len(c.batches)}

PlacedRows(c, q) ==
  \A id \in Ids :
    /\ id \in Gprfs(c) => Len(q.cpu.table[id]) = 0
    /\ id \in Cprfs(c) => Len(q.gpu.table[id]) = 0
    /\ id \in (OnGpu \ Elems(c.swapOut)) \cup Elems(c.swapIn) => Len(q.cpu.table[id]) = 0
    /\ id \in (OnCpu \ Elems(c.swapIn)) \cup Elems(c.swapOut) => Len(q.gpu.table[id]) = 0
    /\ id \notin Elems(c.swapOut) \cup Cprfs(c) => Extends(gpu.table[id], q.gpu.table[id])
    /\ id \notin Elems(c.swapIn) => Extends(cpu.table[id], q.cpu.table[id])

LEMMA OneBatch ==
  ASSUME IInv, pc = "idle", NEW c, LegalCall(c), NEW len, len = LensWith(c),
         Len(c.batches) = 1,
         NEW p, SwapStage(c, p),
         NEW q, q = AllocForBatch(p, c.batches[1], len), OkPair(q),
         NEW r, r = SwapOutCprfs(q, c.batches[1], len), OkPair(r)
  PROVE  PreparedRows(c, len, r) /\ PlacedRows(c, r)
<1>1. PICK b : b = c.batches[1]
  OBVIOUS
<1>2. /\ BatchType(b) /\ Distinct(AllReqs(b)) /\ Elems(AllReqs(b)) \subseteq Ids
      /\ \A id \in Elems(b.cprf) : p.gpu.table[id] = << >>
      /\ \A id \in Ids :
           /\ id \in Elems(b.cprf) \cup Elems(b.gprf) =>
                Len(p.gpu.table[id]) = 0 /\ Len(p.cpu.table[id]) = 0
           /\ id \in Elems(b.gdec) => Len(p.cpu.table[id]) = 0
           /\ id \in Elems(b.cdec) => Len(p.gpu.table[id]) = 0
  <2>1. 1 \in 1 .. Len(c.batches)
    OBVIOUS
  <2>2. QED
    BY <1>1, <2>1, BatchEntry
<1>3. len \in [Ids -> Int]
  BY CallLens
<1>4. Sound(p.gpu, {}, NumGpu) /\ Sound(p.cpu, {}, NumCpu)
  BY DEF SwapStage
<1>5. AllocForBatchPost(p, {}, b, len, q)
  <2>1. Elems(AllReqs(b)) \cap {} = {}
    OBVIOUS
  <2>2. QED
    BY <1>1, <1>2, <1>3, <1>4, <2>1, AllocForBatchSound DEF OkPair
<1>6. Sound(q.gpu, ItmOf(b), NumGpu) /\ Sound(q.cpu, {}, NumCpu)
  <2>1. {} \cup ItmOf(b) = ItmOf(b)
    OBVIOUS
  <2>2. QED
    BY <1>5, <2>1 DEF AllocForBatchPost
<1>7. SwapOutPost(q, ItmOf(b), b.cprf, Target(len), r)
  <2>1. ~ExtraLayer => ItmOf(b) = {}
    BY DEF ItmOf
  <2>2. QED
    BY <1>1, <1>2, <1>3, <1>6, <2>1, CprfsSound
<1>8. Sound(r.gpu, {}, NumGpu) /\ Sound(r.cpu, {}, NumCpu)
  <2>1. ItmOf(b) \ Elems(b.cprf) = {}
    BY DEF ItmOf
  <2>2. QED
    BY <1>7, <2>1 DEF SwapOutPost
<1>9. Reqs(c.batches) = Elems(AllReqs(b))
  BY <1>1 DEF Reqs
<1>10. ASSUME NEW id \in Ids
       PROVE  {Len(r.gpu.table[id]), Len(r.cpu.table[id])} =
                {0, IF id \in Reqs(c.batches) THEN BlocksFor(len[id]) ELSE BlocksFor(Stored(id))}
  <2>1. /\ Len(q.gpu.table[id]) = IF id \in Elems(PrGds(b)) THEN BlocksFor(len[id])
                                                           ELSE Len(p.gpu.table[id])
        /\ Len(q.cpu.table[id]) = IF id \in Elems(b.cdec) THEN BlocksFor(len[id])
                                                         ELSE Len(p.cpu.table[id])
    BY <1>5 DEF AllocForBatchPost
  <2>2. /\ Len(r.gpu.table[id]) = IF id \in Elems(b.cprf) THEN 0 ELSE Len(q.gpu.table[id])
        /\ Len(r.cpu.table[id]) = IF id \in Elems(b.cprf) THEN BlocksFor(len[id])
                                                         ELSE Len(q.cpu.table[id])
    <3>1. /\ r.gpu.table[id] = IF id \in Elems(b.cprf) THEN << >> ELSE q.gpu.table[id]
          /\ Len(r.cpu.table[id]) = IF id \in Elems(b.cprf) THEN Target(len)[id]
                                                           ELSE Len(q.cpu.table[id])
      BY ONLY <1>7, id \in Ids DEF SwapOutPost
    <3>2. Target(len)[id] = BlocksFor(len[id])
      BY DEF Target
    <3>3. QED
      BY ONLY <3>1, <3>2
  <2>3. {Len(p.gpu.table[id]), Len(p.cpu.table[id])} = {0, BlocksFor(Stored(id))}
    BY DEF SwapStage
  <2>4. /\ Elems(PrGds(b)) = Elems(b.cprf) \cup Elems(b.gprf) \cup Elems(b.gdec)
        /\ Elems(AllReqs(b)) = Elems(PrGds(b)) \cup Elems(b.cdec)
        /\ Elems(PrGds(b)) \cap Elems(b.cdec) = {}
    BY <1>2, BatchLists
  <2>5. CASE id \in Elems(b.cprf)
    BY <1>9, <2>2, <2>4, <2>5
  <2>6. CASE id \in Elems(PrGds(b)) /\ id \notin Elems(b.cprf)
    BY <1>2, <1>9, <2>1, <2>2, <2>4, <2>6
  <2>7. CASE id \in Elems(b.cdec)
    BY <1>2, <1>9, <2>1, <2>2, <2>4, <2>7
  <2>8. CASE id \notin Elems(AllReqs(b))
    BY <1>9, <2>1, <2>2, <2>3, <2>4, <2>8
  <2>9. QED
    BY <2>4, <2>5, <2>6, <2>7, <2>8
<1>11. Cprfs(c) = Elems(b.cprf) /\ Gprfs(c) = Elems(b.gprf) /\ 1 \in 1 .. Len(c.batches)
  BY <1>1 DEF Cprfs, Gprfs
<1>12. ASSUME NEW id \in Ids
       PROVE  /\ id \in Gprfs(c) => Len(r.cpu.table[id]) = 0
              /\ id \in Cprfs(c) => Len(r.gpu.table[id]) = 0
              /\ id \in (OnGpu \ Elems(c.swapOut)) \cup Elems(c.swapIn) =>
                   Len(r.cpu.table[id]) = 0
              /\ id \in (OnCpu \ Elems(c.swapIn)) \cup Elems(c.swapOut) =>
                   Len(r.gpu.table[id]) = 0
              /\ id \notin Elems(c.swapOut) \cup Cprfs(c) => Extends(gpu.table[id], r.gpu.table[id])
              /\ id \notin Elems(c.swapIn) => Extends(cpu.table[id], r.cpu.table[id])
  <2>1. /\ Len(q.gpu.table[id]) = IF id \in Elems(PrGds(b)) THEN BlocksFor(len[id])
                                                            ELSE Len(p.gpu.table[id])
        /\ Len(q.cpu.table[id]) = IF id \in Elems(b.cdec) THEN BlocksFor(len[id])
                                                          ELSE Len(p.cpu.table[id])
        /\ Extends(p.gpu.table[id], q.gpu.table[id])
        /\ Extends(p.cpu.table[id], q.cpu.table[id])
    BY <1>5 DEF AllocForBatchPost
  <2>2. /\ r.gpu.table[id] = IF id \in Elems(b.cprf) THEN << >> ELSE q.gpu.table[id]
        /\ Len(r.cpu.table[id]) = IF id \in Elems(b.cprf) THEN BlocksFor(len[id])
                                                          ELSE Len(q.cpu.table[id])
        /\ Extends(q.cpu.table[id], r.cpu.table[id])
    BY <1>7 DEF SwapOutPost, Target
  <2>3. /\ id \in (OnGpu \ Elems(c.swapOut)) \cup Elems(c.swapIn) => Len(p.cpu.table[id]) = 0
        /\ id \in (OnCpu \ Elems(c.swapIn)) \cup Elems(c.swapOut) => Len(p.gpu.table[id]) = 0
        /\ id \notin Elems(c.swapOut) => Extends(gpu.table[id], p.gpu.table[id])
        /\ id \notin Elems(c.swapIn) => Extends(cpu.table[id], p.cpu.table[id])
    BY DEF SwapStage
  <2>4. /\ Elems(PrGds(b)) = Elems(b.cprf) \cup Elems(b.gprf) \cup Elems(b.gdec)
        /\ Elems(PrGds(b)) \cap Elems(b.cdec) = {}
        /\ Elems(b.cprf) \cap (Elems(b.gprf) \cup Elems(b.gdec)) = {}
    BY <1>2, BatchLists
  <2>5. /\ id \in (OnGpu \ Elems(c.swapOut)) \cup Elems(c.swapIn) =>
             id \notin Elems(b.cprf) /\ id \notin Elems(b.cdec)
        /\ id \in (OnCpu \ Elems(c.swapIn)) \cup Elems(c.swapOut) => id \notin Elems(PrGds(b))
    BY <1>1, <1>11, BatchPlaces
  <2>6. /\ Len(gpu.table[id]) \in Nat /\ Len(cpu.table[id]) \in Nat
        /\ Len(p.gpu.table[id]) \in Nat /\ Len(p.cpu.table[id]) \in Nat
        /\ Len(q.gpu.table[id]) \in Nat /\ Len(q.cpu.table[id]) \in Nat
        /\ Len(r.cpu.table[id]) \in Nat
    BY <1>4, <1>6, <1>8, RowLen, IdleRows
  <2>7. Len(<< >>) = 0
    OBVIOUS
  <2>8. id \in Gprfs(c) => Len(r.cpu.table[id]) = 0
    <3>1. SUFFICES ASSUME id \in Elems(b.gprf) PROVE Len(r.cpu.table[id]) = 0
      BY <1>11
    <3>2. id \notin Elems(b.cprf) /\ id \notin Elems(b.cdec) /\ Len(p.cpu.table[id]) = 0
      BY <1>2, <2>4, <3>1
    <3>3. QED
      BY <2>1, <2>2, <3>2
  <2>9. id \in Cprfs(c) => Len(r.gpu.table[id]) = 0
    BY <1>11, <2>2, <2>7
  <2>10. id \in (OnGpu \ Elems(c.swapOut)) \cup Elems(c.swapIn) => Len(r.cpu.table[id]) = 0
    BY <2>1, <2>2, <2>3, <2>5
  <2>11. id \in (OnCpu \ Elems(c.swapIn)) \cup Elems(c.swapOut) => Len(r.gpu.table[id]) = 0
    <3>1. SUFFICES ASSUME id \in (OnCpu \ Elems(c.swapIn)) \cup Elems(c.swapOut)
                   PROVE  Len(r.gpu.table[id]) = 0
      OBVIOUS
    <3>2. id \notin Elems(PrGds(b)) /\ id \notin Elems(b.cprf) /\ Len(p.gpu.table[id]) = 0
      BY <2>3, <2>4, <2>5, <3>1
    <3>3. QED
      BY <2>1, <2>2, <3>2
  <2>12. id \notin Elems(c.swapOut) \cup Cprfs(c) => Extends(gpu.table[id], r.gpu.table[id])
    <3>1. SUFFICES ASSUME id \notin Elems(c.swapOut), id \notin Cprfs(c)
                   PROVE  Extends(gpu.table[id], r.gpu.table[id])
      OBVIOUS
    <3>2. r.gpu.table[id] = q.gpu.table[id]
      BY <1>11, <2>2, <3>1
    <3>3. Extends(gpu.table[id], q.gpu.table[id])
      BY <2>1, <2>3, <2>6, <3>1, ExtendsTwice
    <3>4. QED
      BY <3>2, <3>3
  <2>13. id \notin Elems(c.swapIn) => Extends(cpu.table[id], r.cpu.table[id])
    <3>1. Extends(p.cpu.table[id], r.cpu.table[id])
      BY <2>1, <2>2, <2>6, ExtendsTwice
    <3>2. QED
      BY <2>3, <2>6, <3>1, ExtendsTwice
  <2>14. QED
    BY <2>8, <2>9, <2>10, <2>11, <2>12, <2>13
<1>13. PlacedRows(c, r)
  BY <1>12 DEF PlacedRows
<1>14. QED
  BY <1>8, <1>10, <1>13 DEF PreparedRows

LEMMA TwoBatches ==
  ASSUME IInv, pc = "idle", NEW c, LegalCall(c), NEW len, len = LensWith(c),
         Len(c.batches) = 2,
         NEW p, SwapStage(c, p),
         NEW q, q = AllocForBatch(p, c.batches[1], len), OkPair(q),
         NEW r, r = AllocForBatch(q, c.batches[2], len), OkPair(r),
         NEW t, t = SwapOutCprfs(r, c.batches[1], len), OkPair(t),
         NEW u, u = SwapOutCprfs(t, c.batches[2], len), OkPair(u)
  PROVE  PreparedRows(c, len, u) /\ PlacedRows(c, u)
<1>1. PICK a, b : a = c.batches[1] /\ b = c.batches[2]
  OBVIOUS
<1>2. 1 \in 1 .. Len(c.batches) /\ 2 \in 1 .. Len(c.batches)
  OBVIOUS
<1>3. /\ BatchType(a) /\ Distinct(AllReqs(a)) /\ Elems(AllReqs(a)) \subseteq Ids
      /\ \A id \in Elems(a.cprf) : p.gpu.table[id] = << >>
      /\ \A id \in Ids :
           /\ id \in Elems(a.cprf) \cup Elems(a.gprf) =>
                Len(p.gpu.table[id]) = 0 /\ Len(p.cpu.table[id]) = 0
           /\ id \in Elems(a.gdec) => Len(p.cpu.table[id]) = 0
           /\ id \in Elems(a.cdec) => Len(p.gpu.table[id]) = 0
  BY <1>1, <1>2, BatchEntry
<1>4. /\ BatchType(b) /\ Distinct(AllReqs(b)) /\ Elems(AllReqs(b)) \subseteq Ids
      /\ \A id \in Elems(b.cprf) : p.gpu.table[id] = << >>
      /\ \A id \in Ids :
           /\ id \in Elems(b.cprf) \cup Elems(b.gprf) =>
                Len(p.gpu.table[id]) = 0 /\ Len(p.cpu.table[id]) = 0
           /\ id \in Elems(b.gdec) => Len(p.cpu.table[id]) = 0
           /\ id \in Elems(b.cdec) => Len(p.gpu.table[id]) = 0
  BY <1>1, <1>2, BatchEntry
<1>5. len \in [Ids -> Int]
  BY CallLens
<1>6. Sound(p.gpu, {}, NumGpu) /\ Sound(p.cpu, {}, NumCpu)
  BY DEF SwapStage
<1>7. Elems(AllReqs(a)) \cap Elems(AllReqs(b)) = {}
  BY <1>1, <1>2 DEF LegalCall
<1>8. /\ Elems(PrGds(a)) = Elems(a.cprf) \cup Elems(a.gprf) \cup Elems(a.gdec)
      /\ Elems(AllReqs(a)) = Elems(PrGds(a)) \cup Elems(a.cdec)
      /\ Elems(PrGds(a)) \cap Elems(a.cdec) = {}
      /\ Elems(PrGds(b)) = Elems(b.cprf) \cup Elems(b.gprf) \cup Elems(b.gdec)
      /\ Elems(AllReqs(b)) = Elems(PrGds(b)) \cup Elems(b.cdec)
      /\ Elems(PrGds(b)) \cap Elems(b.cdec) = {}
  BY <1>3, <1>4, BatchLists
<1>9. AllocForBatchPost(p, {}, a, len, q)
  <2>1. Elems(AllReqs(a)) \cap {} = {}
    OBVIOUS
  <2>2. QED
    BY <1>1, <1>3, <1>5, <1>6, <2>1, AllocForBatchSound DEF OkPair
<1>10. Sound(q.gpu, ItmOf(a), NumGpu) /\ Sound(q.cpu, {}, NumCpu)
  <2>1. {} \cup ItmOf(a) = ItmOf(a)
    OBVIOUS
  <2>2. QED
    BY <1>9, <2>1 DEF AllocForBatchPost
<1>11. \A id \in Ids :
         /\ Len(q.gpu.table[id]) = IF id \in Elems(PrGds(a)) THEN BlocksFor(len[id])
                                                            ELSE Len(p.gpu.table[id])
         /\ Len(q.cpu.table[id]) = IF id \in Elems(a.cdec) THEN BlocksFor(len[id])
                                                          ELSE Len(p.cpu.table[id])
  BY <1>9 DEF AllocForBatchPost
<1>12. ASSUME NEW id \in Elems(b.cprf) PROVE q.gpu.table[id] = << >>
  <2>1. id \in Ids /\ id \notin Elems(PrGds(a))
    BY <1>4, <1>7, <1>8
  <2>2. Len(q.gpu.table[id]) = 0
    BY <1>4, <1>11, <2>1
  <2>3. q.gpu.table[id] \in Seq(0 .. (NumGpu - 1))
    BY <1>10, <2>1 DEF Sound, DeviceType
  <2>4. QED
    BY <2>2, <2>3
<1>13. AllocForBatchPost(q, ItmOf(a), b, len, r)
  <2>1. Elems(AllReqs(b)) \cap ItmOf(a) = {}
    BY <1>7, <1>8 DEF ItmOf
  <2>2. QED
    BY <1>1, <1>4, <1>5, <1>10, <1>12, <2>1, AllocForBatchSound DEF OkPair
<1> DEFINE itm == ItmOf(a) \cup ItmOf(b)
<1>14. SwapOutPost(r, itm, a.cprf, Target(len), t)
  <2>1. Sound(r.gpu, itm, NumGpu) /\ Sound(r.cpu, {}, NumCpu)
    BY <1>13 DEF AllocForBatchPost
  <2>2. ItmOf(a) \subseteq itm /\ (~ExtraLayer => itm = {})
    BY DEF ItmOf
  <2> HIDE DEF itm
  <2>3. QED
    BY <1>1, <1>3, <1>5, <2>1, <2>2, CprfsSound
<1>15. SwapOutPost(t, itm \ Elems(a.cprf), b.cprf, Target(len), u)
  <2>1. Sound(t.gpu, itm \ Elems(a.cprf), NumGpu) /\ Sound(t.cpu, {}, NumCpu)
    BY <1>14 DEF SwapOutPost
  <2>2. /\ ItmOf(b) \subseteq itm \ Elems(a.cprf)
        /\ ~ExtraLayer => itm \ Elems(a.cprf) = {}
    BY <1>7, <1>8 DEF ItmOf
  <2> DEFINE rest == itm \ Elems(a.cprf)
  <2> HIDE DEF rest
  <2>3. SwapOutPost(t, rest, b.cprf, Target(len), u)
    BY <1>1, <1>4, <1>5, <2>1, <2>2, CprfsSound DEF rest
  <2>4. QED
    BY <2>3 DEF rest
<1>16. Sound(u.gpu, {}, NumGpu) /\ Sound(u.cpu, {}, NumCpu)
  <2>1. (itm \ Elems(a.cprf)) \ Elems(b.cprf) = {}
    BY DEF ItmOf
  <2> HIDE DEF itm
  <2>2. QED
    BY <1>15, <2>1 DEF SwapOutPost
<1>17. Reqs(c.batches) = Elems(AllReqs(a)) \cup Elems(AllReqs(b))
  <2>1. 1 .. Len(c.batches) = {1, 2}
    OBVIOUS
  <2>2. QED
    BY <1>1, <2>1 DEF Reqs
<1> HIDE DEF itm
<1>18. ASSUME NEW id \in Ids
       PROVE  {Len(u.gpu.table[id]), Len(u.cpu.table[id])} =
                {0, IF id \in Reqs(c.batches) THEN BlocksFor(len[id]) ELSE BlocksFor(Stored(id))}
  <2> DEFINE need == BlocksFor(len[id])
             G(x) == Len(x.gpu.table[id])
             C(x) == Len(x.cpu.table[id])
  <2>1. /\ G(r) = IF id \in Elems(PrGds(b)) THEN need ELSE G(q)
        /\ C(r) = IF id \in Elems(b.cdec) THEN need ELSE C(q)
    BY <1>13 DEF AllocForBatchPost
  <2>2. Target(len)[id] = need /\ Len(<< >>) = 0
    BY DEF Target
  <2>3. /\ G(t) = IF id \in Elems(a.cprf) THEN 0 ELSE G(r)
        /\ C(t) = IF id \in Elems(a.cprf) THEN need ELSE C(r)
    <3>1. /\ t.gpu.table[id] = IF id \in Elems(a.cprf) THEN << >> ELSE r.gpu.table[id]
          /\ C(t) = IF id \in Elems(a.cprf) THEN Target(len)[id] ELSE C(r)
      BY <1>14 DEF SwapOutPost
    <3>2. CASE id \in Elems(a.cprf)
      BY <2>2, <3>1, <3>2
    <3>3. CASE id \notin Elems(a.cprf)
      BY <3>1, <3>3
    <3>4. QED
      BY <3>2, <3>3
  <2>4. /\ G(u) = IF id \in Elems(b.cprf) THEN 0 ELSE G(t)
        /\ C(u) = IF id \in Elems(b.cprf) THEN need ELSE C(t)
    <3>1. /\ u.gpu.table[id] = IF id \in Elems(b.cprf) THEN << >> ELSE t.gpu.table[id]
          /\ C(u) = IF id \in Elems(b.cprf) THEN Target(len)[id] ELSE C(t)
      BY <1>15 DEF SwapOutPost
    <3>2. CASE id \in Elems(b.cprf)
      BY <2>2, <3>1, <3>2
    <3>3. CASE id \notin Elems(b.cprf)
      BY <3>1, <3>3
    <3>4. QED
      BY <3>2, <3>3
  <2>5. /\ G(q) = IF id \in Elems(PrGds(a)) THEN need ELSE G(p)
        /\ C(q) = IF id \in Elems(a.cdec) THEN need ELSE C(p)
    BY <1>11
  <2>6. {G(p), C(p)} = {0, BlocksFor(Stored(id))}
    BY DEF SwapStage
  <2>7. /\ id \in Elems(a.cprf) \cup Elems(a.gprf) => G(p) = 0 /\ C(p) = 0
        /\ id \in Elems(a.gdec) => C(p) = 0
        /\ id \in Elems(a.cdec) => G(p) = 0
        /\ id \in Elems(b.cprf) \cup Elems(b.gprf) => G(p) = 0 /\ C(p) = 0
        /\ id \in Elems(b.gdec) => C(p) = 0
        /\ id \in Elems(b.cdec) => G(p) = 0
    BY <1>3, <1>4
  <2> HIDE DEF need, G, C
  <2>8. CASE id \in Elems(AllReqs(a))
    <3>1. /\ id \notin Elems(b.cprf) /\ id \notin Elems(PrGds(b)) /\ id \notin Elems(b.cdec)
          /\ id \in Reqs(c.batches)
      BY <1>7, <1>8, <1>17, <2>8
    <3>2. /\ G(u) = IF id \in Elems(a.cprf) THEN 0 ELSE G(q)
          /\ C(u) = IF id \in Elems(a.cprf) THEN need ELSE C(q)
      BY <2>1, <2>3, <2>4, <3>1
    <3>3. (G(u) = 0 /\ C(u) = need) \/ (G(u) = need /\ C(u) = 0)
      BY <1>8, <2>5, <2>7, <2>8, <3>2
    <3>4. {G(u), C(u)} = {0, need}
      BY <3>3
    <3>5. QED
      BY <3>1, <3>4 DEF G, C, need
  <2>9. CASE id \in Elems(AllReqs(b))
    <3>1. /\ id \notin Elems(a.cprf) /\ id \notin Elems(PrGds(a)) /\ id \notin Elems(a.cdec)
          /\ id \in Reqs(c.batches)
      BY <1>7, <1>8, <1>17, <2>9
    <3>2. /\ G(u) = IF id \in Elems(b.cprf) THEN 0 ELSE IF id \in Elems(PrGds(b)) THEN need ELSE G(p)
          /\ C(u) = IF id \in Elems(b.cprf) THEN need ELSE IF id \in Elems(b.cdec) THEN need ELSE C(p)
      BY <2>1, <2>3, <2>4, <2>5, <3>1
    <3>3. (G(u) = 0 /\ C(u) = need) \/ (G(u) = need /\ C(u) = 0)
      BY <1>8, <2>7, <2>9, <3>2
    <3>4. {G(u), C(u)} = {0, need}
      BY <3>3
    <3>5. QED
      BY <3>1, <3>4 DEF G, C, need
  <2>10. CASE id \notin Elems(AllReqs(a)) /\ id \notin Elems(AllReqs(b))
    <3>1. /\ id \notin Elems(a.cprf) /\ id \notin Elems(PrGds(a)) /\ id \notin Elems(a.cdec)
          /\ id \notin Elems(b.cprf) /\ id \notin Elems(PrGds(b)) /\ id \notin Elems(b.cdec)
          /\ id \notin Reqs(c.batches)
      BY <1>8, <1>17, <2>10
    <3>2. G(u) = G(p) /\ C(u) = C(p)
      BY <2>1, <2>3, <2>4, <2>5, <3>1
    <3>3. QED
      BY <2>6, <3>1, <3>2 DEF G, C
  <2>11. QED
    BY <2>8, <2>9, <2>10
<1>19. Cprfs(c) = Elems(a.cprf) \cup Elems(b.cprf) /\ Gprfs(c) = Elems(a.gprf) \cup Elems(b.gprf)
  <2>1. 1 .. Len(c.batches) = {1, 2}
    OBVIOUS
  <2>2. QED
    BY <1>1, <2>1 DEF Cprfs, Gprfs
<1>20. ASSUME NEW id \in Ids
       PROVE  /\ id \in Gprfs(c) => Len(u.cpu.table[id]) = 0
              /\ id \in Cprfs(c) => Len(u.gpu.table[id]) = 0
              /\ id \in (OnGpu \ Elems(c.swapOut)) \cup Elems(c.swapIn) =>
                   Len(u.cpu.table[id]) = 0
              /\ id \in (OnCpu \ Elems(c.swapIn)) \cup Elems(c.swapOut) =>
                   Len(u.gpu.table[id]) = 0
              /\ id \notin Elems(c.swapOut) \cup Cprfs(c) => Extends(gpu.table[id], u.gpu.table[id])
              /\ id \notin Elems(c.swapIn) => Extends(cpu.table[id], u.cpu.table[id])
  <2> DEFINE G(x) == x.gpu.table[id]
             C(x) == x.cpu.table[id]
  <2>1. /\ Len(G(q)) = IF id \in Elems(PrGds(a)) THEN BlocksFor(len[id]) ELSE Len(G(p))
        /\ Len(C(q)) = IF id \in Elems(a.cdec) THEN BlocksFor(len[id]) ELSE Len(C(p))
        /\ Extends(G(p), G(q)) /\ Extends(C(p), C(q))
    BY <1>9 DEF AllocForBatchPost
  <2>2. /\ Len(G(r)) = IF id \in Elems(PrGds(b)) THEN BlocksFor(len[id]) ELSE Len(G(q))
        /\ Len(C(r)) = IF id \in Elems(b.cdec) THEN BlocksFor(len[id]) ELSE Len(C(q))
        /\ Extends(G(q), G(r)) /\ Extends(C(q), C(r))
    BY <1>13 DEF AllocForBatchPost
  <2>3. /\ G(t) = IF id \in Elems(a.cprf) THEN << >> ELSE G(r)
        /\ Len(C(t)) = IF id \in Elems(a.cprf) THEN BlocksFor(len[id]) ELSE Len(C(r))
        /\ Extends(C(r), C(t))
    BY <1>14 DEF SwapOutPost, Target
  <2>4. /\ G(u) = IF id \in Elems(b.cprf) THEN << >> ELSE G(t)
        /\ Len(C(u)) = IF id \in Elems(b.cprf) THEN BlocksFor(len[id]) ELSE Len(C(t))
        /\ Extends(C(t), C(u))
    BY <1>15 DEF SwapOutPost, Target
  <2>5. /\ id \in (OnGpu \ Elems(c.swapOut)) \cup Elems(c.swapIn) => Len(C(p)) = 0
        /\ id \in (OnCpu \ Elems(c.swapIn)) \cup Elems(c.swapOut) => Len(G(p)) = 0
        /\ id \notin Elems(c.swapOut) => Extends(gpu.table[id], G(p))
        /\ id \notin Elems(c.swapIn) => Extends(cpu.table[id], C(p))
    BY DEF SwapStage
  <2>6. /\ Elems(a.cprf) \cap (Elems(a.gprf) \cup Elems(a.gdec)) = {}
        /\ Elems(b.cprf) \cap (Elems(b.gprf) \cup Elems(b.gdec)) = {}
    BY <1>3, <1>4, BatchLists
  <2>7. /\ id \in (OnGpu \ Elems(c.swapOut)) \cup Elems(c.swapIn) =>
             /\ id \notin Elems(a.cprf) /\ id \notin Elems(a.cdec)
             /\ id \notin Elems(b.cprf) /\ id \notin Elems(b.cdec)
        /\ id \in (OnCpu \ Elems(c.swapIn)) \cup Elems(c.swapOut) =>
             id \notin Elems(PrGds(a)) /\ id \notin Elems(PrGds(b))
    BY <1>1, <1>2, BatchPlaces
  <2>8. /\ Len(gpu.table[id]) \in Nat /\ Len(cpu.table[id]) \in Nat
        /\ Len(G(p)) \in Nat /\ Len(C(p)) \in Nat /\ Len(G(q)) \in Nat /\ Len(C(q)) \in Nat
        /\ Len(G(r)) \in Nat /\ Len(C(r)) \in Nat /\ Len(C(t)) \in Nat /\ Len(C(u)) \in Nat
    <3>1. /\ Sound(r.gpu, itm, NumGpu) /\ Sound(r.cpu, {}, NumCpu)
      BY <1>13 DEF AllocForBatchPost, itm
    <3>2. Sound(t.cpu, {}, NumCpu)
      BY <1>14 DEF SwapOutPost
    <3>3. QED
      BY <1>6, <1>10, <1>16, <3>1, <3>2, RowLen, IdleRows
  <2>9. Len(<< >>) = 0
    OBVIOUS
  <2>10. /\ id \in Elems(a.gprf) => Len(C(p)) = 0
         /\ id \in Elems(b.gprf) => Len(C(p)) = 0
    BY <1>3, <1>4
  <2> HIDE DEF G, C
  <2>11. ASSUME id \in Gprfs(c) PROVE Len(C(u)) = 0
    <3>1. id \in Elems(a.gprf) \/ id \in Elems(b.gprf)
      BY <1>19, <2>11
    <3>2. /\ id \notin Elems(a.cprf) /\ id \notin Elems(a.cdec)
          /\ id \notin Elems(b.cprf) /\ id \notin Elems(b.cdec)
      BY <1>7, <1>8, <2>6, <3>1
    <3>3. QED
      BY <2>1, <2>2, <2>3, <2>4, <2>10, <3>1, <3>2
  <2>12. ASSUME id \in Cprfs(c) PROVE Len(G(u)) = 0
    <3>1. G(u) = << >>
      BY <1>19, <2>3, <2>4, <2>12
    <3>2. QED
      BY <2>9, <3>1
  <2>13. ASSUME id \in (OnGpu \ Elems(c.swapOut)) \cup Elems(c.swapIn) PROVE Len(C(u)) = 0
    BY <2>1, <2>2, <2>3, <2>4, <2>5, <2>7, <2>13
  <2>14. ASSUME id \in (OnCpu \ Elems(c.swapIn)) \cup Elems(c.swapOut) PROVE Len(G(u)) = 0
    <3>1. /\ id \notin Elems(PrGds(a)) /\ id \notin Elems(PrGds(b)) /\ Len(G(p)) = 0
          /\ id \notin Elems(a.cprf) /\ id \notin Elems(b.cprf)
      BY <1>8, <2>5, <2>7, <2>14
    <3>2. Len(G(r)) = 0
      BY <2>1, <2>2, <3>1
    <3>3. G(u) = G(r)
      BY <2>3, <2>4, <3>1
    <3>4. QED
      BY <3>2, <3>3
  <2>15. ASSUME id \notin Elems(c.swapOut) \cup Cprfs(c) PROVE Extends(gpu.table[id], G(u))
    <3>1. G(u) = G(r) /\ id \notin Elems(c.swapOut)
      BY <1>19, <2>3, <2>4, <2>15
    <3>2. Extends(gpu.table[id], G(q))
      BY <2>1, <2>5, <2>8, <3>1, ExtendsTwice
    <3>3. Extends(gpu.table[id], G(r))
      BY <2>2, <2>8, <3>2, ExtendsTwice
    <3>4. QED
      BY <3>1, <3>3
  <2>16. ASSUME id \notin Elems(c.swapIn) PROVE Extends(cpu.table[id], C(u))
    <3>1. Extends(cpu.table[id], C(q))
      BY <2>1, <2>5, <2>8, <2>16, ExtendsTwice
    <3>2. Extends(cpu.table[id], C(r))
      BY <2>2, <2>8, <3>1, ExtendsTwice
    <3>3. Extends(cpu.table[id], C(t))
      BY <2>3, <2>8, <3>2, ExtendsTwice
    <3>4. QED
      BY <2>4, <2>8, <3>3, ExtendsTwice
  <2>17. QED
    BY <2>11, <2>12, <2>13, <2>14, <2>15, <2>16 DEF G, C
<1>21. PlacedRows(c, u)
  BY <1>20 DEF PlacedRows
<1>22. QED
  BY <1>16, <1>18, <1>21 DEF PreparedRows

(* prepare: a legal call that does not raise leaves the rows as planned.   *)
LEMMA PrepareSound ==
  ASSUME IInv, pc = "idle", NEW c, LegalCall(c), PrepareSucceeds(c)
  PROVE  PreparedRows(c, LensWith(c), Prepared(c)) /\ PlacedRows(c, Prepared(c))
<1> DEFINE p0 == [gpu |-> gpu, cpu |-> cpu]
           len == LensWith(c)
           a == c.batches[1]
           b == c.batches[2]
           p == Swap(p0, c.swapOut, c.swapIn, len)
           q == AllocForBatch(p, a, len)
           r == AllocForBatch(q, b, len)
<1>1. /\ c.swapOut = << >> \/ c.swapIn = << >>
      /\ Len(c.batches) \in {1, 2}
  BY DEF PrepareSucceeds, PrepareAsserts
<1>2. ShapedPair(p0)
  <2>1. p0.gpu = gpu /\ p0.cpu = cpu
    OBVIOUS
  <2>2. QED
    BY <2>1, IdleRows, ShapedSound DEF ShapedPair
<1>3. ShapedPair(p)
  <2> HIDE DEF p0
  <2>1. QED
    BY <1>2, OkBackwards DEF Swap
<1>4. ShapedPair(q) /\ (OkPair(q) => OkPair(p))
  <2> HIDE DEF p
  <2>1. QED
    BY <1>3, OkBackwards
<1>5. OkPair(Prepared(c))
  BY DEF PrepareSucceeds, OkPair
<1>6. CASE Len(c.batches) = 1
  <2> DEFINE t == SwapOutCprfs(q, a, len)
  <2>1. Prepared(c) = t
    BY <1>6 DEF Prepared, PreparedDevices
  <2>2. OkPair(t) /\ OkPair(q)
    <3> HIDE DEF q
    <3>1. OkPair(t) => OkPair(q)
      BY <1>4, OkBackwards DEF SwapOutCprfs
    <3>2. QED
      BY <1>5, <2>1, <3>1
  <2>3. SwapStage(c, p)
    <3>1. OkPair(p)
      BY <1>4, <2>2
    <3>2. QED
      BY <1>1, <3>1, SwapSound
  <2> HIDE DEF p
  <2>4. PreparedRows(c, len, t) /\ PlacedRows(c, t)
    BY <1>6, <2>2, <2>3, OneBatch
  <2>5. QED
    BY <2>1, <2>4
<1>7. CASE Len(c.batches) = 2
  <2> DEFINE t == SwapOutCprfs(r, a, len)
             u == SwapOutCprfs(t, b, len)
  <2>1. Prepared(c) = u
    BY <1>7 DEF Prepared, PreparedDevices
  <2>2. ShapedPair(r) /\ (OkPair(r) => OkPair(q))
    <3> HIDE DEF q
    <3>1. QED
      BY <1>4, OkBackwards
  <2>3. ShapedPair(t) /\ (OkPair(t) => OkPair(r))
    <3> HIDE DEF r
    <3>1. QED
      BY <2>2, OkBackwards DEF SwapOutCprfs
  <2>4. OkPair(u) => OkPair(t)
    <3> HIDE DEF t
    <3>1. QED
      BY <2>3, OkBackwards DEF SwapOutCprfs
  <2>5. OkPair(u) /\ OkPair(t) /\ OkPair(r) /\ OkPair(q)
    BY <1>5, <2>1, <2>2, <2>3, <2>4
  <2>6. SwapStage(c, p)
    <3>1. OkPair(p)
      BY <1>4, <2>5
    <3>2. QED
      BY <1>1, <3>1, SwapSound
  <2> HIDE DEF p
  <2>7. PreparedRows(c, len, u) /\ PlacedRows(c, u)
    BY <1>7, <2>5, <2>6, TwoBatches
  <2>8. QED
    BY <2>1, <2>7
<1>8. QED
  BY <1>1, <1>6, <1>7

-----------------------------------------------------------------------------
(* The invariant is inductive.                                             *)
LEMMA InitIInv == Init => IInv
<1> SUFFICES ASSUME Init PROVE IInv
  OBVIOUS
<1>1. /\ gpu = NewDevice(NumGpu) /\ cpu = NewDevice(NumCpu)
      /\ lens = [id \in Ids |-> 0] /\ running = << >> /\ pc = "idle"
  BY DEF Init
<1>2. /\ Sound(gpu, {}, NumGpu) /\ Sound(cpu, {}, NumCpu)
      /\ \A id \in Ids : gpu.table[id] = << >> /\ cpu.table[id] = << >>
  BY <1>1, NewDeviceSound, DeviceSizeAssumption
<1>3. Reqs(running) = {}
  BY <1>1 DEF Reqs
<1>4. lens \in [Ids -> 0 .. MaxLen]
  BY <1>1, BudgetAssumption
<1>5. TypeOK
  BY <1>1, <1>2, <1>3, <1>4 DEF TypeOK, Sound
<1>6. AccountingExact
  BY <1>2 DEF AccountingExact, Sound
<1>7. BlocksMatchLength
  <2>1. SUFFICES ASSUME NEW id \in Ids
                 PROVE  {Len(gpu.table[id]), Len(cpu.table[id])} = {0, BlocksFor(0)}
    BY <1>1, <1>3 DEF BlocksMatchLength
  <2>2. Len(gpu.table[id]) = 0 /\ Len(cpu.table[id]) = 0
    BY <1>2
  <2>3. QED
    BY <2>2, BlocksForZero
<1>8. QED
  BY <1>1, <1>5, <1>6, <1>7 DEF IInv

LEMMA PrepareIInv ==
  ASSUME IInv, NEW c, Prepare(c)
  PROVE  IInv'
<1>1. /\ pc = "idle" /\ LegalCall(c) /\ PrepareSucceeds(c)
      /\ gpu' = Prepared(c).gpu /\ cpu' = Prepared(c).cpu
      /\ lens' = LensWith(c) /\ running' = c.batches /\ pc' = "exec"
  BY DEF Prepare
<1>2. PreparedRows(c, LensWith(c), Prepared(c))
  BY <1>1, PrepareSound
<1>3. Sound(gpu', {}, NumGpu) /\ Sound(cpu', {}, NumCpu)
  BY <1>1, <1>2 DEF PreparedRows
<1>4. lens' \in [Ids -> 0 .. MaxLen]
  BY <1>1, CallLens
<1>5. Reqs(running') \subseteq Ids
  BY <1>1, CallBatches DEF Reqs
<1>6. TypeOK'
  BY <1>1, <1>3, <1>4, <1>5 DEF TypeOK, Sound, Reqs
<1>7. AccountingExact'
  BY <1>3 DEF AccountingExact, Sound
<1>8. BlocksMatchLength'
  <2>1. SUFFICES ASSUME NEW id \in Ids
                 PROVE  LET stored == IF lens'[id] = 0 \/ id \in Reqs(running')
                                      THEN lens'[id] ELSE lens'[id] - 1
                        IN {Len(gpu'.table[id]), Len(cpu'.table[id])} = {0, BlocksFor(stored)}
    BY DEF BlocksMatchLength, Reqs
  <2>2. {Len(gpu'.table[id]), Len(cpu'.table[id])} =
          {0, IF id \in Reqs(running') THEN BlocksFor(lens'[id]) ELSE BlocksFor(Stored(id))}
    BY <1>1, <1>2 DEF PreparedRows
  <2>3. CASE id \in Reqs(running')
    BY <2>2, <2>3
  <2>4. CASE id \notin Reqs(running')
    <3>1. id \notin Prefilled(c.batches)
      <4>1. SUFFICES ASSUME id \in Prefilled(c.batches) PROVE id \in Reqs(c.batches)
        BY <1>1, <2>4
      <4>2. PICK k \in 1 .. Len(c.batches) : id \in Prefs(c.batches[k])
        BY <4>1 DEF Prefilled
      <4>3. BatchType(c.batches[k])
        BY <1>1, CallBatches
      <4>4. id \in Elems(AllReqs(c.batches[k]))
        BY <4>2, <4>3, BatchLists
      <4>5. QED
        BY <4>4 DEF Reqs
    <3>2. lens'[id] = lens[id]
      BY <1>1, <3>1, CallLens
    <3>3. QED
      BY <2>2, <2>4, <3>2 DEF Stored
  <2>5. QED
    BY <2>3, <2>4
<1>9. QED
  BY <1>1, <1>6, <1>7, <1>8 DEF IInv

LEMMA UpdateIInv ==
  ASSUME IInv, NEW finished, UpdateAndFree(finished)
  PROVE  IInv'
<1>1. /\ pc = "exec" /\ finished \subseteq Reqs(running)
      /\ \A id \in Reqs(running) \ finished : lens[id] + 1 < MaxLen
      /\ gpu' = Free(gpu, finished, 0) /\ cpu' = Free(cpu, finished, 0)
      /\ lens' = [id \in Ids |-> IF id \in finished THEN 0
                                ELSE IF id \in Reqs(running) THEN lens[id] + 1
                                ELSE lens[id]]
      /\ running' = << >> /\ pc' = "idle"
  BY DEF UpdateAndFree
<1>2. /\ Sound(gpu, {}, NumGpu) /\ Sound(cpu, {}, NumCpu)
      /\ lens \in [Ids -> 0 .. MaxLen] /\ MaxLen \in Nat
      /\ finished \subseteq Ids
  BY <1>1, BudgetAssumption DEF IInv, TypeOK, AccountingExact, Sound
<1>3. /\ 0 \in Splits /\ {} = {} \ finished
      /\ \A id : SplitOf({}, id) = 0
  BY DEF Splits, SplitOf
<1>4. FreePre(NumGpu, gpu, {}, finished, 0, {}, gpu')
  BY <1>1, <1>2, <1>3, DeviceSizeAssumption DEF FreePre
<1>5. FreePre(NumCpu, cpu, {}, finished, 0, {}, cpu')
  BY <1>1, <1>2, <1>3, DeviceSizeAssumption DEF FreePre
<1>6. FreePost(NumGpu, gpu, finished, {}, gpu') /\ FreePost(NumCpu, cpu, finished, {}, cpu')
  BY <1>4, <1>5, FreeSound
<1>7. Sound(gpu', {}, NumGpu) /\ Sound(cpu', {}, NumCpu)
  BY <1>6 DEF FreePost
<1>8. Reqs(running') = {}
  BY <1>1 DEF Reqs
<1>9. lens' \in [Ids -> 0 .. MaxLen]
  <2>1. ASSUME NEW id \in Ids PROVE lens'[id] \in 0 .. MaxLen
    BY <1>1, <1>2
  <2>2. QED
    BY <1>1, <2>1
<1>10. TypeOK'
  BY <1>1, <1>7, <1>8, <1>9 DEF TypeOK, Sound, Reqs
<1>11. AccountingExact'
  BY <1>7 DEF AccountingExact, Sound
<1>12. BlocksMatchLength'
  <2>1. SUFFICES ASSUME NEW id \in Ids
                 PROVE  {Len(gpu'.table[id]), Len(cpu'.table[id])} =
                          {0, BlocksFor(IF lens'[id] = 0 THEN lens'[id] ELSE lens'[id] - 1)}
    BY <1>8 DEF BlocksMatchLength, Reqs
  <2>2. /\ gpu'.table[id] = IF id \in finished THEN << >> ELSE gpu.table[id]
        /\ cpu'.table[id] = IF id \in finished THEN << >> ELSE cpu.table[id]
    BY <1>6 DEF FreePost
  <2>3. {Len(gpu.table[id]), Len(cpu.table[id])} =
          {0, BlocksFor(IF lens[id] = 0 \/ id \in Reqs(running) THEN lens[id] ELSE lens[id] - 1)}
    BY DEF IInv, BlocksMatchLength
  <2>4. CASE id \in finished
    <3>1. Len(gpu'.table[id]) = 0 /\ Len(cpu'.table[id]) = 0 /\ lens'[id] = 0
      BY <1>1, <2>2, <2>4
    <3>2. QED
      BY <3>1, BlocksForZero
  <2>5. CASE id \notin finished /\ id \in Reqs(running)
    <3>1. lens'[id] = lens[id] + 1 /\ lens[id] \in Nat
      BY <1>1, <1>2, <2>5
    <3>2. lens'[id] # 0 /\ lens'[id] - 1 = lens[id]
      BY <3>1
    <3>3. QED
      BY <2>2, <2>3, <2>5, <3>2
  <2>6. CASE id \notin finished /\ id \notin Reqs(running)
    BY <1>1, <2>2, <2>3, <2>6
  <2>7. QED
    BY <2>4, <2>5, <2>6
<1>13. QED
  BY <1>1, <1>10, <1>11, <1>12 DEF IInv

LEMMA StutterIInv ==
  ASSUME IInv,
         UNCHANGED bmVars \/ \E c \in Calls : PrepareRaises(c)
  PROVE  IInv'
<1>1. /\ gpu' = gpu /\ cpu' = cpu /\ lens' = lens /\ running' = running
      /\ (pc' = pc \/ (pc' = "dead" /\ pc = "idle"))
  BY DEF bmVars, PrepareRaises
<1>2. TypeOK'
  BY <1>1 DEF IInv, TypeOK, Reqs
<1>3. AccountingExact'
  BY <1>1 DEF IInv, AccountingExact
<1>4. BlocksMatchLength'
  BY <1>1 DEF IInv, BlocksMatchLength, Reqs
<1>5. QED
  BY <1>1, <1>2, <1>3, <1>4 DEF IInv

LEMMA NextIInv == IInv /\ [Next]_bmVars => IInv'
<1> SUFFICES ASSUME IInv, [Next]_bmVars PROVE IInv'
  OBVIOUS
<1>1. ASSUME NEW c \in Calls, Prepare(c) PROVE IInv'
  BY <1>1, PrepareIInv
<1>2. ASSUME NEW c \in Calls, PrepareRaises(c) PROVE IInv'
  BY <1>2, StutterIInv
<1>3. ASSUME NEW finished \in SUBSET Reqs(running), UpdateAndFree(finished) PROVE IInv'
  BY <1>3, UpdateIInv
<1>4. CASE UNCHANGED bmVars
  BY <1>4, StutterIInv
<1>5. QED
  BY <1>1, <1>2, <1>3, <1>4 DEF Next

-----------------------------------------------------------------------------
(* Tokens need blocks.                                                     *)
LEMMA BlocksForSome == ASSUME NEW len \in Nat, len # 0 PROVE BlocksFor(len) \in Int \ {0}
<1>1. BlockSize \in Nat \ {0}
  BY BlockSizeAssumption
<1>2. (len + BlockSize - 1) >= BlockSize /\ len + BlockSize - 1 \in Nat
  BY <1>1
<1>3. (len + BlockSize - 1) \div BlockSize >= 1 /\ (len + BlockSize - 1) \div BlockSize \in Int
  BY <1>1, <1>2
<1>4. QED
  BY <1>3 DEF BlocksFor

(* The prompts of a call, for the CPU or for the GPU.                      *)
LEMMA CallPrompts ==
  ASSUME NEW c, LegalCall(c)
  PROVE  /\ Prefilled(c.batches) = Gprfs(c) \cup Cprfs(c)
         /\ Prefilled(c.batches) \subseteq Reqs(c.batches)
<1>1. ASSUME NEW k \in 1 .. Len(c.batches)
      PROVE  LET b == c.batches[k]
             IN /\ Prefs(b) = Elems(b.cprf) \cup Elems(b.gprf)
                /\ Prefs(b) \subseteq Elems(AllReqs(b))
                /\ Elems(AllReqs(b)) = Prefs(b) \cup Elems(b.gdec) \cup Elems(b.cdec)
  <2>1. BatchType(c.batches[k])
    BY CallBatches
  <2>2. QED
    BY <2>1, BatchLists
<1>2. \A k \in 1 .. Len(c.batches) :
        Prefs(c.batches[k]) = Elems(c.batches[k].cprf) \cup Elems(c.batches[k].gprf)
  BY <1>1
<1>3. \A k \in 1 .. Len(c.batches) : Prefs(c.batches[k]) \subseteq Elems(AllReqs(c.batches[k]))
  BY <1>1
<1>4. Prefilled(c.batches) = Gprfs(c) \cup Cprfs(c)
  <2>1. \A x : x \in Prefilled(c.batches) <=>
                 \E k \in 1 .. Len(c.batches) : x \in Prefs(c.batches[k])
    BY DEF Prefilled
  <2>2. \A x : x \in Gprfs(c) <=> \E k \in 1 .. Len(c.batches) : x \in Elems(c.batches[k].gprf)
    BY DEF Gprfs
  <2>3. \A x : x \in Cprfs(c) <=> \E k \in 1 .. Len(c.batches) : x \in Elems(c.batches[k].cprf)
    BY DEF Cprfs
  <2>4. \A x : \A k \in 1 .. Len(c.batches) : x \in Prefs(c.batches[k]) <=>
           x \in Elems(c.batches[k].gprf) \/ x \in Elems(c.batches[k].cprf)
    BY <1>2
  <2>5. \A x : x \in Prefilled(c.batches) <=> x \in Gprfs(c) \/ x \in Cprfs(c)
    BY ONLY <2>1, <2>2, <2>3, <2>4
  <2>6. QED
    BY <2>5
<1>5. Prefilled(c.batches) \subseteq Reqs(c.batches)
  BY <1>3 DEF Prefilled, Reqs
<1>6. QED
  BY <1>4, <1>5

(* After prepare, the rows with blocks on a device are those whose prompts *)
(* stay there and those that were there once the swaps were done.          *)
LEMMA PreparePlaces ==
  ASSUME IInv, pc = "idle", NEW c, LegalCall(c), PrepareSucceeds(c), NEW id \in Ids
  PROVE  /\ Prepared(c).gpu.table[id] # << >> <=>
              id \in Gprfs(c) \cup (OnGpu \ Elems(c.swapOut)) \cup Elems(c.swapIn)
         /\ Prepared(c).cpu.table[id] # << >> <=>
              id \in Cprfs(c) \cup (OnCpu \ Elems(c.swapIn)) \cup Elems(c.swapOut)
<1> DEFINE len == LensWith(c)
           gpuRow == Prepared(c).gpu.table[id]
           cpuRow == Prepared(c).cpu.table[id]
           onGpu == (OnGpu \ Elems(c.swapOut)) \cup Elems(c.swapIn)
           onCpu == (OnCpu \ Elems(c.swapIn)) \cup Elems(c.swapOut)
<1>1. PreparedRows(c, len, Prepared(c)) /\ PlacedRows(c, Prepared(c))
  BY PrepareSound
<1>2. gpuRow \in Seq(0 .. (NumGpu - 1)) /\ cpuRow \in Seq(0 .. (NumCpu - 1))
  BY <1>1 DEF PreparedRows, Sound, DeviceType
<1>3. /\ gpuRow # << >> <=> Len(gpuRow) # 0
      /\ cpuRow # << >> <=> Len(cpuRow) # 0
  BY <1>2
<1>4. {Len(gpuRow), Len(cpuRow)} =
        {0, IF id \in Reqs(c.batches) THEN BlocksFor(len[id]) ELSE BlocksFor(Stored(id))}
  BY <1>1 DEF PreparedRows
<1>5. /\ id \in Gprfs(c) => Len(cpuRow) = 0
      /\ id \in Cprfs(c) => Len(gpuRow) = 0
      /\ id \in onGpu => Len(cpuRow) = 0
      /\ id \in onCpu => Len(gpuRow) = 0
  BY <1>1 DEF PlacedRows
<1>6. /\ lens[id] \in Nat /\ Len(gpu.table[id]) \in Nat /\ Len(cpu.table[id]) \in Nat
      /\ {Len(gpu.table[id]), Len(cpu.table[id])} = {0, BlocksFor(Stored(id))}
      /\ lens[id] = 0 => id \notin OnGpu /\ id \notin OnCpu
      /\ id \in OnGpu <=> Len(gpu.table[id]) # 0
      /\ id \in OnCpu <=> Len(cpu.table[id]) # 0
  <2>1. gpu.table[id] \in Seq(0 .. (NumGpu - 1)) /\ cpu.table[id] \in Seq(0 .. (NumCpu - 1))
    BY DEF IInv, TypeOK, DeviceType
  <2>2. QED
    BY <2>1, IdleRows DEF OnGpu, OnCpu
<1>7. /\ id \in Prefilled(c.batches) => lens[id] = 0
      /\ id \notin Prefilled(c.batches) => len[id] = lens[id]
  BY CallLens
<1>8. id \in Prefilled(c.batches) => len[id] \in Nat \ {0}
  <2>1. c.prompt[id] \in 1 .. (MaxLen - 1) /\ MaxLen \in Nat
    BY BudgetAssumption DEF LegalCall
  <2>2. QED
    BY <2>1 DEF LensWith
<1>9. Prefilled(c.batches) = Gprfs(c) \cup Cprfs(c) /\ Prefilled(c.batches) \subseteq Reqs(c.batches)
  BY CallPrompts
<1>10. Reqs(c.batches) \subseteq Prefilled(c.batches) \cup onGpu \cup onCpu
  <2>1. ASSUME NEW k \in 1 .. Len(c.batches), NEW x \in Elems(AllReqs(c.batches[k]))
        PROVE  x \in Prefilled(c.batches) \cup onGpu \cup onCpu
    <3>1. /\ BatchType(c.batches[k])
          /\ Elems(c.batches[k].gdec) \subseteq onGpu /\ Elems(c.batches[k].cdec) \subseteq onCpu
      BY CallBatches
    <3>2. Elems(AllReqs(c.batches[k])) =
            Prefs(c.batches[k]) \cup Elems(c.batches[k].gdec) \cup Elems(c.batches[k].cdec)
      BY <3>1, BatchLists
    <3>3. Prefs(c.batches[k]) \subseteq Prefilled(c.batches)
      BY DEF Prefilled
    <3>4. QED
      BY <3>1, <3>2, <3>3
  <2>2. QED
    BY <2>1 DEF Reqs
<1>11. onGpu \cup onCpu = OnGpu \cup OnCpu
  BY DEF LegalCall
<1> HIDE DEF len, gpuRow, cpuRow, onGpu, onCpu
<1>12. BlocksFor(Stored(id)) \in Int /\ BlocksFor(len[id]) \in Int
  <2>1. Stored(id) \in Int /\ len[id] \in Int
    BY <1>6, <1>7, <1>8 DEF Stored
  <2>2. QED
    BY <2>1, BlocksForType
<1>13. id \in Prefilled(c.batches) => Len(gpuRow) # 0 \/ Len(cpuRow) # 0
  BY <1>4, <1>8, <1>9, BlocksForSome
<1>14. id \in OnGpu \cup OnCpu => Len(gpuRow) # 0 \/ Len(cpuRow) # 0
  <2>1. SUFFICES ASSUME id \in OnGpu \cup OnCpu PROVE Len(gpuRow) # 0 \/ Len(cpuRow) # 0
    OBVIOUS
  <2>2. BlocksFor(Stored(id)) # 0
    BY <1>6, <2>1
  <2>3. len[id] \in Nat \ {0}
    BY <1>6, <1>7, <2>1
  <2>4. BlocksFor(len[id]) # 0
    BY <2>3, BlocksForSome
  <2>5. QED
    BY <1>4, <2>2, <2>4
<1>15. id \notin Prefilled(c.batches) \cup OnGpu \cup OnCpu => Len(gpuRow) = 0 /\ Len(cpuRow) = 0
  BY <1>4, <1>6, <1>10, <1>11
<1>16. /\ Len(gpuRow) # 0 <=> id \in Gprfs(c) \cup onGpu
       /\ Len(cpuRow) # 0 <=> id \in Cprfs(c) \cup onCpu
  BY <1>5, <1>9, <1>11, <1>13, <1>14, <1>15
<1>17. QED
  BY <1>3, <1>16 DEF onGpu, onCpu, gpuRow, cpuRow

(* When prepare does not raise.  Slots as before are pairs of a row and a  *)
(* logical block; here those that a set of rows fills with its sequences.  *)
RowSlots(S, len) == UNION {{id} \X (1 .. BlocksFor(len[id])) : id \in S}

Room(S, len, n) == IsFiniteSet(RowSlots(S, len)) /\ Cardinality(RowSlots(S, len)) <= n

LEMMA RowSlotsMember ==
  ASSUME NEW S, NEW len
  PROVE  \A id, j : <<id, j>> \in RowSlots(S, len) <=> id \in S /\ j \in 1 .. BlocksFor(len[id])
BY DEF RowSlots

(* A longer sequence needs no fewer blocks.                                *)
LEMMA BlocksForGrows ==
  ASSUME NEW l \in Nat, NEW len \in Nat, l <= len
  PROVE  BlocksFor(l) \in Nat /\ BlocksFor(len) \in Nat /\ BlocksFor(l) <= BlocksFor(len)
<1>1. PICK b \in Nat \ {0} : b = BlockSize
  BY BlockSizeAssumption
<1>2. PICK t \in Nat, u \in Nat : t = l + b - 1 /\ u = len + b - 1
  BY <1>1
<1>3. PICK q \in Nat, r \in 0 .. (b - 1) : q = t \div b /\ r = t % b /\ t = b * q + r
  BY <1>1, <1>2
<1>4. PICK p \in Nat, o \in 0 .. (b - 1) : p = u \div b /\ o = u % b /\ u = b * p + o
  BY <1>1, <1>2
<1>5. t <= u
  BY <1>1, <1>2
<1>6. q <= p
  <2>1. SUFFICES ASSUME q >= p + 1 PROVE FALSE
    BY <1>3, <1>4
  <2>2. b * q >= b * (p + 1) /\ b * (p + 1) = b * p + b
    BY <1>1, <1>3, <1>4, <2>1
  <2>3. PICK m \in Int, n \in Int : m = b * q /\ n = b * p
    BY <1>1, <1>3, <1>4
  <2>4. QED
    BY <1>1, <1>3, <1>4, <1>5, <2>2, <2>3
<1>7. BlocksFor(l) = q /\ BlocksFor(len) = p
  BY <1>1, <1>2, <1>3, <1>4 DEF BlocksFor
<1>8. QED
  BY <1>6, <1>7

(* The rows with blocks, those of split 0 in S and those of split 1 in T,  *)
(* have no more than their sequences fill.                                 *)
Within(d, itm, len, S, T) ==
  \A id \in Ids : d.table[id] # << >> =>
    /\ id \in (IF id \in itm THEN T ELSE S)
    /\ Len(d.table[id]) <= BlocksFor(len[id])

(* Then every slot that is held or asked for is one of those of S and T,   *)
(* so that alloc finds enough free blocks if the device has room for them. *)
Asked(n, d, itm, len, S, T, ids, splitPoint, target) ==
  /\ n \in Nat /\ Sound(d, itm, n) /\ len \in [Ids -> Nat]
  /\ Within(d, itm, len, S, T) /\ Room(S, len, n) /\ Room(T, len, n)
  /\ ids \in Seq(Ids) /\ Distinct(ids)
  /\ splitPoint \in Nat /\ (splitPoint > 0 => ExtraLayer)
  /\ target \in [Ids -> Int]
  /\ \A i \in 1 .. Len(ids) :
       /\ ids[i] \in (IF i <= splitPoint THEN T ELSE S)
       /\ Len(d.table[ids[i]]) <= target[ids[i]]
       /\ target[ids[i]] <= BlocksFor(len[ids[i]])

LEMMA AllocWithin ==
  ASSUME NEW n, NEW d, NEW itm, NEW len, NEW S, NEW T, NEW ids, NEW splitPoint, NEW target,
         Asked(n, d, itm, len, S, T, ids, splitPoint, target)
  PROVE  Alloc(d, ids, splitPoint, target).ok
<1> SUFFICES ASSUME n \in Nat, Sound(d, itm, n), len \in [Ids -> Nat],
                    Within(d, itm, len, S, T), Room(S, len, n), Room(T, len, n),
                    ids \in Seq(Ids), Distinct(ids),
                    splitPoint \in Nat, splitPoint > 0 => ExtraLayer,
                    target \in [Ids -> Int],
                    \A i \in 1 .. Len(ids) :
                      /\ ids[i] \in (IF i <= splitPoint THEN T ELSE S)
                      /\ Len(d.table[ids[i]]) <= target[ids[i]]
                      /\ target[ids[i]] <= BlocksFor(len[ids[i]])
             PROVE  Alloc(d, ids, splitPoint, target).ok
  BY DEF Asked
<1> DEFINE F == [s \in Splits |-> IF s = 1 THEN RowSlots(T, len) ELSE RowSlots(S, len)]
<1>1. \A i \in 1 .. Len(ids) : ids[i] \in Ids
  OBVIOUS
<1>2. d.table \in [Ids -> Seq(0 .. (n - 1))]
  BY DEF Sound, DeviceType
<1>3. ASSUME NEW s \in Splits
      PROVE IsFiniteSet(F[s]) /\ Cardinality(F[s]) <= n /\ Held(d, itm, s) \subseteq F[s]
  <2>1. IsFiniteSet(F[s]) /\ Cardinality(F[s]) <= n
    BY DEF Room
  <2>2. ASSUME NEW v \in Held(d, itm, s) PROVE v \in F[s]
    <3>1. PICK id, j : v = <<id, j>>
      BY <2>2, HeldSlotsMember DEF Held
    <3>2. id \in Ids /\ SplitOf(itm, id) = s /\ j \in 1 .. Len(d.table[id])
      BY <2>2, <3>1, HeldSlotsMember DEF Held
    <3>3. d.table[id] # << >> /\ Len(d.table[id]) \in Nat
      BY <1>2, <3>2
    <3>4. id \in (IF id \in itm THEN T ELSE S) /\ Len(d.table[id]) <= BlocksFor(len[id])
      BY <3>2, <3>3 DEF Within
    <3>5. BlocksFor(len[id]) \in Int
      BY <3>2, BlocksForType
    <3>6. j \in 1 .. BlocksFor(len[id])
      BY <3>2, <3>3, <3>4, <3>5
    <3>7. CASE id \in itm
      <4>1. s = 1 /\ v \in RowSlots(T, len)
        BY <3>1, <3>2, <3>4, <3>6, <3>7, RowSlotsMember DEF SplitOf
      <4>2. QED
        BY <4>1
    <3>8. CASE id \notin itm
      <4>1. s = 0 /\ v \in RowSlots(S, len)
        BY <3>1, <3>2, <3>4, <3>6, <3>8, RowSlotsMember DEF SplitOf
      <4>2. QED
        BY <4>1
    <3>9. QED
      BY <3>7, <3>8
  <2>3. QED
    BY <2>1, <2>2
<1>4. ASSUME NEW i \in 1 .. Len(ids), NEW j \in 1 .. target[ids[i]]
      PROVE  <<ids[i], j>> \in F[IF i <= splitPoint THEN 1 ELSE 0]
  <2>1. PICK id : id = ids[i]
    OBVIOUS
  <2>2. id \in Ids /\ target[id] \in Int
    BY <1>1, <2>1
  <2>3. BlocksFor(len[id]) \in Int
    BY <2>2, BlocksForType
  <2>4. j \in 1 .. BlocksFor(len[id]) /\ id \in (IF i <= splitPoint THEN T ELSE S)
    BY <2>1, <2>2, <2>3
  <2>5. CASE i <= splitPoint
    <3>1. 1 \in Splits
      BY <2>5 DEF Splits
    <3>2. <<id, j>> \in RowSlots(T, len)
      BY <2>4, <2>5, RowSlotsMember
    <3>3. QED
      BY <2>1, <2>5, <3>1, <3>2
  <2>6. CASE ~(i <= splitPoint)
    <3>1. 0 \in Splits
      BY DEF Splits
    <3>2. <<id, j>> \in RowSlots(S, len)
      BY <2>4, <2>6, RowSlotsMember
    <3>3. QED
      BY <2>1, <2>6, <3>1, <3>2
  <2>7. QED
    BY <2>5, <2>6
<1> HIDE DEF F
<1>5. AllocFits(n, d, itm, ids, splitPoint, target, F)
  BY <1>3, <1>4 DEF AllocFits
<1>6. QED
  BY <1>5, AllocRuns

(* Rows that were given what their sequences fill are within it.           *)
Given(n, d, itm, len, S, T, e, itm2, X, target) ==
  /\ Sound(d, itm, n) /\ Within(d, itm, len, S, T) /\ Sound(e, itm2, n)
  /\ \A id \in Ids : Len(e.table[id]) = IF id \in X THEN target[id] ELSE Len(d.table[id])
  /\ \A id \in X : /\ target[id] <= BlocksFor(len[id])
                   /\ id \in (IF id \in itm2 THEN T ELSE S)
  /\ \A id \in Ids \ X : id \in itm2 <=> id \in itm

LEMMA WithinAfter ==
  ASSUME NEW n, NEW d, NEW itm, NEW len, NEW S, NEW T, NEW e, NEW itm2, NEW X, NEW target,
         Given(n, d, itm, len, S, T, e, itm2, X, target)
  PROVE  Within(e, itm2, len, S, T)
<1> SUFFICES ASSUME Sound(d, itm, n), Within(d, itm, len, S, T), Sound(e, itm2, n),
                    \A id \in Ids :
                      Len(e.table[id]) = IF id \in X THEN target[id] ELSE Len(d.table[id]),
                    \A id \in X : /\ target[id] <= BlocksFor(len[id])
                                  /\ id \in (IF id \in itm2 THEN T ELSE S),
                    \A id \in Ids \ X : id \in itm2 <=> id \in itm
             PROVE  Within(e, itm2, len, S, T)
  BY DEF Given
<1>1. /\ d.table \in [Ids -> Seq(0 .. (n - 1))]
      /\ e.table \in [Ids -> Seq(0 .. (n - 1))]
  BY DEF Sound, DeviceType
<1>2. ASSUME NEW id \in Ids, e.table[id] # << >>
      PROVE  id \in (IF id \in itm2 THEN T ELSE S) /\ Len(e.table[id]) <= BlocksFor(len[id])
  <2>1. CASE id \in X
    BY <2>1
  <2>2. CASE id \notin X
    <3>1. Len(e.table[id]) = Len(d.table[id]) /\ (id \in itm2 <=> id \in itm)
      BY <2>2
    <3>2. d.table[id] \in Seq(0 .. (n - 1)) /\ e.table[id] \in Seq(0 .. (n - 1))
      BY <1>1
    <3>3. d.table[id] # << >>
      BY <1>2, <3>1, <3>2
    <3>4. id \in (IF id \in itm THEN T ELSE S) /\ Len(d.table[id]) <= BlocksFor(len[id])
      BY <3>3 DEF Within
    <3>5. QED
      BY <3>1, <3>4
  <2>3. QED
    BY <2>1, <2>2
<1>3. QED
  BY <1>2 DEF Within

(* Rows that are released are out of the way.                              *)
LEMMA WithinFreed ==
  ASSUME NEW d, NEW itm, NEW len, NEW S, NEW T, Within(d, itm, len, S, T), NEW e, NEW X,
         \A id \in Ids : e.table[id] = IF id \in X THEN << >> ELSE d.table[id]
  PROVE  Within(e, itm \ X, len, S, T)
BY DEF Within

(* Where prepare keeps rows: on the GPU, in its cache or in the            *)
(* intermediate layer, and on the CPU.                                     *)
GpuRows(c) == ((OnGpu \ Elems(c.swapOut)) \cup Elems(c.swapIn)) \cup Gprfs(c)
CpuRows(c) == ((OnCpu \ Elems(c.swapIn)) \cup Elems(c.swapOut)) \cup Cprfs(c)

(* There is a block for each of their slots, in every split by itself.     *)
Spacious(c, len) ==
  /\ ExtraLayer
  /\ Room(GpuRows(c), len, NumGpu) /\ Room(Cprfs(c), len, NumGpu) /\ Room(CpuRows(c), len, NumCpu)

(* Both devices at a stage of prepare, with the rows of itm in the         *)
(* intermediate layer.                                                     *)
Lodged(p, itm, c, len) ==
  /\ Sound(p.gpu, itm, NumGpu) /\ Sound(p.cpu, {}, NumCpu)
  /\ Within(p.gpu, itm, len, GpuRows(c), Cprfs(c))
  /\ Within(p.cpu, {}, len, CpuRows(c), {})

(* A device that holds nothing of a sequence, or no more than it fills.    *)
LEMMA WithinShort ==
  ASSUME NEW n, NEW d, NEW itm, Sound(d, itm, n), NEW len \in [Ids -> Nat], NEW S, NEW T,
         Within(d, itm, len, S, T), NEW id \in Ids
  PROVE  Len(d.table[id]) <= BlocksFor(len[id])
<1>1. d.table[id] \in Seq(0 .. (n - 1))
  BY DEF Sound, DeviceType
<1>2. CASE d.table[id] # << >>
  BY <1>2 DEF Within
<1>3. CASE d.table[id] = << >>
  <2>1. Len(d.table[id]) = 0
    BY <1>3
  <2>2. BlocksFor(len[id]) \in Nat
    <3>1. len[id] \in Nat
      OBVIOUS
    <3>2. QED
      BY <3>1, BlocksForGrows
  <2>3. QED
    BY <2>1, <2>2
<1>4. QED
  BY <1>2, <1>3

LEMMA TargetOf ==
  ASSUME NEW len \in [Ids -> Int]
  PROVE  /\ Target(len) \in [Ids -> Int]
         /\ \A id \in Ids : Target(len)[id] = BlocksFor(len[id])
BY BlocksForType DEF Target

LEMMA NoRoomNeeded ==
  ASSUME NEW len, NEW n \in Nat
  PROVE  Room({}, len, n)
<1>1. RowSlots({}, len) = {}
  BY DEF RowSlots
<1>2. QED
  BY <1>1, FS_EmptySet DEF Room

(* alloc of split 0 only, up to what the sequences fill.                   *)
PlainlyAsked(n, d, itm, len, S, T, ids, target) ==
  /\ n \in Nat /\ Sound(d, itm, n) /\ len \in [Ids -> Nat]
  /\ Within(d, itm, len, S, T) /\ Room(S, len, n) /\ Room(T, len, n)
  /\ ids \in Seq(Ids) /\ Distinct(ids) /\ target \in [Ids -> Int]
  /\ \A id \in Elems(ids) : /\ id \in S
                            /\ Len(d.table[id]) <= target[id]
                            /\ target[id] <= BlocksFor(len[id])

LEMMA PlainWithin ==
  ASSUME NEW n, NEW d, NEW itm, NEW len, NEW S, NEW T, NEW ids, NEW target,
         PlainlyAsked(n, d, itm, len, S, T, ids, target)
  PROVE  Alloc(d, ids, 0, target).ok
<1>1. ASSUME NEW i \in 1 .. Len(ids)
      PROVE  /\ ids[i] \in (IF i <= 0 THEN T ELSE S)
             /\ Len(d.table[ids[i]]) <= target[ids[i]]
             /\ target[ids[i]] <= BlocksFor(len[ids[i]])
  <2>1. ids[i] \in Elems(ids)
    BY DEF Elems
  <2>2. ~(i <= 0)
    OBVIOUS
  <2>3. QED
    BY <2>1, <2>2 DEF PlainlyAsked
<1>2. 0 \in Nat /\ (0 > 0 => ExtraLayer)
  OBVIOUS
<1>3. Asked(n, d, itm, len, S, T, ids, 0, target)
  BY <1>1, <1>2 DEF Asked, PlainlyAsked
<1>4. QED
  BY <1>3, AllocWithin

(* Alloc for the batch: the prompts for the CPU find their blocks in the   *)
(* intermediate layer, the others in the caches.                           *)
LEMMA BatchRuns ==
  ASSUME NEW c, NEW len \in [Ids -> Nat], Spacious(c, len),
         NEW p, NEW itm, Lodged(p, itm, c, len),
         NEW b, BatchType(b), Distinct(AllReqs(b)), Elems(AllReqs(b)) \cap itm = {},
         \A id \in Elems(b.cprf) : p.gpu.table[id] = << >>,
         Elems(b.cprf) \subseteq Cprfs(c),
         Elems(b.gprf) \cup Elems(b.gdec) \subseteq GpuRows(c), Elems(b.cdec) \subseteq CpuRows(c),
         NEW q, q = AllocForBatch(p, b, len)
  PROVE  /\ OkPair(q) /\ Lodged(q, itm \cup ItmOf(b), c, len)
         /\ AllocForBatchPost(p, itm, b, len, q)
<1>1. /\ ExtraLayer /\ Room(GpuRows(c), len, NumGpu) /\ Room(Cprfs(c), len, NumGpu)
      /\ Room(CpuRows(c), len, NumCpu) /\ Room({}, len, NumCpu)
      /\ NumGpu \in Nat /\ NumCpu \in Nat
  BY DeviceSizeAssumption, NoRoomNeeded DEF Spacious
<1>2. /\ Sound(p.gpu, itm, NumGpu) /\ Sound(p.cpu, {}, NumCpu)
      /\ Within(p.gpu, itm, len, GpuRows(c), Cprfs(c))
      /\ Within(p.cpu, {}, len, CpuRows(c), {})
  BY DEF Lodged
<1>3. /\ b.cprf \in Seq(Ids) /\ b.cdec \in Seq(Ids) /\ PrGds(b) \in Seq(Ids)
      /\ Elems(PrGds(b)) = Elems(b.cprf) \cup Elems(b.gprf) \cup Elems(b.gdec)
      /\ Elems(AllReqs(b)) = Elems(PrGds(b)) \cup Elems(b.cdec)
      /\ \A i \in 1 .. Len(b.cprf) : PrGds(b)[i] = b.cprf[i]
      /\ Distinct(PrGds(b)) /\ Distinct(b.cdec)
      /\ Elems(b.cprf) \cap (Elems(b.gprf) \cup Elems(b.gdec)) = {}
  BY BatchLists
<1>4. len \in [Ids -> Int]
  OBVIOUS
<1>5. /\ Target(len) \in [Ids -> Int]
      /\ \A id \in Ids : Target(len)[id] = BlocksFor(len[id]) /\ BlocksFor(len[id]) \in Int
  BY <1>4, TargetOf, BlocksForType
<1>6. /\ \A id \in Ids : Len(p.gpu.table[id]) <= BlocksFor(len[id])
      /\ \A id \in Ids : Len(p.cpu.table[id]) <= BlocksFor(len[id])
  BY <1>2, WithinShort
<1>7. Elems(PrGds(b)) \subseteq Ids /\ Elems(b.cdec) \subseteq Ids
  BY <1>3 DEF Elems
<1>8. Len(b.cprf) \in Nat
  BY <1>3
<1>9. Alloc(p.gpu, PrGds(b), Len(b.cprf), Target(len)).ok
  <2>1. ASSUME NEW i \in 1 .. Len(PrGds(b))
        PROVE  /\ PrGds(b)[i] \in (IF i <= Len(b.cprf) THEN Cprfs(c) ELSE GpuRows(c))
               /\ Len(p.gpu.table[PrGds(b)[i]]) <= Target(len)[PrGds(b)[i]]
               /\ Target(len)[PrGds(b)[i]] <= BlocksFor(len[PrGds(b)[i]])
    <3>1. PICK id : id = PrGds(b)[i]
      OBVIOUS
    <3>2. id \in Elems(PrGds(b)) /\ id \in Ids
      BY <1>7, <3>1 DEF Elems
    <3>3. Len(p.gpu.table[id]) <= Target(len)[id] /\ Target(len)[id] <= BlocksFor(len[id])
      BY <1>5, <1>6, <3>2
    <3>4. CASE i <= Len(b.cprf)
      <4>1. id \in Elems(b.cprf)
        <5>1. i \in 1 .. Len(b.cprf)
          BY <1>8, <3>4
        <5>2. b.cprf[i] = id
          BY <1>3, <3>1, <5>1
        <5>3. QED
          BY <5>1, <5>2 DEF Elems
      <4>2. QED
        BY <3>1, <3>3, <3>4, <4>1
    <3>5. CASE ~(i <= Len(b.cprf))
      <4>1. id \notin Elems(b.cprf)
        <5>1. ASSUME NEW j \in 1 .. Len(b.cprf), b.cprf[j] = id PROVE FALSE
          <6>1. Len(b.cprf) <= Len(PrGds(b)) /\ Len(PrGds(b)) \in Nat
            BY <1>3, BatchLists
          <6>2. j \in 1 .. Len(PrGds(b)) /\ j # i
            BY <1>8, <3>5, <6>1
          <6>3. PrGds(b)[j] = id
            BY <1>3, <5>1
          <6>4. PrGds(b)[i] = PrGds(b)[j]
            BY <3>1, <6>3
          <6>5. QED
            BY <1>3, <6>2, <6>4 DEF Distinct
        <5>2. QED
          BY <5>1 DEF Elems
      <4>2. id \in GpuRows(c)
        BY <1>3, <3>2, <4>1
      <4>3. QED
        BY <3>1, <3>3, <3>5, <4>2
    <3>6. QED
      BY <3>4, <3>5
  <2>2. Asked(NumGpu, p.gpu, itm, len, GpuRows(c), Cprfs(c), PrGds(b), Len(b.cprf), Target(len))
    BY <1>1, <1>2, <1>3, <1>5, <1>8, <2>1 DEF Asked
  <2>3. QED
    BY <2>2, AllocWithin
<1>10. Alloc(p.cpu, b.cdec, 0, Target(len)).ok
  <2>1. ASSUME NEW id \in Elems(b.cdec)
        PROVE  /\ id \in CpuRows(c)
               /\ Len(p.cpu.table[id]) <= Target(len)[id]
               /\ Target(len)[id] <= BlocksFor(len[id])
    BY <1>5, <1>6, <1>7
  <2>2. PlainlyAsked(NumCpu, p.cpu, {}, len, CpuRows(c), {}, b.cdec, Target(len))
    BY <1>1, <1>2, <1>3, <1>5, <2>1 DEF PlainlyAsked
  <2>3. QED
    BY <2>2, PlainWithin
<1>11. OkPair(q)
  BY <1>1, <1>9, <1>10 DEF AllocForBatch, OkPair
<1>12. AllocForBatchPost(p, itm, b, len, q)
  BY <1>2, <1>4, <1>11, AllocForBatchSound DEF OkPair
<1>13. PICK now : now = itm \cup ItmOf(b)
  OBVIOUS
<1>14. /\ Sound(q.gpu, now, NumGpu) /\ Sound(q.cpu, {}, NumCpu)
       /\ \A id \in Ids :
            Len(q.gpu.table[id]) = IF id \in Elems(PrGds(b)) THEN Target(len)[id]
                                                             ELSE Len(p.gpu.table[id])
       /\ \A id \in Ids :
            Len(q.cpu.table[id]) = IF id \in Elems(b.cdec) THEN Target(len)[id]
                                                           ELSE Len(p.cpu.table[id])
  BY <1>5, <1>12, <1>13 DEF AllocForBatchPost
<1>15. \A id : id \in now <=> id \in itm \/ id \in Elems(b.cprf)
  BY <1>1, <1>13 DEF ItmOf
<1>16. Within(q.gpu, now, len, GpuRows(c), Cprfs(c))
  <2>1. ASSUME NEW id \in Elems(PrGds(b))
        PROVE  /\ Target(len)[id] <= BlocksFor(len[id])
               /\ id \in (IF id \in now THEN Cprfs(c) ELSE GpuRows(c))
    <3>1. Target(len)[id] <= BlocksFor(len[id])
      BY <1>5, <1>7
    <3>2. id \notin itm
      BY <1>3
    <3>3. QED
      BY <1>3, <1>15, <3>1, <3>2
  <2>2. \A id \in Ids \ Elems(PrGds(b)) : id \in now <=> id \in itm
    BY <1>3, <1>15
  <2>3. Given(NumGpu, p.gpu, itm, len, GpuRows(c), Cprfs(c), q.gpu, now,
              Elems(PrGds(b)), Target(len))
    BY <1>2, <1>14, <2>1, <2>2 DEF Given
  <2>4. QED
    BY <2>3, WithinAfter
<1>17. Within(q.cpu, {}, len, CpuRows(c), {})
  <2>1. ASSUME NEW id \in Elems(b.cdec)
        PROVE  /\ Target(len)[id] <= BlocksFor(len[id])
               /\ id \in (IF id \in {} THEN {} ELSE CpuRows(c))
    BY <1>5, <1>7
  <2>2. Given(NumCpu, p.cpu, {}, len, CpuRows(c), {}, q.cpu, {}, Elems(b.cdec), Target(len))
    BY <1>2, <1>14, <2>1 DEF Given
  <2>3. QED
    BY <2>2, WithinAfter
<1>18. QED
  BY <1>11, <1>12, <1>13, <1>14, <1>16, <1>17 DEF Lodged

(* The prompts for the CPU find their blocks there.                        *)
LEMMA CprfsRun ==
  ASSUME NEW c, NEW len \in [Ids -> Nat], Spacious(c, len),
         NEW p, NEW itm, Lodged(p, itm, c, len),
         NEW b, BatchType(b), Distinct(AllReqs(b)), ItmOf(b) \subseteq itm,
         Elems(b.cprf) \subseteq Cprfs(c),
         NEW q, q = SwapOutCprfs(p, b, len)
  PROVE  OkPair(q) /\ Lodged(q, itm \ Elems(b.cprf), c, len)
<1>1. /\ ExtraLayer /\ Room(CpuRows(c), len, NumCpu) /\ Room({}, len, NumCpu)
      /\ NumGpu \in Nat /\ NumCpu \in Nat
  BY DeviceSizeAssumption, NoRoomNeeded DEF Spacious
<1>2. /\ Sound(p.gpu, itm, NumGpu) /\ Sound(p.cpu, {}, NumCpu)
      /\ Within(p.gpu, itm, len, GpuRows(c), Cprfs(c))
      /\ Within(p.cpu, {}, len, CpuRows(c), {})
  BY DEF Lodged
<1>3. b.cprf \in Seq(Ids) /\ Distinct(b.cprf)
  BY BatchLists
<1>4. len \in [Ids -> Int]
  OBVIOUS
<1>5. /\ Target(len) \in [Ids -> Int]
      /\ \A id \in Ids : Target(len)[id] = BlocksFor(len[id]) /\ BlocksFor(len[id]) \in Int
  BY <1>4, TargetOf, BlocksForType
<1>6. Elems(b.cprf) \subseteq Ids /\ Elems(b.cprf) \subseteq CpuRows(c)
  BY <1>3 DEF Elems, CpuRows
<1>7. \A id \in Ids : Len(p.cpu.table[id]) <= BlocksFor(len[id])
  BY <1>2, WithinShort
<1>8. Alloc(p.cpu, b.cprf, 0, Target(len)).ok
  <2>1. ASSUME NEW id \in Elems(b.cprf)
        PROVE  /\ id \in CpuRows(c)
               /\ Len(p.cpu.table[id]) <= Target(len)[id]
               /\ Target(len)[id] <= BlocksFor(len[id])
    BY <1>5, <1>6, <1>7
  <2>2. PlainlyAsked(NumCpu, p.cpu, {}, len, CpuRows(c), {}, b.cprf, Target(len))
    BY <1>1, <1>2, <1>3, <1>5, <2>1 DEF PlainlyAsked
  <2>3. QED
    BY <2>2, PlainWithin
<1>9. Free(p.gpu, Elems(b.cprf), ItmSplit).ok
  BY <1>2 DEF Free, Sound, DeviceType
<1>10. OkPair(q)
  BY <1>8, <1>9 DEF OkPair, SwapOutCprfs, SwapOut
<1>11. SwapOutPost(p, itm, b.cprf, Target(len), q)
  BY <1>1, <1>2, <1>4, <1>10, CprfsSound
<1>12. /\ Sound(q.gpu, itm \ Elems(b.cprf), NumGpu) /\ Sound(q.cpu, {}, NumCpu)
       /\ \A id \in Ids :
            q.gpu.table[id] = IF id \in Elems(b.cprf) THEN << >> ELSE p.gpu.table[id]
       /\ \A id \in Ids :
            Len(q.cpu.table[id]) = IF id \in Elems(b.cprf) THEN Target(len)[id]
                                                           ELSE Len(p.cpu.table[id])
  BY <1>11 DEF SwapOutPost
<1>13. Within(q.gpu, itm \ Elems(b.cprf), len, GpuRows(c), Cprfs(c))
  BY <1>2, <1>12, WithinFreed
<1>14. Within(q.cpu, {}, len, CpuRows(c), {})
  <2>1. ASSUME NEW id \in Elems(b.cprf)
        PROVE  /\ Target(len)[id] <= BlocksFor(len[id])
               /\ id \in (IF id \in {} THEN {} ELSE CpuRows(c))
    BY <1>5, <1>6
  <2>2. Given(NumCpu, p.cpu, {}, len, CpuRows(c), {}, q.cpu, {}, Elems(b.cprf), Target(len))
    BY <1>2, <1>12, <2>1 DEF Given
  <2>3. QED
    BY <2>2, WithinAfter
<1>15. QED
  BY <1>10, <1>12, <1>13, <1>14 DEF Lodged

(* A row with blocks between iterations: of a sequence, all but whose      *)
(* newest token it holds.                                                  *)
LEMMA HeldRow ==
  ASSUME IInv, pc = "idle", NEW c, LegalCall(c), NEW len, len = LensWith(c),
         NEW id \in OnGpu \cup OnCpu
  PROVE  /\ id \in Ids /\ BlocksFor(len[id] - 1) \in Nat
         /\ BlocksFor(len[id] - 1) <= BlocksFor(len[id]) /\ BlocksFor(len[id]) \in Nat
         /\ Len(gpu.table[id]) \in {0, BlocksFor(len[id] - 1)}
         /\ Len(cpu.table[id]) \in {0, BlocksFor(len[id] - 1)}
<1>1. id \in Ids
  BY DEF OnGpu, OnCpu
<1>2. lens[id] # 0 /\ lens[id] \in Nat
  BY <1>1, IdleRows
<1>3. len[id] = lens[id]
  BY <1>1, <1>2, CallLens
<1>4. Stored(id) = len[id] - 1 /\ len[id] - 1 \in Nat /\ len[id] \in Nat /\ len[id] - 1 <= len[id]
  BY <1>2, <1>3 DEF Stored
<1>5. /\ BlocksFor(len[id] - 1) \in Nat /\ BlocksFor(len[id]) \in Nat
      /\ BlocksFor(len[id] - 1) <= BlocksFor(len[id])
  BY <1>4, BlocksForGrows
<1>6. {Len(gpu.table[id]), Len(cpu.table[id])} = {0, BlocksFor(Stored(id))}
  BY <1>1, IdleRows
<1>7. QED
  BY <1>1, <1>4, <1>5, <1>6

(* 1. The swaps run: what is moved fits where it goes.                     *)
LEMMA SwapRuns ==
  ASSUME IInv, pc = "idle", NEW c, LegalCall(c), NEW len, len = LensWith(c),
         c.swapOut = << >> \/ c.swapIn = << >>, Spacious(c, len),
         NEW q, q = Swap([gpu |-> gpu, cpu |-> cpu], c.swapOut, c.swapIn, len)
  PROVE  OkPair(q)
<1>1. PICK target : target = Target(OmitLast(len))
  OBVIOUS
<1>2. len \in [Ids -> Nat] /\ len \in [Ids -> Int]
  BY CallLens
<1>3. target \in [Ids -> Int] /\ \A id \in Ids : target[id] = BlocksFor(len[id] - 1)
  <2>1. OmitLast(len) \in [Ids -> Int] /\ \A id \in Ids : OmitLast(len)[id] = len[id] - 1
    BY <1>2 DEF OmitLast
  <2>2. QED
    BY <1>1, <2>1, TargetOf
<1>4. /\ c.swapOut \in Seq(Ids) /\ c.swapIn \in Seq(Ids)
      /\ Distinct(c.swapOut) /\ Distinct(c.swapIn)
      /\ Elems(c.swapOut) \subseteq OnGpu /\ Elems(c.swapIn) \subseteq OnCpu
  BY DEF LegalCall
<1>5. /\ Sound(gpu, {}, NumGpu) /\ Sound(cpu, {}, NumCpu) /\ gpu.ok /\ cpu.ok
  BY IdleRows DEF Sound
<1>6. /\ Room(GpuRows(c), len, NumGpu) /\ Room(Cprfs(c), len, NumGpu)
      /\ Room(CpuRows(c), len, NumCpu) /\ Room({}, len, NumCpu)
      /\ NumGpu \in Nat /\ NumCpu \in Nat
  BY DeviceSizeAssumption, NoRoomNeeded DEF Spacious
<1>7. Elems(<< >>) = {}
  BY DEF Elems
<1>8. ASSUME NEW id \in OnGpu \cup OnCpu
      PROVE  /\ id \in Ids /\ target[id] <= BlocksFor(len[id])
             /\ target[id] \in Nat
             /\ Len(gpu.table[id]) <= target[id] /\ Len(cpu.table[id]) <= target[id]
             /\ Len(gpu.table[id]) <= BlocksFor(len[id])
             /\ Len(cpu.table[id]) <= BlocksFor(len[id])
  BY <1>3, HeldRow
<1>9. \A id \in Ids : /\ gpu.table[id] # << >> <=> id \in OnGpu
                      /\ cpu.table[id] # << >> <=> id \in OnCpu
  BY DEF OnGpu, OnCpu
<1>10. CASE c.swapOut # << >>
  <2>1. q = [gpu |-> Free(gpu, Elems(c.swapOut), 0), cpu |-> Alloc(cpu, c.swapOut, 0, target)]
    BY <1>1, <1>10 DEF Swap, SwapOut
  <2>2. Within(cpu, {}, len, CpuRows(c), {})
    <3>1. OnCpu \subseteq CpuRows(c)
      BY <1>7, <1>10 DEF CpuRows
    <3>2. QED
      BY <1>8, <1>9, <3>1 DEF Within
  <2>3. Elems(c.swapOut) \subseteq CpuRows(c)
    BY DEF CpuRows
  <2>4. PlainlyAsked(NumCpu, cpu, {}, len, CpuRows(c), {}, c.swapOut, target)
    BY <1>2, <1>3, <1>4, <1>5, <1>6, <1>8, <2>2, <2>3 DEF PlainlyAsked
  <2>5. Alloc(cpu, c.swapOut, 0, target).ok
    BY <2>4, PlainWithin
  <2>6. Free(gpu, Elems(c.swapOut), 0).ok
    BY <1>5 DEF Free, Sound, DeviceType
  <2>7. QED
    BY <2>1, <2>5, <2>6 DEF OkPair
<1>11. CASE c.swapOut = << >>
  <2>1. q = [cpu |-> Free(cpu, Elems(c.swapIn), 0), gpu |-> Alloc(gpu, c.swapIn, 0, target)]
    BY <1>1, <1>11 DEF Swap, SwapIn
  <2>2. Within(gpu, {}, len, GpuRows(c), Cprfs(c))
    <3>1. OnGpu \subseteq GpuRows(c)
      BY <1>7, <1>11 DEF GpuRows
    <3>2. QED
      BY <1>8, <1>9, <3>1 DEF Within
  <2>3. Elems(c.swapIn) \subseteq GpuRows(c)
    BY DEF GpuRows
  <2>4. PlainlyAsked(NumGpu, gpu, {}, len, GpuRows(c), Cprfs(c), c.swapIn, target)
    BY <1>2, <1>3, <1>4, <1>5, <1>6, <1>8, <2>2, <2>3 DEF PlainlyAsked
  <2>5. Alloc(gpu, c.swapIn, 0, target).ok
    BY <2>4, PlainWithin
  <2>6. Free(cpu, Elems(c.swapIn), 0).ok
    BY <1>5 DEF Free, Sound, DeviceType
  <2>7. QED
    BY <2>1, <2>5, <2>6 DEF OkPair
<1>12. QED
  BY <1>10, <1>11

(* After them the rows are where the call runs them.                       *)
LEMMA SwapLodged ==
  ASSUME IInv, pc = "idle", NEW c, LegalCall(c), NEW len, len = LensWith(c),
         NEW q, SwapStage(c, q)
  PROVE  Lodged(q, {}, c, len)
<1>1. Sound(q.gpu, {}, NumGpu) /\ Sound(q.cpu, {}, NumCpu)
  BY DEF SwapStage
<1>2. ASSUME NEW id \in Ids
      PROVE  /\ q.gpu.table[id] # << >> =>
                  id \in GpuRows(c) /\ Len(q.gpu.table[id]) <= BlocksFor(len[id])
             /\ q.cpu.table[id] # << >> =>
                  id \in CpuRows(c) /\ Len(q.cpu.table[id]) <= BlocksFor(len[id])
  <2>1. PICK g, h, n : /\ g = Len(q.gpu.table[id]) /\ h = Len(q.cpu.table[id])
                       /\ n = BlocksFor(Stored(id))
    OBVIOUS
  <2>2. /\ g \in Nat /\ h \in Nat
        /\ q.gpu.table[id] # << >> => g # 0
        /\ q.cpu.table[id] # << >> => h # 0
    BY <1>1, <2>1 DEF Sound, DeviceType
  <2>3. /\ {g, h} = {0, n}
        /\ id \in (OnGpu \ Elems(c.swapOut)) \cup Elems(c.swapIn) => h = 0
        /\ id \in (OnCpu \ Elems(c.swapIn)) \cup Elems(c.swapOut) => g = 0
    BY <2>1 DEF SwapStage
  <2>4. {Len(gpu.table[id]), Len(cpu.table[id])} = {0, n}
    BY <2>1, IdleRows
  <2>5. n # 0 => id \in OnGpu \cup OnCpu
    BY <2>4 DEF OnGpu, OnCpu
  <2>6. n # 0 => n <= BlocksFor(len[id])
    <3>1. ASSUME n # 0 PROVE n <= BlocksFor(len[id])
      <4>1. id \in OnGpu \cup OnCpu
        BY <2>5, <3>1
      <4>2. lens[id] # 0 /\ lens[id] \in Nat
        BY <4>1, IdleRows
      <4>3. len[id] = lens[id]
        BY <4>2, CallLens
      <4>4. n = BlocksFor(len[id] - 1)
        BY <2>1, <4>2, <4>3 DEF Stored
      <4>5. QED
        BY <4>1, <4>4, HeldRow
    <3>2. QED
      BY <3>1
  <2>7. QED
    BY <2>1, <2>2, <2>3, <2>5, <2>6 DEF GpuRows, CpuRows
<1>3. QED
  BY <1>1, <1>2 DEF Lodged, Within

(* The lists of a batch of a call, by where its rows are kept.             *)
LEMMA BatchRows ==
  ASSUME NEW c, LegalCall(c), NEW k \in 1 .. Len(c.batches), NEW b, b = c.batches[k]
  PROVE  /\ Elems(b.cprf) \subseteq Cprfs(c)
         /\ Elems(b.gprf) \cup Elems(b.gdec) \subseteq GpuRows(c)
         /\ Elems(b.cdec) \subseteq CpuRows(c)
<1>1. Elems(b.cprf) \subseteq Cprfs(c) /\ Elems(b.gprf) \subseteq Gprfs(c)
  BY DEF Cprfs, Gprfs
<1>2. /\ Elems(b.gdec) \subseteq (OnGpu \ Elems(c.swapOut)) \cup Elems(c.swapIn)
      /\ Elems(b.cdec) \subseteq (OnCpu \ Elems(c.swapIn)) \cup Elems(c.swapOut)
  BY CallBatches
<1>3. QED
  BY <1>1, <1>2 DEF GpuRows, CpuRows

(* prepare runs to its end on a legal call that the devices have room for. *)
LEMMA PrepareRuns ==
  ASSUME IInv, pc = "idle", NEW c, LegalCall(c),
         c.swapOut = << >> \/ c.swapIn = << >>, Len(c.batches) \in {1, 2},
         Spacious(c, LensWith(c))
  PROVE  Prepared(c).gpu.ok /\ Prepared(c).cpu.ok
<1>1. PICK len : len = LensWith(c)
  OBVIOUS
<1>2. PICK s : s = Swap([gpu |-> gpu, cpu |-> cpu], c.swapOut, c.swapIn, len)
  OBVIOUS
<1>3. PICK a : a = c.batches[1]
  OBVIOUS
<1>4. PICK p : p = AllocForBatch(s, a, len)
  OBVIOUS
<1>5. Spacious(c, len) /\ len \in [Ids -> Nat]
  BY <1>1, CallLens
<1>6. SwapStage(c, s)
  <2>1. OkPair(s)
    BY <1>1, <1>2, <1>5, SwapRuns
  <2>2. QED
    BY <1>1, <1>2, <2>1, SwapSound
<1>7. Lodged(s, {}, c, len)
  BY <1>1, <1>6, SwapLodged
<1>8. 1 \in 1 .. Len(c.batches)
  OBVIOUS
<1>9. /\ BatchType(a) /\ Distinct(AllReqs(a))
      /\ \A id \in Elems(a.cprf) : s.gpu.table[id] = << >>
      /\ Elems(a.cprf) \subseteq Cprfs(c)
      /\ Elems(a.gprf) \cup Elems(a.gdec) \subseteq GpuRows(c) /\ Elems(a.cdec) \subseteq CpuRows(c)
  BY <1>3, <1>6, <1>8, BatchEntry, BatchRows
<1>10. /\ OkPair(p) /\ Lodged(p, ItmOf(a), c, len)
       /\ AllocForBatchPost(s, {}, a, len, p)
  <2>1. Elems(AllReqs(a)) \cap {} = {} /\ {} \cup ItmOf(a) = ItmOf(a)
    OBVIOUS
  <2>2. /\ OkPair(p) /\ Lodged(p, {} \cup ItmOf(a), c, len)
        /\ AllocForBatchPost(s, {}, a, len, p)
    BY <1>4, <1>5, <1>7, <1>9, <2>1, BatchRuns
  <2>3. QED
    BY <2>1, <2>2
<1>11. CASE Len(c.batches) = 1
  <2>1. Prepared(c) = SwapOutCprfs(p, a, len)
    BY <1>1, <1>2, <1>3, <1>4, <1>11 DEF Prepared, PreparedDevices
  <2>2. ItmOf(a) \subseteq ItmOf(a)
    OBVIOUS
  <2>3. OkPair(Prepared(c))
    BY <1>5, <1>9, <1>10, <2>1, <2>2, CprfsRun
  <2>4. QED
    BY <2>3 DEF OkPair
<1>12. CASE Len(c.batches) = 2
  <2>1. PICK b, q, t : b = c.batches[2] /\ q = AllocForBatch(p, b, len) /\ t = SwapOutCprfs(q, a, len)
    OBVIOUS
  <2>2. Prepared(c) = SwapOutCprfs(t, b, len)
    BY <1>1, <1>2, <1>3, <1>4, <1>12, <2>1 DEF Prepared, PreparedDevices
  <2>3. 2 \in 1 .. Len(c.batches)
    BY <1>12
  <2>4. /\ BatchType(b) /\ Distinct(AllReqs(b)) /\ Elems(AllReqs(b)) \subseteq Ids
        /\ \A id \in Elems(b.cprf) : s.gpu.table[id] = << >>
        /\ Elems(b.cprf) \subseteq Cprfs(c)
        /\ Elems(b.gprf) \cup Elems(b.gdec) \subseteq GpuRows(c) /\ Elems(b.cdec) \subseteq CpuRows(c)
    BY <1>6, <2>1, <2>3, BatchEntry, BatchRows
  <2>5. Elems(AllReqs(a)) \cap Elems(AllReqs(b)) = {}
    <3>1. \A k, l \in 1 .. Len(c.batches) :
            k # l => Elems(AllReqs(c.batches[k])) \cap Elems(AllReqs(c.batches[l])) = {}
      BY DEF LegalCall
    <3>2. PICK k, l : k = 1 /\ l = 2
      OBVIOUS
    <3>3. k \in 1 .. Len(c.batches) /\ l \in 1 .. Len(c.batches) /\ k # l
      BY <1>8, <2>3, <3>2
    <3>4. Elems(AllReqs(c.batches[k])) \cap Elems(AllReqs(c.batches[l])) = {}
      BY ONLY <3>1, <3>3
    <3>5. QED
      BY <1>3, <2>1, <3>2, <3>4
  <2>6. /\ Elems(PrGds(a)) = Elems(a.cprf) \cup Elems(a.gprf) \cup Elems(a.gdec)
        /\ Elems(AllReqs(a)) = Elems(PrGds(a)) \cup Elems(a.cdec)
        /\ Elems(PrGds(b)) = Elems(b.cprf) \cup Elems(b.gprf) \cup Elems(b.gdec)
        /\ Elems(AllReqs(b)) = Elems(PrGds(b)) \cup Elems(b.cdec)
    BY <1>9, <2>4, BatchLists
  <2>7. ASSUME NEW id \in Elems(b.cprf) PROVE p.gpu.table[id] = << >>
    <3>1. id \in Ids /\ id \notin Elems(PrGds(a))
      BY <2>4, <2>5, <2>6
    <3>2. Len(p.gpu.table[id]) = Len(s.gpu.table[id])
      BY <1>10, <3>1 DEF AllocForBatchPost
    <3>3. Len(p.gpu.table[id]) = 0
      BY <2>4, <3>2
    <3>4. p.gpu.table[id] \in Seq(0 .. (NumGpu - 1))
      BY <1>10, <3>1 DEF Lodged, Sound, DeviceType
    <3>5. QED
      BY <3>3, <3>4
  <2>8. PICK itm, rest : itm = ItmOf(a) \cup ItmOf(b) /\ rest = itm \ Elems(a.cprf)
    OBVIOUS
  <2>9. OkPair(q) /\ Lodged(q, itm, c, len)
    <3>1. Elems(AllReqs(b)) \cap ItmOf(a) = {}
      BY <2>5, <2>6 DEF ItmOf
    <3>2. OkPair(q) /\ Lodged(q, ItmOf(a) \cup ItmOf(b), c, len)
      BY <1>5, <1>10, <2>1, <2>4, <2>7, <3>1, BatchRuns
    <3>3. QED
      BY <2>8, <3>2
  <2>10. OkPair(t) /\ Lodged(t, rest, c, len)
    <3>1. ItmOf(a) \subseteq itm
      BY <2>8
    <3>2. QED
      BY <1>5, <1>9, <2>1, <2>8, <2>9, <3>1, CprfsRun
  <2>11. ItmOf(b) \subseteq rest
    BY <2>5, <2>6, <2>8 DEF ItmOf
  <2>12. OkPair(Prepared(c))
    BY <1>5, <2>2, <2>4, <2>10, <2>11, CprfsRun
  <2>13. QED
    BY <2>12 DEF OkPair
<1>13. QED
  BY <1>11, <1>12

(* The types of the state.                                                 *)
THEOREM TypeCorrect == Spec => []TypeOK
<1>1. Init => IInv
  BY InitIInv
<1>2. IInv /\ [Next]_bmVars => IInv'
  BY NextIInv
<1>3. IInv => TypeOK
  BY DEF IInv
<1>4. QED
  BY <1>1, <1>2, <1>3, PTL DEF Spec

(* No block is owned twice and none is lost, on either device, through any *)
(* interleaving of swaps, prefills, decodes and releases.                  *)
THEOREM Accounting == Spec => []AccountingExact
<1>1. Init => IInv
  BY InitIInv
<1>2. IInv /\ [Next]_bmVars => IInv'
  BY NextIInv
<1>3. IInv => AccountingExact
  BY DEF IInv
<1>4. QED
  BY <1>1, <1>2, <1>3, PTL DEF Spec

(* A sequence is on one device, with the blocks its tokens need.           *)
THEOREM Coverage == Spec => []BlocksMatchLength
<1>1. Init => IInv
  BY InitIInv
<1>2. IInv /\ [Next]_bmVars => IInv'
  BY NextIInv
<1>3. IInv => BlocksMatchLength
  BY DEF IInv
<1>4. QED
  BY <1>1, <1>2, <1>3, PTL DEF Spec

(* What a row shows of having only grown.                                  *)
LEMMA GrownRow ==
  ASSUME NEW S, NEW old \in Seq(S), NEW new \in Seq(S), Extends(old, new)
  PROVE  SubSeq(new, 1, Len(old)) = old
<1>1. /\ Len(old) \in Nat /\ Len(new) \in Nat /\ Len(old) <= Len(new)
      /\ \A j \in 1 .. Len(old) : new[j] = old[j]
  BY DEF Extends
<1>2. SubSeq(new, 1, Len(old)) = [j \in 1 .. Len(old) |-> new[j]]
  BY <1>1
<1>3. old = [j \in 1 .. Len(old) |-> old[j]]
  OBVIOUS
<1>4. QED
  BY <1>1, <1>2, <1>3

(* Prepare adds to rows, and empties only those it moves.                  *)
LEMMA PrepareGrows ==
  ASSUME IInv, NEW c, Prepare(c)
  PROVE  RowsOnlyGrow
<1>1. /\ pc = "idle" /\ LegalCall(c) /\ PrepareSucceeds(c)
      /\ gpu' = Prepared(c).gpu /\ cpu' = Prepared(c).cpu
  BY DEF Prepare
<1>2. PreparedRows(c, LensWith(c), Prepared(c)) /\ PlacedRows(c, Prepared(c))
  BY <1>1, PrepareSound
<1>3. Sound(gpu', {}, NumGpu) /\ Sound(cpu', {}, NumCpu)
  BY <1>1, <1>2 DEF PreparedRows
<1>4. Sound(gpu, {}, NumGpu) /\ Sound(cpu, {}, NumCpu)
  BY <1>1, IdleRows
<1>5. ASSUME NEW id \in Ids
      PROVE  /\ gpu.table[id] \in Seq(0 .. (NumGpu - 1)) /\ gpu'.table[id] \in Seq(0 .. (NumGpu - 1))
             /\ cpu.table[id] \in Seq(0 .. (NumCpu - 1)) /\ cpu'.table[id] \in Seq(0 .. (NumCpu - 1))
  BY <1>3, <1>4 DEF Sound, DeviceType
<1>6. ASSUME NEW id \in Ids, gpu'.table[id] # << >>
      PROVE  SubSeq(gpu'.table[id], 1, Len(gpu.table[id])) = gpu.table[id]
  <2>1. Len(gpu'.table[id]) # 0
    BY <1>5, <1>6
  <2>2. id \notin Elems(c.swapOut) \cup Cprfs(c)
    BY <1>1, <1>2, <2>1 DEF PlacedRows
  <2>3. Extends(gpu.table[id], gpu'.table[id])
    BY <1>1, <1>2, <2>2 DEF PlacedRows
  <2>4. QED
    BY <1>5, <2>3, GrownRow
<1>7. ASSUME NEW id \in Ids, cpu'.table[id] # << >>
      PROVE  SubSeq(cpu'.table[id], 1, Len(cpu.table[id])) = cpu.table[id]
  <2>1. Len(cpu'.table[id]) # 0
    BY <1>5, <1>7
  <2>2. id \notin Elems(c.swapIn)
    BY <1>1, <1>2, <2>1 DEF PlacedRows
  <2>3. Extends(cpu.table[id], cpu'.table[id])
    BY <1>1, <1>2, <2>2 DEF PlacedRows
  <2>4. QED
    BY <1>5, <2>3, GrownRow
<1>8. QED
  BY <1>6, <1>7 DEF RowsOnlyGrow

(* update_and_free leaves a row alone or empties it.                       *)
LEMMA UpdateGrows ==
  ASSUME IInv, NEW finished, UpdateAndFree(finished)
  PROVE  RowsOnlyGrow
<1>1. /\ gpu' = Free(gpu, finished, 0) /\ cpu' = Free(cpu, finished, 0)
      /\ gpu.ok /\ cpu.ok
      /\ DeviceType(gpu, NumGpu) /\ DeviceType(cpu, NumCpu)
  BY DEF UpdateAndFree, IInv, TypeOK
<1>2. ASSUME NEW id \in Ids
      PROVE  /\ gpu'.table[id] = IF id \in finished THEN << >> ELSE gpu.table[id]
             /\ cpu'.table[id] = IF id \in finished THEN << >> ELSE cpu.table[id]
             /\ gpu.table[id] \in Seq(0 .. (NumGpu - 1))
             /\ cpu.table[id] \in Seq(0 .. (NumCpu - 1))
  BY <1>1 DEF Free, DeviceType
<1>3. QED
  BY <1>2 DEF RowsOnlyGrow

LEMMA NextGrows == IInv /\ [Next]_bmVars => RowsOnlyGrow \/ UNCHANGED bmVars
<1> SUFFICES ASSUME IInv, [Next]_bmVars PROVE RowsOnlyGrow \/ UNCHANGED bmVars
  OBVIOUS
<1>1. ASSUME NEW c \in Calls, Prepare(c) PROVE RowsOnlyGrow
  BY <1>1, PrepareGrows
<1>2. ASSUME NEW c \in Calls, PrepareRaises(c) PROVE RowsOnlyGrow
  <2>1. gpu' = gpu /\ cpu' = cpu /\ DeviceType(gpu, NumGpu) /\ DeviceType(cpu, NumCpu)
    BY <1>2 DEF PrepareRaises, IInv, TypeOK
  <2>2. QED
    BY <2>1 DEF RowsOnlyGrow, DeviceType
<1>3. ASSUME NEW finished \in SUBSET Reqs(running), UpdateAndFree(finished) PROVE RowsOnlyGrow
  BY <1>3, UpdateGrows
<1>4. QED
  BY <1>1, <1>2, <1>3 DEF Next

(* A sequence that stays on a device keeps its blocks, in order, through   *)
(* every prepare and update_and_free: what the worker's block tables hold  *)
(* of it stays true, so that sending it new mappings only is enough.       *)
THEOREM RowsStay == Spec => RowsStable
<1>1. Init => IInv
  BY InitIInv
<1>2. IInv /\ [Next]_bmVars => IInv'
  BY NextIInv
<1>3. IInv /\ [Next]_bmVars => [RowsOnlyGrow]_bmVars
  BY NextGrows
<1>4. QED
  BY <1>1, <1>2, <1>3, PTL DEF Spec, RowsStable
=============================================================================
