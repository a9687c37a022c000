--------------------------- MODULE SchedulerProofs ---------------------------
(***************************************************************************)
(* What get_next_batch promises whatever the predictor answers: the queues *)
(* it returns rearrange the requests it was given, with the prompts it     *)
(* starts taken in order from the waiting queue, and the batches hold      *)
(* requests of those queues, each once.                                    *)
(***************************************************************************)
EXTENDS Scheduler, QueuesProofs

-----------------------------------------------------------------------------
(* Sums over no requests, and the prompts of few batches.                  *)
LEMMA NoBlocks == ASSUME NEW len PROVE Blocks(<< >>, len) = 0
BY SumNone DEF Blocks

(* get_num_prefs over the lists of batches that occur.                     *)
LEMMA PrefsOfNone == NumPrefs(<< >>) = 0
BY SumNone DEF NumPrefs

LEMMA PrefsOfOne ==
  ASSUME NEW b, Len(b.cprf) \in Nat, Len(b.gprf) \in Nat
  PROVE  NumPrefs(<<b>>) = Len(b.cprf) + Len(b.gprf)
<1>1. PICK q : q = <<b>>
  OBVIOUS
<1>2. PICK f : f = [k \in DOMAIN q |-> Len(q[k].cprf) + Len(q[k].gprf)]
  OBVIOUS
<1>3. DOMAIN q = {1} /\ q[1] = b
  BY <1>1
<1>4. DOMAIN f = {1} /\ f[1] = Len(b.cprf) + Len(b.gprf)
  BY <1>2, <1>3
<1>5. NumPrefs(q) = SumFunction(f)
  BY <1>2 DEF NumPrefs
<1>6. f[1] \in Nat
  <2>1. PICK m \in Nat, n \in Nat : m = Len(b.cprf) /\ n = Len(b.gprf)
    OBVIOUS
  <2>2. f[1] = m + n
    BY <1>4, <2>1
  <2>3. QED
    BY <2>2
<1>7. SumFunction(f) = f[1]
  BY <1>4, <1>6, SumOne
<1>8. QED
  BY <1>1, <1>4, <1>5, <1>7

LEMMA PrefsOfTwo ==
  ASSUME NEW b, Len(b.cprf) \in Nat, Len(b.gprf) \in Nat,
         NEW c, Len(c.cprf) = 0, Len(c.gprf) = 0
  PROVE  NumPrefs(<<b, c>>) = Len(b.cprf) + Len(b.gprf)
<1>1. PICK q : q = <<b, c>>
  OBVIOUS
<1>2. PICK f : f = [k \in DOMAIN q |-> Len(q[k].cprf) + Len(q[k].gprf)]
  OBVIOUS
<1>3. DOMAIN q = {1, 2} /\ q[1] = b /\ q[2] = c
  BY <1>1
<1>4. DOMAIN f = {1, 2}
  BY <1>2, <1>3
<1>5. f[1] = Len(b.cprf) + Len(b.gprf) /\ f[2] = Len(c.cprf) + Len(c.gprf)
  <2>1. 1 \in DOMAIN q /\ 2 \in DOMAIN q
    BY <1>3
  <2>2. QED
    BY <1>2, <1>3, <2>1
<1>6. NumPrefs(q) = SumFunction(f)
  BY <1>2 DEF NumPrefs
<1>7. f[1] \in Nat /\ f[2] \in Nat /\ f[1] + f[2] = Len(b.cprf) + Len(b.gprf)
  <2>1. PICK m \in Nat, n \in Nat : m = Len(b.cprf) /\ n = Len(b.gprf)
    OBVIOUS
  <2>2. f[1] = m + n /\ f[2] = 0 /\ Len(b.cprf) + Len(b.gprf) = m + n
    BY <1>5, <2>1
  <2>3. f[1] \in Nat /\ f[2] \in Nat
    BY <2>2
  <2>4. f[1] + f[2] = m + n
    BY <2>2
  <2>5. QED
    BY <2>2, <2>3, <2>4
<1>8. SumFunction(f) = f[1] + f[2]
  BY <1>4, <1>7, SumTwo
<1>9. QED
  BY <1>1, <1>6, <1>7, <1>8

-----------------------------------------------------------------------------
(* What requests cost, in blocks.                                          *)
Needs(R, len) == [x \in R |-> BlockNeeded(len[x])]

(* A length needs the fewest blocks that hold its tokens.                  *)
LEMMA BlockNeededHolds ==
  ASSUME NEW len \in Nat
  PROVE  /\ BlockNeeded(len) \in Nat
         /\ len <= BlockSize * BlockNeeded(len)
         /\ len # 0 => BlockNeeded(len) # 0
<1>1. PICK b \in Nat \ {0} : b = BlockSize
  BY SchedulerAssumption
<1>2. PICK t \in Nat : t = len + b - 1
  BY <1>1
<1>3. t \div b \in Nat /\ t % b \in 0 .. (b - 1) /\ t = b * (t \div b) + (t % b)
  BY <1>1
<1>4. PICK q \in Nat, r \in 0 .. (b - 1) : q = t \div b /\ r = t % b /\ t = b * q + r
  BY <1>3
<1>5. BlockNeeded(len) = q
  BY <1>1, <1>2, <1>4 DEF BlockNeeded
<1>6. PICK n \in Int : n = b * q
  BY <1>1, <1>4
<1>7. len <= n
  BY <1>1, <1>2, <1>4, <1>6
<1>8. q = 0 => n = 0
  BY <1>1, <1>4, <1>6
<1>9. QED
  BY <1>1, <1>5, <1>6, <1>7, <1>8

LEMMA BlockNeededGrows ==
  ASSUME NEW l \in Nat, NEW len \in Nat, l <= len
  PROVE  BlockNeeded(l) <= BlockNeeded(len)
<1>1. PICK b \in Nat \ {0} : b = BlockSize
  BY SchedulerAssumption
<1>2. PICK t \in Nat, u \in Nat : t = l + b - 1 /\ u = len + b - 1
  BY <1>1
<1>3. PICK q \in Nat, r \in 0 .. (b - 1) : q = t \div b /\ r = t % b /\ t = b * q + r
  BY <1>1, <1>2
<1>4. PICK p \in Nat, o \in 0 .. (b - 1) : p = u \div b /\ o = u % b /\ u = b * p + o
  BY <1>1, <1>2
<1>5. t <= u
  BY <1>1, <1>2
<1>6. q <= p
  <2>1. SUFFICES ASSUME q >= p + 1 PROVE FALSE
    BY <1>3, <1>4
  <2>2. b * q >= b * (p + 1) /\ b * (p + 1) = b * p + b
    BY <1>1, <1>3, <1>4, <2>1
  <2>3. PICK m \in Int, n \in Int : m = b * q /\ n = b * p
    BY <1>1, <1>3, <1>4
  <2>4. QED
    BY <1>1, <1>3, <1>4, <1>5, <2>2, <2>3
<1>7. BlockNeeded(l) = q /\ BlockNeeded(len) = p
  BY <1>1, <1>2, <1>3, <1>4 DEF BlockNeeded
<1>8. QED
  BY <1>6, <1>7

(* Requests whose lengths are numbers.                                     *)
Measured(R, len) == \A x \in R : len[x] \in Nat

LEMMA NeedsType ==
  ASSUME NEW R, NEW len, Measured(R, len)
  PROVE  \A x \in R : Needs(R, len)[x] \in Nat /\ Needs(R, len)[x] = BlockNeeded(len[x])
BY BlockNeededHolds DEF Needs, Measured

(* get_block_needed summed over a queue, and the lengths summed, are what  *)
(* its requests weigh.                                                     *)
LEMMA BlocksWeigh ==
  ASSUME NEW R, NEW len, Measured(R, len), NEW q \in Seq(R), IsInjective(q)
  PROVE  /\ Weighs(ToSet(q), Needs(R, len))
         /\ Blocks(q, len) = Weight(ToSet(q), Needs(R, len))
         /\ Blocks(q, len) \in Nat
<1>1. ToSet(q) \subseteq R /\ \A i \in DOMAIN q : q[i] \in R
  BY Members
<1>2. \A x \in ToSet(q) : Needs(R, len)[x] \in Nat
  BY <1>1, NeedsType
<1>3. [i \in DOMAIN q |-> BlockNeeded(len[q[i]])] = [i \in DOMAIN q |-> Needs(R, len)[q[i]]]
  BY <1>1, NeedsType
<1>4. PICK w : w = Needs(R, len)
  OBVIOUS
<1>5. Weighs(ToSet(q), w) /\ SumFunction([i \in DOMAIN q |-> w[q[i]]]) = Weight(ToSet(q), w)
  BY <1>2, <1>4, SumOfQueue
<1>6. Blocks(q, len) = Weight(ToSet(q), w)
  BY <1>3, <1>4, <1>5 DEF Blocks
<1>7. QED
  BY <1>4, <1>5, <1>6, WeightFinite

LEMMA SumWeighs ==
  ASSUME NEW R, NEW f, Measured(R, f), NEW q \in Seq(R), IsInjective(q)
  PROVE  /\ Weighs(ToSet(q), f) /\ Sum(q, f) = Weight(ToSet(q), f) /\ Sum(q, f) \in Nat
<1>1. \A x \in ToSet(q) : f[x] \in Nat
  BY Members DEF Measured
<1>2. Weighs(ToSet(q), f) /\ SumFunction([i \in DOMAIN q |-> f[q[i]]]) = Weight(ToSet(q), f)
  BY <1>1, SumOfQueue
<1>3. QED
  BY <1>2, WeightFinite DEF Sum

(* A queue of different requests is as long as the set of them is large.   *)
LEMMA LenIsCardinality ==
  ASSUME NEW R, NEW q \in Seq(R), IsInjective(q)
  PROVE  IsFiniteSet(ToSet(q)) /\ Cardinality(ToSet(q)) = Len(q)
<1>1. PICK n \in Nat : n = Len(q) /\ DOMAIN q = 1 .. n
  OBVIOUS
<1>2. IsFiniteSet(1 .. n) /\ Cardinality(1 .. n) = n
  BY FS_Interval
<1>3. q \in Bijection(1 .. n, ToSet(q))
  BY <1>1 DEF IsInjective, ToSet, Bijection, Injection, Surjection
<1>4. QED
  BY <1>1, <1>2, <1>3, FS_Bijection DEF ExistsBijection

(* A slice of a queue holds different requests, and one request more costs *)
(* what it needs.                                                          *)
LEMMA SliceInjective ==
  ASSUME NEW R, NEW q \in Seq(R), IsInjective(q),
         NEW m \in 0 .. Len(q), NEW n \in m .. Len(q)
  PROVE  /\ SubSeq(q, m + 1, n) \in Seq(R) /\ Len(SubSeq(q, m + 1, n)) = n - m
         /\ IsInjective(SubSeq(q, m + 1, n))
         /\ ToSet(SubSeq(q, m + 1, n)) = {q[i] : i \in (m + 1) .. n}
<1>1. PICK s : s = SubSeq(q, m + 1, n)
  OBVIOUS
<1>2. s \in Seq(R) /\ Len(s) = n - m /\ \A i \in 1 .. n - m : s[i] = q[m + i]
  BY <1>1, SliceMembers
<1>3. DOMAIN s = 1 .. n - m /\ DOMAIN q = 1 .. Len(q) /\ Len(q) \in Nat
  BY <1>2
<1>4. IsInjective(s)
  <2>1. ASSUME NEW i \in 1 .. n - m, NEW j \in 1 .. n - m, s[i] = s[j] PROVE i = j
    <3>1. q[m + i] = q[m + j] /\ m + i \in DOMAIN q /\ m + j \in DOMAIN q
      BY <1>2, <1>3, <2>1
    <3>2. m + i = m + j
      BY <3>1 DEF IsInjective
    <3>3. QED
      BY <3>2
  <2>2. QED
    BY <1>3, <2>1 DEF IsInjective
<1>5. ToSet(s) = {q[i] : i \in (m + 1) .. n}
  <2>1. ASSUME NEW x \in ToSet(s) PROVE x \in {q[i] : i \in (m + 1) .. n}
    <3>1. PICK i \in 1 .. n - m : x = s[i]
      BY <1>3 DEF ToSet
    <3>2. x = q[m + i] /\ m + i \in (m + 1) .. n
      BY <1>2, <1>3, <3>1
    <3>3. QED
      BY <3>2
  <2>2. ASSUME NEW i \in (m + 1) .. n PROVE q[i] \in ToSet(s)
    <3>1. i - m \in 1 .. n - m /\ m + (i - m) = i
      BY <1>3
    <3>2. s[i - m] = q[i] /\ i - m \in DOMAIN s
      BY <1>2, <1>3, <3>1
    <3>3. QED
      BY <3>2 DEF ToSet
  <2>3. QED
    BY <2>1, <2>2
<1>6. QED
  BY <1>1, <1>2, <1>4, <1>5

(* A queue of different requests; the two parts of one that is cut, and    *)
(* the whole of two.                                                       *)
Line(R, q) == q \in Seq(R) /\ IsInjective(q)

LEMMA LineIs ==
  ASSUME NEW R, NEW q, Line(R, q)
  PROVE  /\ q \in Seq(R) /\ IsInjective(q) /\ Len(q) \in Nat /\ DOMAIN q = 1 .. Len(q)
         /\ \A i \in 1 .. Len(q) : q[i] \in R
BY DEF Line

LEMMA CutInto ==
  ASSUME NEW R, NEW q, Line(R, q), NEW k \in 0 .. Len(q),
         NEW f, f = First(q, k), NEW v, v = After(q, k)
  PROVE  /\ Line(R, f) /\ Len(f) = k
         /\ Line(R, v) /\ Len(v) = Len(q) - k
         /\ \A i \in 1 .. Len(q) - k : v[i] = q[k + i]
         /\ Parts(ToSet(q), ToSet(f), ToSet(v))
<1>0. q \in Seq(R) /\ IsInjective(q)
  BY DEF Line
<1>1. f = SubSeq(q, 1, k) /\ v = SubSeq(q, k + 1, Len(q))
  BY DEF First, After
<1>2. /\ SubSeq(q, 1, k) \in Seq(R) /\ Len(SubSeq(q, 1, k)) = k
      /\ SubSeq(q, k + 1, Len(q)) \in Seq(R) /\ Len(SubSeq(q, k + 1, Len(q))) = Len(q) - k
      /\ \A i \in 1 .. Len(q) - k : SubSeq(q, k + 1, Len(q))[i] = q[k + i]
      /\ ToSet(q) = ToSet(SubSeq(q, 1, k)) \cup ToSet(SubSeq(q, k + 1, Len(q)))
      /\ IsInjective(SubSeq(q, 1, k)) /\ IsInjective(SubSeq(q, k + 1, Len(q)))
      /\ ToSet(SubSeq(q, 1, k)) \cap ToSet(SubSeq(q, k + 1, Len(q))) = {}
  <2>1. k \in 0 .. Len(q)
    OBVIOUS
  <2>2. /\ SubSeq(q, 1, k) \in Seq(R) /\ SubSeq(q, k + 1, Len(q)) \in Seq(R)
        /\ ToSet(q) = ToSet(SubSeq(q, 1, k)) \cup ToSet(SubSeq(q, k + 1, Len(q)))
    BY ONLY <1>0, <2>1, CutMembers
  <2>3. /\ IsInjective(SubSeq(q, 1, k)) /\ IsInjective(SubSeq(q, k + 1, Len(q)))
        /\ ToSet(SubSeq(q, 1, k)) \cap ToSet(SubSeq(q, k + 1, Len(q))) = {}
    BY ONLY <1>0, <2>1, CutMembers
  <2>4. /\ Len(SubSeq(q, 1, k)) = k /\ Len(SubSeq(q, k + 1, Len(q))) = Len(q) - k
        /\ \A i \in 1 .. Len(q) - k : SubSeq(q, k + 1, Len(q))[i] = q[k + i]
    BY <1>0, <2>1
  <2>5. QED
    BY <2>2, <2>3, <2>4
<1>3. /\ Line(R, SubSeq(q, 1, k)) /\ Line(R, SubSeq(q, k + 1, Len(q)))
      /\ Parts(ToSet(q), ToSet(SubSeq(q, 1, k)), ToSet(SubSeq(q, k + 1, Len(q))))
  <2>1. Line(R, SubSeq(q, 1, k)) /\ Line(R, SubSeq(q, k + 1, Len(q)))
    BY ONLY <1>2, Zenon DEF Line
  <2>2. Parts(ToSet(q), ToSet(SubSeq(q, 1, k)), ToSet(SubSeq(q, k + 1, Len(q))))
    BY ONLY <1>2, Zenon DEF Parts
  <2>3. QED
    BY ONLY <2>1, <2>2
<1>4. Line(R, f) /\ Line(R, v) /\ Parts(ToSet(q), ToSet(f), ToSet(v))
  BY ONLY <1>1, <1>3, Zenon
<1>5. Len(f) = k /\ Len(v) = Len(q) - k /\ \A i \in 1 .. Len(q) - k : v[i] = q[k + i]
  BY ONLY <1>1, <1>2, Zenon
<1>6. QED
  BY ONLY <1>4, <1>5

LEMMA JoinedOf ==
  ASSUME NEW R, NEW s, Line(R, s), NEW t, Line(R, t),
         ToSet(s) \cap ToSet(t) = {}, NEW u, u = s \o t
  PROVE  Line(R, u) /\ Len(u) = Len(s) + Len(t) /\ Parts(ToSet(u), ToSet(s), ToSet(t))
<1>0. s \in Seq(R) /\ IsInjective(s) /\ t \in Seq(R) /\ IsInjective(t)
  BY DEF Line
<1>1. s \o t \in Seq(R) /\ ToSet(s \o t) = ToSet(s) \cup ToSet(t) /\ IsInjective(s \o t)
  BY <1>0, ConcatMembers
<1>2. Len(s \o t) = Len(s) + Len(t)
  BY <1>0
<1>3. QED
  BY <1>1, <1>2 DEF Parts, Line

(* What the requests of a queue need.                                      *)
LEMMA LineCosts ==
  ASSUME NEW R, NEW len, Measured(R, len), NEW q, Line(R, q)
  PROVE  /\ Weighs(ToSet(q), Needs(R, len))
         /\ Blocks(q, len) = Weight(ToSet(q), Needs(R, len))
         /\ Blocks(q, len) \in Nat
BY BlocksWeigh DEF Line

LEMMA BlocksAdd ==
  ASSUME NEW R, NEW len, Measured(R, len), NEW s, Line(R, s),
         NEW t, Line(R, t), NEW x \in R, x \notin ToSet(t),
         ToSet(s) = ToSet(t) \cup {x}
  PROVE  Blocks(s, len) = Blocks(t, len) + BlockNeeded(len[x])
<1>1. PICK cost, y, z : cost = Needs(R, len) /\ y = ToSet(t) /\ z = {x}
  OBVIOUS
<1>2. cost[x] = BlockNeeded(len[x]) /\ cost[x] \in Nat
  BY <1>1, NeedsType
<1>3. Weighs(z, cost) /\ Weight(z, cost) = cost[x]
  BY <1>1, <1>2, WeightOne, FS_Singleton DEF Weighs
<1>4. /\ Weighs(y, cost) /\ Blocks(t, len) = Weight(y, cost)
      /\ Blocks(s, len) = Weight(ToSet(s), cost)
  BY <1>1, LineCosts
<1>5. Parts(ToSet(s), y, z)
  BY <1>1 DEF Parts
<1>6. Weight(ToSet(s), cost) = Weight(y, cost) + Weight(z, cost)
  BY ONLY <1>3, <1>4, <1>5, WeightParts
<1>7. QED
  BY <1>2, <1>3, <1>4, <1>6

LEMMA BlocksJoin ==
  ASSUME NEW R, NEW len, Measured(R, len), NEW s, Line(R, s), NEW t, Line(R, t),
         NEW u, Line(R, u), Parts(ToSet(u), ToSet(s), ToSet(t))
  PROVE  Blocks(u, len) = Blocks(s, len) + Blocks(t, len)
<1>1. PICK cost, y, z : cost = Needs(R, len) /\ y = ToSet(s) /\ z = ToSet(t)
  OBVIOUS
<1>2. /\ Weighs(y, cost) /\ Blocks(s, len) = Weight(y, cost)
      /\ Weighs(z, cost) /\ Blocks(t, len) = Weight(z, cost)
      /\ Blocks(u, len) = Weight(ToSet(u), cost)
  BY <1>1, LineCosts
<1>3. Parts(ToSet(u), y, z)
  BY <1>1
<1>4. Weight(ToSet(u), cost) = Weight(y, cost) + Weight(z, cost)
  BY ONLY <1>2, <1>3, WeightParts
<1>5. QED
  BY <1>2, <1>4

LEMMA SliceCost ==
  ASSUME NEW R, NEW len, Measured(R, len), NEW q, Line(R, q),
         NEW m \in 0 .. Len(q), NEW n \in (m + 1) .. Len(q)
  PROVE  Blocks(SubSeq(q, m + 1, n), len)
           = Blocks(SubSeq(q, m + 1, n - 1), len) + BlockNeeded(len[q[n]])
<1>0. q \in Seq(R) /\ IsInjective(q) /\ Len(q) \in Nat
  BY LineIs
<1>1. PICK s, t, x : s = SubSeq(q, m + 1, n) /\ t = SubSeq(q, m + 1, n - 1) /\ x = q[n]
  OBVIOUS
<1>2. n \in m .. Len(q) /\ n - 1 \in m .. Len(q) /\ n \in DOMAIN q /\ x \in R
  BY <1>0, <1>1
<1>3. Line(R, s) /\ ToSet(s) = {q[i] : i \in (m + 1) .. n}
  <2>1. /\ SubSeq(q, m + 1, n) \in Seq(R) /\ IsInjective(SubSeq(q, m + 1, n))
        /\ ToSet(SubSeq(q, m + 1, n)) = {q[i] : i \in (m + 1) .. n}
    BY <1>0, <1>2, SliceInjective
  <2>2. QED
    BY ONLY <1>1, <2>1 DEF Line
<1>4. Line(R, t) /\ ToSet(t) = {q[i] : i \in (m + 1) .. (n - 1)}
  <2>1. /\ SubSeq(q, m + 1, n - 1) \in Seq(R) /\ IsInjective(SubSeq(q, m + 1, n - 1))
        /\ ToSet(SubSeq(q, m + 1, n - 1)) = {q[i] : i \in (m + 1) .. (n - 1)}
    BY <1>0, <1>2, SliceInjective
  <2>2. QED
    BY ONLY <1>1, <2>1 DEF Line
<1>5. ToSet(s) = ToSet(t) \cup {x}
  <2>1. (m + 1) .. n = ((m + 1) .. (n - 1)) \cup {n}
    OBVIOUS
  <2>2. QED
    BY <1>1, <1>3, <1>4, <2>1
<1>6. x \notin ToSet(t)
  <2>1. ASSUME NEW i \in (m + 1) .. (n - 1), q[i] = x PROVE FALSE
    <3>1. i \in DOMAIN q /\ i # n
      BY <1>0
    <3>2. QED
      BY <1>0, <1>1, <1>2, <2>1, <3>1 DEF IsInjective
  <2>2. QED
    BY <1>4, <2>1
<1>7. Blocks(s, len) = Blocks(t, len) + BlockNeeded(len[x])
  BY ONLY <1>2, <1>3, <1>4, <1>5, <1>6, Measured(R, len), BlocksAdd
<1>8. QED
  BY <1>1, <1>7

-----------------------------------------------------------------------------
(* The counts of get_next_batch are counts of the queues they cut.         *)
LEMMA MaxWithin ==
  ASSUME NEW n \in Nat, NEW T \in SUBSET (0 .. n), 0 \in T
  PROVE  Max(T) \in 0 .. n
<1>1. T # {}
  OBVIOUS
<1>2. Max(T) \in T
  BY <1>1, Greatest
<1>3. QED
  BY <1>2

LEMMA PrefixWithin ==
  ASSUME NEW R, NEW q \in Seq(R), NEW fits
  PROVE  LongestPrefix(q, fits) \in 0 .. Len(q)
<1> DEFINE T == {k \in 0 .. Len(q) : 1 .. k \subseteq fits}
<1>1. Len(q) \in Nat /\ T \in SUBSET (0 .. Len(q)) /\ 0 \in T
  OBVIOUS
<1>2. LongestPrefix(q, fits) = Max(T)
  BY DEF LongestPrefix
<1> HIDE DEF T
<1>3. QED
  BY <1>1, <1>2, MaxWithin

(* Every position up to the end of the longest prefix fits.                *)
LEMMA PrefixFits ==
  ASSUME NEW R, NEW q \in Seq(R), NEW fits
  PROVE  \A i \in 1 .. LongestPrefix(q, fits) : i \in fits
<1> DEFINE T == {k \in 0 .. Len(q) : 1 .. k \subseteq fits}
<1>1. Len(q) \in Nat /\ T \in SUBSET (0 .. Len(q)) /\ 0 \in T
  OBVIOUS
<1>2. LongestPrefix(q, fits) = Max(T)
  BY DEF LongestPrefix
<1>3. \A k \in T : \A i \in 1 .. k : i \in fits
  OBVIOUS
<1> HIDE DEF T
<1>4. Max(T) \in T
  BY <1>1, Greatest
<1>5. QED
  BY <1>2, <1>3, <1>4

LEMMA KeptMinWithin ==
  ASSUME NEW R, NEW b, b.cprf \in Seq(R), NEW plen
  PROVE  KeptMin(b, plen) \in 0 .. Len(b.cprf)
<1> DEFINE T == {0} \cup {k \in 1 .. Len(b.cprf) : Width(KeepCprf(b, k - 1), plen) < LinrThreshold}
<1>1. PICK n \in Nat : n = Len(b.cprf)
  OBVIOUS
<1>2. T \in SUBSET (0 .. n) /\ 0 \in T
  BY <1>1
<1>3. KeptMin(b, plen) = Max(T)
  BY DEF KeptMin
<1> HIDE DEF T
<1>4. QED
  BY <1>1, <1>2, <1>3, MaxWithin

LEMMA CutNone == ASSUME NEW R, NEW q \in Seq(R) PROVE First(q, 0) = << >>
<1>1. 0 \in 0 .. Len(q)
  OBVIOUS
<1>2. PICK f : f = First(q, 0)
  OBVIOUS
<1>3. f \in Seq(R) /\ Len(f) = 0
  BY <1>1, <1>2, CutMembers DEF First
<1>4. QED
  BY <1>2, <1>3

LEMMA StayingWithin ==
  ASSUME numGpuBlocks \in Nat, NEW R, NEW s, s.gpuq \in Seq(R)
  PROVE  Staying(s) \in 0 .. Len(s.gpuq) /\ StayingOld(s) \in 0 .. Len(s.gpuq)
<1> DEFINE T == {k \in 0 .. Len(s.gpuq) :
                   WithinBudget(k, k) /\ Blocks(First(s.gpuq, k), s.len) <= numGpuBlocks}
           U == {k \in 0 .. Len(s.gpuq) :
                   k <= MaxBatch /\ Blocks(First(s.gpuq, k), s.len) <= numGpuBlocks}
<1>1. Blocks(First(s.gpuq, 0), s.len) = 0
  BY CutNone, NoBlocks
<1>2. PICK n \in Nat : n = Len(s.gpuq)
  OBVIOUS
<1>3. T \in SUBSET (0 .. n) /\ U \in SUBSET (0 .. n) /\ 0 \in T /\ 0 \in U
  BY <1>1, <1>2, SchedulerAssumption DEF WithinBudget
<1>4. Staying(s) = Max(T) /\ StayingOld(s) = Max(U)
  BY DEF Staying, StayingOld
<1> HIDE DEF T, U
<1>5. QED
  BY <1>2, <1>3, <1>4, MaxWithin

(* The decodes that stay fit the GPU and the batch, and with one more they *)
(* would not.                                                              *)
LEMMA StayingFits ==
  ASSUME numGpuBlocks \in Nat, NEW R, NEW s, s.gpuq \in Seq(R)
  PROVE  LET m == Staying(s)
             o == StayingOld(s)
         IN /\ WithinBudget(m, m) /\ Blocks(First(s.gpuq, m), s.len) <= numGpuBlocks
            /\ m < Len(s.gpuq) =>
                 ~(/\ WithinBudget(m + 1, m + 1)
                   /\ Blocks(First(s.gpuq, m + 1), s.len) <= numGpuBlocks)
            /\ o <= MaxBatch /\ Blocks(First(s.gpuq, o), s.len) <= numGpuBlocks
            /\ o < Len(s.gpuq) =>
                 ~(o + 1 <= MaxBatch /\ Blocks(First(s.gpuq, o + 1), s.len) <= numGpuBlocks)
<1> DEFINE fits(k) == WithinBudget(k, k) /\ Blocks(First(s.gpuq, k), s.len) <= numGpuBlocks
           fitsOld(k) == k <= MaxBatch /\ Blocks(First(s.gpuq, k), s.len) <= numGpuBlocks
           T == {k \in 0 .. Len(s.gpuq) : fits(k)}
           U == {k \in 0 .. Len(s.gpuq) : fitsOld(k)}
<1>1. Blocks(First(s.gpuq, 0), s.len) = 0
  BY CutNone, NoBlocks
<1>2. PICK n \in Nat : n = Len(s.gpuq)
  OBVIOUS
<1>3. T \in SUBSET (0 .. n) /\ U \in SUBSET (0 .. n) /\ 0 \in T /\ 0 \in U
  BY <1>1, <1>2, SchedulerAssumption DEF WithinBudget
<1>4. Staying(s) = Max(T) /\ StayingOld(s) = Max(U)
  BY DEF Staying, StayingOld
<1>5. /\ \A k \in T : fits(k)
      /\ \A k \in U : fitsOld(k)
      /\ \A k \in 0 .. n : (fits(k) => k \in T) /\ (fitsOld(k) => k \in U)
  BY <1>2
<1> HIDE DEF T, U, fits, fitsOld
<1>6. Max(T) \in T /\ (\A k \in T : k <= Max(T)) /\ Max(U) \in U /\ (\A k \in U : k <= Max(U))
  <2>1. T # {} /\ U # {}
    BY <1>3
  <2>2. QED
    BY <1>2, <1>3, <2>1, Greatest
<1>7. \A k \in 0 .. n : k < n => (k + 1 \in T => k # Max(T)) /\ (k + 1 \in U => k # Max(U))
  BY <1>2, <1>6
<1>8. /\ fits(Max(T)) /\ (Max(T) < n => ~fits(Max(T) + 1))
      /\ fitsOld(Max(U)) /\ (Max(U) < n => ~fitsOld(Max(U) + 1))
  <2>1. Max(T) \in 0 .. n /\ Max(U) \in 0 .. n
    BY <1>3, <1>6
  <2>2. /\ Max(T) < n => Max(T) + 1 \in 0 .. n
        /\ Max(U) < n => Max(U) + 1 \in 0 .. n
    BY <1>2, <2>1
  <2>3. QED
    BY <1>5, <1>6, <1>7, <2>1, <2>2
<1>9. QED
  BY <1>2, <1>4, <1>8 DEF fits, fitsOld

(* round(num_gpu_blocks * 0.95) is no more than num_gpu_blocks.            *)
LEMMA SwapInBelow ==
  ASSUME numGpuBlocks \in Nat
  PROVE  SwapInLimit <= numGpuBlocks /\ SwapInLimit \in Nat
<1>1. PICK n \in Nat : n = numGpuBlocks
  OBVIOUS
<1>2. PICK q \in Nat, r \in 0 .. 99 :
        q = (95 * n) \div 100 /\ r = (95 * n) % 100 /\ 95 * n = 100 * q + r
  OBVIOUS
<1>3. SwapInLimit = IF r > 50 \/ (r = 50 /\ q % 2 = 1) THEN q + 1 ELSE q
  BY <1>1, <1>2 DEF SwapInLimit
<1>4. q <= n /\ (r >= 50 => q + 1 <= n)
  BY <1>2
<1>5. QED
  BY <1>1, <1>3, <1>4

-----------------------------------------------------------------------------
(* The lists of batches _decide_mode_and_gen_batch returns.                *)
Main(toGpu, toCpu, gpuq, cpuq, k, A) ==
  Batch(First(toCpu, k), toGpu, gpuq, PickAt(cpuq, A))
Second(cpuq, B) == Batch(<< >>, << >>, << >>, PickAt(cpuq, B))

Shape(batches, b0, b1) ==
  \/ batches = <<b0>>
  \/ batches = <<b0, b1>>
  \/ BatchReqs(b0) = << >> /\ (batches = << >> \/ batches = <<b1>>)

LEMMA PickNone == ASSUME NEW q PROVE PickAt(q, {}) = << >>
<1>1. Cardinality({}) = 0
  BY FS_EmptySet
<1>2. QED
  BY <1>1 DEF PickAt

LEMMA PickAll == ASSUME NEW R, NEW q \in Seq(R) PROVE PickAt(q, DOMAIN q) = q
<1>1. {p \in DOMAIN q : q[p] \in ToSet(q)} = DOMAIN q
  BY DEF ToSet
<1>2. Kept(q, ToSet(q)) = q
  BY KeptAll
<1>3. QED
  BY <1>1, <1>2 DEF Kept

LEMMA PickOne ==
  ASSUME NEW q, NEW p \in Int
  PROVE  PickAt(q, {p}) = <<q[p]>>
<1>1. PICK T : T = {p}
  OBVIOUS
<1>2. IsFiniteSet(T) /\ Cardinality(T) = 1 /\ T \subseteq Int
  BY <1>1, FS_Singleton
<1>3. 1 \in 1 .. Cardinality(T)
  BY <1>2
<1>4. Nth(T, 1) \in T
  BY <1>2, <1>3, NthAt
<1>5. PickAt(q, T) = [i \in 1 .. 1 |-> q[Nth(T, i)]]
  BY <1>2 DEF PickAt
<1>6. QED
  BY <1>1, <1>4, <1>5

LEMMA NonEmptyOne ==
  ASSUME NEW b
  PROVE  NonEmpty(<<b>>) = IF BatchReqs(b) # << >> THEN <<b>> ELSE << >>
<1>1. PICK q : q = <<b>>
  OBVIOUS
<1>2. DOMAIN q = {1} /\ q[1] = b
  BY <1>1
<1> DEFINE T == {k \in DOMAIN q : BatchReqs(q[k]) # << >>}
<1>3. CASE BatchReqs(b) # << >>
  <2>1. T = {1}
    BY <1>2, <1>3
  <2>2. PickAt(q, {1}) = <<q[1]>>
    BY PickOne
  <2>3. QED
    BY <1>1, <1>2, <1>3, <2>1, <2>2 DEF NonEmpty
<1>4. CASE BatchReqs(b) = << >>
  <2>1. T = {}
    BY <1>2, <1>4
  <2>2. QED
    BY <1>1, <1>4, <2>1, PickNone DEF NonEmpty
<1>5. QED
  BY <1>3, <1>4

LEMMA NonEmptyTwo ==
  ASSUME NEW b0, NEW b1
  PROVE  Shape(NonEmpty(<<b0, b1>>), b0, b1)
<1>1. PICK q : q = <<b0, b1>>
  OBVIOUS
<1>2. DOMAIN q = {1, 2} /\ q[1] = b0 /\ q[2] = b1
  BY <1>1
<1> DEFINE T == {k \in DOMAIN q : BatchReqs(q[k]) # << >>}
<1>3. NonEmpty(q) = PickAt(q, T)
  BY DEF NonEmpty
<1>4. CASE 1 \in T /\ 2 \in T
  <2>1. T = DOMAIN q
    BY <1>2, <1>4
  <2>2. q \in Seq({b0, b1})
    BY <1>1
  <2>3. PickAt(q, DOMAIN q) = q
    BY <2>2, PickAll
  <2>4. QED
    BY <1>1, <1>3, <2>1, <2>3 DEF Shape
<1>5. CASE 1 \in T /\ 2 \notin T
  <2>1. T = {1}
    BY <1>2, <1>5
  <2>2. PickAt(q, {1}) = <<q[1]>>
    BY PickOne
  <2>3. QED
    BY <1>1, <1>2, <1>3, <2>1, <2>2 DEF Shape
<1>6. CASE 1 \notin T
  <2>1. BatchReqs(b0) = << >> /\ (T = {2} \/ T = {})
    BY <1>2, <1>6
  <2>2. PickAt(q, {2}) = <<q[2]>>
    BY PickOne
  <2>3. PickAt(q, {}) = << >>
    BY PickNone
  <2>4. QED
    BY <1>1, <1>2, <1>3, <2>1, <2>2, <2>3 DEF Shape
<1>7. QED
  BY <1>4, <1>5, <1>6

(* Every batch of a list runs a request.                                   *)
Full(batches) == \A k \in 1 .. Len(batches) : BatchReqs(batches[k]) # << >>

LEMMA NonEmptyFull ==
  ASSUME NEW b0, NEW b1
  PROVE  Full(NonEmpty(<<b0, b1>>)) /\ Full(NonEmpty(<<b0>>))
<1>1. PICK q : q = <<b0, b1>>
  OBVIOUS
<1>2. q \in Seq({b0, b1}) /\ Len(q) = 2 /\ DOMAIN q = 1 .. Len(q)
  BY <1>1
<1>3. PICK T : T = {k \in DOMAIN q : BatchReqs(q[k]) # << >>}
  OBVIOUS
<1>4. PICK e : e = PickAt(q, T)
  OBVIOUS
<1>5. e \in Seq({b0, b1}) /\ ToSet(e) = {q[p] : p \in T}
  <2>1. T \subseteq 1 .. Len(q)
    BY <1>2, <1>3
  <2>2. QED
    BY <1>2, <1>4, <2>1, PickMembers
<1>6. \A x \in ToSet(e) : BatchReqs(x) # << >>
  BY <1>3, <1>5
<1>7. \A k \in 1 .. Len(e) : e[k] \in ToSet(e)
  BY <1>5, Members
<1>8. Full(NonEmpty(<<b0, b1>>))
  BY <1>1, <1>3, <1>4, <1>6, <1>7 DEF NonEmpty, Full
<1>9. Full(NonEmpty(<<b0>>))
  BY NonEmptyOne DEF Full
<1>10. QED
  BY <1>8, <1>9

(* A batch is empty when it has none of the four kinds.                    *)
LEMMA NoneOfFour ==
  ASSUME NEW R, NEW c \in Seq(R), NEW p \in Seq(R), NEW g \in Seq(R), NEW d \in Seq(R)
  PROVE  BatchReqs(Batch(c, p, g, d)) = << >> <=>
           c = << >> /\ p = << >> /\ g = << >> /\ d = << >>
<1>1. BatchReqs(Batch(c, p, g, d)) = c \o p \o g \o d
  BY DEF Batch, BatchReqs
<1>2. c \o p \o g \o d = << >> <=> c \o p \o g = << >> /\ d = << >>
  <2>1. c \o p \o g \in Seq(R)
    OBVIOUS
  <2>2. QED
    BY <2>1
<1>3. c \o p \o g = << >> <=> c \o p = << >> /\ g = << >>
  <2>1. c \o p \in Seq(R)
    OBVIOUS
  <2>2. QED
    BY <2>1
<1>4. c \o p = << >> <=> c = << >> /\ p = << >>
  OBVIOUS
<1>5. QED
  BY <1>1, <1>2, <1>3, <1>4

LEMMA NoneOfThree ==
  ASSUME NEW R, NEW c \in Seq(R), NEW p \in Seq(R), NEW g \in Seq(R),
         NEW b, b = Batch(c, p, g, << >>), BatchReqs(b) = << >>
  PROVE  c = << >> /\ p = << >> /\ g = << >>
<1>1. BatchReqs(b) = c \o p \o g \o << >>
  BY DEF Batch, BatchReqs
<1>2. c \o p \in Seq(R) /\ c \o p \o g \in Seq(R)
  OBVIOUS
<1>3. c \o p \o g = << >>
  BY <1>1, <1>2
<1>4. c \o p = << >> /\ g = << >>
  BY <1>2, <1>3
<1>5. QED
  BY <1>4

LEMMA OnlyDecodes ==
  ASSUME NEW R, NEW d \in Seq(R), d # << >>
  PROVE  BatchReqs(Batch(<< >>, << >>, << >>, d)) # << >>
<1>1. BatchReqs(Batch(<< >>, << >>, << >>, d)) = << >> \o << >> \o << >> \o d
  BY DEF Batch, BatchReqs
<1>2. << >> \o << >> \o << >> = << >>
  OBVIOUS
<1>3. << >> \o d = d
  OBVIOUS
<1>4. QED
  BY <1>1, <1>2, <1>3

(* Steps 2 and 4 never take the last request of a batch: what is left is   *)
(* as wide as the threshold.                                               *)
LEMMA KeptSome ==
  ASSUME LinrThreshold # 0, NEW R, NEW c \in Seq(R), NEW p \in Seq(R), NEW g \in Seq(R),
         NEW d \in Seq(R), NEW b, b = Batch(c, p, g, d), BatchReqs(b) # << >>, NEW plen,
         NEW k \in 0 .. Len(c), KeptMin(b, plen) <= k
  PROVE  BatchReqs(KeepCprf(b, k)) # << >>
<1>1. \A j : KeepCprf(b, j) = Batch(First(c, j), p, g, d)
  BY DEF Batch, KeepCprf
<1>2. First(c, k) \in Seq(R) /\ Len(First(c, k)) = k
  BY CutMembers DEF First
<1>3. CASE ~(p = << >> /\ g = << >> /\ d = << >>)
  BY <1>1, <1>2, <1>3, NoneOfFour
<1>4. CASE p = << >> /\ g = << >> /\ d = << >>
  <2>1. c # << >>
    BY <1>4, NoneOfFour
  <2>2. PICK n \in Nat : n = Len(c) /\ n # 0
    BY <2>1
  <2>3. Width(KeepCprf(b, 0), plen) = 0
    <3>1. KeepCprf(b, 0) = Batch(<< >>, << >>, << >>, << >>)
      BY <1>1, <1>4, CutNone
    <3>2. Sum(<< >>, plen) = 0
      BY SumNone DEF Sum
    <3>3. QED
      BY <3>1, <3>2 DEF Width, Batch
  <2>4. b.cprf = c
    BY DEF Batch
  <2> DEFINE T == {0} \cup {j \in 1 .. Len(b.cprf) : Width(KeepCprf(b, j - 1), plen) < LinrThreshold}
  <2>5. KeptMin(b, plen) = Max(T)
    BY DEF KeptMin
  <2>6. 1 \in T
    <3>1. 1 \in 1 .. n /\ 1 - 1 = 0 /\ 0 < LinrThreshold
      BY <2>2, SchedulerAssumption
    <3>2. QED
      BY <2>2, <2>3, <2>4, <3>1
  <2>7. T \in SUBSET (0 .. n)
    BY <2>2, <2>4
  <2> HIDE DEF T
  <2>8. 1 <= Max(T) /\ Max(T) \in 0 .. n
    BY <2>6, <2>7, Greatest
  <2>9. k # 0
    BY <2>5, <2>8
  <2>10. First(c, k) # << >>
    BY <1>2, <2>9
  <2>11. QED
    BY <1>1, <1>2, <2>10, NoneOfFour
<1>5. QED
  BY <1>3, <1>4

(* The decodes of step 3 fit the room, and when there are any the second   *)
(* sub-batch has one.                                                      *)
LEMMA DecodesFit ==
  ASSUME NEW R, NEW cpuq \in Seq(R), NEW len, NEW room, NEW T \in CpuDecodes(cpuq, len, room),
         NEW B \in CpuSplits(T)
  PROVE  /\ T \subseteq DOMAIN cpuq /\ B \subseteq T
         /\ room \in Nat => Cardinality(T \ B) + Cardinality(B) <= room
         /\ T # {} => PickAt(cpuq, B) # << >>
<1>1. T \subseteq DOMAIN cpuq
  <2>1. CASE numGpuBlocks = 0
    BY <2>1 DEF CpuDecodes
  <2>2. CASE numGpuBlocks # 0
    BY <2>2 DEF CpuDecodes
  <2>3. QED
    BY <2>1, <2>2
<1>2. B \subseteq T
  BY DEF CpuSplits
<1>3. DOMAIN cpuq = 1 .. Len(cpuq) /\ Len(cpuq) \in Nat
  OBVIOUS
<1>4. IsFiniteSet(T) /\ IsFiniteSet(B)
  <2>1. 1 \in Int /\ Len(cpuq) \in Int
    BY <1>3
  <2>2. IsFiniteSet(1 .. Len(cpuq))
    BY <2>1, FS_Interval
  <2>3. T \in SUBSET (1 .. Len(cpuq)) /\ B \in SUBSET (1 .. Len(cpuq))
    BY <1>1, <1>2, <1>3
  <2>4. QED
    BY ONLY <2>2, <2>3, FS_Subset
<1>5. ASSUME room \in Nat PROVE Cardinality(T) <= room
  <2>1. CASE numGpuBlocks = 0
    <3>1. T \subseteq 1 .. room
      BY <1>3, <1>5, <2>1 DEF CpuDecodes
    <3>2. IsFiniteSet(1 .. room) /\ Cardinality(1 .. room) = room
      BY <1>5, FS_Interval
    <3>3. QED
      BY <3>1, <3>2, FS_Subset
  <2>2. CASE numGpuBlocks # 0
    BY <2>2 DEF CpuDecodes
  <2>3. QED
    BY <2>1, <2>2
<1>6. Cardinality(T \ B) + Cardinality(B) = Cardinality(T)
  <2>1. T \cap B = B
    BY <1>2
  <2>2. Cardinality(T \ B) = Cardinality(T) - Cardinality(T \cap B)
    BY <1>4, FS_Difference
  <2>3. PICK x, y, z : x = Cardinality(T) /\ y = Cardinality(B) /\ z = Cardinality(T \ B)
    OBVIOUS
  <2>4. x \in Nat /\ y \in Nat
    BY <1>4, <2>3, FS_CardinalityType
  <2>5. z = x - y
    BY <2>1, <2>2, <2>3
  <2>6. z + y = x
    BY <2>4, <2>5
  <2>7. QED
    BY <2>3, <2>6
<1>7. ASSUME T # {} PROVE PickAt(cpuq, B) # << >>
  <2>1. T \in SUBSET Nat
    BY <1>1, <1>3
  <2>2. PICK i \in T : \A j \in T : i <= j
    BY <1>7, <2>1, Least
  <2>3. i \in B
    BY <2>2 DEF CpuSplits
  <2>4. PickAt(cpuq, B) \in Seq(R) /\ ToSet(PickAt(cpuq, B)) = {cpuq[q] : q \in B}
    BY <1>1, <1>2, <1>3, PickMembers
  <2>5. cpuq[i] \in ToSet(PickAt(cpuq, B))
    BY <2>3, <2>4
  <2>6. QED
    BY <2>4, <2>5, Members
<1>8. QED
  BY <1>1, <1>2, <1>5, <1>6, <1>7

LEMMA DecideShape ==
  ASSUME numGpuBlocks \in Nat, NEW R, NEW toGpu \in Seq(R), NEW toCpu \in Seq(R),
         NEW gpuq \in Seq(R), NEW cpuq \in Seq(R), NEW room, NEW s,
         NEW batches \in Decide(toGpu, toCpu, gpuq, cpuq, room, s)
  PROVE  \E k \in 0 .. Len(toCpu), A, B \in SUBSET DOMAIN cpuq :
           /\ A \cap B = {}
           /\ Shape(batches, Main(toGpu, toCpu, gpuq, cpuq, k, A), Second(cpuq, B))
           /\ room \in Nat => Cardinality(A) + Cardinality(B) <= room
           /\ LinrThreshold # 0 => Full(batches)
<1> DEFINE Decided(k, A, B) ==
             /\ A \cap B = {}
             /\ Shape(batches, Main(toGpu, toCpu, gpuq, cpuq, k, A), Second(cpuq, B))
             /\ room \in Nat => Cardinality(A) + Cardinality(B) <= room
             /\ LinrThreshold # 0 => Full(batches)
           all == Batch(toCpu, toGpu, gpuq, << >>)
           m == KeptMin(all, s.plen)
           b0(A) == [all EXCEPT !.cdec = PickAt(cpuq, A)]
           b1(B) == Batch(<< >>, << >>, << >>, PickAt(cpuq, B))
<1>1. all.cprf = toCpu /\ Len(toCpu) \in Nat
  BY DEF Batch
<1>2. m \in 0 .. Len(toCpu)
  BY <1>1, KeptMinWithin
<1>3. \A k : KeepCprf(all, k) = Main(toGpu, toCpu, gpuq, cpuq, k, {})
  BY PickNone DEF Batch, KeepCprf, Main
<1>4. \A A : b0(A) = Batch(toCpu, toGpu, gpuq, PickAt(cpuq, A))
  <2> TAKE A
  <2>1. PICK d : d = PickAt(cpuq, A)
    OBVIOUS
  <2>2. [Batch(toCpu, toGpu, gpuq, << >>) EXCEPT !.cdec = d] = Batch(toCpu, toGpu, gpuq, d)
    BY ONLY DEF Batch
  <2>3. QED
    BY <2>1, <2>2
<1>5. \A k, A : KeepCprf(b0(A), k) = Main(toGpu, toCpu, gpuq, cpuq, k, A)
  <2> TAKE k, A
  <2>1. PICK b : b = b0(A)
    OBVIOUS
  <2>2. b = Batch(toCpu, toGpu, gpuq, PickAt(cpuq, A))
    BY <1>4, <2>1
  <2>3. KeepCprf(b, k) = Main(toGpu, toCpu, gpuq, cpuq, k, A)
    BY <2>2 DEF Batch, KeepCprf, Main
  <2>4. QED
    BY <2>1, <2>3
<1>6. First(toCpu, Len(toCpu)) = toCpu
  <2>1. Len(toCpu) \in 0 .. Len(toCpu)
    BY <1>1
  <2>2. PICK f : f = First(toCpu, Len(toCpu))
    OBVIOUS
  <2>3. f \in Seq(R) /\ Len(f) = Len(toCpu) /\ \A i \in 1 .. Len(toCpu) : f[i] = toCpu[i]
    BY <2>1, <2>2, CutMembers DEF First
  <2>4. f = toCpu
    BY <2>3, SeqEqual
  <2>5. QED
    BY <2>2, <2>4
<1>7. \A A : b0(A) = Main(toGpu, toCpu, gpuq, cpuq, Len(toCpu), A)
  BY <1>6 DEF Batch, Main
<1>8. \/ BatchReqs(all) = << >> /\ batches = << >>
      \/ /\ BatchReqs(all) # << >> \/ numGpuBlocks = 0
         /\ \E T \in CpuDecodes(cpuq, s.len, room) : \E second \in CpuSplits(T) :
              batches \in Lists(all, cpuq, T, second, s.plen)
  <2> HIDE DEF all
  <2>1. CASE BatchReqs(all) = << >> /\ numGpuBlocks > 0
    BY <2>1 DEF Decide, all
  <2>2. CASE ~(BatchReqs(all) = << >> /\ numGpuBlocks > 0)
    BY <2>2 DEF Decide, all
  <2>3. QED
    BY <2>1, <2>2
<1>9. Cardinality({}) + Cardinality({}) = 0 /\ \A n \in Nat : 0 <= n
  <2>1. Cardinality({}) = 0
    BY FS_EmptySet
  <2>2. QED
    BY <2>1
<1>10. ASSUME BatchReqs(all) = << >>, batches = << >>
       PROVE  \E k \in 0 .. Len(toCpu), A, B \in SUBSET DOMAIN cpuq : Decided(k, A, B)
  <2>1. PICK b : b = all
    OBVIOUS
  <2>2. toCpu = << >> /\ toGpu = << >> /\ gpuq = << >>
    <3>1. BatchReqs(b) = << >> /\ b = Batch(toCpu, toGpu, gpuq, << >>)
      BY <1>10, <2>1
    <3>2. QED
      BY <3>1, NoneOfThree
  <2>3. all = Main(toGpu, toCpu, gpuq, cpuq, 0, {})
    <3>1. First(toCpu, 0) = << >>
      BY CutNone
    <3>2. QED
      BY <2>2, <3>1, PickNone DEF Main
  <2> HIDE DEF all
  <2>4. Shape(batches, Main(toGpu, toCpu, gpuq, cpuq, 0, {}), Second(cpuq, {}))
    BY <1>10, <2>3 DEF Shape
  <2>5. Full(batches)
    BY <1>10 DEF Full
  <2>6. Decided(0, {}, {})
    BY <1>9, <2>4, <2>5
  <2>7. 0 \in 0 .. Len(toCpu)
    BY <1>1
  <2>8. QED
    BY <2>6, <2>7
<1>11. ASSUME NEW T \in CpuDecodes(cpuq, s.len, room), NEW second \in CpuSplits(T),
              BatchReqs(all) # << >> \/ numGpuBlocks = 0,
              batches \in Lists(all, cpuq, T, second, s.plen)
       PROVE  \E k \in 0 .. Len(toCpu), A, B \in SUBSET DOMAIN cpuq : Decided(k, A, B)
  <2> DEFINE A == T \ second
  <2>1. /\ T \subseteq DOMAIN cpuq /\ second \subseteq T
        /\ room \in Nat => Cardinality(A) + Cardinality(second) <= room
        /\ T # {} => PickAt(cpuq, second) # << >>
    BY DecodesFit
  <2>2. A \in SUBSET DOMAIN cpuq /\ second \in SUBSET DOMAIN cpuq /\ A \cap second = {}
    BY <2>1
  <2>3. b1(second) = Second(cpuq, second)
    BY DEF Second
  <2>4. CASE batches = NonEmpty(<<b0(A), b1(second)>>)
    <3> HIDE DEF b0, A, b1
    <3>1. Shape(batches, b0(A), b1(second)) /\ Full(batches)
      BY <2>4, NonEmptyTwo, NonEmptyFull
    <3>2. Len(toCpu) \in 0 .. Len(toCpu)
      BY <1>1
    <3>3. Decided(Len(toCpu), A, second)
      BY <1>7, <2>1, <2>2, <2>3, <3>1
    <3>4. QED
      BY <2>2, <3>2, <3>3
  <2>5. CASE batches = <<KeepCprf(all, m)>> /\ BatchReqs(all) # << >>
    <3>1. LinrThreshold # 0 => BatchReqs(KeepCprf(all, m)) # << >>
      <4>1. << >> \in Seq(R) /\ m <= m /\ m \in 0 .. Len(toCpu)
        BY <1>2
      <4>2. PICK b, e : b = all /\ e = << >>
        OBVIOUS
      <4>3. b = Batch(toCpu, toGpu, gpuq, e) /\ e \in Seq(R) /\ BatchReqs(b) # << >>
        BY <2>5, <4>1, <4>2
      <4> HIDE DEF all
      <4>4. QED
        BY <4>1, <4>2, <4>3, KeptSome DEF m
    <3> HIDE DEF all, m
    <3>2. Full(batches) \/ LinrThreshold = 0
      BY <2>5, <3>1 DEF Full
    <3>3. Shape(batches, Main(toGpu, toCpu, gpuq, cpuq, m, {}), Second(cpuq, {}))
      BY <1>3, <2>5 DEF Shape
    <3>4. Decided(m, {}, {})
      BY <1>9, <3>2, <3>3
    <3>5. QED
      BY <1>2, <3>4
  <2>6. ASSUME NEW k \in KeptMin(b0(A), s.plen) .. Len(toCpu), T # {}, BatchReqs(all) # << >>,
               batches = <<KeepCprf(b0(A), k), b1(second)>>
        PROVE  \E c \in 0 .. Len(toCpu), X, Y \in SUBSET DOMAIN cpuq : Decided(c, X, Y)
    <3>1. b0(A).cprf = toCpu
      BY DEF Batch
    <3>2. KeptMin(b0(A), s.plen) \in 0 .. Len(toCpu)
      <4> HIDE DEF b0
      <4>1. QED
        BY <3>1, KeptMinWithin
    <3>3. PICK d : d = PickAt(cpuq, A)
      OBVIOUS
    <3>4. d \in Seq(R)
      <4>1. A \subseteq 1 .. Len(cpuq)
        BY <2>2
      <4> HIDE DEF A
      <4>2. QED
        BY <3>3, <4>1, PickMembers
    <3>5. BatchReqs(Batch(toCpu, toGpu, gpuq, d)) # << >>
      <4>1. << >> \in Seq(R)
        OBVIOUS
      <4>2. ~(toCpu = << >> /\ toGpu = << >> /\ gpuq = << >>)
        BY <2>6, <4>1, NoneOfFour
      <4>3. QED
        BY <3>4, <4>2, NoneOfFour
    <3> HIDE DEF b0, A, b1, all
    <3>6. k \in 0 .. Len(toCpu) /\ KeptMin(b0(A), s.plen) <= k
      BY <1>1, <3>2
    <3>7. LinrThreshold # 0 => BatchReqs(KeepCprf(b0(A), k)) # << >>
      <4>1. PICK b : b = b0(A)
        OBVIOUS
      <4>2. b = Batch(toCpu, toGpu, gpuq, d) /\ BatchReqs(b) # << >>
        BY <1>4, <3>3, <3>5, <4>1
      <4>3. KeptMin(b, s.plen) <= k
        BY <3>6, <4>1
      <4>4. LinrThreshold # 0 => BatchReqs(KeepCprf(b, k)) # << >>
        BY <3>4, <3>6, <4>2, <4>3, KeptSome
      <4>5. QED
        BY <4>1, <4>4
    <3>8. BatchReqs(b1(second)) # << >>
      <4>1. PICK e : e = PickAt(cpuq, second)
        OBVIOUS
      <4>2. e # << >> /\ e \in Seq(R)
        BY <2>1, <2>2, <2>6, <4>1, PickMembers
      <4>3. BatchReqs(Batch(<< >>, << >>, << >>, e)) # << >>
        BY <4>2, OnlyDecodes
      <4>4. QED
        BY <4>1, <4>3 DEF b1
    <3>9. Full(batches) \/ LinrThreshold = 0
      BY <2>6, <3>7, <3>8 DEF Full
    <3>10. Shape(batches, Main(toGpu, toCpu, gpuq, cpuq, k, A), Second(cpuq, second))
      BY <1>5, <2>3, <2>6 DEF Shape
    <3>11. Decided(k, A, second)
      BY <2>1, <2>2, <3>9, <3>10
    <3>12. QED
      BY <2>2, <3>6, <3>11
  <2>7. \/ batches = NonEmpty(<<b0(A), b1(second)>>)
        \/ batches = <<KeepCprf(all, m)>> /\ BatchReqs(all) # << >>
        \/ /\ T # {} /\ BatchReqs(all) # << >>
           /\ \E k \in KeptMin(b0(A), s.plen) .. Len(toCpu) :
                batches = <<KeepCprf(b0(A), k), b1(second)>>
    <3> HIDE DEF all
    <3>1. all.cprf = toCpu
      BY <1>1
    <3>2. CASE numGpuBlocks = 0
      BY <1>11, <3>2 DEF Lists
    <3>3. CASE numGpuBlocks # 0
      BY <1>11, <3>1, <3>3 DEF Lists
    <3>4. QED
      BY <3>2, <3>3
  <2> HIDE DEF A, b0, b1, m, all, Decided
  <2>8. QED
    BY <2>4, <2>5, <2>6, <2>7
<1>12. \E k \in 0 .. Len(toCpu), A, B \in SUBSET DOMAIN cpuq : Decided(k, A, B)
  <2> HIDE DEF all, Decided, b0, b1, m
  <2>1. CASE BatchReqs(all) = << >> /\ batches = << >>
    BY <1>10, <2>1
  <2>2. CASE /\ BatchReqs(all) # << >> \/ numGpuBlocks = 0
             /\ \E T \in CpuDecodes(cpuq, s.len, room) : \E second \in CpuSplits(T) :
                  batches \in Lists(all, cpuq, T, second, s.plen)
    <3>1. PICK T \in CpuDecodes(cpuq, s.len, room) : \E second \in CpuSplits(T) :
            batches \in Lists(all, cpuq, T, second, s.plen)
      BY <2>2
    <3>2. PICK second \in CpuSplits(T) : batches \in Lists(all, cpuq, T, second, s.plen)
      BY <3>1
    <3>3. QED
      BY <1>11, <2>2, <3>2
  <2>3. QED
    BY <1>8, <2>1, <2>2
<1>13. QED
  BY <1>12

(* What a list of that shape launches: the prompts of its first batch.     *)
LEMMA ShapeLaunch ==
  ASSUME NEW R, NEW p \in Seq(R), NEW c \in Seq(R), NEW gq \in Seq(R), NEW d, NEW cq, NEW B,
         NEW batches, Shape(batches, Batch(c, p, gq, d), Second(cq, B))
  PROVE  /\ NumPrefs(batches) = Len(p) + Len(c)
         /\ (IF batches = << >> THEN << >> ELSE batches[1].gprf) = p
         /\ (IF batches = << >> THEN << >> ELSE batches[1].cprf) = c
<1>1. PICK b0 : b0 = Batch(c, p, gq, d)
  OBVIOUS
<1>2. PICK b1 : b1 = Second(cq, B)
  OBVIOUS
<1>3. b0.cprf = c /\ b0.gprf = p /\ b1.cprf = << >> /\ b1.gprf = << >>
  BY <1>1, <1>2 DEF Batch, Second
<1>4. Len(c) \in Nat /\ Len(p) \in Nat /\ Len(<< >>) = 0 /\ Len(c) + Len(p) = Len(p) + Len(c)
  OBVIOUS
<1>5. CASE batches = <<b0>>
  <2>1. NumPrefs(batches) = Len(p) + Len(c)
    BY <1>3, <1>4, <1>5, PrefsOfOne
  <2>2. batches # << >> /\ batches[1] = b0
    BY <1>5
  <2>3. QED
    BY <1>3, <2>1, <2>2
<1>6. CASE batches = <<b0, b1>>
  <2>1. NumPrefs(batches) = Len(p) + Len(c)
    BY <1>3, <1>4, <1>6, PrefsOfTwo
  <2>2. batches # << >> /\ batches[1] = b0
    BY <1>6
  <2>3. QED
    BY <1>3, <2>1, <2>2
<1>7. CASE BatchReqs(b0) = << >> /\ (batches = << >> \/ batches = <<b1>>)
  <2>1. c = << >> /\ p = << >>
    <3>1. c \o p \o gq \o d = << >>
      BY <1>1, <1>7 DEF Batch, BatchReqs
    <3>2. Len(c \o p \o gq) = Len(c) + Len(p) + Len(gq)
      OBVIOUS
    <3>3. QED
      BY <3>1, <3>2
  <2>2. CASE batches = << >>
    BY <1>4, <2>1, <2>2, PrefsOfNone
  <2>3. CASE batches = <<b1>>
    <3>1. NumPrefs(batches) = 0
      <4>1. /\ Len(b1.cprf) = 0 /\ Len(b1.gprf) = 0
            /\ Len(b1.cprf) \in Nat /\ Len(b1.gprf) \in Nat
        BY <1>3, <1>4
      <4>2. NumPrefs(<<b1>>) = Len(b1.cprf) + Len(b1.gprf)
        BY <4>1, PrefsOfOne
      <4>3. QED
        BY <2>3, <4>1, <4>2
    <3>2. batches # << >> /\ batches[1] = b1
      BY <2>3
    <3>3. QED
      BY <1>3, <1>4, <2>1, <3>1, <3>2
  <2>4. QED
    BY <1>7, <2>2, <2>3
<1>8. QED
  BY <1>1, <1>2, <1>5, <1>6, <1>7 DEF Shape

-----------------------------------------------------------------------------
(* Moving requests between the devices: gpuq and cpuq become gq and cq     *)
(* when out goes to the CPU and back comes to the GPU.                     *)
Moves(R, gpuq, cpuq, out, back, gq, cq) ==
  /\ out \in Seq(R) /\ back \in Seq(R) /\ gq \in Seq(R) /\ cq \in Seq(R)
  /\ IsInjective(out) /\ IsInjective(back) /\ IsInjective(gq) /\ IsInjective(cq)
  /\ ToSet(out) \subseteq ToSet(gpuq)
  /\ ToSet(back) \subseteq ToSet(cpuq) \cup ToSet(out)
  /\ ToSet(gq) = (ToSet(gpuq) \ ToSet(out)) \cup ToSet(back)
  /\ ToSet(cq) = (ToSet(cpuq) \cup ToSet(out)) \ ToSet(back)

LEMMA MoveVictims ==
  ASSUME NEW R, NEW gpuq \in Seq(R), NEW cpuq \in Seq(R),
         IsInjective(gpuq), IsInjective(cpuq), ToSet(gpuq) \cap ToSet(cpuq) = {},
         NEW m \in 0 .. Len(gpuq),
         NEW out, out = After(gpuq, m) \/ out = Reverse(After(gpuq, m)),
         NEW v, v = After(gpuq, m) \/ v = Reverse(After(gpuq, m)),
         NEW k \in 0 .. Len(v \o cpuq)
  PROVE  Moves(R, gpuq, cpuq, out, First(v \o cpuq, k),
               First(gpuq, m) \o First(v \o cpuq, k), After(v \o cpuq, k))
<1>1. PICK f, a : f = First(gpuq, m) /\ a = After(gpuq, m)
  OBVIOUS
<1>2. /\ f \in Seq(R) /\ a \in Seq(R) /\ IsInjective(f) /\ IsInjective(a)
      /\ ToSet(gpuq) = ToSet(f) \cup ToSet(a) /\ ToSet(f) \cap ToSet(a) = {}
  BY <1>1, CutMembers DEF First, After
<1>3. Reverse(a) \in Seq(R) /\ ToSet(Reverse(a)) = ToSet(a) /\ IsInjective(Reverse(a))
  BY <1>2, ReverseMembers
<1>4. out \in Seq(R) /\ ToSet(out) = ToSet(a) /\ IsInjective(out)
  BY <1>1, <1>2, <1>3
<1>5. v \in Seq(R) /\ ToSet(v) = ToSet(a) /\ IsInjective(v)
  BY <1>1, <1>2, <1>3
<1>6. PICK off : off = v \o cpuq
  OBVIOUS
<1>7. off \in Seq(R) /\ ToSet(off) = ToSet(a) \cup ToSet(cpuq) /\ IsInjective(off)
  <2>1. ToSet(v) \cap ToSet(cpuq) = {}
    BY <1>2, <1>5
  <2>2. /\ v \o cpuq \in Seq(R) /\ ToSet(v \o cpuq) = ToSet(v) \cup ToSet(cpuq)
        /\ IsInjective(v \o cpuq)
    BY <1>5, <2>1, ConcatMembers
  <2>3. QED
    BY <1>5, <1>6, <2>2
<1>8. PICK b, r : b = First(off, k) /\ r = After(off, k)
  OBVIOUS
<1>9. /\ b \in Seq(R) /\ r \in Seq(R) /\ IsInjective(b) /\ IsInjective(r)
      /\ ToSet(off) = ToSet(b) \cup ToSet(r) /\ ToSet(b) \cap ToSet(r) = {}
  <2>1. k \in 0 .. Len(off)
    BY <1>6
  <2>2. QED
    BY <1>7, <1>8, <2>1, CutMembers DEF First, After
<1>10. /\ f \o b \in Seq(R) /\ ToSet(f \o b) = ToSet(f) \cup ToSet(b)
       /\ IsInjective(f \o b)
  <2>1. ToSet(f) \cap ToSet(b) = {}
    BY <1>2, <1>7, <1>9
  <2>2. QED
    BY <1>2, <1>9, <2>1, ConcatMembers
<1>11. Moves(R, gpuq, cpuq, out, b, f \o b, r)
  <2>1. ToSet(out) \subseteq ToSet(gpuq) /\ ToSet(b) \subseteq ToSet(cpuq) \cup ToSet(out)
    BY <1>2, <1>4, <1>7, <1>9
  <2>2. ToSet(f) = ToSet(gpuq) \ ToSet(out)
    BY <1>2, <1>4
  <2>3. ToSet(r) = (ToSet(cpuq) \cup ToSet(out)) \ ToSet(b)
    BY <1>4, <1>7, <1>9
  <2>4. QED
    BY <1>4, <1>9, <1>10, <2>1, <2>2, <2>3 DEF Moves
<1>12. QED
  BY <1>1, <1>6, <1>8, <1>11

-----------------------------------------------------------------------------
(* What get_next_batch promises: requests moved between the devices, then  *)
(* the first n waiting prompts added, p to the GPU's queue and c to the    *)
(* CPU's, and batches of exactly these with decodes of the moved queues.   *)
Plan(R, s, res, n, p, c, gq, cq, A, B) ==
  /\ n \in 0 .. Len(s.waiting) /\ p \in Seq(R) /\ c \in Seq(R)
  /\ p \o c = First(s.waiting, n)
  /\ Moves(R, s.gpuq, s.cpuq, res.swapOut, res.swapIn, gq, cq)
  /\ A \in SUBSET DOMAIN cq /\ B \in SUBSET DOMAIN cq /\ A \cap B = {}
  /\ Shape(res.batches, Batch(c, p, gq, PickAt(cq, A)), Second(cq, B))
  /\ NumPrefs(res.batches) = n /\ (res.ok => n = 0 \/ n <= Len(s.avail))
  /\ res.gpuq = gq \o p /\ res.cpuq = cq \o c

(* Requests that the GPU could hold one at a time, and a batch that may    *)
(* run some.                                                               *)
Feasible(R, s) ==
  /\ numGpuBlocks \in {0, NumGpu} /\ (numGpuBlocks = 0 => s.gpuq = << >>)
  /\ MaxBatch # 0 /\ LinrThreshold # 0
  /\ Measured(R, s.len) /\ Measured(R, s.plen)
  /\ \A x \in ToSet(s.gpuq) : BlockNeeded(s.len[x]) <= NumGpu

(* What a plan costs then: swaps go one way, the GPU holds the requests    *)
(* that are left to it and the layer of prompts for the CPU, the batches   *)
(* keep to the budget, each runs something, and nothing is swapped for no  *)
(* batch.                                                                  *)
Paid(R, s, res, n, p, c, gq, A, B) ==
  /\ res.swapOut = << >> \/ res.swapIn = << >>
  /\ Blocks(gq, s.len) + Blocks(p, s.len) <= numGpuBlocks
  /\ Blocks(c, s.len) <= NumGpu
  /\ \E room \in Nat : /\ Cardinality(A) + Cardinality(B) <= room
                       /\ Len(gq) + n + room <= MaxBatch
                       /\ Len(gq) + Sum(First(s.waiting, n), s.plen) + room <= MaxTokens
  /\ Full(res.batches)
  /\ res.batches = << >> => res.swapOut = << >> /\ res.swapIn = << >>
  /\ n <= Len(s.avail) /\ ~CdecTooLong(res.batches, s.len) => res.ok

Planned(R, s, res) ==
  \E n, p, c, gq, cq, A, B :
    /\ Plan(R, s, res, n, p, c, gq, cq, A, B)
    /\ Feasible(R, s) => Paid(R, s, res, n, p, c, gq, A, B)

(* The queues of a scheduler that has lost nothing.                        *)
Orderly(R, s) ==
  /\ s.waiting \in Seq(R) /\ s.gpuq \in Seq(R) /\ s.cpuq \in Seq(R)
  /\ IsInjective(s.waiting) /\ IsInjective(s.gpuq) /\ IsInjective(s.cpuq)
  /\ ToSet(s.gpuq) \cap ToSet(s.cpuq) = {}
  /\ ToSet(s.waiting) \cap (ToSet(s.gpuq) \cup ToSet(s.cpuq)) = {}

(* Steps 2 and 3: nothing comes back to the GPU when something has left    *)
(* it, and what then runs there fits its blocks and the batch.             *)
LEMMA NewGpuFits ==
  ASSUME numGpuBlocks \in Nat, NEW R, NEW s, Orderly(R, s), Measured(R, s.len)
  PROVE  LET m == Staying(s)
             stay == First(s.gpuq, m)
             off == After(s.gpuq, m) \o s.cpuq
             k == Returning(stay, off, s.len)
             gq == stay \o First(off, k)
         IN /\ m < Len(s.gpuq) => k = 0
            /\ Blocks(gq, s.len) <= numGpuBlocks
            /\ WithinBudget(Len(gq), Len(gq))
<1>1. PICK q, c, len, m, f, v, o :
        /\ q = s.gpuq /\ c = s.cpuq /\ len = s.len /\ m = Staying(s)
        /\ f = First(q, m) /\ v = After(q, m) /\ o = v \o c
  OBVIOUS
<1>2. PICK k, b : k = Returning(f, o, len) /\ b = First(o, k)
  OBVIOUS
<1>3. /\ Line(R, q) /\ m \in 0 .. Len(q) /\ Len(q) \in Nat
      /\ Line(R, c) /\ ToSet(q) \cap ToSet(c) = {}
  <2>1. s.gpuq \in Seq(R)
    BY DEF Orderly
  <2>2. m \in 0 .. Len(q)
    BY <1>1, <2>1, StayingWithin
  <2>3. QED
    BY <1>1, <2>2 DEF Orderly, Line
<1>4. /\ Line(R, f) /\ Len(f) = m /\ Line(R, v) /\ Len(v) = Len(q) - m
      /\ \A i \in 1 .. Len(q) - m : v[i] = q[m + i]
      /\ Parts(ToSet(q), ToSet(f), ToSet(v))
  <2>1. /\ Line(R, f) /\ Line(R, v) /\ Parts(ToSet(q), ToSet(f), ToSet(v))
    BY ONLY <1>1, <1>3, CutInto
  <2>2. q \in Seq(R) /\ f = SubSeq(q, 1, m) /\ v = SubSeq(q, m + 1, Len(q))
    BY <1>1, <1>3, LineIs DEF First, After
  <2>3. Len(f) = m /\ Len(v) = Len(q) - m /\ \A i \in 1 .. Len(q) - m : v[i] = q[m + i]
    BY <1>3, <2>2
  <2>4. QED
    BY <2>1, <2>3
<1>5. Line(R, o) /\ Len(o) \in Nat /\ ToSet(o) \cap ToSet(f) = {}
  <2>1. ToSet(v) \cap ToSet(c) = {} /\ ToSet(f) \cap ToSet(c) = {} /\ ToSet(v) \cap ToSet(f) = {}
    BY <1>3, <1>4 DEF Parts
  <2>2. Line(R, o) /\ Parts(ToSet(o), ToSet(v), ToSet(c))
    BY ONLY <1>1, <1>3, <1>4, <2>1, JoinedOf
  <2>3. QED
    BY <2>1, <2>2, LineIs DEF Parts
<1>6. /\ k \in 0 .. Len(o)
      /\ \A i \in 1 .. k : /\ Blocks(f, len) + Blocks(First(o, i), len) <= SwapInLimit
                           /\ WithinBudget(m + i, m + i)
  <2> DEFINE fits == {i \in DOMAIN o :
                        /\ Blocks(f, len) + Blocks(First(o, i), len) <= SwapInLimit
                        /\ WithinBudget(Len(f) + i, Len(f) + i)}
  <2>1. k = LongestPrefix(o, fits)
    BY <1>2 DEF Returning
  <2>2. \A i \in fits : /\ Blocks(f, len) + Blocks(First(o, i), len) <= SwapInLimit
                        /\ WithinBudget(m + i, m + i)
    BY <1>4
  <2> HIDE DEF fits
  <2>3. k \in 0 .. Len(o) /\ \A i \in 1 .. k : i \in fits
    BY <1>5, <2>1, LineIs, PrefixWithin, PrefixFits
  <2>4. QED
    BY <2>2, <2>3
<1>7. /\ WithinBudget(m, m) /\ Blocks(f, len) <= numGpuBlocks
      /\ m < Len(q) => ~(/\ WithinBudget(m + 1, m + 1)
                         /\ Blocks(First(q, m + 1), len) <= numGpuBlocks)
  BY <1>1, <1>3, LineIs, StayingFits
<1>8. Measured(R, len) /\ Blocks(f, len) \in Nat
  BY <1>1, <1>4, LineCosts
<1>9. SwapInLimit <= numGpuBlocks /\ SwapInLimit \in Nat
  BY SwapInBelow
<1>10. ASSUME m < Len(q), k # 0 PROVE FALSE
  <2>1. 1 \in 1 .. k /\ 1 \in (0 + 1) .. Len(o) /\ m + 1 \in (0 + 1) .. Len(q) /\ 1 \in 1 .. Len(q) - m
    BY <1>3, <1>5, <1>6, <1>10
  <2>2. /\ Blocks(f, len) + Blocks(First(o, 1), len) <= SwapInLimit
        /\ WithinBudget(m + 1, m + 1)
    BY <1>6, <2>1
  <2>3. o[1] = q[m + 1]
    <3>1. v[1] = q[m + 1] /\ 1 \in 1 .. Len(v)
      BY <1>4, <2>1
    <3>2. v \in Seq(R) /\ c \in Seq(R)
      BY <1>3, <1>4, LineIs
    <3>3. (v \o c)[1] = v[1]
      BY <3>1, <3>2
    <3>4. QED
      BY <1>1, <3>1, <3>3
  <2>4. PICK x : x = q[m + 1] /\ x \in R
    BY <1>3, <2>1, LineIs
  <2>5. Blocks(First(q, m + 1), len) = Blocks(f, len) + BlockNeeded(len[x])
    <3>1. 0 \in 0 .. Len(q)
      BY <1>3
    <3>2. PICK n : n = m + 1 /\ n \in (0 + 1) .. Len(q) /\ n - 1 = m
      BY <1>3, <2>1
    <3>3. Blocks(SubSeq(q, 0 + 1, n), len)
            = Blocks(SubSeq(q, 0 + 1, n - 1), len) + BlockNeeded(len[q[n]])
      BY ONLY <1>3, <1>8, <3>1, <3>2, SliceCost
    <3>4. QED
      BY <1>1, <2>4, <3>2, <3>3 DEF First
  <2>6. Blocks(First(o, 1), len) = BlockNeeded(len[x])
    <3>1. 0 \in 0 .. Len(o)
      BY <1>5
    <3>2. PICK n : n = 1 /\ n \in (0 + 1) .. Len(o) /\ n - 1 = 0
      BY <2>1
    <3>3. Blocks(SubSeq(o, 0 + 1, n), len)
            = Blocks(SubSeq(o, 0 + 1, n - 1), len) + BlockNeeded(len[o[n]])
      BY ONLY <1>5, <1>8, <3>1, <3>2, SliceCost
    <3>4. Blocks(SubSeq(o, 0 + 1, n - 1), len) = 0
      <4>1. First(o, 0) = << >>
        BY <1>5, LineIs, CutNone
      <4>2. SubSeq(o, 0 + 1, n - 1) = First(o, 0)
        BY <3>2 DEF First
      <4>3. QED
        BY <4>1, <4>2, NoBlocks
    <3>5. BlockNeeded(len[o[n]]) \in Nat /\ len[o[n]] = len[x]
      BY <1>8, <2>3, <2>4, <3>2, BlockNeededHolds DEF Measured
    <3>6. QED
      BY <3>2, <3>3, <3>4, <3>5 DEF First
  <2>7. Blocks(First(q, m + 1), len) <= SwapInLimit
    BY <2>2, <2>5, <2>6
  <2>8. Blocks(First(q, m + 1), len) <= numGpuBlocks
    <3>1. BlockNeeded(len[x]) \in Nat
      BY <1>8, <2>4, BlockNeededHolds DEF Measured
    <3>2. QED
      BY <1>8, <1>9, <2>5, <2>7, <3>1
  <2>9. QED
    BY <1>7, <1>10, <2>2, <2>8
<1>11. Blocks(f \o b, len) <= numGpuBlocks /\ WithinBudget(Len(f \o b), Len(f \o b))
  <2>1. CASE k = 0
    <3>1. b = << >>
      BY <1>2, <1>5, <2>1, LineIs, CutNone
    <3>2. f \o b = f
      BY <1>4, <3>1, LineIs
    <3>3. QED
      BY <1>4, <1>7, <3>2
  <2>2. CASE k # 0
    <3>1. Line(R, b) /\ Len(b) = k /\ ToSet(b) \subseteq ToSet(o)
      <4>1. PICK r : r = After(o, k)
        OBVIOUS
      <4>2. Line(R, b) /\ Len(b) = k /\ Parts(ToSet(o), ToSet(b), ToSet(r))
        BY ONLY <1>2, <1>5, <1>6, <4>1, CutInto
      <4>3. QED
        BY <4>2 DEF Parts
    <3>2. ToSet(f) \cap ToSet(b) = {}
      BY <1>5, <3>1
    <3>3. PICK u : u = f \o b
      OBVIOUS
    <3>4. Line(R, u) /\ Len(u) = Len(f) + Len(b) /\ Parts(ToSet(u), ToSet(f), ToSet(b))
      <4>1. Line(R, u) /\ Parts(ToSet(u), ToSet(f), ToSet(b))
        BY ONLY <1>4, <3>1, <3>2, <3>3, JoinedOf
      <4>2. f \in Seq(R) /\ b \in Seq(R)
        BY <1>4, <3>1, LineIs
      <4>3. QED
        BY <3>3, <4>1, <4>2
    <3>5. Blocks(u, len) = Blocks(f, len) + Blocks(b, len)
      BY ONLY <1>4, <1>8, <3>1, <3>4, BlocksJoin
    <3>6. Len(u) = m + k
      BY <1>4, <3>1, <3>4
    <3>7. k \in 1 .. k
      BY <1>6, <2>2
    <3>8. Blocks(b, len) \in Nat
      BY <1>8, <3>1, LineCosts
    <3>9. Blocks(f, len) + Blocks(b, len) <= numGpuBlocks
      BY <1>2, <1>6, <1>8, <1>9, <3>7, <3>8
    <3>10. QED
      BY <1>6, <3>3, <3>5, <3>6, <3>7, <3>9
  <2>3. QED
    BY <2>1, <2>2
<1>12. m < Len(q) => k = 0
  BY <1>10
<1>13. QED
  BY <1>1, <1>2, <1>11, <1>12

LEMMA LineSlice ==
  ASSUME NEW R, NEW q, Line(R, q), NEW m \in 0 .. Len(q), NEW n \in m .. Len(q),
         NEW t, t = SubSeq(q, m + 1, n)
  PROVE  Line(R, t) /\ Len(t) = n - m /\ ToSet(t) = {q[i] : i \in (m + 1) .. n}
<1>1. q \in Seq(R) /\ IsInjective(q)
  BY DEF Line
<1>2. /\ SubSeq(q, m + 1, n) \in Seq(R) /\ IsInjective(SubSeq(q, m + 1, n))
      /\ Len(SubSeq(q, m + 1, n)) = n - m
      /\ ToSet(SubSeq(q, m + 1, n)) = {q[i] : i \in (m + 1) .. n}
  BY <1>1, SliceInjective
<1>3. QED
  BY ONLY t = SubSeq(q, m + 1, n), <1>2 DEF Line

LEMMA SliceNone ==
  ASSUME NEW R, NEW q \in Seq(R), NEW m \in 0 .. Len(q)
  PROVE  SubSeq(q, m + 1, m) = << >>
<1>1. PICK s : s = SubSeq(q, m + 1, m)
  OBVIOUS
<1>2. m \in m .. Len(q) /\ m - m = 0
  OBVIOUS
<1>3. s \in Seq(R) /\ Len(s) = m - m
  BY <1>1, <1>2, SliceMembers
<1>4. s = << >>
  BY <1>2, <1>3
<1>5. QED
  BY <1>1, <1>4

LEMMA LineSum ==
  ASSUME NEW R, NEW f, Measured(R, f), NEW q, Line(R, q)
  PROVE  /\ Weighs(ToSet(q), f) /\ Sum(q, f) = Weight(ToSet(q), f) /\ Sum(q, f) \in Nat
BY SumWeighs DEF Line

(* Step 4: the prompts admitted fit the budget beside the decodes of the   *)
(* GPU and as many of the CPU as the room that is left; those that stay on *)
(* the GPU fit its blocks, those that leave it the layer kept for them.    *)
LEMMA AdmittedFits ==
  ASSUME numGpuBlocks \in Nat, NEW R, NEW s, Line(R, s.waiting), Measured(R, s.len),
         Measured(R, s.plen), NEW gq, Line(R, gq), WithinBudget(Len(gq), Len(gq)),
         Blocks(gq, s.len) <= numGpuBlocks, NEW cq
  PROVE  LET a == Admitted(gq, cq, s)
             g == Smaller(a, FitOnGpu(gq, s))
             room == Room(Len(gq) + a, Len(gq) + Sum(First(s.waiting, a), s.plen))
         IN /\ a \in 0 .. Len(s.waiting) /\ g \in 0 .. a /\ room \in Nat
            /\ Len(gq) + a + room <= MaxBatch
            /\ Len(gq) + Sum(First(s.waiting, a), s.plen) + room <= MaxTokens
            /\ Blocks(gq, s.len) + Blocks(First(s.waiting, g), s.len) <= numGpuBlocks
            /\ Blocks(SubSeq(s.waiting, g + 1, a), s.len) <= NumGpu
<1>1. PICK w, len, plen, a, h :
        w = s.waiting /\ len = s.len /\ plen = s.plen /\ a = Admitted(gq, cq, s) /\ h = FitOnGpu(gq, s)
  OBVIOUS
<1>2. PICK g, t, x : g = Smaller(a, h) /\ t = Sum(First(w, a), plen) /\ x = Len(gq)
  OBVIOUS
<1>3. Line(R, w) /\ Len(w) \in Nat /\ Measured(R, len) /\ Measured(R, plen) /\ w \in Seq(R)
  BY <1>1, LineIs
<1>4. /\ h \in 0 .. Len(w)
      /\ \A i \in 1 .. h : Blocks(gq, len) + Blocks(First(w, i), len) <= numGpuBlocks
  <2> DEFINE fits == {i \in DOMAIN w : Blocks(gq, len) + Blocks(First(w, i), len) <= numGpuBlocks}
  <2>1. h = LongestPrefix(w, fits)
    BY <1>1 DEF FitOnGpu
  <2>2. \A i \in fits : Blocks(gq, len) + Blocks(First(w, i), len) <= numGpuBlocks
    OBVIOUS
  <2> HIDE DEF fits
  <2>3. h \in 0 .. Len(w) /\ \A i \in 1 .. h : i \in fits
    BY <1>3, <2>1, PrefixWithin, PrefixFits
  <2>4. QED
    BY <2>2, <2>3
<1>5. /\ a \in 0 .. Len(w)
      /\ \A i \in 1 .. a :
           /\ Blocks(SubSeq(w, h + 1, i - 1), len) + BlockNeeded(len[w[i]]) <= NumGpu
           /\ WithinBudget(x + i, x + Sum(First(w, i), plen))
  <2> DEFINE fits ==
         {i \in DOMAIN w :
            LET cur == BlockNeeded(len[w[i]])
                toCpu == Blocks(SubSeq(w, h + 1, i - 1), len)
            IN /\ toCpu + cur <= NumGpu
               /\ Blocks(cq, len) + toCpu + cur <= CpuThreshold
               /\ Len(s.avail) >= i - 1
               /\ WithinBudget(Len(gq) + i, Len(gq) + Sum(First(w, i), plen))}
  <2>1. a = LongestPrefix(w, fits)
    BY <1>1 DEF Admitted
  <2>2. \A i \in fits :
          /\ Blocks(SubSeq(w, h + 1, i - 1), len) + BlockNeeded(len[w[i]]) <= NumGpu
          /\ WithinBudget(x + i, x + Sum(First(w, i), plen))
    BY <1>2
  <2> HIDE DEF fits
  <2>3. a \in 0 .. Len(w) /\ \A i \in 1 .. a : i \in fits
    BY <1>3, <2>1, PrefixWithin, PrefixFits
  <2>4. QED
    BY <2>2, <2>3
<1>6. g \in 0 .. a /\ g \in 0 .. h /\ g \in 0 .. Len(w) /\ (g < a => g = h)
  BY <1>2, <1>3, <1>4, <1>5 DEF Smaller
<1>7. x \in Nat /\ t \in Nat
  <2>1. PICK f : f = First(w, a)
    OBVIOUS
  <2>2. 0 \in 0 .. Len(w) /\ a \in 0 .. Len(w) /\ f = SubSeq(w, 0 + 1, a)
    BY <1>3, <1>5, <2>1 DEF First
  <2>3. Line(R, f)
    BY ONLY <1>3, <2>2, LineSlice
  <2>4. Sum(f, plen) \in Nat
    BY <1>3, <2>3, LineSum
  <2>5. QED
    BY <1>2, <2>1, <2>4, LineIs
<1>8. WithinBudget(x + a, x + t)
  <2>1. CASE a = 0
    <3>1. t = 0
      <4>1. First(w, 0) = << >>
        BY <1>3, CutNone
      <4>2. Sum(<< >>, plen) = 0
        BY SumNone DEF Sum
      <4>3. QED
        BY <1>2, <2>1, <4>1, <4>2
    <3>2. x + a = x /\ x + t = x
      BY <1>7, <2>1, <3>1
    <3>3. QED
      BY <1>2, <3>2
  <2>2. CASE a # 0
    <3>1. a \in 1 .. a
      BY <1>5, <2>2
    <3>2. QED
      BY <1>2, <1>5, <3>1
  <2>3. QED
    BY <2>1, <2>2
<1>9. PICK room : room = Room(x + a, x + t)
  OBVIOUS
<1>10. room \in Nat /\ x + a + room <= MaxBatch /\ x + t + room <= MaxTokens
  <2>1. x + a \in Nat /\ x + t \in Nat /\ MaxBatch \in Nat /\ MaxTokens \in Nat
    BY <1>5, <1>7, SchedulerAssumption
  <2>2. PICK y, z : y = x + a /\ z = x + t
    OBVIOUS
  <2>3. /\ y \in Nat /\ z \in Nat /\ y <= MaxBatch /\ z <= MaxTokens
        /\ room = IF MaxBatch - y <= MaxTokens - z THEN MaxBatch - y ELSE MaxTokens - z
    BY <1>8, <1>9, <2>1, <2>2 DEF WithinBudget, Room, Smaller
  <2>4. room \in Nat /\ y + room <= MaxBatch /\ z + room <= MaxTokens
    BY <2>1, <2>3
  <2>5. QED
    BY <2>2, <2>4
<1>11. Blocks(gq, len) + Blocks(First(w, g), len) <= numGpuBlocks
  <2>1. CASE g = 0
    <3>1. First(w, 0) = << >>
      BY <1>3, CutNone
    <3>2. Blocks(First(w, g), len) = 0
      BY <2>1, <3>1, NoBlocks
    <3>3. Blocks(gq, len) \in Nat /\ Blocks(gq, len) <= numGpuBlocks
      BY <1>1, LineCosts
    <3>4. QED
      BY <3>2, <3>3
  <2>2. CASE g # 0
    <3>1. g \in 1 .. h
      BY <1>6, <2>2
    <3>2. QED
      BY <1>4, <3>1
  <2>3. QED
    BY <2>1, <2>2
<1>12. Blocks(SubSeq(w, g + 1, a), len) <= NumGpu
  <2>1. CASE g = a
    <3>1. SubSeq(w, a + 1, a) = << >>
      BY <1>3, <1>5, SliceNone
    <3>2. Blocks(SubSeq(w, g + 1, a), len) = 0
      BY <2>1, <3>1, NoBlocks
    <3>3. QED
      BY <3>2, SchedulerAssumption
  <2>2. CASE g # a
    <3>1. g = h /\ a \in (g + 1) .. Len(w) /\ a \in 1 .. a /\ g \in 0 .. Len(w)
      BY <1>5, <1>6, <2>2
    <3>2. Blocks(SubSeq(w, g + 1, a), len)
            = Blocks(SubSeq(w, g + 1, a - 1), len) + BlockNeeded(len[w[a]])
      BY ONLY <1>3, <3>1, SliceCost
    <3>3. QED
      BY <1>5, <3>1, <3>2
  <2>3. QED
    BY <2>1, <2>2
<1>13. QED
  BY <1>1, <1>2, <1>5, <1>6, <1>9, <1>10, <1>11, <1>12

(* What the first request of a queue costs.                                *)
LEMMA FirstCost ==
  ASSUME NEW R, NEW len, Measured(R, len), NEW q, Line(R, q), Len(q) # 0
  PROVE  Blocks(First(q, 1), len) = BlockNeeded(len[q[1]]) /\ q[1] \in ToSet(q) /\ q[1] \in R
<1>1. q \in Seq(R) /\ Len(q) \in Nat /\ 0 \in 0 .. Len(q) /\ 1 \in DOMAIN q
  BY LineIs
<1>2. PICK n : n = 1 /\ n \in (0 + 1) .. Len(q) /\ n - 1 = 0
  BY <1>1
<1>3. Blocks(SubSeq(q, 0 + 1, n), len)
        = Blocks(SubSeq(q, 0 + 1, n - 1), len) + BlockNeeded(len[q[n]])
  BY ONLY Measured(R, len), Line(R, q), <1>1, <1>2, SliceCost
<1>4. Blocks(SubSeq(q, 0 + 1, n - 1), len) = 0
  <2>1. First(q, 0) = << >>
    BY <1>1, CutNone
  <2>2. SubSeq(q, 0 + 1, n - 1) = First(q, 0)
    BY <1>2 DEF First
  <2>3. QED
    BY <2>1, <2>2, NoBlocks
<1>5. q[1] \in R /\ q[1] \in ToSet(q)
  BY <1>1 DEF ToSet
<1>6. BlockNeeded(len[q[1]]) \in Nat
  BY <1>5, BlockNeededHolds DEF Measured
<1>7. QED
  BY <1>2, <1>3, <1>4, <1>5, <1>6 DEF First

(* Not all decodes are taken off a GPU that can hold the first of them.    *)
LEMMA StayingSome ==
  ASSUME numGpuBlocks \in Nat, NEW R, NEW s, Line(R, s.gpuq), Feasible(R, s), s.gpuq # << >>
  PROVE  Staying(s) # 0 /\ StayingOld(s) # 0
<1>1. PICK q, len : q = s.gpuq /\ len = s.len
  OBVIOUS
<1>2. Line(R, q) /\ q \in Seq(R) /\ Len(q) \in Nat /\ Len(q) # 0 /\ Measured(R, len)
  <2>1. Line(R, q) /\ Measured(R, len) /\ q # << >>
    BY <1>1 DEF Feasible
  <2>2. q \in Seq(R)
    BY <2>1, LineIs
  <2>3. QED
    BY <2>1, <2>2
<1>3. Blocks(First(q, 1), len) <= numGpuBlocks
  <2>1. numGpuBlocks = NumGpu
    BY DEF Feasible
  <2>2. Blocks(First(q, 1), len) = BlockNeeded(len[q[1]]) /\ q[1] \in ToSet(q)
    BY <1>2, FirstCost
  <2>3. BlockNeeded(len[q[1]]) <= NumGpu
    BY <1>1, <2>2 DEF Feasible
  <2>4. QED
    BY <2>1, <2>2, <2>3
<1>4. WithinBudget(1, 1) /\ 1 <= MaxBatch
  BY SchedulerAssumption DEF Feasible, WithinBudget
<1>5. /\ 0 < Len(q)
      /\ 0 + 1 = 1
  BY <1>2
<1>6. /\ Staying(s) < Len(q) =>
           ~(/\ WithinBudget(Staying(s) + 1, Staying(s) + 1)
             /\ Blocks(First(q, Staying(s) + 1), len) <= numGpuBlocks)
      /\ StayingOld(s) < Len(q) =>
           ~(/\ StayingOld(s) + 1 <= MaxBatch
             /\ Blocks(First(q, StayingOld(s) + 1), len) <= numGpuBlocks)
  BY <1>1, <1>2, StayingFits
<1>7. Staying(s) # 0
  <2>1. SUFFICES ASSUME Staying(s) = 0 PROVE FALSE
    OBVIOUS
  <2>2. QED
    BY <1>3, <1>4, <1>5, <1>6, <2>1
<1>8. StayingOld(s) # 0
  <2>1. SUFFICES ASSUME StayingOld(s) = 0 PROVE FALSE
    OBVIOUS
  <2>2. QED
    BY <1>3, <1>4, <1>5, <1>6, <2>1
<1>9. QED
  BY <1>7, <1>8

LEMMA NoneReversed ==
  ASSUME NEW R, NEW q, Line(R, q), NEW m, m = Len(q)
  PROVE  After(q, m) = << >> /\ Reverse(After(q, m)) = << >>
<1>1. q \in Seq(R) /\ m \in 0 .. Len(q)
  BY LineIs
<1>2. SubSeq(q, m + 1, m) = << >>
  BY <1>1, SliceNone
<1>3. PICK v : v = After(q, m)
  OBVIOUS
<1>4. v = << >>
  BY <1>2, <1>3 DEF After
<1>5. v \in Seq(R) /\ Len(v) = 0
  BY <1>4
<1>6. Reverse(v) \in Seq(R) /\ Len(Reverse(v)) = 0
  BY <1>5, ReverseMembers
<1>7. Reverse(v) = << >>
  BY <1>6
<1>8. QED
  BY <1>3, <1>4, <1>7

(* get_next_batch never swaps both ways, and when nothing is left for the  *)
(* GPU to decode, it swaps nothing.                                        *)
LEMMA NewSwaps ==
  ASSUME numGpuBlocks \in Nat, NEW R, NEW s, Orderly(R, s), Measured(R, s.len)
  PROVE  LET m == Staying(s)
             stay == First(s.gpuq, m)
             off == After(s.gpuq, m) \o s.cpuq
             k == Returning(stay, off, s.len)
             out == Reverse(After(s.gpuq, m))
             back == First(off, k)
         IN /\ out = << >> \/ back = << >>
            /\ Feasible(R, s) /\ stay \o back = << >> => out = << >> /\ back = << >>
<1>1. PICK q, m, stay, off, k, b :
        /\ q = s.gpuq /\ m = Staying(s) /\ stay = First(q, m)
        /\ off = After(q, m) \o s.cpuq /\ k = Returning(stay, off, s.len) /\ b = First(off, k)
  OBVIOUS
<1>2. Line(R, q) /\ Len(q) \in Nat
  <2>1. Line(R, q)
    BY <1>1 DEF Orderly, Line
  <2>2. QED
    BY <2>1, LineIs
<1>3. m \in 0 .. Len(q)
  BY <1>1, <1>2, LineIs, StayingWithin
<1>4. Line(R, stay) /\ Len(stay) = m /\ Line(R, After(q, m))
  <2>1. PICK v : v = After(q, m)
    OBVIOUS
  <2>2. Line(R, stay) /\ Line(R, v) /\ Len(stay) = m
    BY <1>1, <1>2, <1>3, <2>1, CutInto
  <2>3. QED
    BY <2>1, <2>2
<1>5. off \in Seq(R)
  <2>1. After(q, m) \in Seq(R) /\ s.cpuq \in Seq(R)
    BY <1>4, LineIs DEF Orderly
  <2>2. QED
    BY <1>1, <2>1, ConcatMembers
<1>6. k \in 0 .. Len(off)
  BY <1>1, <1>5, PrefixWithin DEF Returning
<1>7. b \in Seq(R)
  BY <1>1, <1>5, <1>6, CutMembers DEF First
<1>8. m = Len(q) => After(q, m) = << >> /\ Reverse(After(q, m)) = << >>
  BY <1>2, NoneReversed
<1>9. m < Len(q) => b = << >>
  <2>1. m < Len(q) => k = 0
    BY <1>1, NewGpuFits
  <2>2. First(off, 0) = << >>
    BY <1>5, CutNone
  <2>3. QED
    BY <1>1, <2>1, <2>2
<1>10. ASSUME Feasible(R, s), stay \o b = << >>
       PROVE  Reverse(After(q, m)) = << >> /\ b = << >>
  <2>1. stay \in Seq(R)
    BY <1>4, LineIs
  <2>2. stay = << >> /\ b = << >>
    BY <1>7, <1>10, <2>1
  <2>3. m = 0
    BY <1>4, <2>2
  <2>4. q = << >>
    BY <1>1, <1>2, <1>10, <2>3, StayingSome
  <2>5. m = Len(q)
    BY <2>3, <2>4
  <2>6. QED
    BY <1>8, <2>2, <2>5
<1>11. m = Len(q) \/ m < Len(q)
  BY <1>2, <1>3
<1>12. QED
  BY <1>1, <1>8, <1>9, <1>10, <1>11

(* Fewer requests cost no more.                                            *)
LEMMA CostLess ==
  ASSUME NEW R, NEW f, Measured(R, f), NEW q, Line(R, q), NEW t, Line(R, t), ToSet(t) \subseteq ToSet(q)
  PROVE  Blocks(t, f) <= Blocks(q, f) /\ Sum(t, f) <= Sum(q, f)
<1>1. /\ Weighs(ToSet(q), f) /\ Sum(q, f) = Weight(ToSet(q), f)
      /\ Weighs(ToSet(t), f) /\ Sum(t, f) = Weight(ToSet(t), f)
  BY LineSum
<1>2. PICK cost : cost = Needs(R, f)
  OBVIOUS
<1>3. /\ Weighs(ToSet(q), cost) /\ Blocks(q, f) = Weight(ToSet(q), cost)
      /\ Weighs(ToSet(t), cost) /\ Blocks(t, f) = Weight(ToSet(t), cost)
  BY <1>2, LineCosts
<1>4. (\A x \in ToSet(t) : f[x] \in Nat /\ f[x] <= f[x])
      /\ (\A x \in ToSet(t) : cost[x] \in Nat /\ cost[x] <= cost[x])
  BY <1>1, <1>3 DEF Weighs
<1>5. Weight(ToSet(t), f) <= Weight(ToSet(q), f) /\ Weight(ToSet(t), cost) <= Weight(ToSet(q), cost)
  BY ONLY ToSet(t) \subseteq ToSet(q), <1>1, <1>3, <1>4, WeightSubset
<1>6. QED
  BY <1>1, <1>3, <1>5

LEMMA FirstSet ==
  ASSUME NEW R, NEW q, Line(R, q), NEW k \in 0 .. Len(q)
  PROVE  Line(R, First(q, k)) /\ ToSet(First(q, k)) = {q[i] : i \in 1 .. k}
<1>1. PICK o \in 0 .. Len(q) : o = 0
  BY LineIs
<1>2. q \in Seq(R) /\ IsInjective(q) /\ k \in o .. Len(q) /\ o + 1 = 1
  BY <1>1, LineIs
<1>3. /\ SubSeq(q, o + 1, k) \in Seq(R) /\ IsInjective(SubSeq(q, o + 1, k))
      /\ ToSet(SubSeq(q, o + 1, k)) = {q[i] : i \in (o + 1) .. k}
  BY ONLY <1>1, <1>2, SliceInjective
<1>4. QED
  BY <1>2, <1>3 DEF First, Line

LEMMA FirstLess ==
  ASSUME NEW R, NEW q, Line(R, q), NEW a \in 0 .. Len(q), NEW n \in 0 .. a
  PROVE  Line(R, First(q, n)) /\ Line(R, First(q, a)) /\ ToSet(First(q, n)) \subseteq ToSet(First(q, a))
<1>1. n \in 0 .. Len(q) /\ a \in 0 .. Len(q) /\ 1 .. n \subseteq 1 .. a
  BY LineIs
<1>2. Line(R, First(q, n)) /\ ToSet(First(q, n)) = {q[i] : i \in 1 .. n}
  BY <1>1, FirstSet
<1>3. Line(R, First(q, a)) /\ ToSet(First(q, a)) = {q[i] : i \in 1 .. a}
  BY <1>1, FirstSet
<1>4. QED
  BY <1>1, <1>2, <1>3

LEMMA NewPlanned ==
  ASSUME numGpuBlocks \in Nat, NEW R, NEW s, Orderly(R, s), NEW res \in NextBatchNew(s)
  PROVE  Planned(R, s, res)
<1> DEFINE m == Staying(s)
           stay == First(s.gpuq, m)
           v == After(s.gpuq, m)
           off == v \o s.cpuq
           k == Returning(stay, off, s.len)
           gq == stay \o First(off, k)
           cq == After(off, k)
           a == Admitted(gq, cq, s)
           g == Smaller(a, FitOnGpu(gq, s))
           toGpu == First(s.waiting, g)
           toCpu == SubSeq(s.waiting, g + 1, a)
           room == Room(Len(gq) + a, Len(gq) + Sum(First(s.waiting, a), s.plen))
<1>1. PICK batches \in Decide(toGpu, toCpu, gq, cq, room, s) :
        res = Launch(batches, Reverse(v), First(off, k), gq, cq, s)
  BY DEF NextBatchNew, Offloaded
<1>2. Measured(R, s.len) => Blocks(gq, s.len) <= numGpuBlocks /\ WithinBudget(Len(gq), Len(gq))
  BY NewGpuFits
<1>3. Measured(R, s.len) =>
        /\ Reverse(v) = << >> \/ First(off, k) = << >>
        /\ Feasible(R, s) /\ gq = << >> => Reverse(v) = << >> /\ First(off, k) = << >>
  BY NewSwaps
<1>4. /\ s.waiting \in Seq(R) /\ s.gpuq \in Seq(R) /\ s.cpuq \in Seq(R)
  BY DEF Orderly
<1>5. m \in 0 .. Len(s.gpuq)
  BY <1>4, StayingWithin
<1> HIDE DEF m
<1>6. v \in Seq(R)
  BY <1>4, <1>5, CutMembers DEF After
<1>7. off \in Seq(R)
  <2> HIDE DEF v
  <2>1. QED
    BY <1>4, <1>6
<1>8. k \in 0 .. Len(off)
  <2> HIDE DEF off, stay
  <2>1. QED
    BY <1>7, PrefixWithin DEF Returning
<1> HIDE DEF k
<1>9. Moves(R, s.gpuq, s.cpuq, Reverse(v), First(off, k), gq, cq)
  <2>1. PICK out : out = Reverse(v)
    OBVIOUS
  <2>2. Moves(R, s.gpuq, s.cpuq, out, First(v \o s.cpuq, k),
              First(s.gpuq, m) \o First(v \o s.cpuq, k), After(v \o s.cpuq, k))
    <3>1. IsInjective(s.gpuq) /\ IsInjective(s.cpuq) /\ ToSet(s.gpuq) \cap ToSet(s.cpuq) = {}
      BY DEF Orderly
    <3>2. k \in 0 .. Len(v \o s.cpuq)
      BY <1>8
    <3>3. PICK w : w = v
      OBVIOUS
    <3>4. w = After(s.gpuq, m) /\ out = Reverse(After(s.gpuq, m)) /\ k \in 0 .. Len(w \o s.cpuq)
      BY <2>1, <3>2, <3>3
    <3> HIDE DEF v
    <3>5. Moves(R, s.gpuq, s.cpuq, out, First(w \o s.cpuq, k),
                First(s.gpuq, m) \o First(w \o s.cpuq, k), After(w \o s.cpuq, k))
      BY <1>4, <1>5, <3>1, <3>4, MoveVictims
    <3>6. QED
      BY <3>3, <3>5
  <2>3. QED
    BY <2>1, <2>2
<1> HIDE DEF off, v
<1>10. gq \in Seq(R) /\ cq \in Seq(R)
  BY <1>9 DEF Moves
<1> HIDE DEF gq, cq
<1>11. Measured(R, s.len) /\ Measured(R, s.plen) =>
        /\ room \in Nat /\ Len(gq) + a + room <= MaxBatch
        /\ Len(gq) + Sum(First(s.waiting, a), s.plen) + room <= MaxTokens
        /\ Blocks(gq, s.len) + Blocks(First(s.waiting, g), s.len) <= numGpuBlocks
        /\ Blocks(SubSeq(s.waiting, g + 1, a), s.len) <= NumGpu
  <2>1. Line(R, s.waiting) /\ Line(R, gq)
    BY <1>9 DEF Orderly, Moves, Line
  <2>2. QED
    BY <1>2, <2>1, AdmittedFits
<1> HIDE DEF room
<1>12. a \in 0 .. Len(s.waiting)
  BY <1>4, PrefixWithin DEF Admitted
<1>13. FitOnGpu(gq, s) \in 0 .. Len(s.waiting)
  BY <1>4, PrefixWithin DEF FitOnGpu
<1> HIDE DEF a
<1>14. g \in 0 .. a
  BY <1>4, <1>12, <1>13 DEF Smaller
<1> HIDE DEF g
<1>15. /\ toGpu \in Seq(R) /\ toCpu \in Seq(R) /\ Len(toGpu) = g /\ Len(toCpu) = a - g
       /\ \A i \in 1 .. a - g : toCpu[i] = s.waiting[g + i]
  <2>1. g \in 0 .. Len(s.waiting) /\ a \in g .. Len(s.waiting)
    BY <1>4, <1>12, <1>14
  <2>2. toGpu \in Seq(R) /\ Len(toGpu) = g
    BY <1>4, <2>1, CutMembers DEF First
  <2>3. /\ SubSeq(s.waiting, g + 1, a) \in Seq(R) /\ Len(SubSeq(s.waiting, g + 1, a)) = a - g
        /\ \A i \in 1 .. a - g : SubSeq(s.waiting, g + 1, a)[i] = s.waiting[g + i]
    BY ONLY <1>4, <2>1, SliceMembers
  <2>4. QED
    BY <2>2, <2>3
<1>16. PICK j \in 0 .. Len(toCpu), A \in SUBSET DOMAIN cq, B \in SUBSET DOMAIN cq :
         /\ A \cap B = {}
         /\ Shape(batches, Main(toGpu, toCpu, gq, cq, j, A), Second(cq, B))
         /\ room \in Nat => Cardinality(A) + Cardinality(B) <= room
         /\ LinrThreshold # 0 => Full(batches)
  <2> HIDE DEF toGpu, toCpu
  <2>1. QED
    BY <1>1, <1>10, <1>15, DecideShape
<1> DEFINE c == First(toCpu, j)
           n == g + j
<1>17. n \in 0 .. Len(s.waiting) /\ n \in g .. Len(s.waiting) /\ g \in 0 .. Len(s.waiting)
  BY <1>4, <1>12, <1>14, <1>15
<1>18. c \in Seq(R) /\ Len(c) = j /\ \A i \in 1 .. j : c[i] = toCpu[i]
  <2> HIDE DEF toCpu
  <2>1. QED
    BY <1>15, CutMembers DEF First
<1>19. toGpu \o c = First(s.waiting, n)
  <2> DEFINE d == SubSeq(s.waiting, g + 1, n)
  <2>1. /\ d \in Seq(R) /\ Len(d) = n - g
        /\ \A i \in 1 .. n - g : d[i] = s.waiting[g + i]
        /\ SubSeq(s.waiting, 1, g) \o d = SubSeq(s.waiting, 1, n)
    <3> HIDE DEF n
    <3>1. QED
      BY <1>4, <1>17, SliceMembers
  <2>2. n - g = j
    BY <1>14, <1>15
  <2>3. \A i \in 1 .. j : c[i] = s.waiting[g + i]
    BY <1>12, <1>14, <1>15, <1>18
  <2> HIDE DEF c, d, n
  <2>4. c = d
    BY <1>18, <2>1, <2>2, <2>3, SeqEqual
  <2>5. QED
    BY <2>1, <2>4 DEF First
<1>20. Shape(batches, Batch(c, toGpu, gq, PickAt(cq, A)), Second(cq, B))
  BY <1>16 DEF Main
<1> HIDE DEF toGpu, c
<1>21. /\ NumPrefs(batches) = Len(toGpu) + Len(c)
       /\ (IF batches = << >> THEN << >> ELSE batches[1].gprf) = toGpu
       /\ (IF batches = << >> THEN << >> ELSE batches[1].cprf) = c
  <2>1. PICK d : d = PickAt(cq, A)
    OBVIOUS
  <2>2. Shape(batches, Batch(c, toGpu, gq, d), Second(cq, B))
    BY <1>20, <2>1
  <2>3. c \in Seq(R) /\ toGpu \in Seq(R) /\ gq \in Seq(R)
    BY <1>10, <1>15, <1>18
  <2>4. QED
    BY <2>2, <2>3, ShapeLaunch
<1>22. NumPrefs(batches) = n
  BY <1>15, <1>18, <1>21
<1>23. /\ res.batches = batches /\ res.swapOut = Reverse(v) /\ res.swapIn = First(off, k)
       /\ res.gpuq = gq \o toGpu /\ res.cpuq = cq \o c
       /\ res.ok <=> /\ NumPrefs(batches) <= Len(s.avail)
                     /\ Reverse(v) = << >> \/ First(off, k) = << >>
                     /\ ~CdecTooLong(batches, s.len)
  BY <1>1, <1>21 DEF Launch, Result
<1>24. Plan(R, s, res, n, toGpu, c, gq, cq, A, B)
  <2> HIDE DEF n
  <2>1. QED
    BY <1>9, <1>15, <1>16, <1>17, <1>18, <1>19, <1>20, <1>22, <1>23 DEF Plan
<1>25. ASSUME Feasible(R, s) PROVE Paid(R, s, res, n, toGpu, c, gq, A, B)
  <2>1. Measured(R, s.len) /\ Measured(R, s.plen) /\ LinrThreshold # 0
    BY <1>25 DEF Feasible
  <2>2. Reverse(v) = << >> \/ First(off, k) = << >>
    BY <1>3, <2>1
  <2>3. batches = << >> => Reverse(v) = << >> /\ First(off, k) = << >>
    <3>1. batches = << >> => gq = << >>
      <4>1. ASSUME batches = << >> PROVE BatchReqs(Batch(c, toGpu, gq, PickAt(cq, A))) = << >>
        BY <1>20, <4>1 DEF Shape
      <4>2. PICK d : d = PickAt(cq, A)
        OBVIOUS
      <4>3. d \in Seq(R)
        <5>1. A \subseteq 1 .. Len(cq)
          BY <1>10
        <5>2. QED
          BY <1>10, <4>2, <5>1, PickMembers
      <4>4. c \in Seq(R) /\ toGpu \in Seq(R) /\ gq \in Seq(R)
        BY <1>10, <1>15, <1>18
      <4>5. BatchReqs(Batch(c, toGpu, gq, d)) = << >> => gq = << >>
        BY <4>3, <4>4, NoneOfFour
      <4>6. QED
        BY <4>1, <4>2, <4>5
    <3>2. QED
      BY <1>3, <1>25, <2>1, <3>1
  <2>4. Line(R, s.waiting)
    BY DEF Orderly, Line
  <2>5. Blocks(c, s.len) <= NumGpu
    <3>1. PICK t : t = SubSeq(s.waiting, g + 1, a)
      OBVIOUS
    <3>2. g \in 0 .. Len(s.waiting) /\ a \in g .. Len(s.waiting)
      BY <1>12, <1>14, <1>17
    <3>3. Line(R, t)
      BY <2>4, <3>1, <3>2, LineSlice
    <3>4. PICK e, r : e = First(t, j) /\ r = After(t, j)
      OBVIOUS
    <3>5. Line(R, e) /\ Parts(ToSet(t), ToSet(e), ToSet(r))
      <4>1. j \in 0 .. Len(t)
        BY <1>16, <3>1
      <4>2. QED
        BY ONLY <3>3, <3>4, <4>1, CutInto
    <3>6. Blocks(e, s.len) <= Blocks(t, s.len)
      BY <2>1, <3>3, <3>5, CostLess DEF Parts
    <3>7. Blocks(e, s.len) \in Nat /\ Blocks(t, s.len) \in Nat /\ NumGpu \in Nat
      BY <2>1, <3>3, <3>5, LineCosts, SchedulerAssumption
    <3>8. Blocks(t, s.len) <= NumGpu
      BY <1>11, <2>1, <3>1
    <3>9. e = c
      BY <3>1, <3>4 DEF c
    <3>10. QED
      BY <3>6, <3>7, <3>8, <3>9
  <2>6. Blocks(gq, s.len) + Blocks(toGpu, s.len) <= numGpuBlocks
    BY <1>11, <2>1 DEF toGpu
  <2>7. /\ room \in Nat /\ Cardinality(A) + Cardinality(B) <= room
        /\ Len(gq) + n + room <= MaxBatch
        /\ Len(gq) + Sum(First(s.waiting, n), s.plen) + room <= MaxTokens
    <3>1. PICK x, y, z : x = Len(gq) /\ y = Sum(First(s.waiting, n), s.plen)
                         /\ z = Sum(First(s.waiting, a), s.plen)
      OBVIOUS
    <3>2. n \in 0 .. a /\ a \in 0 .. Len(s.waiting)
      BY <1>12, <1>14, <1>15
    <3> HIDE DEF n
    <3>3. /\ Line(R, First(s.waiting, n)) /\ Line(R, First(s.waiting, a))
          /\ ToSet(First(s.waiting, n)) \subseteq ToSet(First(s.waiting, a))
      BY <2>4, <3>2, FirstLess
    <3>4. y \in Nat /\ z \in Nat /\ y <= z /\ x \in Nat
      BY <1>10, <2>1, <3>1, <3>3, CostLess, LineSum
    <3>5. /\ room \in Nat /\ x + a + room <= MaxBatch /\ x + z + room <= MaxTokens
      BY <1>11, <2>1, <3>1
    <3>6. x + n + room <= MaxBatch /\ x + y + room <= MaxTokens
      BY <3>2, <3>4, <3>5, SchedulerAssumption
    <3>7. QED
      BY <1>16, <3>1, <3>5, <3>6
  <2>8. Full(batches)
    BY <1>16, <2>1
  <2>9. n <= Len(s.avail) /\ ~CdecTooLong(res.batches, s.len) => res.ok
    BY <1>22, <1>23, <2>2
  <2> HIDE DEF n, room
  <2>10. QED
    BY <1>23, <2>2, <2>3, <2>5, <2>6, <2>7, <2>8, <2>9 DEF Paid
<1>26. QED
  <2> HIDE DEF n
  <2>1. QED
    BY <1>17, <1>24, <1>25 DEF Planned

(* The GPU-only policy when nothing is left on the CPU.                    *)
LEMMA MoveNone ==
  ASSUME NEW R, NEW gpuq \in Seq(R), NEW cpuq \in Seq(R), IsInjective(gpuq), IsInjective(cpuq),
         ToSet(gpuq) \cap ToSet(cpuq) = {}
  PROVE  Moves(R, gpuq, cpuq, << >>, << >>, gpuq, cpuq)
<1>1. << >> \in Seq(R) /\ IsInjective(<< >>) /\ ToSet(<< >>) = {}
  BY DEF IsInjective, ToSet
<1>2. QED
  BY <1>1 DEF Moves

(* The GPU-only policy keeps to the GPU's blocks and to the batch as well, *)
(* and swaps one way.                                                      *)
LEMMA FirstAll == ASSUME NEW R, NEW q, Line(R, q) PROVE First(q, Len(q)) = q
<1>1. q \in Seq(R) /\ Len(q) \in 0 .. Len(q)
  BY LineIs
<1>2. PICK f : f = First(q, Len(q))
  OBVIOUS
<1>3. f \in Seq(R) /\ Len(f) = Len(q) /\ \A i \in 1 .. Len(q) : f[i] = q[i]
  BY <1>1, <1>2, CutMembers DEF First
<1>4. f = q
  BY <1>1, <1>3, SeqEqual
<1>5. QED
  BY <1>2, <1>4

LEMMA OldGpuFits ==
  ASSUME numGpuBlocks \in Nat, NEW R, NEW s, Orderly(R, s), Measured(R, s.len)
  PROVE  LET m == StayingOld(s)
             victims == After(s.gpuq, m)
             off == Reverse(victims) \o s.cpuq
             k == IF victims = << >> THEN ReturningOld(s.gpuq, off, s.len) ELSE 0
             gq == First(s.gpuq, m) \o First(off, k)
         IN /\ Blocks(gq, s.len) <= numGpuBlocks /\ Len(gq) <= MaxBatch
            /\ victims = << >> \/ First(off, k) = << >>
            /\ Feasible(R, s) /\ gq = << >> => victims = << >> /\ First(off, k) = << >>
            /\ victims = << >> => m = Len(s.gpuq)
<1>1. PICK q, c, len, m, f, v :
        /\ q = s.gpuq /\ c = s.cpuq /\ len = s.len /\ m = StayingOld(s)
        /\ f = First(q, m) /\ v = After(q, m)
  OBVIOUS
<1>2. PICK o, k, b :
        /\ o = Reverse(v) \o c /\ k = (IF v = << >> THEN ReturningOld(q, o, len) ELSE 0)
        /\ b = First(o, k)
  OBVIOUS
<1>3. Line(R, q) /\ Line(R, c) /\ ToSet(q) \cap ToSet(c) = {} /\ Len(q) \in Nat /\ Measured(R, len)
  <2>1. Line(R, q) /\ Line(R, c) /\ ToSet(q) \cap ToSet(c) = {}
    BY <1>1 DEF Orderly, Line
  <2>2. QED
    BY <1>1, <2>1, LineIs
<1>4. m \in 0 .. Len(q)
  BY <1>1, <1>3, LineIs, StayingWithin
<1>5. Line(R, f) /\ Line(R, v) /\ Parts(ToSet(q), ToSet(f), ToSet(v))
  BY ONLY <1>1, <1>3, <1>4, CutInto
<1>6. Len(f) = m /\ Len(v) = Len(q) - m /\ (v = << >> => m = Len(q)) /\ (m = Len(q) => v = << >>)
  <2>1. q \in Seq(R) /\ v \in Seq(R)
    BY <1>3, <1>5, LineIs
  <2>2. Len(f) = m /\ Len(v) = Len(q) - m
    BY <1>1, <1>4, <2>1, CutMembers DEF First, After
  <2>3. QED
    BY <1>3, <1>4, <2>1, <2>2
<1>7. m <= MaxBatch /\ Blocks(f, len) <= numGpuBlocks /\ Blocks(f, len) \in Nat
  <2>1. m <= MaxBatch /\ Blocks(f, len) <= numGpuBlocks
    BY <1>1, <1>3, LineIs, StayingFits
  <2>2. QED
    BY <1>3, <1>5, <2>1, LineCosts
<1>8. Line(R, o) /\ ToSet(o) \cap ToSet(f) = {}
  <2>1. PICK w : w = Reverse(v)
    OBVIOUS
  <2>2. Line(R, w) /\ ToSet(w) = ToSet(v)
    BY <1>5, <2>1, ReverseMembers DEF Line
  <2>3. /\ ToSet(w) \cap ToSet(c) = {} /\ ToSet(f) \cap ToSet(c) = {}
        /\ ToSet(w) \cap ToSet(f) = {}
    BY <1>3, <1>5, <2>2 DEF Parts
  <2>4. o = w \o c
    BY <1>2, <2>1
  <2>5. Line(R, o) /\ Parts(ToSet(o), ToSet(w), ToSet(c))
    BY ONLY <1>3, <2>2, <2>3, <2>4, JoinedOf
  <2>6. QED
    BY <2>3, <2>5 DEF Parts
<1>9. ASSUME v = << >>
      PROVE  /\ f = q /\ k \in 0 .. Len(o)
             /\ \A i \in 1 .. k : /\ Len(q) + i <= MaxBatch
                                  /\ Blocks(q, len) + Blocks(First(o, i), len) <= numGpuBlocks
  <2> DEFINE fits == {i \in DOMAIN o :
                        /\ Len(q) + i <= MaxBatch
                        /\ Blocks(q, len) + Blocks(First(o, i), len) <= numGpuBlocks}
  <2>1. k = LongestPrefix(o, fits)
    BY <1>2, <1>9 DEF ReturningOld
  <2>2. \A i \in fits : /\ Len(q) + i <= MaxBatch
                        /\ Blocks(q, len) + Blocks(First(o, i), len) <= numGpuBlocks
    OBVIOUS
  <2> HIDE DEF fits
  <2>3. k \in 0 .. Len(o) /\ \A i \in 1 .. k : i \in fits
    BY <1>8, <2>1, LineIs, PrefixWithin, PrefixFits
  <2>4. f = q
    BY <1>1, <1>3, <1>6, <1>9, FirstAll
  <2>5. QED
    BY <2>2, <2>3, <2>4
<1>10. k = 0 => b = << >>
  BY <1>2, <1>8, LineIs, CutNone
<1>11. k # 0 => v = << >>
  BY <1>2
<1>12. Blocks(f \o b, len) <= numGpuBlocks /\ Len(f \o b) <= MaxBatch
  <2>1. CASE k = 0
    <3>1. f \o b = f
      BY <1>5, <1>10, <2>1, LineIs
    <3>2. QED
      BY <1>6, <1>7, <3>1
  <2>2. CASE k # 0
    <3>1. v = << >> /\ f = q /\ k \in 0 .. Len(o) /\ k \in 1 .. k
      <4>1. v = << >> /\ f = q /\ k \in 0 .. Len(o)
        BY <1>9, <1>11, <2>2
      <4>2. Len(o) \in Nat
        BY <1>8, LineIs
      <4>3. QED
        BY <2>2, <4>1, <4>2
    <3>2. Line(R, b) /\ Len(b) = k /\ ToSet(b) \subseteq ToSet(o)
      <4>1. PICK r : r = After(o, k) /\ b = First(o, k)
        BY <1>2
      <4>2. Line(R, b) /\ Len(b) = k /\ Parts(ToSet(o), ToSet(b), ToSet(r))
        BY ONLY <1>8, <3>1, <4>1, CutInto
      <4>3. QED
        BY <4>2 DEF Parts
    <3>3. ToSet(f) \cap ToSet(b) = {}
      BY <1>8, <3>2
    <3>4. PICK u : u = f \o b
      OBVIOUS
    <3>5. Line(R, u) /\ Parts(ToSet(u), ToSet(f), ToSet(b))
      BY ONLY <1>5, <3>2, <3>3, <3>4, JoinedOf
    <3>6. Len(u) = Len(f) + Len(b)
      <4>1. f \in Seq(R) /\ b \in Seq(R)
        BY <1>5, <3>2, LineIs
      <4>2. QED
        BY <3>4, <4>1
    <3>7. Blocks(u, len) = Blocks(f, len) + Blocks(b, len)
      BY ONLY <1>3, <1>5, <3>2, <3>5, BlocksJoin
    <3>8. /\ Len(q) + k <= MaxBatch
          /\ Blocks(q, len) + Blocks(b, len) <= numGpuBlocks
      BY <1>2, <1>9, <3>1
    <3>9. QED
      BY <3>1, <3>2, <3>4, <3>6, <3>7, <3>8
  <2>3. QED
    BY <2>1, <2>2
<1>13. ASSUME Feasible(R, s), f \o b = << >> PROVE v = << >> /\ b = << >>
  <2>1. k \in 0 .. Len(o)
    <3>1. 0 \in 0 .. Len(o)
      BY <1>8, LineIs
    <3>2. QED
      BY <1>2, <1>9, <3>1
  <2>2. f \in Seq(R) /\ b \in Seq(R)
    BY <1>2, <1>5, <1>8, <2>1, LineIs, CutMembers DEF First
  <2>3. f = << >> /\ b = << >>
    BY <1>13, <2>2
  <2>4. m = 0
    BY <1>6, <2>3
  <2>5. q = << >>
    BY <1>1, <1>3, <1>13, <2>4, StayingSome
  <2>6. m = Len(q)
    BY <2>4, <2>5
  <2>7. QED
    BY <1>6, <2>3, <2>6
<1>14. QED
  BY <1>1, <1>2, <1>6, <1>10, <1>11, <1>12, <1>13

LEMMA OldAdmitted ==
  ASSUME numGpuBlocks \in Nat, NEW R, NEW s, Orderly(R, s), Measured(R, s.len), Measured(R, s.plen),
         After(s.gpuq, StayingOld(s)) = << >>
  PROVE  LET n == AdmittedOld(s)
         IN /\ Blocks(s.gpuq, s.len) + Blocks(First(s.waiting, n), s.len) <= numGpuBlocks
            /\ Len(s.gpuq) + n <= MaxBatch
            /\ Len(s.gpuq) + Sum(First(s.waiting, n), s.plen) <= MaxTokens
<1>1. PICK q, w, len, plen, n, x :
        /\ q = s.gpuq /\ w = s.waiting /\ len = s.len /\ plen = s.plen
        /\ n = AdmittedOld(s) /\ x = Len(q)
  OBVIOUS
<1>2. Line(R, q) /\ w \in Seq(R) /\ x \in Nat
  <2>1. Line(R, q) /\ w \in Seq(R)
    BY <1>1 DEF Orderly, Line
  <2>2. QED
    BY <1>1, <2>1, LineIs
<1>3. /\ n \in 0 .. Len(w)
      /\ \A i \in 1 .. n : /\ x + i <= MaxBatch
                           /\ Blocks(q, len) + Blocks(First(w, i), len) <= numGpuBlocks
                           /\ x + Sum(First(w, i), plen) <= MaxTokens
  <2> DEFINE fits == {i \in DOMAIN w :
                        /\ Len(q) + i <= MaxBatch
                        /\ Blocks(q, len) + Blocks(First(w, i), len) <= numGpuBlocks
                        /\ Len(q) + Sum(First(w, i), plen) <= MaxTokens}
  <2>1. n = LongestPrefix(w, fits)
    BY <1>1 DEF AdmittedOld
  <2>2. \A i \in fits : /\ x + i <= MaxBatch
                        /\ Blocks(q, len) + Blocks(First(w, i), len) <= numGpuBlocks
                        /\ x + Sum(First(w, i), plen) <= MaxTokens
    BY <1>1
  <2> HIDE DEF fits
  <2>3. n \in 0 .. Len(w) /\ \A i \in 1 .. n : i \in fits
    BY <1>2, <2>1, PrefixWithin, PrefixFits
  <2>4. QED
    BY <2>2, <2>3
<1>4. Blocks(q, len) <= numGpuBlocks /\ x <= MaxBatch /\ Blocks(q, len) \in Nat
  <2>1. StayingOld(s) = x
    BY <1>1, OldGpuFits
  <2>2. First(q, x) = q
    BY <1>1, <1>2, FirstAll
  <2>3. x <= MaxBatch /\ Blocks(First(q, x), len) <= numGpuBlocks
    BY <1>1, <1>2, <2>1, LineIs, StayingFits
  <2>4. Blocks(q, len) \in Nat
    BY <1>1, <1>2, LineCosts
  <2>5. QED
    BY <2>2, <2>3, <2>4
<1>5. CASE n = 0
  <2>1. First(w, n) = << >>
    BY <1>2, <1>5, CutNone
  <2>2. Blocks(First(w, n), len) = 0 /\ Sum(First(w, n), plen) = 0
    BY <2>1, SumNone, NoBlocks DEF Sum
  <2>3. x <= MaxTokens /\ x + n = x /\ x + 0 = x
    BY <1>2, <1>4, <1>5, SchedulerAssumption
  <2>4. QED
    BY <1>1, <1>4, <2>2, <2>3
<1>6. CASE n # 0
  <2>1. n \in 1 .. n
    BY <1>2, <1>3, <1>6
  <2>2. QED
    BY <1>1, <1>3, <2>1
<1>7. QED
  BY <1>5, <1>6

LEMMA OldPlanned ==
  ASSUME numGpuBlocks \in Nat, NEW R, NEW s, Orderly(R, s), NEW res \in NextBatchOld(s)
  PROVE  Planned(R, s, res)
<1> DEFINE m == StayingOld(s)
           victims == After(s.gpuq, m)
           v == Reverse(victims)
           off == v \o s.cpuq
           prompts == First(s.waiting, AdmittedOld(s))
           k == IF victims = << >> THEN ReturningOld(s.gpuq, off, s.len) ELSE 0
           gq == First(s.gpuq, m) \o First(off, k)
           cq == After(off, k)
<1>1. \/ /\ off = << >>
         /\ res = Result(<<Batch(<< >>, prompts, s.gpuq, << >>)>>, << >>, << >>,
                         s.gpuq \o prompts, << >>, Len(prompts) <= Len(s.avail))
         /\ s.gpuq \o prompts # << >>
      \/ res = Result(NonEmpty(<<Batch(<< >>, << >>, gq, << >>)>>),
                      victims, First(off, k), gq, cq, TRUE)
  BY DEF NextBatchOld, OffloadedOld
<1>2. Measured(R, s.len) =>
        /\ Blocks(gq, s.len) <= numGpuBlocks /\ Len(gq) <= MaxBatch
        /\ victims = << >> \/ First(off, k) = << >>
        /\ Feasible(R, s) /\ gq = << >> => victims = << >> /\ First(off, k) = << >>
  BY OldGpuFits
<1>3. Measured(R, s.len) /\ Measured(R, s.plen) /\ victims = << >> =>
        LET n == AdmittedOld(s)
        IN /\ Blocks(s.gpuq, s.len) + Blocks(First(s.waiting, n), s.len) <= numGpuBlocks
           /\ Len(s.gpuq) + n <= MaxBatch
           /\ Len(s.gpuq) + Sum(First(s.waiting, n), s.plen) <= MaxTokens
  BY OldAdmitted
<1>4. Feasible(R, s) => Measured(R, s.len) /\ Measured(R, s.plen)
  BY DEF Feasible
<1>5. Cardinality({}) + Cardinality({}) = 0
  <2>1. Cardinality({}) = 0
    BY FS_EmptySet
  <2>2. QED
    BY <2>1
<1>6. s.waiting \in Seq(R) /\ s.gpuq \in Seq(R) /\ s.cpuq \in Seq(R)
  BY DEF Orderly
<1>7. IsInjective(s.gpuq) /\ IsInjective(s.cpuq) /\ ToSet(s.gpuq) \cap ToSet(s.cpuq) = {}
  BY DEF Orderly
<1>8. m \in 0 .. Len(s.gpuq)
  BY <1>6, StayingWithin
<1> HIDE DEF m
<1>9. victims \in Seq(R)
  BY <1>6, <1>8, CutMembers DEF After
<1>10. v \in Seq(R)
  <2> HIDE DEF victims
  <2>1. QED
    BY <1>9, ReverseMembers
<1>11. off \in Seq(R)
  <2> HIDE DEF v
  <2>1. QED
    BY <1>6, <1>10
<1>12. k \in 0 .. Len(off)
  <2> HIDE DEF off, victims
  <2>1. ReturningOld(s.gpuq, off, s.len) \in 0 .. Len(off)
    BY <1>11, PrefixWithin DEF ReturningOld
  <2>2. QED
    BY <1>11, <2>1
<1> HIDE DEF k
<1>13. Moves(R, s.gpuq, s.cpuq, victims, First(off, k), gq, cq)
  <2>1. PICK out, w : out = victims /\ w = v
    OBVIOUS
  <2>2. /\ out = After(s.gpuq, m) /\ w = Reverse(After(s.gpuq, m))
        /\ k \in 0 .. Len(w \o s.cpuq)
    BY <1>12, <2>1
  <2>3. Moves(R, s.gpuq, s.cpuq, out, First(w \o s.cpuq, k),
              First(s.gpuq, m) \o First(w \o s.cpuq, k), After(w \o s.cpuq, k))
    <3> HIDE DEF v, victims, off
    <3>1. QED
      BY <1>6, <1>7, <1>8, <2>2, MoveVictims
  <2>4. QED
    BY <2>1, <2>3
<1>14. /\ << >> \in Seq(R) /\ Len(<< >>) = 0 /\ 0 \in 0 .. Len(s.waiting)
       /\ << >> \o << >> = << >> /\ First(s.waiting, 0) = << >> /\ PickAt(cq, {}) = << >>
  BY <1>6, CutNone, PickNone
<1>15. CASE /\ off = << >>
            /\ res = Result(<<Batch(<< >>, prompts, s.gpuq, << >>)>>, << >>, << >>,
                            s.gpuq \o prompts, << >>, Len(prompts) <= Len(s.avail))
            /\ s.gpuq \o prompts # << >>
  <2> DEFINE n == AdmittedOld(s)
             b == Batch(<< >>, prompts, s.gpuq, << >>)
  <2>1. n \in 0 .. Len(s.waiting)
    BY <1>6, PrefixWithin DEF AdmittedOld
  <2>2. Feasible(R, s) =>
          /\ Blocks(s.gpuq, s.len) + Blocks(First(s.waiting, n), s.len) <= numGpuBlocks
          /\ Len(s.gpuq) + n <= MaxBatch
          /\ Len(s.gpuq) + Sum(First(s.waiting, n), s.plen) <= MaxTokens
    <3>1. v = << >>
      <4>1. PICK q, w : q = s.cpuq /\ w = v
        OBVIOUS
      <4>2. q \in Seq(R) /\ w \in Seq(R)
        BY <1>6, <1>10, <4>1
      <4>3. w \o q = << >>
        BY <1>15, <4>1
      <4>4. w = << >>
        BY ONLY <4>2, <4>3
      <4>5. QED
        BY <4>1, <4>4
    <3>2. victims = << >>
      <4>1. PICK q : q = victims
        OBVIOUS
      <4>2. q \in Seq(R) /\ Len(Reverse(q)) = Len(q)
        BY <1>9, <4>1, ReverseMembers
      <4>3. Len(q) = 0
        BY <3>1, <4>1, <4>2
      <4>4. QED
        BY <4>1, <4>2, <4>3
    <3>3. QED
      BY <1>3, <1>4, <3>2
  <2> HIDE DEF n
  <2>3. prompts \in Seq(R) /\ Len(prompts) = n /\ prompts = First(s.waiting, n)
    <3>1. prompts = First(s.waiting, n)
      BY DEF n
    <3> HIDE DEF prompts
    <3>2. QED
      BY <1>6, <2>1, <3>1, CutMembers DEF First
  <2> HIDE DEF prompts
  <2>4. s.cpuq = << >>
    <3>1. PICK q, w : q = s.cpuq /\ w = v
      OBVIOUS
    <3>2. q \in Seq(R) /\ w \in Seq(R)
      BY <1>6, <1>10, <3>1
    <3>3. w \o q = << >>
      BY <1>15, <3>1
    <3>4. q = << >>
      BY ONLY <3>2, <3>3
    <3>5. QED
      BY <3>1, <3>4
  <2>5. Moves(R, s.gpuq, << >>, << >>, << >>, s.gpuq, << >>)
    BY <1>6, <1>7, <2>4, MoveNone
  <2>6. Shape(<<b>>, Batch(<< >>, prompts, s.gpuq, PickAt(<< >>, {})), Second(<< >>, {}))
    BY PickNone DEF Shape
  <2>7. PICK d : d = PickAt(<< >>, {})
    OBVIOUS
  <2>8. NumPrefs(<<b>>) = Len(prompts) + Len(<< >>)
    <3>1. PICK e, q, p, bs : e = << >> /\ q = s.gpuq /\ p = prompts /\ bs = <<b>>
      OBVIOUS
    <3>2. Shape(bs, Batch(e, p, q, d), Second(e, {}))
      BY <2>6, <2>7, <3>1
    <3>3. e \in Seq(R) /\ q \in Seq(R) /\ p \in Seq(R)
      BY <1>6, <1>14, <2>3, <3>1
    <3>4. NumPrefs(bs) = Len(p) + Len(e)
      BY ONLY <3>2, <3>3, ShapeLaunch
    <3>5. QED
      BY <3>1, <3>4
  <2>9. NumPrefs(<<b>>) = n
    BY <1>14, <2>1, <2>3, <2>8
  <2>10. /\ res.batches = <<b>> /\ res.swapOut = << >> /\ res.swapIn = << >>
         /\ res.gpuq = s.gpuq \o prompts /\ res.cpuq = << >>
         /\ res.ok <=> n <= Len(s.avail)
    BY <1>15, <2>3 DEF Result
  <2>11. prompts \o << >> = prompts
    BY <2>3
  <2> HIDE DEF b
  <2>12. Plan(R, s, res, n, prompts, << >>, s.gpuq, << >>, {}, {})
    <3>1. n \in 0 .. Len(s.waiting) /\ prompts \in Seq(R) /\ << >> \in Seq(R)
      BY <1>14, <2>1, <2>3
    <3>2. prompts \o << >> = First(s.waiting, n)
      BY <2>3, <2>11
    <3>3. Moves(R, s.gpuq, s.cpuq, res.swapOut, res.swapIn, s.gpuq, << >>)
      BY ONLY <2>4, <2>5, <2>10
    <3>4. {} \in SUBSET DOMAIN << >> /\ {} \cap {} = {}
      OBVIOUS
    <3>5. Shape(res.batches, Batch(<< >>, prompts, s.gpuq, PickAt(<< >>, {})), Second(<< >>, {}))
      BY ONLY <2>6, <2>10
    <3>6. NumPrefs(res.batches) = n /\ (res.ok => n = 0 \/ n <= Len(s.avail))
      BY ONLY <2>9, <2>10
    <3>7. res.gpuq = s.gpuq \o prompts /\ res.cpuq = << >> \o << >>
      BY ONLY <1>14, <2>10
    <3>8. QED
      BY ONLY <3>1, <3>2, <3>3, <3>4, <3>5, <3>6, <3>7 DEF Plan
  <2>13. ASSUME Feasible(R, s) PROVE Paid(R, s, res, n, prompts, << >>, s.gpuq, {}, {})
    <3>1. Blocks(<< >>, s.len) <= NumGpu
      BY NoBlocks, SchedulerAssumption
    <3>2. /\ 0 \in Nat /\ Cardinality({}) + Cardinality({}) <= 0
          /\ Len(s.gpuq) + n + 0 <= MaxBatch
          /\ Len(s.gpuq) + Sum(First(s.waiting, n), s.plen) + 0 <= MaxTokens
      <4>1. PICK x, y : x = Len(s.gpuq) /\ y = Sum(First(s.waiting, n), s.plen)
        OBVIOUS
      <4>2. x \in Nat /\ n \in Nat
        BY <1>6, <2>1, <4>1
      <4>3. y \in Nat
        <5>1. Line(R, s.waiting) /\ Measured(R, s.plen)
          BY <1>4, <2>13 DEF Orderly, Line
        <5>2. Line(R, First(s.waiting, n))
          BY <2>1, <5>1, FirstSet
        <5>3. QED
          BY <4>1, <5>1, <5>2, LineSum
      <4>4. x + n <= MaxBatch /\ x + y <= MaxTokens
        BY <2>2, <2>13, <4>1
      <4>5. x + n + 0 <= MaxBatch /\ x + y + 0 <= MaxTokens
        BY <4>2, <4>3, <4>4
      <4>6. QED
        BY <1>5, <4>1, <4>5
    <3>3. Full(<<b>>)
      <4>1. PICK q, p : q = s.gpuq /\ p = prompts
        OBVIOUS
      <4>2. q \in Seq(R) /\ p \in Seq(R) /\ q \o p # << >>
        BY <1>6, <1>15, <2>3, <4>1
      <4>3. ~(p = << >> /\ q = << >>)
        BY <4>2
      <4>4. b = Batch(<< >>, p, q, << >>)
        BY <4>1 DEF b
      <4>5. BatchReqs(b) # << >>
        <5>1. << >> \in Seq(R)
          BY <1>14
        <5>2. BatchReqs(b) = << >> => p = << >> /\ q = << >>
          BY <4>2, <4>4, <5>1, NoneOfThree
        <5>3. QED
          BY <4>3, <5>2
      <4>6. QED
        BY <4>5 DEF Full
    <3>4. Blocks(s.gpuq, s.len) + Blocks(prompts, s.len) <= numGpuBlocks
      BY <2>3, <2>2, <2>13
    <3>5. /\ res.swapOut = << >> \/ res.swapIn = << >>
          /\ res.batches = << >> => res.swapOut = << >> /\ res.swapIn = << >>
          /\ n <= Len(s.avail) /\ ~CdecTooLong(res.batches, s.len) => res.ok
      BY ONLY <2>10
    <3>6. Full(res.batches)
      BY ONLY <2>10, <3>3
    <3>7. QED
      BY ONLY <3>1, <3>2, <3>4, <3>5, <3>6 DEF Paid
  <2>14. QED
    BY <2>1, <2>12, <2>13 DEF Planned
<1>16. CASE res = Result(NonEmpty(<<Batch(<< >>, << >>, gq, << >>)>>),
                         victims, First(off, k), gq, cq, TRUE)
  <2>1. res.ok
    BY <1>16 DEF Result
  <2> HIDE DEF victims, off
  <2>2. gq \in Seq(R) /\ cq \in Seq(R)
    BY <1>13 DEF Moves
  <2> DEFINE b == Batch(<< >>, << >>, gq, << >>)
             bs == NonEmpty(<<b>>)
  <2>3. /\ res.batches = bs /\ res.swapOut = victims /\ res.swapIn = First(off, k)
        /\ res.gpuq = gq /\ res.cpuq = cq
    BY <1>16 DEF Result
  <2> HIDE DEF gq, cq
  <2>4. b = Batch(<< >>, << >>, gq, PickAt(cq, {}))
    BY <1>14
  <2>5. bs = <<b>> \/ (BatchReqs(b) = << >> /\ bs = << >>)
    <3> HIDE DEF b
    <3>1. QED
      BY NonEmptyOne
  <2> HIDE DEF b, bs
  <2>6. Shape(bs, b, Second(cq, {}))
    BY <2>5 DEF Shape
  <2>7. PICK d : d = PickAt(cq, {})
    OBVIOUS
  <2>8. NumPrefs(bs) = Len(<< >>) + Len(<< >>)
    <3>1. PICK e : e = << >>
      OBVIOUS
    <3>2. Shape(bs, Batch(e, e, gq, d), Second(cq, {})) /\ e \in Seq(R)
      BY <1>14, <2>4, <2>6, <2>7, <3>1
    <3>3. NumPrefs(bs) = Len(e) + Len(e)
      BY ONLY <2>2, <3>2, ShapeLaunch
    <3>4. QED
      BY <3>1, <3>3
  <2>9. NumPrefs(bs) = 0
    BY <1>14, <2>8
  <2>10. gq \o << >> = gq /\ cq \o << >> = cq
    BY <2>2
  <2>11. Plan(R, s, res, 0, << >>, << >>, gq, cq, {}, {})
    BY <1>13, <1>14, <2>3, <2>4, <2>6, <2>9, <2>10 DEF Plan
  <2>12. ASSUME Feasible(R, s) PROVE Paid(R, s, res, 0, << >>, << >>, gq, {}, {})
    <3>1. /\ Blocks(gq, s.len) <= numGpuBlocks /\ Len(gq) <= MaxBatch
          /\ victims = << >> \/ First(off, k) = << >>
          /\ gq = << >> => victims = << >> /\ First(off, k) = << >>
      BY <1>2, <1>4, <2>12
    <3>2. Blocks(gq, s.len) + Blocks(<< >>, s.len) <= numGpuBlocks
      <4>1. Line(R, gq)
        BY <1>13 DEF Moves, Line
      <4>2. Blocks(gq, s.len) \in Nat
        BY <1>4, <2>12, <4>1, LineCosts
      <4>3. Blocks(<< >>, s.len) = 0
        BY NoBlocks
      <4>4. QED
        BY <3>1, <4>2, <4>3
    <3>3. Blocks(<< >>, s.len) <= NumGpu
      BY NoBlocks, SchedulerAssumption
    <3>4. /\ 0 \in Nat /\ Cardinality({}) + Cardinality({}) <= 0
          /\ Len(gq) + 0 + 0 <= MaxBatch
          /\ Len(gq) + Sum(First(s.waiting, 0), s.plen) + 0 <= MaxTokens
      <4>1. Sum(First(s.waiting, 0), s.plen) = 0
        BY <1>14, SumNone DEF Sum
      <4>2. PICK x : x = Len(gq)
        OBVIOUS
      <4>3. x \in Nat /\ x <= MaxBatch
        BY <2>2, <3>1, <4>2
      <4>4. x + 0 + 0 <= MaxBatch /\ x + 0 + 0 <= MaxTokens
        BY <4>3, SchedulerAssumption
      <4>5. QED
        BY <1>5, <4>1, <4>2, <4>4
    <3>5. Full(bs)
      BY NonEmptyFull DEF bs
    <3>6. bs = << >> => gq = << >>
      <4>1. PICK e : e = << >>
        OBVIOUS
      <4>2. e \in Seq(R)
        BY <1>14, <4>1
      <4>3. b = Batch(e, e, gq, << >>)
        BY <4>1 DEF b
      <4>4. BatchReqs(b) = << >> => gq = << >>
        BY <2>2, <4>2, <4>3, NoneOfThree
      <4>5. bs = <<b>> => bs # << >>
        OBVIOUS
      <4>6. QED
        BY <2>5, <4>4, <4>5
    <3>7. QED
      BY <2>3, <2>1, <3>1, <3>2, <3>3, <3>4, <3>5, <3>6 DEF Paid
  <2>13. QED
    BY <1>14, <2>11, <2>12 DEF Planned
<1> HIDE DEF off, victims, gq, cq, prompts
<1>17. QED
  BY <1>1, <1>15, <1>16

-----------------------------------------------------------------------------
(* The requests of a list of batches, in the order of their output tokens. *)
Running(batches) ==
  IF Len(batches) = 2 THEN BatchReqs(batches[1]) \o BatchReqs(batches[2])
                      ELSE BatchReqs(batches[1])

(* One or two batches run requests of S, each once, those of must for sure. *)
Ready(R, batches, must, S) ==
  /\ Len(batches) \in {1, 2} /\ Running(batches) \in Seq(R)
  /\ IsInjective(Running(batches))
  /\ must \subseteq ToSet(Running(batches)) /\ ToSet(Running(batches)) \subseteq S

(* The two sub-batches share no request.                                   *)
LEMMA ShapeReady ==
  ASSUME NEW R, NEW X \in Seq(R), NEW Y \in Seq(R), NEW b0, NEW b1, NEW batches,
         BatchReqs(b0) = X, BatchReqs(b1) = Y, IsInjective(X), IsInjective(Y),
         ToSet(X) \cap ToSet(Y) = {}, Shape(batches, b0, b1),
         NEW must, must \subseteq ToSet(X)
  PROVE  \/ batches = << >> /\ must = {}
         \/ Ready(R, batches, must, ToSet(X) \cup ToSet(Y))
<1>1. CASE batches = <<b0>>
  <2>1. Len(batches) = 1 /\ Running(batches) = X
    BY <1>1 DEF Running
  <2>2. QED
    BY <2>1 DEF Ready
<1>2. CASE batches = <<b0, b1>>
  <2>1. Len(batches) = 2 /\ Running(batches) = X \o Y
    BY <1>2 DEF Running
  <2>2. X \o Y \in Seq(R) /\ ToSet(X \o Y) = ToSet(X) \cup ToSet(Y) /\ IsInjective(X \o Y)
    BY ConcatMembers
  <2>3. QED
    BY <2>1, <2>2 DEF Ready
<1>3. CASE BatchReqs(b0) = << >> /\ (batches = << >> \/ batches = <<b1>>)
  <2>1. must = {}
    <3>1. X = << >>
      BY <1>3
    <3>2. ToSet(X) = {}
      BY <3>1 DEF ToSet
    <3>3. QED
      BY <3>2
  <2>2. CASE batches = <<b1>>
    <3>1. Len(batches) = 1 /\ Running(batches) = Y
      BY <2>2 DEF Running
    <3>2. QED
      BY <2>1, <3>1 DEF Ready
  <2>3. QED
    BY <1>3, <2>1, <2>2
<1>4. QED
  BY <1>1, <1>2, <1>3 DEF Shape

(* The requests of the two sub-batches that a plan forms.                  *)
LEMMA PlanReady ==
  ASSUME NEW R, NEW p \in Seq(R), NEW c \in Seq(R), NEW gq \in Seq(R), NEW cq \in Seq(R),
         IsInjective(p \o c), IsInjective(gq), IsInjective(cq),
         ToSet(p \o c) \cap (ToSet(gq) \cup ToSet(cq)) = {}, ToSet(gq) \cap ToSet(cq) = {},
         NEW A \in SUBSET DOMAIN cq, NEW B \in SUBSET DOMAIN cq, A \cap B = {},
         NEW batches, Shape(batches, Batch(c, p, gq, PickAt(cq, A)), Second(cq, B))
  PROVE  LET must == ToSet(p \o c) \cup ToSet(gq)
             decs == ToSet(PickAt(cq, A)) \cup ToSet(PickAt(cq, B))
         IN /\ decs \subseteq ToSet(cq)
            /\ \/ batches = << >> /\ must = {}
               \/ Ready(R, batches, must, must \cup decs)
<1> DEFINE must == ToSet(p \o c) \cup ToSet(gq)
<1>1. PICK a, b, e : a = PickAt(cq, A) /\ b = PickAt(cq, B) /\ e = << >>
  OBVIOUS
<1>2. DOMAIN cq = 1 .. Len(cq) /\ A \subseteq 1 .. Len(cq) /\ B \subseteq 1 .. Len(cq)
  OBVIOUS
<1>3. /\ a \in Seq(R) /\ IsInjective(a) /\ ToSet(a) = {cq[i] : i \in A}
      /\ b \in Seq(R) /\ IsInjective(b) /\ ToSet(b) = {cq[i] : i \in B}
  <2>1. a \in Seq(R) /\ IsInjective(a) /\ ToSet(a) = {cq[i] : i \in A}
    BY <1>1, <1>2, PickMembers
  <2>2. b \in Seq(R) /\ IsInjective(b) /\ ToSet(b) = {cq[i] : i \in B}
    BY <1>1, <1>2, PickMembers
  <2>3. QED
    BY <2>1, <2>2
<1>4. ToSet(a) \subseteq ToSet(cq) /\ ToSet(b) \subseteq ToSet(cq)
  BY <1>2, <1>3 DEF ToSet
<1>5. ToSet(a) \cap ToSet(b) = {}
  BY <1>2, <1>3 DEF IsInjective
<1>6. /\ IsInjective(p) /\ IsInjective(c) /\ ToSet(p) \cap ToSet(c) = {}
      /\ ToSet(p \o c) = ToSet(p) \cup ToSet(c)
  BY ConcatMembers
<1>7. /\ c \o p \in Seq(R) /\ ToSet(c \o p) = ToSet(p \o c) /\ IsInjective(c \o p)
  <2>1. /\ c \o p \in Seq(R) /\ ToSet(c \o p) = ToSet(c) \cup ToSet(p)
        /\ IsInjective(c \o p)
    BY <1>6, ConcatMembers
  <2>2. QED
    BY <1>6, <2>1
<1>8. PICK x : x = c \o p
  OBVIOUS
<1>9. x \o gq \in Seq(R) /\ ToSet(x \o gq) = must /\ IsInjective(x \o gq)
  <2>1. x \in Seq(R) /\ ToSet(x) = ToSet(p \o c) /\ IsInjective(x) /\ ToSet(x) \cap ToSet(gq) = {}
    BY <1>7, <1>8
  <2>2. /\ x \o gq \in Seq(R) /\ ToSet(x \o gq) = ToSet(x) \cup ToSet(gq)
        /\ IsInjective(x \o gq)
    BY <2>1, ConcatMembers
  <2>3. QED
    BY <2>1, <2>2
<1>10. PICK y : y = x \o gq
  OBVIOUS
<1>11. y \o a \in Seq(R) /\ ToSet(y \o a) = must \cup ToSet(a) /\ IsInjective(y \o a)
  <2>1. y \in Seq(R) /\ ToSet(y) = must /\ IsInjective(y)
    BY <1>9, <1>10
  <2>2. ToSet(y) \cap ToSet(a) = {}
    BY <1>4, <2>1
  <2> HIDE DEF must
  <2>3. /\ y \o a \in Seq(R) /\ ToSet(y \o a) = ToSet(y) \cup ToSet(a)
        /\ IsInjective(y \o a)
    BY <1>3, <2>1, <2>2, ConcatMembers
  <2>4. QED
    BY <2>1, <2>3
<1>12. PICK z, b0, b1 : /\ z = y \o a /\ b0 = Batch(c, p, gq, PickAt(cq, A))
                        /\ b1 = Second(cq, B)
  OBVIOUS
<1>13. BatchReqs(b0) = z
  BY <1>1, <1>8, <1>10, <1>12 DEF Batch, BatchReqs
<1>14. BatchReqs(b1) = b
  <2>1. BatchReqs(b1) = e \o e \o e \o b
    BY <1>1, <1>12 DEF Second, Batch, BatchReqs
  <2>2. e \o e = e /\ e \o b = b
    BY <1>1, <1>3
  <2>3. QED
    BY <2>1, <2>2
<1>15. /\ z \in Seq(R) /\ ToSet(z) = must \cup ToSet(a) /\ IsInjective(z)
       /\ must \subseteq ToSet(z) /\ ToSet(z) \cap ToSet(b) = {}
  BY <1>4, <1>5, <1>11, <1>12
<1>16. Shape(batches, b0, b1)
  BY <1>12
<1> HIDE DEF must
<1>17. (batches = << >> /\ must = {}) \/ Ready(R, batches, must, ToSet(z) \cup ToSet(b))
  BY <1>3, <1>13, <1>14, <1>15, <1>16, ShapeReady
<1>18. ToSet(z) \cup ToSet(b) = must \cup (ToSet(a) \cup ToSet(b))
  BY <1>15
<1>19. QED
  BY <1>1, <1>4, <1>17, <1>18 DEF must

(* What the event loop relies on: the first n waiting prompts, and no      *)
(* others, leave the queue; the queues of decodes hold these and the       *)
(* earlier decodes, none lost and none twice; every prompt that left, and  *)
(* every decode of the GPU, runs in this very iteration, and no request    *)
(* runs twice in it.                                                       *)
Promised(R, s, res) ==
  LET n == NumPrefs(res.batches)
      started == ToSet(First(s.waiting, n))
      all == ToSet(res.gpuq) \cup ToSet(res.cpuq)
      must == started \cup ToSet(res.gpuq)
  IN /\ n \in 0 .. Len(s.waiting) /\ (res.ok => n = 0 \/ n <= Len(s.avail))
     /\ res.gpuq \in Seq(R) /\ IsInjective(res.gpuq)
     /\ res.cpuq \in Seq(R) /\ IsInjective(res.cpuq)
     /\ ToSet(res.gpuq) \cap ToSet(res.cpuq) = {}
     /\ all = started \cup ToSet(s.gpuq) \cup ToSet(s.cpuq)
     /\ \/ res.batches = << >> /\ must = {}
        \/ Ready(R, res.batches, must, all)

LEMMA PlanPromised ==
  ASSUME NEW R, NEW s, Orderly(R, s), NEW res, Planned(R, s, res)
  PROVE  Promised(R, s, res)
<1>1. PICK n, p, c, gq, cq, A, B : Plan(R, s, res, n, p, c, gq, cq, A, B)
  BY DEF Planned
<1>2. /\ n \in 0 .. Len(s.waiting)
      /\ p \in Seq(R) /\ c \in Seq(R) /\ p \o c = First(s.waiting, n)
      /\ A \in SUBSET DOMAIN cq /\ B \in SUBSET DOMAIN cq /\ A \cap B = {}
      /\ Shape(res.batches, Batch(c, p, gq, PickAt(cq, A)), Second(cq, B))
      /\ NumPrefs(res.batches) = n /\ (res.ok => n = 0 \/ n <= Len(s.avail))
      /\ res.gpuq = gq \o p /\ res.cpuq = cq \o c
  BY <1>1 DEF Plan
<1>3. /\ gq \in Seq(R) /\ cq \in Seq(R) /\ IsInjective(gq) /\ IsInjective(cq)
      /\ ToSet(gq) \cap ToSet(cq) = {}
      /\ ToSet(gq) \cup ToSet(cq) = ToSet(s.gpuq) \cup ToSet(s.cpuq)
  <2>1. Moves(R, s.gpuq, s.cpuq, res.swapOut, res.swapIn, gq, cq)
    BY <1>1 DEF Plan
  <2>2. ToSet(s.gpuq) \cap ToSet(s.cpuq) = {}
    BY DEF Orderly
  <2>3. QED
    BY <2>1, <2>2 DEF Moves
<1>4. PICK f, w : f = First(s.waiting, n) /\ w = s.waiting
  OBVIOUS
<1>5. /\ f \in Seq(R) /\ IsInjective(f) /\ f = p \o c
      /\ ToSet(f) \cap (ToSet(gq) \cup ToSet(cq)) = {}
  <2>1. w \in Seq(R) /\ IsInjective(w) /\ n \in 0 .. Len(w) /\ f = SubSeq(w, 1, n)
    BY <1>2, <1>4 DEF Orderly, First
  <2>2. f \in Seq(R) /\ IsInjective(f) /\ ToSet(f) \subseteq ToSet(w)
    <3>1. /\ SubSeq(w, 1, n) \in Seq(R)
          /\ ToSet(w) = ToSet(SubSeq(w, 1, n)) \cup ToSet(SubSeq(w, n + 1, Len(w)))
          /\ IsInjective(w) => IsInjective(SubSeq(w, 1, n))
      BY ONLY <2>1, CutMembers
    <3>2. QED
      BY <2>1, <3>1
  <2>3. ToSet(w) \cap (ToSet(s.gpuq) \cup ToSet(s.cpuq)) = {}
    BY <1>4 DEF Orderly
  <2>4. QED
    BY <1>2, <1>3, <1>4, <2>2, <2>3
<1>6. /\ IsInjective(p) /\ IsInjective(c) /\ ToSet(p) \cap ToSet(c) = {}
      /\ ToSet(f) = ToSet(p) \cup ToSet(c)
  <2>1. p \in Seq(R) /\ c \in Seq(R)
    BY <1>2
  <2>2. /\ ToSet(p \o c) = ToSet(p) \cup ToSet(c)
        /\ IsInjective(p \o c) <=>
             IsInjective(p) /\ IsInjective(c) /\ ToSet(p) \cap ToSet(c) = {}
    BY ONLY <2>1, ConcatMembers
  <2>3. QED
    BY <1>5, <2>2
<1>7. PICK g, k : g = gq \o p /\ k = cq \o c
  OBVIOUS
<1>8. /\ g \in Seq(R) /\ ToSet(g) = ToSet(gq) \cup ToSet(p) /\ IsInjective(g)
      /\ k \in Seq(R) /\ ToSet(k) = ToSet(cq) \cup ToSet(c) /\ IsInjective(k)
  <2>1. ToSet(gq) \cap ToSet(p) = {} /\ ToSet(cq) \cap ToSet(c) = {}
    BY <1>5, <1>6
  <2>2. g \in Seq(R) /\ ToSet(g) = ToSet(gq) \cup ToSet(p) /\ IsInjective(g)
    <3>1. gq \in Seq(R) /\ p \in Seq(R) /\ IsInjective(gq) /\ IsInjective(p)
      BY <1>2, <1>3, <1>6
    <3>2. /\ gq \o p \in Seq(R) /\ ToSet(gq \o p) = ToSet(gq) \cup ToSet(p)
          /\ IsInjective(gq \o p)
      BY ONLY <2>1, <3>1, ConcatMembers
    <3>3. QED
      BY <1>7, <3>2
  <2>3. k \in Seq(R) /\ ToSet(k) = ToSet(cq) \cup ToSet(c) /\ IsInjective(k)
    <3>1. cq \in Seq(R) /\ c \in Seq(R) /\ IsInjective(cq) /\ IsInjective(c)
      BY <1>2, <1>3, <1>6
    <3>2. /\ cq \o c \in Seq(R) /\ ToSet(cq \o c) = ToSet(cq) \cup ToSet(c)
          /\ IsInjective(cq \o c)
      BY ONLY <2>1, <3>1, ConcatMembers
    <3>3. QED
      BY <1>7, <3>2
  <2>4. QED
    BY <2>2, <2>3
<1>9. LET must == ToSet(f) \cup ToSet(gq)
      IN \/ res.batches = << >> /\ must = {}
         \/ Ready(R, res.batches, must, must \cup ToSet(cq))
  <2>1. PICK decs, must : /\ decs = ToSet(PickAt(cq, A)) \cup ToSet(PickAt(cq, B))
                          /\ must = ToSet(p \o c) \cup ToSet(gq)
    OBVIOUS
  <2>2. /\ decs \subseteq ToSet(cq)
        /\ \/ res.batches = << >> /\ must = {}
           \/ Ready(R, res.batches, must, must \cup decs)
    <3>1. IsInjective(p \o c) /\ ToSet(p \o c) \cap (ToSet(gq) \cup ToSet(cq)) = {}
      BY <1>5
    <3>2. /\ p \in Seq(R) /\ c \in Seq(R) /\ gq \in Seq(R) /\ cq \in Seq(R)
          /\ IsInjective(gq) /\ IsInjective(cq) /\ ToSet(gq) \cap ToSet(cq) = {}
          /\ A \in SUBSET DOMAIN cq /\ B \in SUBSET DOMAIN cq /\ A \cap B = {}
          /\ Shape(res.batches, Batch(c, p, gq, PickAt(cq, A)), Second(cq, B))
      BY <1>2, <1>3
    <3>3. LET all == ToSet(p \o c) \cup ToSet(gq)
              some == ToSet(PickAt(cq, A)) \cup ToSet(PickAt(cq, B))
          IN /\ some \subseteq ToSet(cq)
             /\ \/ res.batches = << >> /\ all = {}
                \/ Ready(R, res.batches, all, all \cup some)
      BY ONLY <3>1, <3>2, PlanReady
    <3>4. QED
      BY <2>1, <3>3
  <2>3. must = ToSet(f) \cup ToSet(gq)
    BY <1>5, <2>1
  <2>4. QED
    BY <2>2, <2>3 DEF Ready
<1>10. res.gpuq = g /\ res.cpuq = k
  BY <1>2, <1>7
<1>11. ToSet(g) \cap ToSet(k) = {}
  BY <1>3, <1>5, <1>6, <1>8
<1>12. ToSet(g) \cup ToSet(k) = ToSet(f) \cup ToSet(s.gpuq) \cup ToSet(s.cpuq)
  BY <1>3, <1>6, <1>8
<1>13. /\ ToSet(f) \cup ToSet(g) = ToSet(f) \cup ToSet(gq)
       /\ ToSet(f) \cup ToSet(gq) \cup ToSet(cq) = ToSet(g) \cup ToSet(k)
  BY <1>6, <1>8
<1>14. QED
  BY <1>2, <1>4, <1>8, <1>9, <1>10, <1>11, <1>12, <1>13 DEF Promised

(* Both policies of get_next_batch keep the promise, whatever the queues,  *)
(* the lengths, the sizes of the caches and the answers of the predictor.  *)
THEOREM SchedulerPromise ==
  ASSUME numGpuBlocks \in Nat, NEW R, NEW s, Orderly(R, s),
         NEW res \in NextBatchNew(s) \cup NextBatchOld(s)
  PROVE  Promised(R, s, res)
BY NewPlanned, OldPlanned, PlanPromised

-----------------------------------------------------------------------------
(* Where the requests of a batch come from: prompts of c for the CPU and of *)
(* p for the GPU, decodes of gq and cq.                                    *)
Within(R, b, c, p, gq, cq) ==
  /\ b = Batch(b.cprf, b.gprf, b.gdec, b.cdec)
  /\ b.cprf \in Seq(R) /\ b.gprf \in Seq(R) /\ b.gdec \in Seq(R) /\ b.cdec \in Seq(R)
  /\ ToSet(b.cprf) \subseteq ToSet(c) /\ ToSet(b.gprf) \subseteq ToSet(p)
  /\ ToSet(b.gdec) \subseteq ToSet(gq) /\ ToSet(b.cdec) \subseteq ToSet(cq)

(* The swaps make gq and cq of the queues; then the prompts join them, and *)
(* every batch runs a request where its queue says.                        *)
Placing(R, s, res, c, p, gq, cq) ==
  /\ Moves(R, s.gpuq, s.cpuq, res.swapOut, res.swapIn, gq, cq)
  /\ ToSet(p) \cup ToSet(c) = ToSet(First(s.waiting, NumPrefs(res.batches)))
  /\ ToSet(res.gpuq) = ToSet(gq) \cup ToSet(p) /\ ToSet(res.cpuq) = ToSet(cq) \cup ToSet(c)
  /\ DOMAIN res.batches = 1 .. Len(res.batches)
  /\ \A k \in 1 .. Len(res.batches) : Within(R, res.batches[k], c, p, gq, cq)
  /\ res.batches # << >> => res.batches[1].cprf = c /\ res.batches[1].gprf = p

LEMMA PlanPlacing ==
  ASSUME NEW R, NEW s, Orderly(R, s), NEW res, NEW n, NEW p, NEW c, NEW gq, NEW cq,
         NEW A, NEW B, Plan(R, s, res, n, p, c, gq, cq, A, B)
  PROVE  Placing(R, s, res, c, p, gq, cq)
<1>1. /\ p \in Seq(R) /\ c \in Seq(R) /\ p \o c = First(s.waiting, n)
      /\ Moves(R, s.gpuq, s.cpuq, res.swapOut, res.swapIn, gq, cq)
      /\ A \in SUBSET DOMAIN cq /\ B \in SUBSET DOMAIN cq
      /\ Shape(res.batches, Batch(c, p, gq, PickAt(cq, A)), Second(cq, B))
      /\ NumPrefs(res.batches) = n
      /\ res.gpuq = gq \o p /\ res.cpuq = cq \o c
  BY DEF Plan
<1>2. gq \in Seq(R) /\ cq \in Seq(R) /\ IsInjective(cq)
  BY <1>1 DEF Moves
<1>3. PICK a, b, e : a = PickAt(cq, A) /\ b = PickAt(cq, B) /\ e = << >>
  OBVIOUS
<1>4. /\ a \in Seq(R) /\ ToSet(a) \subseteq ToSet(cq)
      /\ b \in Seq(R) /\ ToSet(b) \subseteq ToSet(cq)
  <2>1. DOMAIN cq = 1 .. Len(cq) /\ A \subseteq 1 .. Len(cq) /\ B \subseteq 1 .. Len(cq)
    BY <1>1, <1>2
  <2>2. a \in Seq(R) /\ ToSet(a) = {cq[i] : i \in A}
    BY ONLY <1>2, <1>3, <2>1, PickMembers
  <2>3. b \in Seq(R) /\ ToSet(b) = {cq[i] : i \in B}
    BY ONLY <1>2, <1>3, <2>1, PickMembers
  <2>4. QED
    BY <2>1, <2>2, <2>3 DEF ToSet
<1>5. e \in Seq(R) /\ ToSet(e) = {}
  BY <1>3 DEF ToSet
<1>6. PICK b0, b1 : b0 = Batch(c, p, gq, a) /\ b1 = Batch(e, e, e, b)
  OBVIOUS
<1>7. /\ b0.cprf = c /\ b0.gprf = p /\ b0.gdec = gq /\ b0.cdec = a
      /\ b1.cprf = e /\ b1.gprf = e /\ b1.gdec = e /\ b1.cdec = b
  BY <1>6 DEF Batch
<1>8. Within(R, b0, c, p, gq, cq) /\ Within(R, b1, c, p, gq, cq)
  <2>1. Within(R, b0, c, p, gq, cq)
    BY <1>1, <1>2, <1>4, <1>6, <1>7 DEF Within
  <2>2. Within(R, b1, c, p, gq, cq)
    BY <1>4, <1>5, <1>6, <1>7 DEF Within
  <2>3. QED
    BY <2>1, <2>2
<1>9. Shape(res.batches, b0, b1)
  BY <1>1, <1>3, <1>6 DEF Second
<1>10. /\ \A k \in 1 .. Len(res.batches) : Within(R, res.batches[k], c, p, gq, cq)
       /\ res.batches # << >> => res.batches[1].cprf = c /\ res.batches[1].gprf = p
  <2>1. CASE res.batches = <<b0>>
    BY <1>7, <1>8, <2>1
  <2>2. CASE res.batches = <<b0, b1>>
    BY <1>7, <1>8, <2>2
  <2>3. CASE BatchReqs(b0) = << >> /\ res.batches = <<b1>>
    <3>1. c = e /\ p = e
      <4>1. c \o p \o gq \o a = << >>
        BY <1>7, <2>3 DEF BatchReqs
      <4>2. Len(c) = 0 /\ Len(p) = 0
        BY <1>1, <1>2, <1>4, <4>1
      <4>3. QED
        BY <1>1, <1>3, <4>2
    <3>2. QED
      BY <1>7, <1>8, <2>3, <3>1
  <2>4. CASE res.batches = << >>
    BY <2>4
  <2>5. QED
    BY <1>9, <2>1, <2>2, <2>3, <2>4 DEF Shape
<1>11. ToSet(p) \cup ToSet(c) = ToSet(First(s.waiting, NumPrefs(res.batches)))
  <2>1. p \in Seq(R) /\ c \in Seq(R)
    BY <1>1
  <2>2. ToSet(p \o c) = ToSet(p) \cup ToSet(c)
    BY ONLY <2>1, ConcatMembers
  <2>3. ToSet(First(s.waiting, n)) = ToSet(p \o c)
    BY ONLY <1>1
  <2>4. QED
    BY ONLY <1>1, <2>2, <2>3
<1>12. ToSet(res.gpuq) = ToSet(gq) \cup ToSet(p) /\ ToSet(res.cpuq) = ToSet(cq) \cup ToSet(c)
  <2>1. p \in Seq(R) /\ c \in Seq(R)
    BY <1>1
  <2>2. ToSet(gq \o p) = ToSet(gq) \cup ToSet(p)
    BY ONLY <1>2, <2>1, ConcatMembers
  <2>3. ToSet(cq \o c) = ToSet(cq) \cup ToSet(c)
    BY ONLY <1>2, <2>1, ConcatMembers
  <2>4. QED
    BY <1>1, <2>2, <2>3
<1>13. DOMAIN res.batches = 1 .. Len(res.batches)
  BY <1>9 DEF Shape
<1>14. QED
  BY <1>1, <1>10, <1>11, <1>12, <1>13 DEF Placing

(* A decode runs on the device whose queue holds it once the swaps that    *)
(* get_next_batch orders are done, and every prompt joins the queue of the *)
(* device its KV is left on.                                               *)
THEOREM SchedulerPlaces ==
  ASSUME numGpuBlocks \in Nat, NEW R, NEW s, Orderly(R, s),
         NEW res \in NextBatchNew(s) \cup NextBatchOld(s)
  PROVE  \E c, p, gq, cq : Placing(R, s, res, c, p, gq, cq)
<1>1. Planned(R, s, res)
  BY NewPlanned, OldPlanned
<1>2. QED
  BY <1>1, PlanPlacing DEF Planned

-----------------------------------------------------------------------------
(* What a plan costs.  The requests it is made of, each in one place.      *)
Apart(R, s, n, p, c, gq, cq, f, a, b) ==
  /\ Line(R, p) /\ Line(R, c) /\ Line(R, gq) /\ Line(R, cq) /\ Line(R, f)
  /\ Line(R, a) /\ Line(R, b)
  /\ Parts(ToSet(f), ToSet(p), ToSet(c))
  /\ ToSet(f) \cap (ToSet(gq) \cup ToSet(cq)) = {} /\ ToSet(gq) \cap ToSet(cq) = {}
  /\ ToSet(a) \subseteq ToSet(cq) /\ ToSet(b) \subseteq ToSet(cq) /\ ToSet(a) \cap ToSet(b) = {}
  /\ ToSet(f) \subseteq ToSet(s.waiting)
  /\ ToSet(gq) \cup ToSet(cq) = ToSet(s.gpuq) \cup ToSet(s.cpuq)

LEMMA PlanApart ==
  ASSUME NEW R, NEW s, Orderly(R, s), NEW res, NEW n, NEW p, NEW c, NEW gq, NEW cq,
         NEW A, NEW B, Plan(R, s, res, n, p, c, gq, cq, A, B)
  PROVE  /\ Apart(R, s, n, p, c, gq, cq, First(s.waiting, n), PickAt(cq, A), PickAt(cq, B))
         /\ Len(PickAt(cq, A)) = Cardinality(A) /\ Len(PickAt(cq, B)) = Cardinality(B)
<1>1. PICK f, a, b, w : f = First(s.waiting, n) /\ a = PickAt(cq, A) /\ b = PickAt(cq, B) /\ w = s.waiting
  OBVIOUS
<1>2. /\ n \in 0 .. Len(w) /\ p \in Seq(R) /\ c \in Seq(R) /\ p \o c = f
      /\ A \in SUBSET DOMAIN cq /\ B \in SUBSET DOMAIN cq /\ A \cap B = {}
      /\ Moves(R, s.gpuq, s.cpuq, res.swapOut, res.swapIn, gq, cq)
  BY <1>1 DEF Plan
<1>3. /\ gq \in Seq(R) /\ cq \in Seq(R) /\ IsInjective(gq) /\ IsInjective(cq)
      /\ ToSet(gq) \cap ToSet(cq) = {}
      /\ ToSet(gq) \cup ToSet(cq) = ToSet(s.gpuq) \cup ToSet(s.cpuq)
  BY <1>2 DEF Moves, Orderly
<1>4. /\ Line(R, w) /\ Line(R, gq) /\ Line(R, cq)
      /\ ToSet(w) \cap (ToSet(s.gpuq) \cup ToSet(s.cpuq)) = {}
  BY <1>1, <1>3 DEF Orderly, Line
<1>5. Line(R, f) /\ ToSet(f) \subseteq ToSet(w)
  <2>1. Line(R, f) /\ ToSet(f) = {w[i] : i \in 1 .. n}
    <3>1. Line(R, First(w, n)) /\ ToSet(First(w, n)) = {w[i] : i \in 1 .. n}
      BY <1>2, <1>4, FirstSet
    <3>2. QED
      BY <1>1, <3>1
  <2>2. w \in Seq(R)
    BY <1>4 DEF Line
  <2>3. ToSet(w) = {w[i] : i \in 1 .. Len(w)}
    BY <2>2 DEF ToSet
  <2>4. QED
    BY <1>2, <2>1, <2>3
<1>6. Line(R, p) /\ Line(R, c) /\ Parts(ToSet(f), ToSet(p), ToSet(c))
  <2>1. /\ ToSet(p \o c) = ToSet(p) \cup ToSet(c)
        /\ IsInjective(p \o c) <=>
             IsInjective(p) /\ IsInjective(c) /\ ToSet(p) \cap ToSet(c) = {}
    <3>1. p \in Seq(R) /\ c \in Seq(R)
      BY <1>2
    <3>2. QED
      BY ONLY <3>1, ConcatMembers
  <2>2. IsInjective(f)
    BY <1>5 DEF Line
  <2>3. QED
    BY <1>2, <2>1, <2>2 DEF Line, Parts
<1>7. /\ Line(R, a) /\ Line(R, b) /\ ToSet(a) = {cq[i] : i \in A} /\ ToSet(b) = {cq[i] : i \in B}
      /\ Len(a) = Cardinality(A) /\ Len(b) = Cardinality(B)
  <2>1. A \subseteq 1 .. Len(cq) /\ B \subseteq 1 .. Len(cq)
    BY <1>2, <1>3
  <2>2. a \in Seq(R) /\ IsInjective(a) /\ ToSet(a) = {cq[i] : i \in A} /\ Len(a) = Cardinality(A)
    BY <1>1, <1>3, <2>1, PickMembers
  <2>3. b \in Seq(R) /\ IsInjective(b) /\ ToSet(b) = {cq[i] : i \in B} /\ Len(b) = Cardinality(B)
    BY <1>1, <1>3, <2>1, PickMembers
  <2>4. QED
    BY <2>2, <2>3 DEF Line
<1>8. ToSet(a) \subseteq ToSet(cq) /\ ToSet(b) \subseteq ToSet(cq) /\ ToSet(a) \cap ToSet(b) = {}
  <2>1. ToSet(cq) = {cq[i] : i \in DOMAIN cq}
    BY DEF ToSet
  <2>2. \A i, j \in DOMAIN cq : cq[i] = cq[j] => i = j
    BY <1>3 DEF IsInjective
  <2>3. QED
    BY <1>2, <1>7, <2>1, <2>2
<1>9. ToSet(f) \cap (ToSet(gq) \cup ToSet(cq)) = {}
  BY <1>3, <1>4, <1>5
<1>10. Apart(R, s, n, p, c, gq, cq, f, a, b)
  BY <1>1, <1>3, <1>4, <1>5, <1>6, <1>7, <1>8, <1>9 DEF Apart
<1>11. QED
  BY <1>1, <1>7, <1>10

(* What the requests that a plan runs weigh.                               *)
LEMMA RunsWeigh ==
  ASSUME NEW R, NEW s, Orderly(R, s), NEW res, NEW n, NEW p, NEW c, NEW gq, NEW cq,
         NEW A, NEW B, Plan(R, s, res, n, p, c, gq, cq, A, B), res.batches # << >>,
         NEW w, Measured(R, w), \A x \in ToSet(gq) \cup ToSet(cq) : w[x] = 1
  PROVE  LET run == ToSet(Running(res.batches))
         IN /\ Weighs(run, w) /\ Weight(run, w) \in Nat /\ run \subseteq R
            /\ Weight(run, w) <=
                 Weight(ToSet(First(s.waiting, n)), w) + Len(gq) + (Cardinality(A) + Cardinality(B))
<1>1. PICK f, a, b : f = First(s.waiting, n) /\ a = PickAt(cq, A) /\ b = PickAt(cq, B)
  OBVIOUS
<1>2. /\ Apart(R, s, n, p, c, gq, cq, f, a, b)
      /\ Len(a) = Cardinality(A) /\ Len(b) = Cardinality(B)
  BY <1>1, PlanApart
<1>3. PICK S, T, U, V, W : /\ S = ToSet(f) \cup ToSet(gq) /\ T = ToSet(a) \cup ToSet(b)
                           /\ U = S \cup T /\ V = ToSet(Running(res.batches)) /\ W = ToSet(f)
  OBVIOUS
<1>4. V \subseteq U
  <2>1. PICK decs, must : /\ decs = ToSet(PickAt(cq, A)) \cup ToSet(PickAt(cq, B))
                          /\ must = ToSet(p \o c) \cup ToSet(gq)
    OBVIOUS
  <2>2. /\ p \in Seq(R) /\ c \in Seq(R) /\ gq \in Seq(R) /\ cq \in Seq(R) /\ p \o c = f
        /\ IsInjective(gq) /\ IsInjective(cq) /\ ToSet(gq) \cap ToSet(cq) = {}
        /\ IsInjective(p \o c) /\ ToSet(p \o c) \cap (ToSet(gq) \cup ToSet(cq)) = {}
        /\ A \in SUBSET DOMAIN cq /\ B \in SUBSET DOMAIN cq /\ A \cap B = {}
        /\ Shape(res.batches, Batch(c, p, gq, PickAt(cq, A)), Second(cq, B))
    BY <1>1, <1>2 DEF Plan, Apart, Line
  <2>3. \/ res.batches = << >> /\ must = {}
        \/ Ready(R, res.batches, must, must \cup decs)
    BY <2>1, <2>2, PlanReady
  <2>4. must = S /\ decs = T
    BY <1>1, <1>3, <2>1, <2>2
  <2>5. QED
    BY <1>3, <2>3, <2>4 DEF Ready
<1>5. /\ Weighs(W, w) /\ Weighs(ToSet(gq), w) /\ Weighs(ToSet(a), w) /\ Weighs(ToSet(b), w)
      /\ Weight(ToSet(gq), w) = Len(gq) /\ Weight(ToSet(a), w) = Len(a) /\ Weight(ToSet(b), w) = Len(b)
  <2>1. ASSUME NEW q, Line(R, q) PROVE Weighs(ToSet(q), w)
    BY <2>1, LineSum
  <2>2. ASSUME NEW q, Line(R, q), ToSet(q) \subseteq ToSet(gq) \cup ToSet(cq)
        PROVE  Weight(ToSet(q), w) = Len(q)
    <3>1. q \in Seq(R) /\ IsInjective(q)
      BY <2>2 DEF Line
    <3>2. IsFiniteSet(ToSet(q)) /\ Cardinality(ToSet(q)) = Len(q)
      BY <3>1, LenIsCardinality
    <3>3. \A x \in ToSet(q) : w[x] = 1
      BY <2>2
    <3>4. Weight(ToSet(q), w) = Cardinality(ToSet(q))
      BY <3>2, <3>3, WeightOnes
    <3>5. QED
      BY <3>2, <3>4
  <2>3. /\ Line(R, f) /\ Line(R, gq) /\ Line(R, a) /\ Line(R, b)
        /\ ToSet(a) \subseteq ToSet(cq) /\ ToSet(b) \subseteq ToSet(cq)
    BY <1>2 DEF Apart
  <2>4. QED
    BY <1>3, <2>1, <2>2, <2>3
<1>6. Parts(S, W, ToSet(gq)) /\ Parts(T, ToSet(a), ToSet(b)) /\ Parts(U, S, T)
  BY <1>2, <1>3 DEF Apart, Parts
<1>7. Weighs(S, w) /\ Weight(S, w) = Weight(W, w) + Len(gq)
  BY <1>5, <1>6, WeightParts
<1>8. Weighs(T, w) /\ Weight(T, w) = Len(a) + Len(b)
  <2>1. Weighs(T, w) /\ Weight(T, w) = Weight(ToSet(a), w) + Weight(ToSet(b), w)
    <3>1. Parts(T, ToSet(a), ToSet(b)) /\ Weighs(ToSet(a), w) /\ Weighs(ToSet(b), w)
      BY <1>5, <1>6
    <3>2. QED
      BY ONLY <3>1, WeightParts
  <2>2. QED
    BY <1>5, <2>1
<1>9. Weighs(U, w) /\ Weight(U, w) = Weight(S, w) + Weight(T, w)
  BY <1>6, <1>7, <1>8, WeightParts
<1>10. Weighs(V, w) /\ Weight(V, w) <= Weight(U, w)
  <2>1. \A x \in V : w[x] \in Nat /\ w[x] <= w[x]
    BY <1>4, <1>9 DEF Weighs
  <2>2. QED
    BY <1>4, <1>9, <2>1, WeightSubset
<1>11. Weight(V, w) \in Nat
  BY <1>10, WeightFinite
<1>12. Weight(V, w) <= Weight(W, w) + Len(gq) + (Cardinality(A) + Cardinality(B))
  BY <1>2, <1>7, <1>8, <1>9, <1>10
<1>13. V \subseteq R
  <2>1. ASSUME NEW q, Line(R, q) PROVE ToSet(q) \subseteq R
    BY <2>1, LineIs DEF ToSet
  <2>2. Line(R, f) /\ Line(R, gq) /\ Line(R, a) /\ Line(R, b)
    BY <1>2 DEF Apart
  <2>3. QED
    BY <1>3, <1>4, <2>1, <2>2
<1>14. QED
  BY <1>1, <1>3, <1>10, <1>11, <1>12, <1>13

(* What must fit for the caches to suffice: every request that is queued,  *)
(* in the CPU's cache, with an id for every one that waits.                *)
Queued(s) == ToSet(s.waiting) \cup ToSet(s.gpuq) \cup ToSet(s.cpuq)
Roomy(R, s) ==
  /\ Len(s.avail) \in Nat /\ Len(s.waiting) <= Len(s.avail)
  /\ Weight(Queued(s), Needs(R, s.len)) <= NumCpu
  /\ \A x \in Queued(s) : s.len[x] <= MaxLen

(* The tokens a request brings to the linear layers: its prompt, when it   *)
(* is one of the n that start, and one when it decodes.                    *)
Load(R, s, n) == [x \in R |-> IF x \in ToSet(First(s.waiting, n)) THEN s.plen[x] ELSE 1]

(* What get_next_batch keeps to: no exception, swaps one way, the requests *)
(* left to the GPU and the layer of prompts for the CPU within its blocks, *)
(* batches that run something, together within the budget.                 *)
Affords(R, s, res, c, p, gq) ==
  LET run == ToSet(Running(res.batches))
      load == Load(R, s, NumPrefs(res.batches))
  IN /\ res.ok /\ (res.swapOut = << >> \/ res.swapIn = << >>)
     /\ Weight(ToSet(gq) \cup ToSet(p), Needs(R, s.len)) <= NumGpu
     /\ Weight(ToSet(c), Needs(R, s.len)) <= NumGpu
     /\ Full(res.batches)
     /\ res.batches = << >> => res.swapOut = << >> /\ res.swapIn = << >>
     /\ res.batches # << >> => /\ Weighs(run, load) /\ Weight(run, load) <= MaxTokens
                               /\ Cardinality(run) <= MaxBatch

LEMMA Times == ASSUME NEW a \in Nat, NEW b \in Nat, a <= b, NEW c \in Nat PROVE a * c <= b * c
OBVIOUS

(* The decodes of a batch never run off the table of CPU decode times.     *)
LEMMA DecodesInTable ==
  ASSUME NEW R, NEW s, Measured(R, s.len), Roomy(R, s), Weighs(Queued(s), Needs(R, s.len)),
         NEW d, Line(R, d), ToSet(d) \subseteq Queued(s), Len(d) <= MaxBatch
  PROVE  Sum(d, s.len) <= Smaller(MaxBatch * MaxLen, NumCpu * BlockSize) /\ Sum(d, s.len) \in Nat
<1>1. PICK D, w, len : D = ToSet(d) /\ w = Needs(R, s.len) /\ len = s.len
  OBVIOUS
<1>2. /\ BlockSize \in Nat /\ BlockSize # 0 /\ MaxBatch \in Nat /\ MaxLen \in Nat /\ NumCpu \in Nat
  BY SchedulerAssumption
<1>3. Weighs(D, len) /\ Sum(d, len) = Weight(D, len) /\ Sum(d, len) \in Nat
  BY <1>1, LineSum
<1>4. IsFiniteSet(D) /\ Cardinality(D) = Len(d) /\ Len(d) \in Nat
  <2>1. d \in Seq(R) /\ IsInjective(d) /\ Len(d) \in Nat
    BY LineIs
  <2>2. QED
    BY <1>1, <2>1, LenIsCardinality
<1>5. \A x \in D : len[x] \in Nat /\ len[x] <= MaxLen
  BY <1>1, <1>3 DEF Roomy, Weighs
<1>6. Weight(D, len) <= MaxBatch * MaxLen
  <2>1. Weight(D, len) <= Cardinality(D) * MaxLen
    BY <1>2, <1>4, <1>5, WeightCount
  <2>2. Cardinality(D) * MaxLen <= MaxBatch * MaxLen
    BY <1>2, <1>4, Times
  <2>3. Cardinality(D) * MaxLen \in Nat /\ MaxBatch * MaxLen \in Nat
    BY <1>2, <1>4
  <2>4. QED
    BY <1>3, <2>1, <2>2, <2>3
<1>7. Weighs(D, w) /\ Weight(D, w) <= NumCpu /\ Weight(D, w) \in Nat
  <2>1. PICK Q : Q = Queued(s)
    OBVIOUS
  <2>2. Weighs(Q, w) /\ D \subseteq Q /\ Weight(Q, w) <= NumCpu
    BY <1>1, <2>1 DEF Roomy
  <2>3. \A x \in D : w[x] \in Nat /\ w[x] <= w[x]
    BY <2>2 DEF Weighs
  <2>4. Weighs(D, w) /\ Weight(D, w) <= Weight(Q, w)
    BY <2>2, <2>3, WeightSubset
  <2>5. Weight(D, w) \in Nat /\ Weight(Q, w) \in Nat
    BY <2>2, <2>4, WeightFinite
  <2>6. QED
    BY <1>2, <2>2, <2>4, <2>5
<1>8. Weight(D, len) <= NumCpu * BlockSize
  <2>1. \A x \in D : len[x] \in Nat /\ len[x] <= BlockSize * w[x]
    <3>1. ASSUME NEW x \in D PROVE len[x] <= BlockSize * w[x]
      <4>1. x \in R
        BY <1>1, <3>1, LineIs DEF ToSet
      <4>2. w[x] = BlockNeeded(len[x])
        BY <1>1, <4>1 DEF Needs
      <4>3. QED
        BY <1>5, <3>1, <4>2, BlockNeededHolds
    <3>2. QED
      BY <1>5, <3>1
  <2>2. Weight(D, len) <= BlockSize * Weight(D, w)
    BY <1>2, <1>7, <2>1, WeightScale
  <2>3. Weight(D, w) * BlockSize <= NumCpu * BlockSize
    BY <1>2, <1>7, Times
  <2>4. BlockSize * Weight(D, w) = Weight(D, w) * BlockSize
    BY <1>2, <1>7
  <2>5. Weight(D, w) * BlockSize \in Nat /\ NumCpu * BlockSize \in Nat
    BY <1>2, <1>7
  <2>6. QED
    BY <1>3, <2>2, <2>3, <2>4, <2>5
<1>9. QED
  BY <1>1, <1>3, <1>6, <1>8 DEF Smaller

(* The decodes that the batches of a plan run on the CPU.                  *)
LEMMA ShapeDecodes ==
  ASSUME NEW batches, NEW c, NEW p, NEW gq, NEW a, NEW cq, NEW B,
         Shape(batches, Batch(c, p, gq, a), Second(cq, B)), NEW k \in DOMAIN batches
  PROVE  batches[k].cdec \in {a, PickAt(cq, B)}
<1>1. PICK b0, b1 : b0 = Batch(c, p, gq, a) /\ b1 = Second(cq, B)
  OBVIOUS
<1>2. b0.cdec = a /\ b1.cdec = PickAt(cq, B)
  BY <1>1 DEF Batch, Second
<1>3. batches = <<b0>> \/ batches = <<b0, b1>> \/ batches = << >> \/ batches = <<b1>>
  BY <1>1 DEF Shape
<1>4. batches[k] = b0 \/ batches[k] = b1
  BY <1>3
<1>5. QED
  BY <1>2, <1>4

LEMMA PlanAffords ==
  ASSUME numGpuBlocks \in Nat, NEW R, NEW s, Orderly(R, s), Feasible(R, s), Roomy(R, s),
         NEW res, NEW n, NEW p, NEW c, NEW gq, NEW cq, NEW A, NEW B,
         Plan(R, s, res, n, p, c, gq, cq, A, B), Paid(R, s, res, n, p, c, gq, A, B)
  PROVE  Affords(R, s, res, c, p, gq)
<1>1. PICK f, a, b : f = First(s.waiting, n) /\ a = PickAt(cq, A) /\ b = PickAt(cq, B)
  OBVIOUS
<1>2. /\ Apart(R, s, n, p, c, gq, cq, f, a, b)
      /\ Len(a) = Cardinality(A) /\ Len(b) = Cardinality(B)
  BY <1>1, PlanApart
<1>3. /\ Line(R, p) /\ Line(R, c) /\ Line(R, gq) /\ Line(R, cq) /\ Line(R, f)
      /\ Line(R, a) /\ Line(R, b)
      /\ Measured(R, s.len) /\ Measured(R, s.plen)
  BY <1>2 DEF Apart, Feasible
<1>4. PICK room \in Nat : /\ Cardinality(A) + Cardinality(B) <= room
                          /\ Len(gq) + n + room <= MaxBatch
                          /\ Len(gq) + Sum(f, s.plen) + room <= MaxTokens
  BY <1>1 DEF Paid
<1>5. /\ n \in Nat /\ Len(f) = n /\ Len(gq) \in Nat /\ Len(a) \in Nat /\ Len(b) \in Nat
      /\ Sum(f, s.plen) \in Nat
  <2>1. n \in 0 .. Len(s.waiting) /\ Line(R, s.waiting)
    BY DEF Plan, Orderly, Line
  <2>2. Len(f) = n
    <3>1. s.waiting \in Seq(R)
      BY DEF Orderly
    <3>2. Len(First(s.waiting, n)) = n
      BY <2>1, <3>1, CutMembers DEF First
    <3>3. QED
      BY <1>1, <3>2
  <2>3. Len(gq) \in Nat /\ Len(a) \in Nat /\ Len(b) \in Nat /\ Len(f) \in Nat
    BY <1>3, LineIs
  <2>4. Sum(f, s.plen) \in Nat
    BY <1>3, LineSum
  <2>5. QED
    BY <2>2, <2>3, <2>4
<1>6. MaxBatch \in Nat /\ MaxTokens \in Nat /\ NumGpu \in Nat
  BY SchedulerAssumption
<1>7. Weighs(Queued(s), Needs(R, s.len)) /\ ToSet(cq) \subseteq Queued(s)
  <2>1. /\ Line(R, s.waiting) /\ Line(R, s.gpuq) /\ Line(R, s.cpuq)
        /\ ToSet(s.gpuq) \cap ToSet(s.cpuq) = {}
        /\ ToSet(s.waiting) \cap (ToSet(s.gpuq) \cup ToSet(s.cpuq)) = {}
    BY DEF Orderly, Line
  <2>2. PICK W, X, Y, w : /\ W = ToSet(s.waiting) /\ X = ToSet(s.gpuq) /\ Y = ToSet(s.cpuq)
                          /\ w = Needs(R, s.len)
    OBVIOUS
  <2>3. Weighs(W, w) /\ Weighs(X, w) /\ Weighs(Y, w)
    BY <1>3, <2>1, <2>2, LineCosts
  <2>4. Queued(s) = W \cup X \cup Y
    BY <2>2 DEF Queued
  <2>5. Weighs(Queued(s), w)
    <3>1. IsFiniteSet(W) /\ IsFiniteSet(X) /\ IsFiniteSet(Y)
      BY <2>3 DEF Weighs
    <3>2. IsFiniteSet((W \cup X) \cup Y)
      BY <3>1, FS_Union
    <3>3. QED
      BY <2>3, <2>4, <3>2 DEF Weighs
  <2>6. QED
    BY <1>2, <2>2, <2>4, <2>5 DEF Apart
<1>8. ~CdecTooLong(res.batches, s.len)
  <2>1. ASSUME NEW d, Line(R, d), ToSet(d) \subseteq ToSet(cq), Len(d) <= MaxBatch
        PROVE  ~(Sum(d, s.len) > Smaller(MaxBatch * MaxLen, NumCpu * BlockSize))
    <3>1. Sum(d, s.len) <= Smaller(MaxBatch * MaxLen, NumCpu * BlockSize) /\ Sum(d, s.len) \in Nat
      BY <1>3, <1>7, <2>1, DecodesInTable
    <3>2. Smaller(MaxBatch * MaxLen, NumCpu * BlockSize) \in Nat
      BY SchedulerAssumption DEF Smaller
    <3>3. QED
      BY <3>1, <3>2
  <2>2. Len(a) <= MaxBatch /\ Len(b) <= MaxBatch
    BY <1>2, <1>4, <1>5, <1>6
  <2>3. ToSet(a) \subseteq ToSet(cq) /\ ToSet(b) \subseteq ToSet(cq)
    BY <1>2 DEF Apart
  <2>4. \A k \in DOMAIN res.batches : res.batches[k].cdec \in {a, b}
    <3>1. Shape(res.batches, Batch(c, p, gq, a), Second(cq, B))
      BY <1>1 DEF Plan
    <3>2. QED
      BY <1>1, <3>1, ShapeDecodes
  <2>5. /\ ~(Sum(a, s.len) > Smaller(MaxBatch * MaxLen, NumCpu * BlockSize))
        /\ ~(Sum(b, s.len) > Smaller(MaxBatch * MaxLen, NumCpu * BlockSize))
    BY <1>3, <2>1, <2>2, <2>3
  <2>6. QED
    BY <2>4, <2>5 DEF CdecTooLong
<1>9. res.ok
  <2>1. n <= Len(s.avail)
    <3>1. n \in 0 .. Len(s.waiting) /\ s.waiting \in Seq(R)
      BY DEF Plan, Orderly
    <3>2. Len(s.waiting) \in Nat
      BY <3>1
    <3>3. Len(s.avail) \in Nat /\ Len(s.waiting) <= Len(s.avail)
      BY DEF Roomy
    <3>4. QED
      BY <3>1, <3>2, <3>3
  <2>2. QED
    BY <1>8, <2>1 DEF Paid
<1>10. /\ Weight(ToSet(gq) \cup ToSet(p), Needs(R, s.len)) <= NumGpu
       /\ Weight(ToSet(c), Needs(R, s.len)) <= NumGpu
  <2>1. PICK X, Y, w : X = ToSet(gq) /\ Y = ToSet(p) /\ w = Needs(R, s.len)
    OBVIOUS
  <2>2. /\ Weighs(X, w) /\ Weighs(Y, w)
        /\ Blocks(gq, s.len) = Weight(X, w) /\ Blocks(p, s.len) = Weight(Y, w)
        /\ Blocks(c, s.len) = Weight(ToSet(c), w)
    BY <1>3, <2>1, LineCosts
  <2>3. Parts(X \cup Y, X, Y)
    BY <1>2, <2>1 DEF Apart, Parts
  <2>4. Weight(X \cup Y, w) = Weight(X, w) + Weight(Y, w)
    BY <2>2, <2>3, WeightParts
  <2>5. numGpuBlocks <= NumGpu
    BY <1>6 DEF Feasible
  <2>6. /\ Blocks(gq, s.len) + Blocks(p, s.len) <= numGpuBlocks
        /\ Blocks(c, s.len) <= NumGpu
    BY DEF Paid
  <2>7. Blocks(gq, s.len) \in Nat /\ Blocks(p, s.len) \in Nat
    BY <1>3, LineCosts
  <2>8. Blocks(gq, s.len) + Blocks(p, s.len) <= NumGpu
    BY <1>6, <2>5, <2>6, <2>7
  <2>9. QED
    BY <2>1, <2>2, <2>4, <2>6, <2>8
<1>11. NumPrefs(res.batches) = n
  BY DEF Plan
<1>12. ASSUME res.batches # << >>
       PROVE  LET run == ToSet(Running(res.batches))
                  load == Load(R, s, n)
              IN /\ Weighs(run, load) /\ Weight(run, load) <= MaxTokens
                 /\ Cardinality(run) <= MaxBatch
  <2>1. PICK run, load, one, F : /\ run = ToSet(Running(res.batches)) /\ load = Load(R, s, n)
                                 /\ one = [x \in R |-> 1] /\ F = ToSet(f)
    OBVIOUS
  <2>2. F \subseteq R /\ F \cap (ToSet(gq) \cup ToSet(cq)) = {}
        /\ ToSet(gq) \subseteq R /\ ToSet(cq) \subseteq R
    <3>1. ASSUME NEW q, Line(R, q) PROVE ToSet(q) \subseteq R
      BY <3>1, LineIs DEF ToSet
    <3>2. F \cap (ToSet(gq) \cup ToSet(cq)) = {}
      BY <1>2, <2>1 DEF Apart
    <3>3. QED
      BY <1>3, <2>1, <3>1, <3>2
  <2>3. /\ Measured(R, load) /\ Measured(R, one)
        /\ \A x \in ToSet(gq) \cup ToSet(cq) : load[x] = 1
        /\ \A x \in ToSet(gq) \cup ToSet(cq) : one[x] = 1
        /\ \A x \in R : one[x] = 1
        /\ \A x \in F : load[x] = s.plen[x]
    BY <1>1, <1>3, <2>1, <2>2 DEF Measured, Load
  <2>4. PICK g, da : g = Len(gq) /\ da = Cardinality(A) + Cardinality(B)
    OBVIOUS
  <2>5. /\ Weighs(run, load) /\ Weight(run, load) \in Nat
        /\ Weight(run, load) <= Weight(F, load) + g + da
    BY <1>1, <1>12, <2>1, <2>3, <2>4, RunsWeigh
  <2>6. /\ Weighs(run, one) /\ Weight(run, one) \in Nat /\ run \subseteq R
        /\ Weight(run, one) <= Weight(F, one) + g + da
    BY <1>1, <1>12, <2>1, <2>3, <2>4, RunsWeigh
  <2>7. Weight(F, load) = Sum(f, s.plen)
    <3>1. Weighs(F, load) /\ Sum(f, load) = Weight(F, load)
      BY <1>3, <2>1, <2>3, LineSum
    <3>2. Sum(f, load) = Sum(f, s.plen)
      <4>1. \A i \in DOMAIN f : load[f[i]] = s.plen[f[i]]
        BY <2>1, <2>3 DEF ToSet
      <4>2. [i \in DOMAIN f |-> load[f[i]]] = [i \in DOMAIN f |-> s.plen[f[i]]]
        BY <4>1
      <4>3. QED
        BY <4>2 DEF Sum
    <3>3. QED
      BY <3>1, <3>2
  <2>8. Weight(F, one) = n
    <3>1. f \in Seq(R) /\ IsInjective(f)
      BY <1>3 DEF Line
    <3>2. IsFiniteSet(F) /\ Cardinality(F) = n
      BY <1>5, <2>1, <3>1, LenIsCardinality
    <3>3. \A x \in F : one[x] = 1
      BY <2>2, <2>3
    <3>4. QED
      BY <3>2, <3>3, WeightOnes
  <2>9. Weight(run, one) = Cardinality(run)
    <3>1. IsFiniteSet(run)
      BY <2>6 DEF Weighs
    <3>2. QED
      BY <2>3, <2>6, <3>1, WeightOnes
  <2>10. da \in Nat /\ da <= room
    BY <1>2, <1>4, <1>5, <2>4
  <2>11. PICK x, y, z : x = Weight(run, load) /\ y = Sum(f, s.plen) /\ z = Weight(run, one)
    OBVIOUS
  <2>12. x \in Nat /\ y \in Nat /\ z \in Nat /\ g \in Nat
    BY <1>5, <2>4, <2>5, <2>6, <2>11
  <2>13. x <= y + g + da /\ z <= n + g + da
    BY <2>5, <2>6, <2>7, <2>8, <2>11
  <2>14. g + n + room <= MaxBatch /\ g + y + room <= MaxTokens
    BY <1>4, <1>5, <2>4, <2>11
  <2>15. x <= MaxTokens /\ z <= MaxBatch
    BY ONLY <1>5, <1>6, <2>10, <2>12, <2>13, <2>14
  <2>16. QED
    BY <2>1, <2>5, <2>9, <2>11, <2>15
<1>13. /\ res.swapOut = << >> \/ res.swapIn = << >>
       /\ Full(res.batches)
       /\ res.batches = << >> => res.swapOut = << >> /\ res.swapIn = << >>
  BY DEF Paid
<1>14. QED
  BY <1>9, <1>10, <1>11, <1>12, <1>13 DEF Affords

(* When the GPU can hold any one request alone, the CPU all that are       *)
(* queued, and there are ids for all that wait, get_next_batch never       *)
(* raises, and what it orders never overspends a cache or the batch,       *)
(* whatever the predictor answers.                                         *)
THEOREM SchedulerAffords ==
  ASSUME numGpuBlocks \in Nat, NEW R, NEW s, Orderly(R, s), Feasible(R, s), Roomy(R, s),
         NEW res \in NextBatchNew(s) \cup NextBatchOld(s)
  PROVE  \E c, p, gq, cq : Placing(R, s, res, c, p, gq, cq) /\ Affords(R, s, res, c, p, gq)
<1>1. Planned(R, s, res)
  BY NewPlanned, OldPlanned
<1>2. PICK n, p, c, gq, cq, A, B : /\ Plan(R, s, res, n, p, c, gq, cq, A, B)
                                   /\ Paid(R, s, res, n, p, c, gq, A, B)
  BY <1>1 DEF Planned
<1>3. Placing(R, s, res, c, p, gq, cq) /\ Affords(R, s, res, c, p, gq)
  BY <1>2, PlanPlacing, PlanAffords
<1>4. QED
  BY <1>3
(* A queue whose requests need no block is empty.                          *)
LEMMA NothingCosts ==
  ASSUME NEW R, NEW len, Measured(R, len), NEW q, Line(R, q), Blocks(q, len) <= 0,
         \A x \in ToSet(q) : BlockNeeded(len[x]) > 0
  PROVE  q = << >>
<1>1. /\ q \in Seq(R) /\ Len(q) \in Nat
  BY LineIs
<1>2. ASSUME Len(q) # 0 PROVE FALSE
  <2>1. Blocks(First(q, 1), len) = BlockNeeded(len[q[1]]) /\ q[1] \in ToSet(q) /\ q[1] \in R
    BY <1>2, FirstCost
  <2>2. 1 \in 0 .. Len(q) /\ Len(q) \in 0 .. Len(q)
    BY <1>1, <1>2
  <2>3. PICK t : t = First(q, 1)
    OBVIOUS
  <2>4. Line(R, t) /\ ToSet(t) = {q[i] : i \in 1 .. 1}
    BY <2>2, <2>3, FirstSet
  <2>5. ToSet(t) \subseteq ToSet(q)
    BY <2>1, <2>4
  <2>6. Blocks(t, len) <= Blocks(q, len)
    BY ONLY Measured(R, len), Line(R, q), <2>4, <2>5, CostLess
  <2>7. PICK b : b = BlockNeeded(len[q[1]])
    OBVIOUS
  <2>8. b \in Nat /\ b > 0
    <3>1. len[q[1]] \in Nat
      BY <2>1 DEF Measured
    <3>2. QED
      BY <2>1, <2>7, <3>1, BlockNeededHolds
  <2>9. Blocks(q, len) \in Nat
    BY LineCosts
  <2>10. QED
    BY <2>1, <2>3, <2>6, <2>7, <2>8, <2>9
<1>3. QED
  BY <1>1, <1>2

(* Where the scheduler may keep no block on the GPU, no decode is queued   *)
(* for it.                                                                 *)
LEMMA GpuUnused ==
  ASSUME numGpuBlocks = 0, NEW R, NEW s, Orderly(R, s), Feasible(R, s),
         \A x \in Queued(s) : BlockNeeded(s.len[x]) > 0,
         NEW res \in NextBatchNew(s) \cup NextBatchOld(s)
  PROVE  res.gpuq = << >>
<1>1. Planned(R, s, res)
  BY NewPlanned, OldPlanned
<1>2. PICK n, p, c, gq, cq, A, B : /\ Plan(R, s, res, n, p, c, gq, cq, A, B)
                                   /\ Paid(R, s, res, n, p, c, gq, A, B)
  BY <1>1 DEF Planned
<1>3. Apart(R, s, n, p, c, gq, cq, First(s.waiting, n), PickAt(cq, A), PickAt(cq, B))
  BY <1>2, PlanApart
<1>4. Line(R, p) /\ Line(R, gq) /\ ToSet(p) \cup ToSet(gq) \subseteq Queued(s)
  BY <1>3 DEF Apart, Parts, Queued
<1>5. Measured(R, s.len) /\ Blocks(gq, s.len) + Blocks(p, s.len) <= 0
  BY <1>2 DEF Feasible, Paid
<1>6. Blocks(gq, s.len) \in Nat /\ Blocks(p, s.len) \in Nat
  BY <1>4, <1>5, LineCosts
<1>7. Blocks(gq, s.len) <= 0 /\ Blocks(p, s.len) <= 0
  BY <1>5, <1>6
<1>8. gq = << >> /\ p = << >>
  <2>1. (\A x \in ToSet(gq) : BlockNeeded(s.len[x]) > 0) /\ \A x \in ToSet(p) : BlockNeeded(s.len[x]) > 0
    BY <1>4
  <2>2. QED
    BY <1>4, <1>5, <1>7, <2>1, NothingCosts
<1>9. QED
  BY <1>2, <1>8 DEF Plan
=============================================================================
