---------------------------- MODULE ShardsProofs ----------------------------
(***************************************************************************)
(* What module Shards divides between the ranks is divided without loss or *)
(* overlap, and a rank's own heads keep the grouping of the whole model's, *)
(* for every number of ranks that load_weights accepts.                    *)
(***************************************************************************)
EXTENDS Shards, TLAPS

LEMMA Quotient ==
  ASSUME NEW n \in Nat \ {0}, NEW a \in Int, NEW r \in 0 .. (n - 1)
  PROVE  (n * a + r) \div n = a
  OBVIOUS

LEMMA Division ==
  ASSUME NEW n \in Nat \ {0}, NEW x \in Int
  PROVE  /\ x \div n \in Int /\ x % n \in 0 .. (n - 1)
         /\ x = n * (x \div n) + (x % n)
  OBVIOUS

LEMMA Exact ==
  ASSUME NEW n \in Nat \ {0}, NEW a \in Int
  PROVE  (n * a) \div n = a
  OBVIOUS

LEMMA Products ==
  ASSUME NEW a \in Int, NEW b \in Int, NEW c \in Int
  PROVE  /\ a * b \in Int /\ a * b = b * a
         /\ a * (b + c) = a * b + a * c
         /\ a * (b * c) = (a * b) * c
  OBVIOUS

LEMMA Monotone ==
  ASSUME NEW n \in Nat, NEW a \in Int, NEW b \in Int, a <= b
  PROVE  n * a <= n * b
  OBVIOUS

(* The bounds of a slice, once the size is a multiple of the ranks.        *)
LEMMA ShardBounds ==
  ASSUME NEW ws \in Nat \ {0}, NEW size \in Nat, size % ws = 0, NEW rk \in Ranks(ws)
  PROVE  /\ RealSize(size, ws) \in Nat
         /\ size = ws * RealSize(size, ws)
         /\ Shard(size, rk, ws) =
              rk * RealSize(size, ws) .. ((rk + 1) * RealSize(size, ws) - 1)
<1> DEFINE part == RealSize(size, ws)
<1>1. part \in Int /\ size = ws * part  BY Division DEF RealSize
<1>2. part \in Nat  BY <1>1
<1> HIDE DEF part
<1>3. rk \in Int /\ rk + 1 \in Int  BY DEF Ranks
<1>4. ASSUME NEW k \in Int  PROVE (k * size) \div ws = k * part
  <2>1. k * part \in Int  BY <1>2, Products
  <2>2. k * (ws * part) = (k * ws) * part  BY <1>2, Products
  <2>3. ws * (k * part) = (ws * k) * part  BY <1>2, Products
  <2>4. k * ws = ws * k  BY Products
  <2>5. k * size = ws * (k * part)  BY <1>1, <2>2, <2>3, <2>4
  <2> QED  BY <2>1, <2>5, Exact
<1>5. (rk * size) \div ws = rk * part /\ ((rk + 1) * size) \div ws = (rk + 1) * part
  BY <1>3, <1>4
<1> QED  BY <1>1, <1>2, <1>5 DEF Shard, part

(* Every row of a split weight is loaded by one rank and one only, and a   *)
(* rank loads as many rows as get_real_shape says (weight.py:59-69).       *)
THEOREM ShardsPartition ==
  ASSUME NEW ws \in Nat \ {0}, NEW size \in Nat, size % ws = 0, NEW i \in 0 .. (size - 1)
  PROVE  \E rk \in Ranks(ws) :
           /\ i \in Shard(size, rk, ws)
           /\ \A other \in Ranks(ws) : i \in Shard(size, other, ws) => other = rk
<1> DEFINE part == RealSize(size, ws)
           rk == i \div part
<1>1. part \in Nat /\ size = ws * part
  <2>1. 0 \in Ranks(ws)  BY DEF Ranks
  <2> QED  BY <2>1, ShardBounds
<1>2. part \in Nat \ {0}
  <2>1. ws * 0 = 0  OBVIOUS
  <2> QED  BY <1>1, <2>1
<1>3. i \in Int /\ 0 <= i /\ i < part * ws  BY <1>1, Products
<1>4. rk \in Int /\ i = part * rk + (i % part) /\ i % part \in 0 .. (part - 1)
  BY <1>2, <1>3, Division
<1> HIDE DEF part, rk
<1>5. 0 <= rk
  <2>1. SUFFICES ASSUME rk <= 0 - 1  PROVE FALSE  BY <1>4
  <2>2. part * rk <= part * (0 - 1)  BY <1>2, <1>4, <2>1, Monotone
  <2>3. part * (0 - 1) = 0 - part  BY <1>2
  <2> QED  BY <1>2, <1>3, <1>4, <2>2, <2>3, Products
<1>6. rk < ws
  <2>1. SUFFICES ASSUME ws <= rk  PROVE FALSE  BY <1>4
  <2>2. part * ws <= part * rk  BY <1>2, <1>4, <2>1, Monotone
  <2>3. part * rk \in Int /\ part * ws \in Int  BY <1>2, <1>4, Products
  <2> QED  BY <1>2, <1>3, <1>4, <2>2, <2>3
<1>7. rk \in Ranks(ws)  BY <1>4, <1>5, <1>6 DEF Ranks
<1>8. ASSUME NEW other \in Ranks(ws)
      PROVE  /\ other \in Int /\ part * other \in Int
             /\ i \in Shard(size, other, ws) <=>
                  part * other <= i /\ i <= part * other + part - 1
  <2>1. Shard(size, other, ws) = other * part .. ((other + 1) * part - 1)
    BY ShardBounds DEF part
  <2>2. other \in Int  BY DEF Ranks
  <2>3. part * other \in Int  BY <1>2, <2>2, Products
  <2>4. other * part = part * other /\ (other + 1) * part = part * (other + 1)
    BY <1>2, <2>2, Products
  <2>5. part * (other + 1) = part * other + part
    BY <1>2, <2>2
  <2> DEFINE lo == other * part
             hi == (other + 1) * part
  <2>6. lo = part * other /\ hi = part * other + part  BY <2>4, <2>5
  <2>7. Shard(size, other, ws) = lo .. (hi - 1)  BY <2>1
  <2> HIDE DEF lo, hi
  <2> QED  BY <1>2, <1>3, <2>2, <2>3, <2>6, <2>7
<1>9. i \in Shard(size, rk, ws)
  BY <1>2, <1>4, <1>7, <1>8
<1>10. ASSUME NEW other \in Ranks(ws), i \in Shard(size, other, ws)  PROVE other = rk
  <2>1. other \in Int /\ part * other \in Int  BY <1>8
  <2>2. i - part * other \in 0 .. (part - 1)  BY <1>2, <1>3, <1>8, <1>10, <2>1
  <2>3. (part * other + (i - part * other)) \div part = other
    BY <1>2, <2>1, <2>2, Quotient
  <2>4. part * other + (i - part * other) = i  BY <1>3, <2>1
  <2> QED  BY <2>3, <2>4 DEF rk
<1> QED  BY <1>7, <1>9, <1>10

(* The kernels of a rank find the k and v head of a query head from the    *)
(* rank's own numbers of heads; it is the head the whole model would use,  *)
(* as long as the ranks divide the k and v heads.                          *)
THEOREM HeadsAligned ==
  ASSUME NEW ws \in Nat \ {0}, NEW nkv \in Nat \ {0}, NEW G \in Nat \ {0}, nkv % ws = 0,
         NEW rk \in Ranks(ws),
         NEW j \in 0 .. (RealSize(G * nkv, ws) - 1)
  PROVE  KvHead(rk * RealSize(G * nkv, ws) + j, G * nkv, nkv) =
           rk * RealSize(nkv, ws) + KvHead(j, RealSize(G * nkv, ws), RealSize(nkv, ws))
<1> DEFINE lkv == RealSize(nkv, ws)
<1>1. lkv \in Nat /\ nkv = ws * lkv  BY ShardBounds
<1>2. lkv \in Nat \ {0}  BY <1>1
<1>3. G * nkv = ws * (G * lkv)  BY <1>1
<1>4. RealSize(G * nkv, ws) = G * lkv  BY <1>2, <1>3, Exact DEF RealSize
<1>5. (G * nkv) \div nkv = G
  <2>1. G * nkv = nkv * G  OBVIOUS
  <2> QED  BY <2>1, Exact
<1>6. (G * lkv) \div lkv = G
  <2>1. G * lkv = lkv * G  BY <1>2
  <2> QED  BY <1>2, <2>1, Exact
<1>7. rk \in Int  BY DEF Ranks
<1> DEFINE q == j \div G
           r == j % G
<1>8. j \in Int /\ j = G * q + r /\ r \in 0 .. (G - 1) /\ q \in Int
  <2>1. G * lkv \in Int  BY <1>2, Products
  <2>2. j \in Int  BY <1>4, <2>1
  <2> QED  BY <2>2, Division
<1> HIDE DEF q, r, lkv
<1>9. rk * lkv \in Int /\ G * lkv \in Int  BY <1>2, <1>7, Products
<1>10. rk * (G * lkv) = G * (rk * lkv)
  BY <1>2, <1>7, Products
<1>11. G * (rk * lkv + q) = G * (rk * lkv) + G * q  BY <1>8, <1>9, Products
<1>12. rk * (G * lkv) + j = G * (rk * lkv + q) + r
  <2>1. G * (rk * lkv) \in Int /\ G * q \in Int  BY <1>8, <1>9, Products
  <2> QED  BY <1>8, <1>10, <1>11, <2>1
<1>13. (rk * (G * lkv) + j) \div G = rk * lkv + q
  <2>1. rk * lkv + q \in Int  BY <1>8, <1>9
  <2>2. (G * (rk * lkv + q) + r) \div G = rk * lkv + q  BY <1>8, <2>1, Quotient
  <2> QED  BY <1>12, <2>2
<1> QED  BY <1>4, <1>5, <1>6, <1>13 DEF KvHead, q, lkv
=============================================================================
