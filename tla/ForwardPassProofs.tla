-------------------------- MODULE ForwardPassProofs --------------------------
(***************************************************************************)
(* Theorems about ForwardPass: at every relative speed of the host and of  *)
(* the two streams, for every number of layers and every batch, attention  *)
(* on the CPU gets the q, k and v of its own sub-batch and layer, and the  *)
(* projection after it the outputs of that attention.                      *)
(***************************************************************************)
EXTENDS ForwardPass, QueuesProofs

-----------------------------------------------------------------------------
(* Part I.  The host program as a play.  Between two projections a         *)
(* sub-batch is free until preproj has projected its q, k and v, which     *)
(* transfer_qkv sets moving; cpu_attention has attended to them once they  *)
(* arrived, and postproj frees the sub-batch again.  At most one sub-batch *)
(* is moving: there is one buffer in host memory and one event.            *)
Phases == [at : {"free", "projected", "moving", "attended"}, l : Layers]

Boards == [1 .. 2 -> Phases]

Phase(at, l) == [at |-> at, l |-> l]

Start == [b \in 1 .. 2 |-> Phase("free", 0)]

(* The call c takes the sub-batches from p to q.                           *)
Plays(p, c, q) ==
  CASE c.f = "preproj" ->
         p[c.b].at = "free" /\ q = [p EXCEPT ![c.b] = Phase("projected", c.l)]
    [] c.f = "transfer_qkv" ->
         /\ p[c.b].at = "projected" /\ \A k \in 1 .. 2 : p[k].at # "moving"
         /\ q = [p EXCEPT ![c.b] = Phase("moving", p[c.b].l)]
    [] c.f = "cpu_attention" ->
         p[c.b] = Phase("moving", c.l) /\ q = [p EXCEPT ![c.b] = Phase("attended", c.l)]
    [] c.f = "postproj" ->
         p[c.b] = Phase("attended", c.l) /\ q = [p EXCEPT ![c.b] = Phase("free", 0)]
    [] OTHER -> q = p

IsSwap(o) ==
  \E dir, src, dst, kv, gl, cl :
    o = [op |-> "swap", dir |-> dir, src |-> src, dst |-> dst, kv |-> kv, gl |-> gl, cl |-> cl]

BlockCalls == {"fetch", "stage", "store_staged"}

LayerFs == {"preproj", "transfer_qkv", "launch_attention", "cpu_attention", "swap_out",
            "postproj", "wait_comm"}

IsCall(c) ==
  \/ c \in [f : LayerFs, b : 1 .. 2, l : Layers]
  \/ c.f \in BlockCalls /\ IsSwap(c.swap)

Play(s, p, q) ==
  \E lab \in [1 .. (Len(s) + 1) -> Boards] :
    /\ lab[1] = p /\ lab[Len(s) + 1] = q
    /\ \A i \in 1 .. Len(s) : Plays(lab[i], s[i], lab[i + 1])

(* A program that takes the sub-batches from p to q.                       *)
Script(s, p, q) == Queue(s) /\ (\A i \in 1 .. Len(s) : IsCall(s[i])) /\ Play(s, p, q)

LEMMA ScriptEnds ==
  ASSUME NEW s, NEW p, NEW q, Script(s, p, q)
  PROVE  /\ p \in Boards /\ q \in Boards /\ Len(s) \in Nat
         /\ s = << >> => p = q
<1>1. PICK lab \in [1 .. (Len(s) + 1) -> Boards] : lab[1] = p /\ lab[Len(s) + 1] = q
  BY DEF Script, Play
<1>2. Len(s) \in Nat /\ (s = << >> => Len(s) = 0)
  BY QueueFacts DEF Script
<1>3. QED
  BY <1>1, <1>2

LEMMA ScriptNone == ASSUME NEW p \in Boards PROVE Script(<< >>, p, p)
<1>1. Queue(<< >>) /\ Len(<< >>) = 0
  BY QueueOfOne
<1>2. PICK lab : lab = [i \in 1 .. 1 |-> p]
  OBVIOUS
<1>3. lab \in [1 .. (0 + 1) -> Boards] /\ lab[1] = p /\ lab[0 + 1] = p
  BY <1>2
<1>4. Play(<< >>, p, p)
  BY <1>1, <1>3 DEF Play
<1>5. QED
  BY <1>1, <1>4 DEF Script

LEMMA ScriptOne ==
  ASSUME NEW c, IsCall(c), NEW p \in Boards, NEW q \in Boards, Plays(p, c, q)
  PROVE  Script(<<c>>, p, q)
<1>1. Queue(<<c>>) /\ Len(<<c>>) = 1 /\ <<c>>[1] = c
  BY QueueOfOne
<1>2. PICK lab : lab = [i \in 1 .. 2 |-> IF i = 1 THEN p ELSE q]
  OBVIOUS
<1>3. lab \in [1 .. (1 + 1) -> Boards] /\ lab[1] = p /\ lab[2] = q
  BY <1>2
<1>4. Play(<<c>>, p, q)
  BY <1>1, <1>3 DEF Play
<1>5. QED
  BY <1>1, <1>4 DEF Script

LEMMA ScriptConcat ==
  ASSUME NEW s, NEW t, NEW p, NEW q, NEW r, Script(s, p, q), Script(t, q, r)
  PROVE  Script(s \o t, p, r)
<1>1. PICK lab \in [1 .. (Len(s) + 1) -> Boards] :
        /\ lab[1] = p /\ lab[Len(s) + 1] = q
        /\ \A i \in 1 .. Len(s) : Plays(lab[i], s[i], lab[i + 1])
  BY DEF Script, Play
<1>2. PICK lbl \in [1 .. (Len(t) + 1) -> Boards] :
        /\ lbl[1] = q /\ lbl[Len(t) + 1] = r
        /\ \A i \in 1 .. Len(t) : Plays(lbl[i], t[i], lbl[i + 1])
  BY DEF Script, Play
<1>3. PICK m, n, u : m = Len(s) /\ n = Len(t) /\ u = s \o t
  OBVIOUS
<1>4. /\ m \in Nat /\ n \in Nat /\ Queue(u) /\ Len(u) = m + n
      /\ \A i \in 1 .. m : u[i] = s[i]
      /\ \A i \in 1 .. n : u[m + i] = t[i]
      /\ \A i \in 1 .. Len(u) : i \in 1 .. m \/ \E k \in 1 .. n : i = m + k
  <2>1. Queue(s) /\ Queue(t)
    BY DEF Script
  <2>2. Joined(s, t, u)
    BY <1>3, <2>1, QueueConcat
  <2>3. QED
    BY <1>3, <2>2 DEF Joined
<1>5. \A i \in 1 .. Len(u) : IsCall(u[i])
  BY <1>3, <1>4 DEF Script
<1>6. PICK all : all = [i \in 1 .. (m + n + 1) |-> IF i <= m + 1 THEN lab[i] ELSE lbl[i - m]]
  OBVIOUS
<1>7. all \in [1 .. (m + n + 1) -> Boards]
  <2>1. ASSUME NEW i \in 1 .. (m + n + 1)
        PROVE  (IF i <= m + 1 THEN lab[i] ELSE lbl[i - m]) \in Boards
    <3>1. CASE i <= m + 1
      <4>1. i \in 1 .. (m + 1)
        BY <1>4, <3>1
      <4>2. QED
        BY <1>1, <1>3, <3>1, <4>1
    <3>2. CASE ~(i <= m + 1)
      <4>1. i - m \in 1 .. (n + 1)
        BY <1>4, <3>2
      <4>2. QED
        BY <1>2, <1>3, <3>2, <4>1
    <3>3. QED
      BY <3>1, <3>2
  <2>2. QED
    BY <1>6, <2>1
<1>8. \A i \in 1 .. (m + 1) : all[i] = lab[i]
  BY <1>4, <1>6
<1>9. ASSUME NEW i \in 1 .. (n + 1) PROVE all[m + i] = lbl[i]
  <2>1. m + i \in 1 .. (m + n + 1) /\ (m + i) - m = i
    BY <1>4
  <2>2. CASE i = 1
    <3>1. all[m + i] = lab[m + 1]
      BY <1>4, <1>8, <2>2
    <3>2. QED
      BY <1>1, <1>2, <1>3, <2>2, <3>1
  <2>3. CASE i # 1
    <3>1. ~(m + i <= m + 1)
      BY <1>4, <2>3
    <3>2. QED
      BY <1>6, <2>1, <3>1
  <2>4. QED
    BY <2>2, <2>3
<1>10. ASSUME NEW i \in 1 .. Len(u) PROVE Plays(all[i], u[i], all[i + 1])
  <2>1. CASE i \in 1 .. m
    <3>1. i \in 1 .. (m + 1) /\ i + 1 \in 1 .. (m + 1)
      BY <1>4, <2>1
    <3>2. QED
      BY <1>1, <1>3, <1>4, <1>8, <2>1, <3>1
  <2>2. CASE i \notin 1 .. m
    <3>1. PICK k \in 1 .. n : i = m + k
      BY <1>4, <2>2
    <3>2. k \in 1 .. (n + 1) /\ k + 1 \in 1 .. (n + 1) /\ i + 1 = m + (k + 1)
      BY <1>4, <3>1
    <3>3. all[i] = lbl[k] /\ all[i + 1] = lbl[k + 1] /\ u[i] = t[k]
      BY <1>4, <1>9, <3>1, <3>2
    <3>4. QED
      BY <1>2, <1>3, <3>3
  <2>3. QED
    BY <2>1, <2>2
<1>11. all[1] = p /\ all[Len(u) + 1] = r
  <2>1. 1 \in 1 .. (m + 1) /\ n + 1 \in 1 .. (n + 1) /\ m + (n + 1) = (m + n) + 1
    BY <1>4
  <2>2. QED
    BY <1>1, <1>2, <1>3, <1>4, <1>8, <1>9, <2>1
<1>12. Play(u, p, r)
  BY <1>4, <1>7, <1>10, <1>11 DEF Play
<1>13. QED
  BY <1>3, <1>4, <1>5, <1>12 DEF Script

LEMMA ScriptTail ==
  ASSUME NEW s, NEW p, NEW r, Script(s, p, r), s # << >>
  PROVE  IsCall(Head(s)) /\ \E q \in Boards : Plays(p, Head(s), q) /\ Script(Tail(s), q, r)
<1>1. PICK lab \in [1 .. (Len(s) + 1) -> Boards] :
        /\ lab[1] = p /\ lab[Len(s) + 1] = r
        /\ \A i \in 1 .. Len(s) : Plays(lab[i], s[i], lab[i + 1])
  BY DEF Script, Play
<1>2. PICK m, t : m = Len(s) /\ t = Tail(s)
  OBVIOUS
<1>3. /\ m \in Nat \ {0} /\ Head(s) = s[1] /\ Queue(t) /\ Len(t) = m - 1
      /\ \A i \in 1 .. (m - 1) : t[i] = s[i + 1]
  BY <1>2, QueueFacts DEF Script
<1>4. IsCall(Head(s))
  BY <1>2, <1>3 DEF Script
<1>5. ASSUME NEW i \in 1 .. (m - 1) PROVE IsCall(t[i]) /\ Plays(lab[i + 1], t[i], lab[i + 2])
  <2>1. i + 1 \in 1 .. m /\ (i + 1) + 1 = i + 2
    BY <1>3
  <2>2. QED
    BY <1>1, <1>2, <1>3, <2>1 DEF Script
<1>6. PICK lbl : lbl = [i \in 1 .. m |-> lab[i + 1]]
  OBVIOUS
<1>7. lbl \in [1 .. m -> Boards]
  BY <1>1, <1>2, <1>3, <1>6
<1>8. \A i \in 1 .. (m - 1) : Plays(lbl[i], t[i], lbl[i + 1])
  <2>1. TAKE i \in 1 .. (m - 1)
  <2>2. i \in 1 .. m /\ i + 1 \in 1 .. m /\ (i + 1) + 1 = i + 2
    BY <1>3
  <2>3. lbl[i] = lab[i + 1] /\ lbl[i + 1] = lab[i + 2]
    BY <1>6, <2>2
  <2>4. QED
    BY <1>5, <2>3
<1>9. lbl[1] = lab[2] /\ lbl[m] = r
  BY <1>1, <1>2, <1>3, <1>6
<1>10. Play(t, lab[2], r)
  <2>1. (m - 1) + 1 = m
    BY <1>3
  <2>2. QED
    BY <1>3, <1>7, <1>8, <1>9, <2>1 DEF Play
<1>11. lab[2] \in Boards /\ Plays(p, Head(s), lab[2])
  BY <1>1, <1>2, <1>3
<1>12. QED
  BY <1>2, <1>3, <1>4, <1>5, <1>10, <1>11 DEF Script

(* Scripts that take up from each other, one after the other.              *)
LEMMA ScriptFlatten ==
  ASSUME NEW n \in Nat, NEW seqs, Len(seqs) = n, n = 0 => seqs = << >>,
         NEW ph, \A i \in 1 .. n : Script(seqs[i], ph[i], ph[i + 1]), ph[1] \in Boards
  PROVE  Script(FlattenSeq(seqs), ph[1], ph[n + 1])
<1>1. CASE n = 0
  <2>1. FlattenSeq(seqs) = << >>
    BY <1>1 DEF FlattenSeq
  <2>2. QED
    BY <1>1, <2>1, ScriptNone
<1>2. CASE n # 0
  <2>1. PICK f : Flattens(f, seqs, n) /\ FlattenSeq(seqs) = f[n]
    BY <1>2, FlattenIs
  <2> DEFINE T == {k \in Nat : k \in 1 .. n /\ ~Script(f[k], ph[1], ph[k + 1])}
  <2>2. T = {}
    <3>1. SUFFICES ASSUME T # {} PROVE FALSE
      OBVIOUS
    <3>2. T \in SUBSET Nat
      OBVIOUS
    <3>3. PICK k \in T : \A m \in T : k <= m
      <4> HIDE DEF T
      <4>1. QED
        BY <3>1, <3>2, Least
    <3>4. k \in 1 .. n /\ ~Script(f[k], ph[1], ph[k + 1])
      OBVIOUS
    <3>5. f[k] = IF k = 1 THEN seqs[k] ELSE f[k - 1] \o seqs[k]
      BY <2>1, <3>4 DEF Flattens
    <3>6. CASE k = 1
      BY <3>4, <3>5, <3>6
    <3>7. CASE k # 1
      <4>1. k - 1 \in 1 .. n /\ k - 1 \in Nat /\ ~(k <= k - 1) /\ (k - 1) + 1 = k
        BY <3>4, <3>7
      <4>2. k - 1 \notin T
        <5> HIDE DEF T
        <5>1. QED
          BY <3>3, <4>1
      <4>3. Script(f[k - 1], ph[1], ph[k])
        BY <4>1, <4>2
      <4>4. Script(f[k - 1] \o seqs[k], ph[1], ph[k + 1])
        BY <3>4, <4>3, ScriptConcat
      <4>5. QED
        BY <3>4, <3>5, <3>7, <4>4
    <3>8. QED
      BY <3>6, <3>7
  <2>3. n \in 1 .. n
    BY <1>2
  <2>4. QED
    BY <2>1, <2>2, <2>3
<1>3. QED
  BY <1>1, <1>2

-----------------------------------------------------------------------------
(* Part II.  Both forward passes are such scripts, for every number of     *)
(* layers.                                                                 *)
Board(x, y) == [b \in 1 .. 2 |-> IF b = 1 THEN x ELSE y]

With(p, b, z) == [p EXCEPT ![b] = z]

LEMMA PlayCases ==
  ASSUME NEW p, NEW c, NEW q
  PROVE  /\ c.f = "preproj" =>
              (Plays(p, c, q) <=>
                 p[c.b].at = "free" /\ q = With(p, c.b, Phase("projected", c.l)))
         /\ c.f = "transfer_qkv" =>
              (Plays(p, c, q) <=>
                 /\ p[c.b].at = "projected" /\ \A k \in 1 .. 2 : p[k].at # "moving"
                 /\ q = With(p, c.b, Phase("moving", p[c.b].l)))
         /\ c.f = "cpu_attention" =>
              (Plays(p, c, q) <=>
                 p[c.b] = Phase("moving", c.l) /\ q = With(p, c.b, Phase("attended", c.l)))
         /\ c.f = "postproj" =>
              (Plays(p, c, q) <=>
                 p[c.b] = Phase("attended", c.l) /\ q = With(p, c.b, Phase("free", 0)))
         /\ c.f \notin {"preproj", "transfer_qkv", "cpu_attention", "postproj"} =>
              (Plays(p, c, q) <=> q = p)
<1>1. CASE c.f = "preproj"
  BY <1>1 DEF Plays, With
<1>2. CASE c.f = "transfer_qkv"
  BY <1>2 DEF Plays, With
<1>3. CASE c.f = "cpu_attention"
  BY <1>3 DEF Plays, With
<1>4. CASE c.f = "postproj"
  BY <1>4 DEF Plays, With
<1>5. CASE c.f \notin {"preproj", "transfer_qkv", "cpu_attention", "postproj"}
  BY <1>5 DEF Plays
<1>6. QED
  BY <1>1, <1>2, <1>3, <1>4, <1>5

LEMMA BoardFacts ==
  ASSUME NEW x \in Phases, NEW y \in Phases
  PROVE  /\ Board(x, y) \in Boards /\ Board(x, y)[1] = x /\ Board(x, y)[2] = y
         /\ \A z \in Phases : /\ With(Board(x, y), 1, z) = Board(z, y)
                              /\ With(Board(x, y), 2, z) = Board(x, z)
<1>1. Board(x, y) \in Boards /\ Board(x, y)[1] = x /\ Board(x, y)[2] = y
  BY DEF Board, Boards
<1>2. ASSUME NEW z \in Phases
      PROVE  /\ With(Board(x, y), 1, z) = Board(z, y)
             /\ With(Board(x, y), 2, z) = Board(x, z)
  <2>1. With(Board(x, y), 1, z) = Board(z, y)
    BY DEF Board, With
  <2>2. With(Board(x, y), 2, z) = Board(x, z)
    <3>1. PICK w : w = Board(x, y)
      OBVIOUS
    <3>2. DOMAIN w = 1 .. 2 /\ w[1] = x /\ w = [b \in 1 .. 2 |-> w[b]]
      BY <3>1 DEF Board
    <3>3. With(w, 2, z) = [b \in 1 .. 2 |-> IF b = 2 THEN z ELSE w[b]]
      BY <3>2 DEF With
    <3>4. \A b \in 1 .. 2 : (IF b = 2 THEN z ELSE w[b]) = IF b = 1 THEN x ELSE z
      BY <3>2
    <3>5. QED
      BY <3>1, <3>3, <3>4 DEF Board
  <2>3. QED
    BY <2>1, <2>2
<1>3. QED
  BY <1>1, <1>2

LEMMA PhaseFacts ==
  ASSUME NEW l \in Layers
  PROVE  \A at \in {"free", "projected", "moving", "attended"} :
           Phase(at, l) \in Phases /\ Phase(at, l).at = at /\ Phase(at, l).l = l
BY DEF Phase, Phases

LEMMA PhaseZero ==
  /\ 0 \in Layers
  /\ \A at \in {"free", "projected", "moving", "attended"} :
       Phase(at, 0) \in Phases /\ Phase(at, 0).at = at /\ Phase(at, 0).l = 0
<1>1. 0 \in Layers
  BY LayersAssumption DEF Layers
<1>2. QED
  BY <1>1, PhaseFacts

LEMMA CallFacts ==
  ASSUME NEW f \in LayerFs, NEW b \in 1 .. 2, NEW l \in Layers
  PROVE  /\ IsCall(Call(f, b, l))
         /\ Call(f, b, l).f = f /\ Call(f, b, l).b = b /\ Call(f, b, l).l = l
BY DEF Call, IsCall

(* The calls that leave the sub-batches where they are.                    *)
LEMMA PlayIdle ==
  ASSUME NEW p \in Boards, NEW b \in 1 .. 2, NEW l \in Layers,
         NEW f \in {"launch_attention", "swap_out", "wait_comm"}
  PROVE  Script(<<Call(f, b, l)>>, p, p)
<1>1. IsCall(Call(f, b, l)) /\ Call(f, b, l).f = f
  BY CallFacts DEF LayerFs
<1>2. Plays(p, Call(f, b, l), p)
  BY <1>1 DEF Plays
<1>3. QED
  BY <1>1, <1>2, ScriptOne

LEMMA PlayCall ==
  ASSUME NEW p \in Boards, NEW b \in 1 .. 2, NEW l \in Layers, NEW k \in Layers
  PROVE  /\ p[b].at = "free" =>
              Script(<<Call("preproj", b, l)>>, p, With(p, b, Phase("projected", l)))
         /\ p[b] = Phase("projected", l) /\ (\A i \in 1 .. 2 : p[i].at # "moving") =>
              Script(<<Call("transfer_qkv", b, k)>>, p, With(p, b, Phase("moving", l)))
         /\ p[b] = Phase("moving", l) =>
              Script(<<Call("cpu_attention", b, l)>>, p, With(p, b, Phase("attended", l)))
         /\ p[b] = Phase("attended", l) =>
              Script(<<Call("postproj", b, l)>>, p, With(p, b, Phase("free", 0)))
<1>1. /\ \A at \in {"free", "projected", "moving", "attended"} :
           Phase(at, l) \in Phases /\ Phase(at, l).at = at /\ Phase(at, l).l = l
      /\ Phase("free", 0) \in Phases
  BY PhaseFacts, PhaseZero
<1>2. \A z \in Phases : With(p, b, z) \in Boards
  BY DEF Boards, With
<1>3. \A f \in LayerFs, n \in Layers :
        /\ IsCall(Call(f, b, n))
        /\ Call(f, b, n).f = f /\ Call(f, b, n).b = b /\ Call(f, b, n).l = n
  BY CallFacts
<1>4. ASSUME p[b].at = "free"
      PROVE  Script(<<Call("preproj", b, l)>>, p, With(p, b, Phase("projected", l)))
  <2>1. IsCall(Call("preproj", b, l))
    BY <1>3 DEF LayerFs
  <2>2. Plays(p, Call("preproj", b, l), With(p, b, Phase("projected", l)))
    BY <1>3, <1>4, PlayCases DEF LayerFs
  <2>3. QED
    BY <1>1, <1>2, <2>1, <2>2, ScriptOne
<1>5. ASSUME p[b] = Phase("projected", l), \A i \in 1 .. 2 : p[i].at # "moving"
      PROVE  Script(<<Call("transfer_qkv", b, k)>>, p, With(p, b, Phase("moving", l)))
  <2>1. IsCall(Call("transfer_qkv", b, k))
    BY <1>3 DEF LayerFs
  <2>2. p[b].at = "projected" /\ p[b].l = l
    BY <1>1, <1>5
  <2>3. Plays(p, Call("transfer_qkv", b, k), With(p, b, Phase("moving", l)))
    BY <1>3, <1>5, <2>2, PlayCases DEF LayerFs
  <2>4. QED
    BY <1>1, <1>2, <2>1, <2>3, ScriptOne
<1>6. ASSUME p[b] = Phase("moving", l)
      PROVE  Script(<<Call("cpu_attention", b, l)>>, p, With(p, b, Phase("attended", l)))
  <2>1. IsCall(Call("cpu_attention", b, l))
    BY <1>3 DEF LayerFs
  <2>2. Plays(p, Call("cpu_attention", b, l), With(p, b, Phase("attended", l)))
    BY <1>3, <1>6, PlayCases DEF LayerFs
  <2>3. QED
    BY <1>1, <1>2, <2>1, <2>2, ScriptOne
<1>7. ASSUME p[b] = Phase("attended", l)
      PROVE  Script(<<Call("postproj", b, l)>>, p, With(p, b, Phase("free", 0)))
  <2>1. IsCall(Call("postproj", b, l))
    BY <1>3 DEF LayerFs
  <2>2. Plays(p, Call("postproj", b, l), With(p, b, Phase("free", 0)))
    BY <1>3, <1>7, PlayCases DEF LayerFs
  <2>3. QED
    BY <1>1, <1>2, <2>1, <2>2, ScriptOne
<1>8. QED
  BY <1>4, <1>5, <1>6, <1>7

(* The same on boards written out.                                         *)
LEMMA PlayOnBoard ==
  ASSUME NEW x \in Phases, NEW y \in Phases, NEW l \in Layers, NEW k \in Layers
  PROVE  /\ x.at = "free" =>
              Script(<<Call("preproj", 1, l)>>, Board(x, y), Board(Phase("projected", l), y))
         /\ y.at = "free" =>
              Script(<<Call("preproj", 2, l)>>, Board(x, y), Board(x, Phase("projected", l)))
         /\ x = Phase("projected", l) /\ y.at # "moving" =>
              Script(<<Call("transfer_qkv", 1, k)>>, Board(x, y), Board(Phase("moving", l), y))
         /\ y = Phase("projected", l) /\ x.at # "moving" =>
              Script(<<Call("transfer_qkv", 2, k)>>, Board(x, y), Board(x, Phase("moving", l)))
         /\ x = Phase("moving", l) =>
              Script(Attention(1, l), Board(x, y), Board(Phase("attended", l), y))
         /\ y = Phase("moving", l) =>
              Script(Attention(2, l), Board(x, y), Board(x, Phase("attended", l)))
         /\ x = Phase("attended", l) =>
              Script(<<Call("swap_out", 1, k), Call("postproj", 1, l)>>,
                     Board(x, y), Board(Phase("free", 0), y))
         /\ y = Phase("attended", l) =>
              Script(<<Call("swap_out", 2, k), Call("postproj", 2, l)>>,
                     Board(x, y), Board(x, Phase("free", 0)))
         /\ y = Phase("attended", l) =>
              Script(<<Call("postproj", 2, l)>>, Board(x, y), Board(x, Phase("free", 0)))
<1>1. PICK p : p = Board(x, y)
  OBVIOUS
<1>2. /\ p \in Boards /\ p[1] = x /\ p[2] = y
      /\ \A z \in Phases : /\ With(p, 1, z) = Board(z, y)
                           /\ With(p, 2, z) = Board(x, z)
  BY <1>1, BoardFacts
<1>3. /\ \A at \in {"free", "projected", "moving", "attended"} :
           Phase(at, l) \in Phases /\ Phase(at, l).at = at
      /\ Phase("free", 0) \in Phases
  BY PhaseFacts, PhaseZero
<1>4. /\ With(p, 1, Phase("projected", l)) = Board(Phase("projected", l), y)
      /\ With(p, 2, Phase("projected", l)) = Board(x, Phase("projected", l))
      /\ With(p, 1, Phase("moving", l)) = Board(Phase("moving", l), y)
      /\ With(p, 2, Phase("moving", l)) = Board(x, Phase("moving", l))
      /\ With(p, 1, Phase("attended", l)) = Board(Phase("attended", l), y)
      /\ With(p, 2, Phase("attended", l)) = Board(x, Phase("attended", l))
      /\ With(p, 1, Phase("free", 0)) = Board(Phase("free", 0), y)
      /\ With(p, 2, Phase("free", 0)) = Board(x, Phase("free", 0))
  BY <1>2, <1>3
<1>5. 1 \in 1 .. 2 /\ 2 \in 1 .. 2
  OBVIOUS
<1>6. /\ Script(<<Call("launch_attention", 1, l)>>, p, p)
      /\ Script(<<Call("launch_attention", 2, l)>>, p, p)
      /\ Script(<<Call("swap_out", 1, k)>>, p, p)
      /\ Script(<<Call("swap_out", 2, k)>>, p, p)
  BY <1>2, <1>5, PlayIdle
<1>7. /\ x.at = "free" =>
           Script(<<Call("preproj", 1, l)>>, p, Board(Phase("projected", l), y))
      /\ y.at = "free" =>
           Script(<<Call("preproj", 2, l)>>, p, Board(x, Phase("projected", l)))
  BY <1>2, <1>4, <1>5, PlayCall
<1>8. /\ x = Phase("projected", l) /\ y.at # "moving" =>
           Script(<<Call("transfer_qkv", 1, k)>>, p, Board(Phase("moving", l), y))
      /\ y = Phase("projected", l) /\ x.at # "moving" =>
           Script(<<Call("transfer_qkv", 2, k)>>, p, Board(x, Phase("moving", l)))
  <2>1. ASSUME x = Phase("projected", l), y.at # "moving"
        PROVE  \A i \in 1 .. 2 : p[i].at # "moving"
    BY <1>2, <1>3, <2>1
  <2>2. ASSUME y = Phase("projected", l), x.at # "moving"
        PROVE  \A i \in 1 .. 2 : p[i].at # "moving"
    BY <1>2, <1>3, <2>2
  <2>3. QED
    BY <1>2, <1>4, <1>5, <2>1, <2>2, PlayCall
<1>9. /\ x = Phase("moving", l) =>
           Script(<<Call("cpu_attention", 1, l)>>, p, Board(Phase("attended", l), y))
      /\ y = Phase("moving", l) =>
           Script(<<Call("cpu_attention", 2, l)>>, p, Board(x, Phase("attended", l)))
  BY <1>2, <1>4, <1>5, PlayCall
<1>10. /\ x = Phase("attended", l) =>
           Script(<<Call("postproj", 1, l)>>, p, Board(Phase("free", 0), y))
       /\ y = Phase("attended", l) =>
           Script(<<Call("postproj", 2, l)>>, p, Board(x, Phase("free", 0)))
  BY <1>2, <1>4, <1>5, PlayCall
<1>11. ASSUME NEW b, NEW q, Script(<<Call("cpu_attention", b, l)>>, p, q),
              Script(<<Call("launch_attention", b, l)>>, p, p)
       PROVE  Script(Attention(b, l), p, q)
  <2>1. Attention(b, l) =
          <<Call("launch_attention", b, l)>> \o <<Call("cpu_attention", b, l)>>
    BY DEF Attention
  <2>2. QED
    BY <1>11, <2>1, ScriptConcat
<1>12. ASSUME NEW b, NEW q, Script(<<Call("postproj", b, l)>>, p, q),
              Script(<<Call("swap_out", b, k)>>, p, p)
       PROVE  Script(<<Call("swap_out", b, k), Call("postproj", b, l)>>, p, q)
  <2>1. <<Call("swap_out", b, k), Call("postproj", b, l)>> =
          <<Call("swap_out", b, k)>> \o <<Call("postproj", b, l)>>
    OBVIOUS
  <2>2. QED
    BY <1>12, <2>1, ScriptConcat
<1>13. /\ x = Phase("moving", l) =>
            Script(Attention(1, l), p, Board(Phase("attended", l), y))
       /\ y = Phase("moving", l) =>
            Script(Attention(2, l), p, Board(x, Phase("attended", l)))
  BY <1>6, <1>9, <1>11
<1>14. /\ x = Phase("attended", l) =>
            Script(<<Call("swap_out", 1, k), Call("postproj", 1, l)>>, p, Board(Phase("free", 0), y))
       /\ y = Phase("attended", l) =>
            Script(<<Call("swap_out", 2, k), Call("postproj", 2, l)>>, p, Board(x, Phase("free", 0)))
  BY <1>6, <1>10, <1>12
<1>15. QED
  BY <1>1, <1>7, <1>8, <1>10, <1>13, <1>14

Free0 == Phase("free", 0)

LEMMA StartBoard == Start = Board(Free0, Free0) /\ Free0 \in Phases /\ Free0.at = "free"
<1>1. Free0 \in Phases /\ Free0.at = "free"
  BY PhaseZero DEF Free0
<1>2. Start = Board(Free0, Free0)
  BY DEF Start, Board, Free0
<1>3. QED
  BY <1>1, <1>2

LEMMA ForwardScript == ASSUME NEW l \in Layers PROVE Script(Forward(l), Start, Start)
<1> DEFINE F == Free0
           J == Phase("projected", l)
           M == Phase("moving", l)
           A == Phase("attended", l)
<1>1. /\ F \in Phases /\ J \in Phases /\ M \in Phases /\ A \in Phases
      /\ F.at = "free" /\ 0 \in Layers
  BY StartBoard, PhaseFacts, PhaseZero
<1>2. Script(<<Call("preproj", 1, l)>>, Board(F, F), Board(J, F))
  BY <1>1, PlayOnBoard
<1>3. Script(<<Call("transfer_qkv", 1, l)>>, Board(J, F), Board(M, F))
  BY <1>1, PlayOnBoard
<1>4. Script(Attention(1, l), Board(M, F), Board(A, F))
  BY <1>1, PlayOnBoard
<1>5. Script(<<Call("swap_out", 1, l), Call("postproj", 1, l)>>, Board(A, F), Board(F, F))
  BY <1>1, PlayOnBoard DEF Free0
<1>6. <<Call("preproj", 1, l), Call("transfer_qkv", 1, l)>> =
        <<Call("preproj", 1, l)>> \o <<Call("transfer_qkv", 1, l)>>
  OBVIOUS
<1> HIDE DEF F, J, M, A
<1>7. Script(<<Call("preproj", 1, l), Call("transfer_qkv", 1, l)>>, Board(F, F), Board(M, F))
  BY <1>2, <1>3, <1>6, ScriptConcat
<1>8. Script(<<Call("preproj", 1, l), Call("transfer_qkv", 1, l)>> \o Attention(1, l),
             Board(F, F), Board(A, F))
  BY <1>4, <1>7, ScriptConcat
<1>9. Script(Forward(l), Board(F, F), Board(F, F))
  BY <1>5, <1>8, ScriptConcat DEF Forward
<1>10. QED
  BY <1>9, StartBoard DEF F

LEMMA SequentialScript == Script(ForwardSequential, Start, Start)
<1> DEFINE seqs == [i \in 1 .. NumLayers |-> Forward(i - 1)]
           ph == [i \in 1 .. (NumLayers + 1) |-> Start]
<1>1. NumLayers \in Nat \ {0}
  BY LayersAssumption
<1>2. Start \in Boards /\ 0 \in Layers
  BY StartBoard, BoardFacts, PhaseZero
<1>3. Queue(seqs) /\ Len(seqs) = NumLayers
  BY <1>1, QueueOfFunction
<1>4. ASSUME NEW i \in 1 .. NumLayers PROVE Script(seqs[i], ph[i], ph[i + 1])
  <2>1. i - 1 \in Layers /\ i \in 1 .. (NumLayers + 1) /\ i + 1 \in 1 .. (NumLayers + 1)
    BY <1>1 DEF Layers
  <2>2. Script(Forward(i - 1), Start, Start)
    BY <2>1, ForwardScript
  <2>3. QED
    BY <2>1, <2>2
<1>5. ph[1] = Start /\ ph[NumLayers + 1] = Start
  BY <1>1
<1> HIDE DEF seqs, ph
<1>6. Script(FlattenSeq(seqs), ph[1], ph[NumLayers + 1])
  BY <1>1, <1>2, <1>3, <1>4, <1>5, ScriptFlatten
<1>7. Script(<<Call("wait_comm", 1, 0)>>, Start, Start)
  <2>1. 1 \in 1 .. 2
    OBVIOUS
  <2>2. QED
    BY <1>2, <2>1, PlayIdle
<1>8. Script(<<Call("wait_comm", 1, 0)>> \o FlattenSeq(seqs), Start, Start)
  BY <1>5, <1>6, <1>7, ScriptConcat
<1>9. QED
  BY <1>8 DEF ForwardSequential, seqs

(* The pipelined forward pass: both sub-batches in turn.                   *)
Between(l) == Board(Phase("attended", l), Phase("projected", l))

LEMMA FirstScript == Script(FirstStage, Start, Between(0))
<1> DEFINE F == Free0
           J == Phase("projected", 0)
           M == Phase("moving", 0)
           A == Phase("attended", 0)
<1>1. /\ F \in Phases /\ J \in Phases /\ M \in Phases /\ A \in Phases
      /\ F.at = "free" /\ 0 \in Layers
  BY StartBoard, PhaseZero
<1>2. Script(<<Call("preproj", 1, 0)>>, Board(F, F), Board(J, F))
  BY <1>1, PlayOnBoard
<1>3. Script(<<Call("wait_comm", 1, 0)>>, Board(J, F), Board(J, F))
  <2>1. 1 \in 1 .. 2 /\ Board(J, F) \in Boards
    BY <1>1, BoardFacts
  <2>2. QED
    BY <1>1, <2>1, PlayIdle
<1>4. Script(<<Call("transfer_qkv", 1, 0)>>, Board(J, F), Board(M, F))
  BY <1>1, PlayOnBoard
<1>5. Script(<<Call("preproj", 2, 0)>>, Board(M, F), Board(M, J))
  BY <1>1, PlayOnBoard
<1>6. Script(Attention(1, 0), Board(M, J), Board(A, J))
  BY <1>1, PlayOnBoard
<1> HIDE DEF F, J, M, A
<1>7. Script(<<Call("preproj", 1, 0)>> \o <<Call("wait_comm", 1, 0)>>, Board(F, F), Board(J, F))
  BY <1>2, <1>3, ScriptConcat
<1>8. Script(<<Call("transfer_qkv", 1, 0)>> \o <<Call("preproj", 2, 0)>>, Board(J, F), Board(M, J))
  BY <1>4, <1>5, ScriptConcat
<1>9. Script((<<Call("preproj", 1, 0)>> \o <<Call("wait_comm", 1, 0)>>) \o
             (<<Call("transfer_qkv", 1, 0)>> \o <<Call("preproj", 2, 0)>>), Board(F, F), Board(M, J))
  BY <1>7, <1>8, ScriptConcat
<1>10. <<Call("preproj", 1, 0), Call("wait_comm", 1, 0), Call("transfer_qkv", 1, 0),
         Call("preproj", 2, 0)>> =
         (<<Call("preproj", 1, 0)>> \o <<Call("wait_comm", 1, 0)>>) \o
         (<<Call("transfer_qkv", 1, 0)>> \o <<Call("preproj", 2, 0)>>)
  OBVIOUS
<1>11. Script(FirstStage, Board(F, F), Board(A, J))
  BY <1>6, <1>9, <1>10, ScriptConcat DEF FirstStage
<1>12. QED
  BY <1>11, StartBoard DEF F, A, J, Between

LEMMA FourCalls ==
  ASSUME NEW c, NEW d, NEW e, NEW f
  PROVE  (<<c>> \o <<d, e>>) \o <<f>> = <<c, d, e, f>>
<1>1. PICK S : c \in S /\ d \in S /\ e \in S /\ f \in S
  <2>1. c \in {c, d, e, f} /\ d \in {c, d, e, f} /\ e \in {c, d, e, f} /\ f \in {c, d, e, f}
    OBVIOUS
  <2>2. QED
    BY <2>1
<1>2. /\ <<c>> \in Seq(S) /\ <<d, e>> \in Seq(S) /\ <<f>> \in Seq(S) /\ <<c, d, e, f>> \in Seq(S)
      /\ Len(<<c>>) = 1 /\ Len(<<d, e>>) = 2 /\ Len(<<f>>) = 1 /\ Len(<<c, d, e, f>>) = 4
  BY <1>1
<1>3. PICK u : u = <<c>> \o <<d, e>>
  OBVIOUS
<1>4. u \in Seq(S) /\ Len(u) = 3 /\ u[1] = c /\ u[2] = d /\ u[3] = e
  BY <1>2, <1>3
<1>5. PICK v : v = u \o <<f>>
  OBVIOUS
<1>6. v \in Seq(S) /\ Len(v) = 4 /\ v[1] = c /\ v[2] = d /\ v[3] = e /\ v[4] = f
  <2>1. PICK w : w = <<f>>
    OBVIOUS
  <2>2. w \in Seq(S) /\ Len(w) = 1 /\ w[1] = f
    BY <1>2, <2>1
  <2>3. /\ v \in Seq(S) /\ Len(v) = Len(u) + Len(w)
        /\ \A i \in 1 .. Len(u) + Len(w) :
             v[i] = IF i <= Len(u) THEN u[i] ELSE w[i - Len(u)]
    BY <1>4, <1>5, <2>1, <2>2, ConcatProperties
  <2>4. QED
    BY <1>4, <2>2, <2>3
<1>7. \A i \in 1 .. 4 : v[i] = <<c, d, e, f>>[i]
  <2>1. \A i \in 1 .. 4 : i = 1 \/ i = 2 \/ i = 3 \/ i = 4
    OBVIOUS
  <2>2. QED
    BY <1>6, <2>1
<1>8. v = <<c, d, e, f>>
  BY <1>2, <1>6, <1>7, SeqEqual
<1>9. QED
  BY <1>3, <1>5, <1>8

LEMMA StageScript ==
  ASSUME NEW b, NEW o, NEW l, NEW m, NEW n, NEW p, NEW q, NEW r, NEW s, NEW t,
         Script(<<Call("transfer_qkv", o, l)>>, p, q),
         Script(<<Call("swap_out", b, l), Call("postproj", b, l)>>, q, r),
         Script(<<Call("preproj", b, n)>>, r, s),
         Script(Attention(o, m), s, t)
  PROVE  Script(<<Call("transfer_qkv", o, l), Call("swap_out", b, l), Call("postproj", b, l),
                  Call("preproj", b, n)>> \o Attention(o, m), p, t)
<1>1. PICK c, d, e, f : /\ c = Call("transfer_qkv", o, l) /\ d = Call("swap_out", b, l)
                        /\ e = Call("postproj", b, l) /\ f = Call("preproj", b, n)
  OBVIOUS
<1>2. Script(<<c>> \o <<d, e>>, p, r)
  BY <1>1, ScriptConcat
<1>3. Script((<<c>> \o <<d, e>>) \o <<f>>, p, s)
  BY <1>1, <1>2, ScriptConcat
<1>4. (<<c>> \o <<d, e>>) \o <<f>> = <<c, d, e, f>>
  BY FourCalls
<1>5. Script(<<c, d, e, f>> \o Attention(o, m), p, t)
  BY <1>3, <1>4, ScriptConcat
<1>6. QED
  BY <1>1, <1>5

LEMMA DoubleScript ==
  ASSUME NEW l \in Layers, l + 1 \in Layers
  PROVE  Script(ForwardDouble(l), Between(l), Between(l + 1))
<1> DEFINE F == Free0
           J == Phase("projected", l)
           M == Phase("moving", l)
           A == Phase("attended", l)
           K == Phase("projected", l + 1)
           N == Phase("moving", l + 1)
           B == Phase("attended", l + 1)
<1>1. /\ F \in Phases /\ J \in Phases /\ M \in Phases /\ A \in Phases
      /\ F.at = "free" /\ A.at = "attended"
      /\ K \in Phases /\ N \in Phases /\ B \in Phases
  BY StartBoard, PhaseFacts
<1>2. NextLayer(l) = l + 1 /\ (l + 0) % NumLayers = l /\ (l + 1) % NumLayers = l + 1
  BY LayersAssumption DEF Layers, NextLayer
<1>3. /\ Script(<<Call("transfer_qkv", 2, l)>>, Board(A, J), Board(A, M))
      /\ Script(<<Call("swap_out", 1, l), Call("postproj", 1, l)>>, Board(A, M), Board(F, M))
      /\ Script(<<Call("preproj", 1, l + 1)>>, Board(F, M), Board(K, M))
      /\ Script(Attention(2, l), Board(K, M), Board(K, A))
  BY <1>1, PlayOnBoard DEF Free0
<1>4. /\ Script(<<Call("transfer_qkv", 1, l)>>, Board(K, A), Board(N, A))
      /\ Script(<<Call("swap_out", 2, l), Call("postproj", 2, l)>>, Board(N, A), Board(N, F))
      /\ Script(<<Call("preproj", 2, l + 1)>>, Board(N, F), Board(N, K))
      /\ Script(Attention(1, l + 1), Board(N, K), Board(B, K))
  BY <1>1, PlayOnBoard DEF Free0
<1> HIDE DEF F, J, M, A, K, N, B
<1>6. Script(PipelineStage(l, 0), Board(A, J), Board(K, A))
  <2>1. PipelineStage(l, 0) =
          <<Call("transfer_qkv", 2, l), Call("swap_out", 1, l), Call("postproj", 1, l),
            Call("preproj", 1, l + 1)>> \o Attention(2, l)
    BY <1>2 DEF PipelineStage
  <2>2. QED
    BY <1>3, <2>1, StageScript
<1>7. Script(PipelineStage(l, 1), Board(K, A), Board(B, K))
  <2>1. PipelineStage(l, 1) =
          <<Call("transfer_qkv", 1, l), Call("swap_out", 2, l), Call("postproj", 2, l),
            Call("preproj", 2, l + 1)>> \o Attention(1, l + 1)
    BY <1>2 DEF PipelineStage
  <2>2. QED
    BY <1>4, <2>1, StageScript
<1>8. QED
  BY <1>6, <1>7, ScriptConcat DEF ForwardDouble, Between, A, J, B, K

LEMMA LastScript == Script(LastStage, Between(NumLayers - 1), Start)
<1> DEFINE l == NumLayers - 1
           F == Free0
           J == Phase("projected", l)
           M == Phase("moving", l)
           A == Phase("attended", l)
<1>1. l \in Layers
  BY LayersAssumption DEF Layers
<1> HIDE DEF l
<1>2. /\ F \in Phases /\ J \in Phases /\ M \in Phases /\ A \in Phases
      /\ F.at = "free" /\ A.at = "attended"
  BY <1>1, StartBoard, PhaseFacts
<1>3. /\ Script(<<Call("transfer_qkv", 2, l)>>, Board(A, J), Board(A, M))
      /\ Script(<<Call("swap_out", 1, l), Call("postproj", 1, l)>>, Board(A, M), Board(F, M))
      /\ Script(Attention(2, l), Board(F, M), Board(F, A))
      /\ Script(<<Call("postproj", 2, l)>>, Board(F, A), Board(F, F))
  BY <1>1, <1>2, PlayOnBoard DEF Free0
<1> HIDE DEF F, J, M, A
<1>4. Script(<<Call("transfer_qkv", 2, l)>> \o
             <<Call("swap_out", 1, l), Call("postproj", 1, l)>>, Board(A, J), Board(F, M))
  BY <1>3, ScriptConcat
<1>5. <<Call("transfer_qkv", 2, l), Call("swap_out", 1, l), Call("postproj", 1, l)>> =
        <<Call("transfer_qkv", 2, l)>> \o <<Call("swap_out", 1, l), Call("postproj", 1, l)>>
  OBVIOUS
<1>6. Script(<<Call("transfer_qkv", 2, l), Call("swap_out", 1, l), Call("postproj", 1, l)>> \o
             Attention(2, l), Board(A, J), Board(F, A))
  BY <1>3, <1>4, <1>5, ScriptConcat
<1>7. Script((<<Call("transfer_qkv", 2, l), Call("swap_out", 1, l), Call("postproj", 1, l)>> \o
              Attention(2, l)) \o <<Call("postproj", 2, l)>>, Board(A, J), Board(F, F))
  BY <1>3, <1>6, ScriptConcat
<1>8. Script(LastStage, Board(A, J), Board(F, F))
  BY <1>7 DEF LastStage, l
<1>9. QED
  BY <1>8, StartBoard DEF Between, F, A, J, l

LEMMA PipelineScript == Script(ForwardPipeline, Start, Start)
<1> DEFINE n == NumLayers - 1
           seqs == [i \in 1 .. n |-> ForwardDouble(i - 1)]
           ph == [i \in 1 .. (n + 1) |-> Between(i - 1)]
<1>1. n \in Nat /\ n + 1 = NumLayers
  BY LayersAssumption
<1>2. Queue(seqs) /\ Len(seqs) = n
  BY <1>1, QueueOfFunction
<1>3. ASSUME NEW i \in 1 .. n PROVE Script(seqs[i], ph[i], ph[i + 1])
  <2>1. /\ i - 1 \in Layers /\ (i - 1) + 1 = i /\ i \in Layers /\ i \in 1 .. (n + 1)
        /\ i + 1 \in 1 .. (n + 1) /\ (i + 1) - 1 = i
    BY <1>1 DEF Layers
  <2>2. Script(ForwardDouble(i - 1), Between(i - 1), Between(i))
    BY <2>1, DoubleScript
  <2>3. ph[i] = Between(i - 1) /\ ph[i + 1] = Between(i)
    BY <2>1
  <2>4. QED
    BY <2>2, <2>3
<1>4. ph[1] = Between(0) /\ ph[n + 1] = Between(n)
  BY <1>1
<1>5. Between(0) \in Boards
  BY PhaseZero, BoardFacts DEF Between
<1>6. n = 0 => seqs = << >>
  BY <1>2, QueueFacts
<1> HIDE DEF seqs, ph, n
<1>7. Script(FlattenSeq(seqs), ph[1], ph[n + 1])
  BY <1>1, <1>2, <1>3, <1>4, <1>5, <1>6, ScriptFlatten
<1>8. Script(FirstStage \o FlattenSeq(seqs), Start, Between(n))
  BY <1>4, <1>7, FirstScript, ScriptConcat
<1>9. Script(LastStage, Between(n), Start)
  BY LastScript DEF n
<1>10. Script((FirstStage \o FlattenSeq(seqs)) \o LastStage, Start, Start)
  BY <1>8, <1>9, ScriptConcat
<1>11. QED
  BY <1>10 DEF ForwardPipeline, seqs, n

(* Whatever the batches, the host's program is legal.                      *)
LEMMA BatchesScript == ASSUME NEW batches PROVE Script(ForwardBatches(batches), Start, Start)
BY SequentialScript, PipelineScript DEF ForwardBatches

-----------------------------------------------------------------------------
(* Part III.  The rows of both devices stay sequences, so that the host    *)
(* goes through the blocks of a swap one by one.                           *)
HasRows(d) ==
  /\ d = [table |-> d.table, free |-> d.free, nfree |-> d.nfree, ok |-> d.ok]
  /\ \A id \in Ids : Queue(d.table[id])

BothHaveRows(p) == HasRows(p.gpu) /\ HasRows(p.cpu)

LEMMA RowsAlloc ==
  ASSUME NEW d, HasRows(d), NEW ids \in Seq(Ids), NEW target \in [Ids -> Int], NEW splitPoint
  PROVE  HasRows(BM!Alloc(d, ids, splitPoint, target))
<1>1. CASE ~d.ok \/ BM!AllocRaises(d, ids, splitPoint, target)
  <2>1. BM!Alloc(d, ids, splitPoint, target) = [d EXCEPT !.ok = FALSE]
    BY <1>1 DEF BM!Alloc
  <2>2. QED
    BY <2>1 DEF HasRows
<1>2. CASE ~(~d.ok \/ BM!AllocRaises(d, ids, splitPoint, target))
  <2>1. PICK given, free, nfree :
          BM!Alloc(d, ids, splitPoint, target) =
            [table |-> BM!NewRows(d, ids, splitPoint, target, given),
             free  |-> free, nfree |-> nfree, ok |-> TRUE]
    BY <1>2 DEF BM!Alloc
  <2>2. ASSUME NEW id \in Ids
        PROVE  Queue(BM!NewRows(d, ids, splitPoint, target, given)[id])
    <3> DEFINE pos == CHOOSE i \in 1 .. Len(ids) : ids[i] = id
               row(i) == [j \in 1 .. target[ids[i]] |->
                            IF j <= Len(d.table[ids[i]]) THEN d.table[ids[i]][j]
                            ELSE given[IF i <= splitPoint THEN 1 ELSE 0][<<i, j>>]]
    <3>1. CASE id \in BM!Elems(ids)
      <4>1. BM!NewRows(d, ids, splitPoint, target, given)[id] = row(pos)
        BY <3>1 DEF BM!NewRows
      <4>2. ids[pos] = id
        BY <3>1 DEF BM!Elems
      <4>3. target[ids[pos]] \in Int
        BY <4>2
      <4>4. PICK n, f : n = target[ids[pos]] /\ f = row(pos)
        OBVIOUS
      <4>5. f = [j \in 1 .. n |-> f[j]]
        BY <4>4
      <4>6. Queue(f)
        <5>1. CASE n \in Nat
          BY <4>5, <5>1, QueueOfFunction
        <5>2. CASE n \notin Nat
          <6>1. 1 .. n = 1 .. 0
            <7>1. n \in Int
              BY <4>3, <4>4
            <7>2. \A j \in Int : ~(1 <= j /\ j <= n) /\ ~(1 <= j /\ j <= 0)
              BY <5>2, <7>1
            <7> HIDE DEF pos, row
            <7>3. QED
              BY ONLY <7>1, <7>2
          <6>2. f = [j \in 1 .. 0 |-> f[j]]
            BY <4>5, <6>1
          <6>3. QED
            BY <6>2, QueueOfFunction
        <5>3. QED
          BY <5>1, <5>2
      <4>7. QED
        BY <4>1, <4>4, <4>6
    <3>2. CASE id \notin BM!Elems(ids)
      <4>1. BM!NewRows(d, ids, splitPoint, target, given)[id] = d.table[id]
        BY <3>2 DEF BM!NewRows
      <4>2. QED
        BY <4>1 DEF HasRows
    <3>3. QED
      BY <3>1, <3>2
  <2>3. QED
    BY <2>1, <2>2 DEF HasRows
<1>3. QED
  BY <1>1, <1>2

LEMMA RowsFree ==
  ASSUME NEW d, HasRows(d), NEW S, NEW s
  PROVE  HasRows(BM!Free(d, S, s))
<1>1. CASE ~d.ok
  BY <1>1 DEF BM!Free
<1>2. CASE d.ok
  <2>1. PICK free, nfree :
          BM!Free(d, S, s) =
            [table |-> [id \in Ids |-> IF id \in S THEN << >> ELSE d.table[id]],
             free |-> free, nfree |-> nfree, ok |-> d.ok]
    BY <1>2 DEF BM!Free, HasRows
  <2>2. Queue(<< >>)
    BY QueueOfOne
  <2>3. QED
    BY <2>1, <2>2 DEF HasRows
<1>3. QED
  BY <1>1, <1>2

LEMMA TargetType ==
  ASSUME NEW len \in [Ids -> Int]
  PROVE  BM!Target(len) \in [Ids -> Int] /\ BM!OmitLast(len) \in [Ids -> Int]
<1>1. ASSUME NEW n \in Int PROVE BM!BlocksFor(n) \in Int
  BY PlaneAssumption DEF BM!BlocksFor
<1>2. QED
  BY <1>1 DEF BM!Target, BM!OmitLast

LEMMA RowsSwaps ==
  ASSUME NEW p, BothHaveRows(p), NEW ids \in Seq(Ids), NEW target \in [Ids -> Int], NEW split
  PROVE  /\ BothHaveRows(BM!SwapOut(p, ids, split, target))
         /\ BothHaveRows(BM!SwapIn(p, ids, target))
BY RowsAlloc, RowsFree DEF BothHaveRows, BM!SwapOut, BM!SwapIn

LEMMA RowsStages ==
  ASSUME NEW p, BothHaveRows(p), NEW len \in [Ids -> Int]
  PROVE  /\ \A out, in : out \in Seq(Ids) /\ in \in Seq(Ids) =>
              BothHaveRows(BM!Swap(p, out, in, len))
         /\ \A b : BM!BatchType(b) =>
              /\ BothHaveRows(BM!AllocForBatch(p, b, len))
              /\ BothHaveRows(BM!SwapOutCprfs(p, b, len))
<1>1. BM!Target(len) \in [Ids -> Int] /\ BM!Target(BM!OmitLast(len)) \in [Ids -> Int]
  BY TargetType
<1>2. ASSUME NEW out \in Seq(Ids), NEW in \in Seq(Ids)
      PROVE  BothHaveRows(BM!Swap(p, out, in, len))
  BY <1>1, RowsSwaps DEF BM!Swap
<1>3. ASSUME NEW b, BM!BatchType(b)
      PROVE  /\ BothHaveRows(BM!AllocForBatch(p, b, len))
             /\ BothHaveRows(BM!SwapOutCprfs(p, b, len))
  <2>1. BM!PrGds(b) \in Seq(Ids) /\ b.cdec \in Seq(Ids) /\ b.cprf \in Seq(Ids)
    BY <1>3 DEF BM!BatchType, BM!PrGds
  <2>2. BothHaveRows(BM!AllocForBatch(p, b, len))
    BY <1>1, <2>1, RowsAlloc DEF BothHaveRows, BM!AllocForBatch
  <2>3. BothHaveRows(BM!SwapOutCprfs(p, b, len))
    BY <1>1, <2>1, RowsSwaps DEF BM!SwapOutCprfs
  <2>4. QED
    BY <2>2, <2>3
<1>4. QED
  BY <1>2, <1>3

PlaneInv == lens \in [Ids -> Int] /\ HasRows(gpu) /\ HasRows(cpu)

LEMMA PlaneInit == ASSUME BM!Init PROVE PlaneInv
<1>1. Queue(<< >>)
  BY QueueOfOne
<1>2. ASSUME NEW n PROVE HasRows(BM!NewDevice(n))
  BY <1>1 DEF HasRows, BM!NewDevice
<1>3. QED
  BY <1>2 DEF BM!Init, PlaneInv

LEMMA PlanePrepare ==
  ASSUME PlaneInv, NEW c, BM!Prepare(c)
  PROVE  /\ PlaneInv'
         /\ HasRows(Stages(c)[4].gpu)
         /\ c.swapOut \in Seq(Ids) /\ c.swapIn \in Seq(Ids)
         /\ Len(c.batches) \in {1, 2} /\ DOMAIN c.batches = 1 .. Len(c.batches)
         /\ \A k \in 1 .. Len(c.batches) : c.batches[k].cprf \in Seq(Ids)
<1>1. /\ BM!LegalCall(c) /\ BM!PrepareSucceeds(c)
      /\ gpu' = BM!Prepared(c).gpu /\ cpu' = BM!Prepared(c).cpu /\ lens' = BM!LensWith(c)
  BY DEF BM!Prepare
<1>2. /\ c.swapOut \in Seq(Ids) /\ c.swapIn \in Seq(Ids)
      /\ c.prompt \in [Ids -> 1 .. (MaxLen - 1)]
      /\ c.batches \in Seq({c.batches[k] : k \in 1 .. Len(c.batches)})
      /\ \A k \in 1 .. Len(c.batches) : BM!BatchType(c.batches[k])
  BY <1>1 DEF BM!LegalCall
<1>3. Len(c.batches) \in {1, 2}
  BY <1>1 DEF BM!PrepareSucceeds, BM!PrepareAsserts
<1>4. PICK len : len = BM!LensWith(c)
  OBVIOUS
<1>5. len \in [Ids -> Int]
  <2>1. \A id \in Ids : lens[id] \in Int /\ c.prompt[id] \in Int
    BY <1>2, PlaneAssumption DEF PlaneInv
  <2>2. QED
    BY <1>4, <2>1 DEF BM!LensWith
<1>6. PICK p0, swapped, first :
        /\ p0 = [gpu |-> gpu, cpu |-> cpu] /\ swapped = BM!Swap(p0, c.swapOut, c.swapIn, len)
        /\ first = BM!AllocForBatch(swapped, c.batches[1], len)
  OBVIOUS
<1>7. BothHaveRows(p0)
  BY <1>6 DEF PlaneInv, BothHaveRows
<1>8. BothHaveRows(swapped)
  BY <1>2, <1>5, <1>6, <1>7, RowsStages
<1>9. BM!BatchType(c.batches[1]) /\ (Len(c.batches) = 2 => BM!BatchType(c.batches[2]))
  BY <1>2, <1>3
<1>10. BothHaveRows(first)
  BY <1>5, <1>6, <1>8, <1>9, RowsStages
<1>11. PICK both : both = IF Len(c.batches) = 1 THEN first
                          ELSE BM!AllocForBatch(first, c.batches[2], len)
  OBVIOUS
<1>12. BothHaveRows(both)
  BY <1>3, <1>5, <1>9, <1>10, <1>11, RowsStages
<1>13. BothHaveRows(BM!Prepared(c))
  <2>1. CASE Len(c.batches) = 1
    <3>1. BM!Prepared(c) = BM!SwapOutCprfs(both, c.batches[1], len)
      BY <1>4, <1>6, <1>11, <2>1 DEF BM!Prepared, BM!PreparedDevices
    <3>2. QED
      BY <1>5, <1>9, <1>12, <3>1, RowsStages
  <2>2. CASE Len(c.batches) = 2
    <3>1. BM!Prepared(c) = BM!SwapOutCprfs(BM!SwapOutCprfs(both, c.batches[1], len),
                                           c.batches[2], len)
      BY <1>4, <1>6, <1>11, <2>2 DEF BM!Prepared, BM!PreparedDevices
    <3>2. BothHaveRows(BM!SwapOutCprfs(both, c.batches[1], len))
      BY <1>5, <1>9, <1>12, RowsStages
    <3>3. QED
      BY <1>5, <1>9, <2>2, <3>1, <3>2, RowsStages
  <2>3. QED
    BY <1>3, <2>1, <2>2
<1>14. Stages(c)[4] = both
  BY <1>4, <1>6, <1>11 DEF Stages
<1>15. PlaneInv'
  BY <1>1, <1>4, <1>5, <1>13 DEF PlaneInv, BothHaveRows
<1>16. \A k \in 1 .. Len(c.batches) : c.batches[k].cprf \in Seq(Ids)
  BY <1>2 DEF BM!BatchType
<1>17. DOMAIN c.batches = 1 .. Len(c.batches)
  BY <1>2
<1>18. QED
  BY <1>2, <1>3, <1>12, <1>14, <1>15, <1>16, <1>17 DEF BothHaveRows

LEMMA PlaneUpdate == ASSUME PlaneInv, NEW S, BM!UpdateAndFree(S) PROVE PlaneInv'
<1>1. HasRows(gpu') /\ HasRows(cpu')
  BY RowsFree DEF PlaneInv, BM!UpdateAndFree
<1>2. lens' \in [Ids -> Int]
  BY DEF PlaneInv, BM!UpdateAndFree
<1>3. QED
  BY <1>1, <1>2 DEF PlaneInv, HasRows

(* What the host and the copy stream are given for calls of swap_blocks.   *)
WholeSwaps(swaps) ==
  Queue(swaps) /\ \A i \in 1 .. Len(swaps) : IsSwap(swaps[i]) /\ Queue(swaps[i].src)

BlockQueue(s) ==
  Queue(s) /\ \A i \in 1 .. Len(s) : s[i].f \in BlockCalls /\ IsSwap(s[i].swap)

LEMMA NothingToSwap == WholeSwaps(<< >>) /\ BlockQueue(<< >>)
<1>1. Queue(<< >>) /\ Len(<< >>) = 0
  BY QueueOfOne
<1>2. \A i : i \notin 1 .. 0
  OBVIOUS
<1>3. QED
  BY <1>1, <1>2 DEF WholeSwaps, BlockQueue

LEMMA PidsQueue ==
  ASSUME NEW d, HasRows(d), NEW seq \in Seq(Ids)
  PROVE  Queue(Pids(d.table, seq))
<1>1. PICK n, f : n = Len(seq) /\ f = [i \in DOMAIN seq |-> d.table[seq[i]]]
  OBVIOUS
<1>2. n \in Nat /\ DOMAIN seq = 1 .. n
  BY <1>1
<1>3. Queue(f) /\ Len(f) = n
  BY <1>1, <1>2, QueueOfFunction
<1>4. \A i \in 1 .. n : Queue(f[i])
  BY <1>1, <1>2 DEF HasRows
<1>5. Queue(FlattenSeq(f))
  BY <1>2, <1>3, <1>4, FlattenQueue
<1>6. QED
  BY <1>1, <1>5 DEF Pids

LEMMA SwapIs ==
  ASSUME NEW dir, NEW ids, NEW gl, NEW cl
  PROVE  IsSwap(Swap(dir, ids, gl, cl)) /\ Swap(dir, ids, gl, cl).src = ids.src
BY DEF IsSwap, Swap

LEMMA OneBlockIs == ASSUME NEW o, IsSwap(o), NEW k PROVE IsSwap(OneBlock(o, k))
<1>1. PICK dir, src, dst, kv, gl, cl :
        o = [op |-> "swap", dir |-> dir, src |-> src, dst |-> dst, kv |-> kv, gl |-> gl, cl |-> cl]
  BY DEF IsSwap
<1>2. PICK x, y, z : x = <<o.src[k]>> /\ y = <<o.dst[k]>> /\ z = <<o.kv[k]>>
  OBVIOUS
<1>3. PICK a : a = [o EXCEPT !.src = x]
  OBVIOUS
<1>4. a = [op |-> "swap", dir |-> dir, src |-> x, dst |-> dst, kv |-> kv, gl |-> gl, cl |-> cl]
  BY <1>1, <1>3
<1>5. PICK b : b = [a EXCEPT !.dst = y]
  OBVIOUS
<1>6. b = [op |-> "swap", dir |-> dir, src |-> x, dst |-> y, kv |-> kv, gl |-> gl, cl |-> cl]
  BY <1>4, <1>5
<1>7. OneBlock(o, k) = [b EXCEPT !.kv = z]
  BY <1>2, <1>3, <1>5 DEF OneBlock
<1>8. [b EXCEPT !.kv = z] =
        [op |-> "swap", dir |-> dir, src |-> x, dst |-> y, kv |-> z, gl |-> gl, cl |-> cl]
  BY <1>6
<1>9. QED
  BY <1>7, <1>8 DEF IsSwap

LEMMA SwapCallsQueue ==
  ASSUME NEW o, IsSwap(o), Queue(o.src)
  PROVE  BlockQueue(SwapCalls(o))
<1> DEFINE calls(k) == IF o.dir = "in" THEN <<[f |-> "fetch", swap |-> OneBlock(o, k)]>>
                       ELSE <<[f |-> "stage", swap |-> OneBlock(o, k)],
                              [f |-> "store_staged", swap |-> OneBlock(o, k)]>>
<1>1. PICK n, f : n = Len(o.src) /\ f = [k \in DOMAIN o.src |-> calls(k)]
  OBVIOUS
<1>2. n \in Nat /\ DOMAIN o.src = 1 .. n
  BY <1>1, QueueFacts
<1>3. ASSUME NEW k PROVE BlockQueue(calls(k))
  <2>1. PICK one : one = OneBlock(o, k) /\ IsSwap(one)
    BY OneBlockIs
  <2>2. PICK a, b, c : /\ a = [f |-> "fetch", swap |-> one] /\ b = [f |-> "stage", swap |-> one]
                       /\ c = [f |-> "store_staged", swap |-> one]
    OBVIOUS
  <2>3. /\ a.f \in BlockCalls /\ b.f \in BlockCalls /\ c.f \in BlockCalls
        /\ IsSwap(a.swap) /\ IsSwap(b.swap) /\ IsSwap(c.swap)
    BY <2>1, <2>2 DEF BlockCalls
  <2>4. BlockQueue(<<a>>)
    BY <2>3, QueueOfOne DEF BlockQueue
  <2>5. BlockQueue(<<b, c>>)
    <3>1. <<b, c>> \in Seq({b, c}) /\ Len(<<b, c>>) = 2 /\ <<b, c>>[1] = b /\ <<b, c>>[2] = c
      OBVIOUS
    <3>2. \A i \in 1 .. 2 : i = 1 \/ i = 2
      OBVIOUS
    <3>3. QED
      BY <2>3, <3>1, <3>2 DEF BlockQueue, Queue
  <2>6. QED
    BY <2>1, <2>2, <2>4, <2>5
<1>4. Queue(f) /\ Len(f) = n
  BY <1>1, <1>2, QueueOfFunction
<1>5. \A k \in 1 .. n : BlockQueue(f[k])
  <2> HIDE DEF calls
  <2>1. QED
    BY <1>1, <1>2, <1>3
<1>6. PICK u : u = FlattenSeq(f)
  OBVIOUS
<1>7. Queue(u) /\ \A k \in 1 .. Len(u) : \E i \in 1 .. n : \E j \in 1 .. Len(f[i]) : u[k] = f[i][j]
  BY <1>2, <1>4, <1>5, <1>6, FlattenQueue DEF BlockQueue
<1>8. BlockQueue(u)
  BY <1>5, <1>7 DEF BlockQueue
<1>9. SwapCalls(o) = u
  BY <1>1, <1>6 DEF SwapCalls
<1>10. QED
  BY <1>8, <1>9

LEMMA OnHostQueue == ASSUME NEW swaps, WholeSwaps(swaps) PROVE BlockQueue(OnHost(swaps))
<1>1. CASE swapMode = "fp16"
  BY <1>1, NothingToSwap DEF OnHost
<1>2. CASE swapMode # "fp16"
  <2>1. PICK n, f : n = Len(swaps) /\ f = [i \in DOMAIN swaps |-> SwapCalls(swaps[i])]
    OBVIOUS
  <2>2. n \in Nat /\ DOMAIN swaps = 1 .. n
    BY <2>1, QueueFacts DEF WholeSwaps
  <2>3. Queue(f) /\ Len(f) = n
    BY <2>1, <2>2, QueueOfFunction
  <2>4. \A k \in 1 .. n : BlockQueue(f[k])
    BY <2>1, <2>2, SwapCallsQueue DEF WholeSwaps
  <2>5. PICK u : u = FlattenSeq(f)
    OBVIOUS
  <2>6. Queue(u) /\ \A k \in 1 .. Len(u) : \E i \in 1 .. n : \E j \in 1 .. Len(f[i]) : u[k] = f[i][j]
    <3>1. \A k \in 1 .. n : Queue(f[k])
      BY <2>4 DEF BlockQueue
    <3>2. n \in Nat
      BY <2>2
    <3>3. /\ Queue(FlattenSeq(f))
          /\ \A k \in 1 .. Len(FlattenSeq(f)) :
               \E i \in 1 .. n : \E j \in 1 .. Len(f[i]) : FlattenSeq(f)[k] = f[i][j]
      BY <2>3, <3>1, <3>2, FlattenQueue
    <3>4. QED
      BY <2>5, <3>3
  <2>7. BlockQueue(u)
    BY <2>4, <2>6 DEF BlockQueue
  <2>8. QED
    BY <1>2, <2>1, <2>5, <2>7 DEF OnHost
<1>3. QED
  BY <1>1, <1>2

LEMMA WholeSwapsOnStream ==
  ASSUME NEW swaps, WholeSwaps(swaps) PROVE WholeSwaps(OnStream(swaps))
BY NothingToSwap DEF OnStream

LEMMA ConventionalAreWhole ==
  ASSUME PlaneInv, NEW c, c.swapOut \in Seq(Ids), c.swapIn \in Seq(Ids)
  PROVE  WholeSwaps(ConventionalSwaps(c, Stages(c)))
<1>1. PICK seq : seq = c.swapOut \o c.swapIn
  OBVIOUS
<1>2. seq \in Seq(Ids)
  BY <1>1
<1>3. Stages(c)[1] = [gpu |-> gpu, cpu |-> cpu]
  BY DEF Stages
<1>4. Stages(c)[1].gpu = gpu /\ Stages(c)[1].cpu = cpu
  BY <1>3
<1>5. Queue(Pids(Stages(c)[1].gpu.table, seq)) /\ Queue(Pids(Stages(c)[1].cpu.table, seq))
  BY <1>2, <1>4, PidsQueue DEF PlaneInv
<1>6. PICK dir, ids :
        /\ ConventionalSwaps(c, Stages(c)) =
             IF seq = << >> THEN << >> ELSE [i \in 1 .. NumLayers |-> Swap(dir, ids, i - 1, i - 1)]
        /\ Queue(ids.src)
  <2> DEFINE s == Stages(c)
             out == c.swapOut # << >>
             ids == [src |-> Pids(IF out THEN s[1].gpu.table ELSE s[1].cpu.table, seq),
                     dst |-> Pids(IF out THEN s[2].cpu.table ELSE s[2].gpu.table, seq),
                     kv  |-> Contents(seq, BM!OmitLast(lens), born)]
  <2>1. ids.src = IF out THEN Pids(s[1].gpu.table, seq) ELSE Pids(s[1].cpu.table, seq)
    OBVIOUS
  <2>2. Queue(ids.src)
    BY <1>5, <2>1
  <2>3. ConventionalSwaps(c, s) =
          IF seq = << >> THEN << >>
          ELSE [i \in 1 .. NumLayers |-> Swap(IF out THEN "out" ELSE "in", ids, i - 1, i - 1)]
    BY <1>1 DEF ConventionalSwaps
  <2>4. QED
    BY <2>2, <2>3
<1>7. CASE seq = << >>
  BY <1>6, <1>7, NothingToSwap
<1>8. CASE seq # << >>
  <2>1. PICK f : f = [i \in 1 .. NumLayers |-> Swap(dir, ids, i - 1, i - 1)]
    OBVIOUS
  <2>2. Queue(f) /\ Len(f) = NumLayers
    BY <2>1, QueueOfFunction, LayersAssumption
  <2>3. \A i \in 1 .. NumLayers : IsSwap(f[i]) /\ Queue(f[i].src)
    BY <1>6, <2>1, SwapIs
  <2>4. QED
    BY <1>6, <1>8, <2>1, <2>2, <2>3 DEF WholeSwaps
<1>9. QED
  BY <1>7, <1>8

(* Calls for blocks leave the sub-batches where they are.                  *)
LEMMA BlockScript ==
  ASSUME NEW s, BlockQueue(s), NEW p \in Boards
  PROVE  Script(s, p, p)
<1>1. PICK n, lab : n = Len(s) /\ lab = [i \in 1 .. (n + 1) |-> p]
  OBVIOUS
<1>2. n \in Nat
  BY <1>1, QueueFacts DEF BlockQueue
<1>3. lab \in [1 .. (n + 1) -> Boards] /\ lab[1] = p /\ lab[n + 1] = p
  BY <1>1, <1>2
<1>4. ASSUME NEW i \in 1 .. n PROVE IsCall(s[i]) /\ Plays(lab[i], s[i], lab[i + 1])
  <2>1. s[i].f \in BlockCalls /\ IsSwap(s[i].swap)
    BY <1>1 DEF BlockQueue
  <2>2. lab[i] = p /\ lab[i + 1] = p
    BY <1>1, <1>2
  <2>3. s[i].f \notin {"preproj", "transfer_qkv", "cpu_attention", "postproj"}
    BY <2>1 DEF BlockCalls
  <2>4. Plays(p, s[i], p)
    BY <2>3, PlayCases
  <2>5. QED
    BY <2>1, <2>2, <2>4 DEF IsCall
<1>5. Play(s, p, p)
  BY <1>1, <1>3, <1>4 DEF Play
<1>6. QED
  BY <1>1, <1>4, <1>5 DEF Script, BlockQueue

(* swap_out is called for the sub-batches there are.                       *)
NumberedUpTo(s, n) == \A i \in 1 .. Len(s) : s[i].f = "swap_out" => s[i].b \in 1 .. n

LEMMA ForwardOfFirst ==
  ASSUME NEW l \in Layers PROVE Forward(l) \in Seq([f : LayerFs, b : {1}, l : Layers])
<1>1. PICK X : X = [f : LayerFs, b : {1}, l : Layers]
  OBVIOUS
<1>2. \A f \in LayerFs : Call(f, 1, l) \in X
  BY <1>1 DEF Call
<1>3. /\ Call("preproj", 1, l) \in X /\ Call("transfer_qkv", 1, l) \in X
      /\ Call("launch_attention", 1, l) \in X /\ Call("cpu_attention", 1, l) \in X
      /\ Call("swap_out", 1, l) \in X /\ Call("postproj", 1, l) \in X
  BY <1>2 DEF LayerFs
<1>4. \A x, y \in X : <<x, y>> \in Seq(X)
  OBVIOUS
<1>5. PICK u, v, w : /\ u = <<Call("preproj", 1, l), Call("transfer_qkv", 1, l)>>
                     /\ v = <<Call("launch_attention", 1, l), Call("cpu_attention", 1, l)>>
                     /\ w = <<Call("swap_out", 1, l), Call("postproj", 1, l)>>
  OBVIOUS
<1>6. u \in Seq(X) /\ v \in Seq(X) /\ w \in Seq(X)
  BY <1>3, <1>4, <1>5
<1>7. (u \o v) \o w \in Seq(X)
  BY <1>6
<1>8. QED
  BY <1>1, <1>5, <1>7 DEF Forward, Attention

LEMMA SequentialNumbered == NumberedUpTo(ForwardSequential, 1)
<1>1. PICK n, f, X : /\ n = NumLayers /\ f = [i \in 1 .. NumLayers |-> Forward(i - 1)]
                     /\ X = [f : LayerFs, b : {1}, l : Layers]
  OBVIOUS
<1>2. n \in Nat /\ Queue(f) /\ Len(f) = n
  BY <1>1, LayersAssumption, QueueOfFunction
<1>3. \A i \in 1 .. n : f[i] \in Seq(X)
  <2>1. TAKE i \in 1 .. n
  <2>2. i - 1 \in Layers
    BY <1>1, LayersAssumption DEF Layers
  <2>3. QED
    BY <1>1, <2>2, ForwardOfFirst
<1>4. PICK u : u = FlattenSeq(f)
  OBVIOUS
<1>5. Queue(u) /\ \A k \in 1 .. Len(u) : u[k] \in X
  <2>1. \A i \in 1 .. n : Queue(f[i])
    BY <1>3 DEF Queue
  <2>2. Queue(u) /\ \A k \in 1 .. Len(u) : \E i \in 1 .. n : \E j \in 1 .. Len(f[i]) : u[k] = f[i][j]
    <3>1. n \in Nat /\ Queue(f) /\ Len(f) = n
      BY <1>2
    <3>2. /\ Queue(FlattenSeq(f))
          /\ \A k \in 1 .. Len(FlattenSeq(f)) :
               \E i \in 1 .. n : \E j \in 1 .. Len(f[i]) : FlattenSeq(f)[k] = f[i][j]
      BY ONLY <2>1, <3>1, FlattenQueue
    <3>3. QED
      BY <1>4, <3>2
  <2>3. \A i \in 1 .. n : \A j \in 1 .. Len(f[i]) : f[i][j] \in X
    BY <1>3
  <2>4. QED
    BY <2>2, <2>3
<1>6. PICK w : w = <<Call("wait_comm", 1, 0)>>
  OBVIOUS
<1>7. Queue(w) /\ Len(w) = 1 /\ w[1] = Call("wait_comm", 1, 0)
  BY <1>6, QueueOfOne
<1>8. w[1].f # "swap_out"
  BY <1>7 DEF Call
<1>9. Joined(w, u, w \o u)
  BY <1>5, <1>7, QueueConcat
<1>10. PICK s : s = w \o u
  OBVIOUS
<1>11. ASSUME NEW i \in 1 .. Len(s), s[i].f = "swap_out" PROVE s[i].b \in 1 .. 1
  <2>1. i \in 1 .. 1 \/ \E k \in 1 .. Len(u) : i = 1 + k
    BY <1>7, <1>9, <1>10 DEF Joined
  <2>2. i \notin 1 .. 1
    BY <1>7, <1>8, <1>9, <1>10, <1>11 DEF Joined
  <2>3. PICK k \in 1 .. Len(u) : i = 1 + k
    BY <2>1, <2>2
  <2>4. s[i] = u[k]
    BY <1>7, <1>9, <1>10, <2>3 DEF Joined
  <2>5. u[k] \in X
    BY <1>5
  <2>6. u[k].b = 1
    BY <1>1, <2>5
  <2>7. QED
    BY <2>4, <2>6
<1>12. QED
  BY <1>1, <1>4, <1>6, <1>10, <1>11 DEF NumberedUpTo, ForwardSequential

LEMMA CallsNumbered ==
  ASSUME NEW c, IsCall(c), c.f = "swap_out" PROVE c.b \in 1 .. 2
BY DEF IsCall, BlockCalls

LEMMA BatchesNumbered ==
  ASSUME NEW batches, Len(batches) \in {1, 2}
  PROVE  NumberedUpTo(ForwardBatches(batches), Len(batches))
<1>1. CASE Len(batches) = 1
  BY <1>1, SequentialNumbered DEF ForwardBatches
<1>2. CASE Len(batches) = 2
  <2>1. \A i \in 1 .. Len(ForwardBatches(batches)) : IsCall(ForwardBatches(batches)[i])
    BY BatchesScript DEF Script
  <2>2. QED
    BY <1>2, <2>1, CallsNumbered DEF NumberedUpTo
<1>3. QED
  BY <1>1, <1>2

-----------------------------------------------------------------------------
(* Part IV.  The streams.  What one of them has to run grows at the end,   *)
(* loses its first operation, and has its waits come nearer.               *)
Waits == [op : {"wait"}, left : Nat]

TypedQueue(q) == Queue(q) /\ \A i \in 1 .. Len(q) : q[i].op = "wait" => q[i] \in Waits

(* r is q with more behind it, none of it with an op of bad.               *)
Extended(q, r, bad) ==
  /\ TypedQueue(r) /\ Len(q) \in Nat /\ Len(r) \in Nat /\ Len(q) <= Len(r)
  /\ \A i \in 1 .. Len(q) : i \in 1 .. Len(r) /\ r[i] = q[i]
  /\ \A i \in 1 .. Len(r) : i \in 1 .. Len(q) \/ r[i].op \notin bad

(* r is q without its first.                                               *)
Advanced(q, r) ==
  /\ TypedQueue(r) /\ Len(q) \in Nat /\ Len(r) = Len(q) - 1
  /\ \A i \in 1 .. Len(r) : i + 1 \in 1 .. Len(q) /\ r[i] = q[i + 1]
  /\ \A i \in 1 .. Len(q) : i # 1 => i - 1 \in 1 .. Len(r) /\ r[i - 1] = q[i]

(* r is q with waits that are one operation nearer.                        *)
Nearer(q, r) ==
  /\ TypedQueue(r) /\ Len(q) \in Nat /\ Len(r) = Len(q)
  /\ \A i \in 1 .. Len(q) :
       /\ r[i].op = q[i].op
       /\ q[i].op # "wait" => r[i] = q[i]
       /\ q[i].op = "wait" => q[i].left \in Nat /\ r[i].left \in Nat /\ r[i].left >= q[i].left - 1

LEMMA ExtendedBy ==
  ASSUME NEW q, NEW t, TypedQueue(q), TypedQueue(t), NEW bad,
         \A i \in 1 .. Len(t) : t[i].op \notin bad
  PROVE  Extended(q, q \o t, bad)
<1>1. PICK r : r = q \o t
  OBVIOUS
<1>2. Joined(q, t, r)
  BY <1>1, QueueConcat DEF TypedQueue
<1>3. /\ Queue(r) /\ Len(q) \in Nat /\ Len(t) \in Nat /\ Len(r) = Len(q) + Len(t)
      /\ \A i \in 1 .. Len(q) : r[i] = q[i]
      /\ \A i \in 1 .. Len(t) : r[Len(q) + i] = t[i]
      /\ \A i \in 1 .. Len(r) : i \in 1 .. Len(q) \/ \E k \in 1 .. Len(t) : i = Len(q) + k
  BY <1>2 DEF Joined
<1>4. ASSUME NEW i \in 1 .. Len(r)
      PROVE  /\ r[i].op = "wait" => r[i] \in Waits
             /\ i \in 1 .. Len(q) \/ r[i].op \notin bad
  <2>1. CASE i \in 1 .. Len(q)
    BY <1>3, <2>1 DEF TypedQueue
  <2>2. CASE \E k \in 1 .. Len(t) : i = Len(q) + k
    <3>1. PICK k \in 1 .. Len(t) : i = Len(q) + k
      BY <2>2
    <3>2. r[i] = t[k]
      BY <1>3, <3>1
    <3>3. QED
      BY <3>2 DEF TypedQueue
  <2>3. QED
    BY <1>3, <2>1, <2>2
<1>5. \A i \in 1 .. Len(q) : i \in 1 .. Len(r)
  BY <1>3
<1>6. Len(r) \in Nat /\ Len(q) <= Len(r)
  BY <1>3
<1>7. QED
  BY <1>1, <1>3, <1>4, <1>5, <1>6 DEF Extended, TypedQueue

LEMMA ExtendedNot ==
  ASSUME NEW q, TypedQueue(q), NEW bad PROVE Extended(q, q, bad)
<1>1. Len(q) \in Nat
  BY QueueFacts DEF TypedQueue
<1>2. QED
  BY <1>1 DEF Extended

LEMMA AdvancedTail ==
  ASSUME NEW q, TypedQueue(q), q # << >>
  PROVE  Advanced(q, Tail(q)) /\ Head(q) = q[1] /\ 1 \in 1 .. Len(q)
<1>1. PICK t : t = Tail(q)
  OBVIOUS
<1>2. /\ Len(q) \in Nat /\ Len(q) # 0 /\ Head(q) = q[1] /\ Queue(t) /\ Len(t) = Len(q) - 1
      /\ \A i \in 1 .. Len(t) : t[i] = q[i + 1]
  BY <1>1, QueueFacts DEF TypedQueue
<1>3. \A i \in 1 .. Len(t) : i + 1 \in 1 .. Len(q)
  BY <1>2
<1>4. ASSUME NEW i \in 1 .. Len(q), i # 1
      PROVE  i - 1 \in 1 .. Len(t) /\ t[i - 1] = q[i]
  <2>1. i - 1 \in 1 .. Len(t) /\ (i - 1) + 1 = i
    BY <1>2, <1>4
  <2>2. QED
    BY <1>2, <2>1
<1>5. \A i \in 1 .. Len(t) : t[i].op = "wait" => t[i] \in Waits
  BY <1>2, <1>3 DEF TypedQueue
<1>6. 1 \in 1 .. Len(q)
  BY <1>2
<1>7. QED
  BY <1>1, <1>2, <1>3, <1>4, <1>5, <1>6 DEF Advanced, TypedQueue

LEMMA NearerOneLess ==
  ASSUME NEW q, TypedQueue(q) PROVE Nearer(q, OneLess(q))
<1>1. PICK r : r = OneLess(q)
  OBVIOUS
<1>2. Len(q) \in Nat /\ DOMAIN q = 1 .. Len(q)
  BY QueueFacts DEF TypedQueue
<1>3. r = [i \in 1 .. Len(q) |-> IF q[i].op = "wait" /\ q[i].left > 0
                                 THEN [q[i] EXCEPT !.left = @ - 1] ELSE q[i]]
  BY <1>1, <1>2 DEF OneLess
<1>4. Queue(r) /\ Len(r) = Len(q)
  BY <1>2, <1>3, QueueOfFunction
<1>5. ASSUME NEW i \in 1 .. Len(q)
      PROVE  /\ r[i].op = q[i].op
             /\ q[i].op # "wait" => r[i] = q[i]
             /\ q[i].op = "wait" => /\ q[i].left \in Nat /\ r[i].left \in Nat
                                    /\ r[i].left >= q[i].left - 1 /\ r[i] \in Waits
  <2>1. CASE q[i].op # "wait"
    BY <1>3, <2>1
  <2>2. CASE q[i].op = "wait"
    <3>1. PICK w \in Waits : w = q[i]
      BY <2>2 DEF TypedQueue
    <3>2. r[i] = IF w.left > 0 THEN [w EXCEPT !.left = @ - 1] ELSE w
      BY <1>3, <2>2, <3>1
    <3>3. w.op = "wait" /\ w.left \in Nat
      BY DEF Waits
    <3>4. CASE w.left > 0
      <4>1. r[i] = [op |-> "wait", left |-> w.left - 1]
        BY <3>2, <3>4 DEF Waits
      <4>2. w.left - 1 \in Nat
        BY <3>3, <3>4
      <4>3. QED
        BY <2>2, <3>1, <3>3, <4>1, <4>2 DEF Waits
    <3>5. CASE ~(w.left > 0)
      BY <2>2, <3>1, <3>2, <3>3, <3>5
    <3>6. QED
      BY <3>4, <3>5
  <2>3. QED
    BY <2>1, <2>2
<1>6. TypedQueue(r)
  BY <1>4, <1>5 DEF TypedQueue
<1>7. QED
  BY <1>1, <1>2, <1>4, <1>5, <1>6 DEF Nearer

LEMMA NoOps == TypedQueue(<< >>) /\ Len(<< >>) = 0
<1>1. Queue(<< >>) /\ Len(<< >>) = 0
  BY QueueOfOne
<1>2. \A i : i \notin 1 .. 0
  OBVIOUS
<1>3. QED
  BY <1>1, <1>2 DEF TypedQueue

LEMMA OneOp ==
  ASSUME NEW o, o.op = "wait" => o \in Waits
  PROVE  TypedQueue(<<o>>) /\ Len(<<o>>) = 1 /\ <<o>>[1] = o
<1>1. Queue(<<o>>) /\ Len(<<o>>) = 1 /\ <<o>>[1] = o
  BY QueueOfOne
<1>2. \A i \in 1 .. 1 : i = 1
  OBVIOUS
<1>3. QED
  BY <1>1, <1>2 DEF TypedQueue

LEMMA OnIs ==
  ASSUME NEW op, NEW b, NEW l
  PROVE  On(op, b, l).op = op /\ On(op, b, l).b = b /\ On(op, b, l).l = l
BY DEF On

LEMMA WaitForIs ==
  ASSUME NEW q, TypedQueue(q)
  PROVE  /\ TypedQueue(WaitFor(q))
         /\ \A i \in 1 .. Len(WaitFor(q)) : WaitFor(q)[i].op = "wait"
         /\ Len(q) # 0 => /\ Len(WaitFor(q)) = 1
                          /\ WaitFor(q)[1].op = "wait" /\ WaitFor(q)[1].left = Len(q)
<1>1. Len(q) \in Nat /\ (Len(q) = 0 <=> q = << >>)
  BY QueueFacts DEF TypedQueue
<1>2. CASE q = << >>
  <2>1. WaitFor(q) = << >>
    BY <1>2 DEF WaitFor
  <2>2. \A i : i \notin 1 .. 0
    OBVIOUS
  <2>3. QED
    BY <1>1, <1>2, <2>1, <2>2, NoOps
<1>3. CASE q # << >>
  <2>1. PICK w : w = [op |-> "wait", left |-> Len(q)]
    OBVIOUS
  <2>2. w \in Waits /\ w.op = "wait" /\ w.left = Len(q)
    BY <1>1, <2>1 DEF Waits
  <2>3. WaitFor(q) = <<w>>
    BY <1>3, <2>1 DEF WaitFor
  <2>4. TypedQueue(<<w>>) /\ Len(<<w>>) = 1 /\ <<w>>[1] = w
    BY <2>2, OneOp
  <2>5. \A i \in 1 .. 1 : i = 1
    OBVIOUS
  <2>6. QED
    BY <2>2, <2>3, <2>4, <2>5
<1>4. QED
  BY <1>2, <1>3

(* One more operation.                                                     *)
LEMMA ExtendedByOne ==
  ASSUME NEW q, TypedQueue(q), NEW o, o.op = "wait" => o \in Waits, NEW bad
  PROVE  /\ o.op \notin bad => Extended(q, q \o <<o>>, bad)
         /\ Extended(q, q \o <<o>>, {})
         /\ Append(q, o) = q \o <<o>>
         /\ Len(q) \in Nat /\ Len(q \o <<o>>) = Len(q) + 1 /\ (q \o <<o>>)[Len(q) + 1] = o
<1>1. PICK t : t = <<o>>
  OBVIOUS
<1>2. TypedQueue(t) /\ Len(t) = 1 /\ t[1] = o
  BY <1>1, OneOp
<1>3. \A i \in 1 .. 1 : i = 1
  OBVIOUS
<1>4. o.op \notin bad => Extended(q, q \o t, bad)
  <2>1. ASSUME o.op \notin bad PROVE \A i \in 1 .. Len(t) : t[i].op \notin bad
    BY <1>2, <1>3, <2>1
  <2>2. QED
    BY <1>2, <2>1, ExtendedBy
<1>5. Extended(q, q \o t, {})
  <2>1. \A i \in 1 .. Len(t) : t[i].op \notin {}
    OBVIOUS
  <2>2. QED
    BY <1>2, <2>1, ExtendedBy
<1>6. Append(q, o) = q \o t
  BY <1>1, QueueAppend DEF TypedQueue
<1>7. Joined(q, t, q \o t)
  BY <1>2, QueueConcat DEF TypedQueue
<1>8. 1 \in 1 .. 1
  OBVIOUS
<1>9. Len(q) \in Nat /\ Len(q \o t) = Len(q) + 1 /\ (q \o t)[Len(q) + 1] = o
  BY <1>2, <1>7, <1>8 DEF Joined
<1>10. QED
  BY <1>1, <1>4, <1>5, <1>6, <1>9

LEMMA ExtendedTwice ==
  ASSUME NEW q, NEW r, NEW s, NEW bad, Extended(q, r, bad), Extended(r, s, bad)
  PROVE  Extended(q, s, bad)
<1>1. /\ TypedQueue(s) /\ Len(q) \in Nat /\ Len(r) \in Nat /\ Len(s) \in Nat
      /\ Len(q) <= Len(r) /\ Len(r) <= Len(s)
  BY DEF Extended
<1>2. \A i \in 1 .. Len(q) : i \in 1 .. Len(r) /\ i \in 1 .. Len(s) /\ r[i] = q[i] /\ s[i] = r[i]
  BY DEF Extended
<1>3. ASSUME NEW i \in 1 .. Len(s), i \notin 1 .. Len(q) PROVE s[i].op \notin bad
  <2>1. CASE i \in 1 .. Len(r)
    BY <1>3, <2>1 DEF Extended
  <2>2. CASE i \notin 1 .. Len(r)
    BY <2>2 DEF Extended
  <2>3. QED
    BY <2>1, <2>2
<1>4. Len(q) <= Len(s)
  BY <1>1
<1>5. \A i \in 1 .. Len(q) : i \in 1 .. Len(s) /\ s[i] = q[i]
  BY <1>2
<1>6. \A i \in 1 .. Len(s) : i \in 1 .. Len(q) \/ s[i].op \notin bad
  BY <1>3
<1>7. QED
  BY <1>1, <1>4, <1>5, <1>6 DEF Extended

LEMMA ExtendedAnyway ==
  ASSUME NEW q, NEW r, NEW bad, Extended(q, r, bad)
  PROVE  Extended(q, r, {})
BY DEF Extended

-----------------------------------------------------------------------------
(* Part V.  What is under way for a sub-batch with decodes on the CPU.     *)
Of(q, i, op, b) == q[i].op = op /\ q[i].b = b

(* Once the first i - 1 operations of the compute stream have run, the     *)
(* outputs of layer l are there.                                           *)
Arrives(b, l, i) ==
  \/ attnOut[b] = <<b, l>> /\ \A c \in 1 .. Len(comm) : ~Of(comm, c, "copy_o", b)
  \/ /\ oCpu = <<b, l>>
     /\ \E c \in 1 .. Len(comm), j \in 1 .. Len(compute) :
          /\ Of(comm, c, "copy_o", b) /\ j < i
          /\ compute[j].op = "wait" /\ compute[j].left >= c

(* The i-th operation of the compute stream has run before the copy of the *)
(* next q, k, v of b starts.                                               *)
Settled(b, i) ==
  \E c, j \in 1 .. Len(comm) :
    /\ Of(comm, c, "copy_qkv", b) /\ j < c
    /\ comm[j].op = "wait" /\ comm[j].left >= i

(* The only q, k, v of b to come are those of the phase it is in.          *)
QkvOf(b, p) ==
  /\ \A i \in 1 .. Len(compute) : Of(compute, i, "qkv", b) =>
       p.at \in {"projected", "moving"} /\ compute[i].l = p.l
  /\ p.at \in {"projected", "moving"} /\ (\A i \in 1 .. Len(compute) : ~Of(compute, i, "qkv", b)) =>
       qkv[b] = <<b, p.l>>

(* While they move, the buffer and the event are theirs.                   *)
MovingOf(b, l) ==
  /\ \A i \in 1 .. Len(compute) :
       Of(compute, i, "qkv", b) \/ Of(compute, i, "postproj", b) => Settled(b, i)
  /\ \A c \in 1 .. Len(comm) : comm[c].op \in {"copy_qkv", "copy_o"} =>
       \E e \in 1 .. Len(comm) : e > c /\ comm[e].op = "qkvtr_e"
  /\ \A c \in 1 .. Len(comm) : comm[c].op = "copy_qkv" => comm[c].b = b
  /\ (\A c \in 1 .. Len(comm) : comm[c].op # "copy_qkv") => qkvCpu = <<b, l>>

LEMMA ArrivesGrows ==
  ASSUME NEW b, NEW l, NEW i \in Nat, NEW k \in Nat, i <= k, Arrives(b, l, i),
         Extended(compute, compute', {}), Extended(comm, comm', {"copy_o"}),
         UNCHANGED <<oCpu, attnOut>>
  PROVE  Arrives(b, l, k)'
<1>1. CASE attnOut[b] = <<b, l>> /\ \A c \in 1 .. Len(comm) : ~Of(comm, c, "copy_o", b)
  <2>1. ASSUME NEW c \in 1 .. Len(comm') PROVE ~Of(comm', c, "copy_o", b)
    BY <1>1, <2>1 DEF Extended, Of
  <2>2. QED
    BY <1>1, <2>1 DEF Arrives
<1>2. CASE /\ oCpu = <<b, l>>
           /\ \E c \in 1 .. Len(comm), j \in 1 .. Len(compute) :
                /\ Of(comm, c, "copy_o", b) /\ j < i
                /\ compute[j].op = "wait" /\ compute[j].left >= c
  <2>1. PICK c \in 1 .. Len(comm), j \in 1 .. Len(compute) :
          /\ Of(comm, c, "copy_o", b) /\ j < i
          /\ compute[j].op = "wait" /\ compute[j].left >= c
    BY <1>2
  <2>2. /\ c \in 1 .. Len(comm') /\ comm'[c] = comm[c]
        /\ j \in 1 .. Len(compute') /\ compute'[j] = compute[j]
    BY DEF Extended
  <2>3. j < k
    BY <2>1
  <2>4. Of(comm', c, "copy_o", b) /\ compute'[j].op = "wait" /\ compute'[j].left >= c
    BY <2>1, <2>2 DEF Of
  <2>5. QED
    BY <1>2, <2>2, <2>3, <2>4 DEF Arrives
<1>3. QED
  BY <1>1, <1>2 DEF Arrives

LEMMA ArrivesCompute ==
  ASSUME NEW b, NEW l, NEW i \in Nat, Arrives(b, l, i),
         Advanced(compute, compute'), Nearer(comm, comm'),
         compute[1].op = "wait" => compute[1].left = 0,
         UNCHANGED <<oCpu, attnOut>>
  PROVE  Arrives(b, l, i - 1)'
<1>1. CASE attnOut[b] = <<b, l>> /\ \A c \in 1 .. Len(comm) : ~Of(comm, c, "copy_o", b)
  <2>1. ASSUME NEW c \in 1 .. Len(comm') PROVE ~Of(comm', c, "copy_o", b)
    <3>1. c \in 1 .. Len(comm) /\ comm'[c].op = comm[c].op
          /\ (comm[c].op # "wait" => comm'[c] = comm[c])
      BY DEF Nearer
    <3>2. QED
      BY <1>1, <3>1 DEF Of
  <2>2. QED
    BY <1>1, <2>1 DEF Arrives
<1>2. CASE /\ oCpu = <<b, l>>
           /\ \E c \in 1 .. Len(comm), j \in 1 .. Len(compute) :
                /\ Of(comm, c, "copy_o", b) /\ j < i
                /\ compute[j].op = "wait" /\ compute[j].left >= c
  <2>1. PICK c \in 1 .. Len(comm), j \in 1 .. Len(compute) :
          /\ Of(comm, c, "copy_o", b) /\ j < i
          /\ compute[j].op = "wait" /\ compute[j].left >= c
    BY <1>2
  <2>2. j # 1
    BY <2>1
  <2>3. j - 1 \in 1 .. Len(compute') /\ compute'[j - 1] = compute[j]
    BY <2>2 DEF Advanced
  <2>4. c \in 1 .. Len(comm') /\ comm'[c] = comm[c]
    BY <2>1 DEF Nearer, Of
  <2>5. j - 1 < i - 1
    BY <2>1
  <2>6. Of(comm', c, "copy_o", b) /\ compute'[j - 1].op = "wait" /\ compute'[j - 1].left >= c
    BY <2>1, <2>3, <2>4 DEF Of
  <2>7. QED
    BY <1>2, <2>3, <2>4, <2>5, <2>6 DEF Arrives
<1>3. QED
  BY <1>1, <1>2 DEF Arrives

LEMMA ArrivesComm ==
  ASSUME NEW b \in 1 .. 2, NEW l, NEW i \in Nat, Arrives(b, l, i), 1 \in 1 .. Len(comm),
         Advanced(comm, comm'), Nearer(compute, compute'),
         \A c, e \in 1 .. Len(comm) : comm[c].op = "copy_o" /\ comm[e].op = "copy_o" => c = e,
         attnOut = [k \in 1 .. 2 |-> attnOut[k]],
         attnOut' = IF comm[1].op = "copy_o" THEN [attnOut EXCEPT ![comm[1].b] = oCpu] ELSE attnOut,
         oCpu' = oCpu
  PROVE  Arrives(b, l, i)'
<1>1. CASE attnOut[b] = <<b, l>> /\ \A c \in 1 .. Len(comm) : ~Of(comm, c, "copy_o", b)
  <2>1. ASSUME NEW c \in 1 .. Len(comm') PROVE ~Of(comm', c, "copy_o", b)
    BY <1>1 DEF Advanced, Of
  <2>2. attnOut'[b] = attnOut[b]
    <3>1. ~Of(comm, 1, "copy_o", b)
      BY <1>1
    <3>2. QED
      BY <3>1 DEF Of
  <2>3. QED
    BY <1>1, <2>1, <2>2 DEF Arrives
<1>2. CASE /\ oCpu = <<b, l>>
           /\ \E c \in 1 .. Len(comm), j \in 1 .. Len(compute) :
                /\ Of(comm, c, "copy_o", b) /\ j < i
                /\ compute[j].op = "wait" /\ compute[j].left >= c
  <2>1. PICK c \in 1 .. Len(comm), j \in 1 .. Len(compute) :
          /\ Of(comm, c, "copy_o", b) /\ j < i
          /\ compute[j].op = "wait" /\ compute[j].left >= c
    BY <1>2
  <2>2. CASE c = 1
    <3>1. attnOut'[b] = <<b, l>>
      BY <1>2, <2>1, <2>2 DEF Of
    <3>2. ASSUME NEW e \in 1 .. Len(comm') PROVE ~Of(comm', e, "copy_o", b)
      <4>1. e + 1 \in 1 .. Len(comm) /\ comm'[e] = comm[e + 1] /\ e + 1 # 1
        BY DEF Advanced
      <4>2. QED
        BY <2>1, <2>2, <4>1 DEF Of
    <3>3. QED
      BY <3>1, <3>2 DEF Arrives
  <2>3. CASE c # 1
    <3>1. c - 1 \in 1 .. Len(comm') /\ comm'[c - 1] = comm[c]
      BY <2>3 DEF Advanced
    <3>2. /\ j \in 1 .. Len(compute') /\ compute'[j].op = "wait"
          /\ compute[j].left \in Nat /\ compute'[j].left \in Nat
          /\ compute'[j].left >= compute[j].left - 1
      BY <2>1 DEF Nearer
    <3>3. compute'[j].left >= c - 1
      BY <2>1, <3>2
    <3>4. Of(comm', c - 1, "copy_o", b)
      BY <2>1, <3>1 DEF Of
    <3>5. QED
      BY <1>2, <2>1, <3>1, <3>2, <3>3, <3>4 DEF Arrives
  <2>4. QED
    BY <2>2, <2>3
<1>3. QED
  BY <1>1, <1>2 DEF Arrives

LEMMA SettledGrows ==
  ASSUME NEW b, NEW i, Settled(b, i), Extended(comm, comm', {})
  PROVE  Settled(b, i)'
<1>1. PICK c \in 1 .. Len(comm), j \in 1 .. Len(comm) :
        /\ Of(comm, c, "copy_qkv", b) /\ j < c
        /\ comm[j].op = "wait" /\ comm[j].left >= i
  BY DEF Settled
<1>2. /\ c \in 1 .. Len(comm') /\ comm'[c] = comm[c]
      /\ j \in 1 .. Len(comm') /\ comm'[j] = comm[j]
  BY DEF Extended
<1>3. QED
  BY <1>1, <1>2 DEF Settled, Of

LEMMA SettledCompute ==
  ASSUME NEW b, NEW i \in Nat, Settled(b, i), Nearer(comm, comm')
  PROVE  Settled(b, i - 1)'
<1>1. PICK c \in 1 .. Len(comm), j \in 1 .. Len(comm) :
        /\ Of(comm, c, "copy_qkv", b) /\ j < c
        /\ comm[j].op = "wait" /\ comm[j].left >= i
  BY DEF Settled
<1>2. c \in 1 .. Len(comm') /\ comm'[c] = comm[c]
  BY <1>1 DEF Nearer, Of
<1>3. /\ j \in 1 .. Len(comm') /\ comm'[j].op = "wait" /\ comm[j].left \in Nat
      /\ comm'[j].left \in Nat /\ comm'[j].left >= comm[j].left - 1
  BY <1>1 DEF Nearer
<1>4. comm'[j].left >= i - 1
  BY <1>1, <1>3
<1>5. Of(comm', c, "copy_qkv", b)
  BY <1>1, <1>2 DEF Of
<1>6. QED
  BY <1>1, <1>2, <1>3, <1>4, <1>5 DEF Settled

LEMMA SettledComm ==
  ASSUME NEW b, NEW i \in Nat, i # 0, Settled(b, i), Advanced(comm, comm'),
         comm[1].op = "wait" => comm[1].left = 0
  PROVE  Settled(b, i)'
<1>1. PICK c \in 1 .. Len(comm), j \in 1 .. Len(comm) :
        /\ Of(comm, c, "copy_qkv", b) /\ j < c
        /\ comm[j].op = "wait" /\ comm[j].left >= i
  BY DEF Settled
<1>2. j # 1
  BY <1>1
<1>3. c # 1
  BY <1>1
<1>4. /\ c - 1 \in 1 .. Len(comm') /\ comm'[c - 1] = comm[c]
      /\ j - 1 \in 1 .. Len(comm') /\ comm'[j - 1] = comm[j]
  BY <1>2, <1>3 DEF Advanced
<1>5. j - 1 < c - 1
  BY <1>1
<1>6. Of(comm', c - 1, "copy_qkv", b) /\ comm'[j - 1].op = "wait" /\ comm'[j - 1].left >= i
  BY <1>1, <1>4 DEF Of
<1>7. QED
  BY <1>4, <1>5, <1>6 DEF Settled

(* No q, k, v of b are added to the compute stream.                        *)
LEMMA QkvGrows ==
  ASSUME NEW b, NEW p, QkvOf(b, p), Extended(compute, compute', {}), qkv' = qkv,
         \A i \in 1 .. Len(compute') : i \in 1 .. Len(compute) \/ ~Of(compute', i, "qkv", b)
  PROVE  QkvOf(b, p)'
<1>1. \A i \in 1 .. Len(compute) : i \in 1 .. Len(compute') /\ compute'[i] = compute[i]
  BY DEF Extended
<1>2. ASSUME NEW i \in 1 .. Len(compute'), Of(compute', i, "qkv", b)
      PROVE  p.at \in {"projected", "moving"} /\ compute'[i].l = p.l
  <2>1. i \in 1 .. Len(compute)
    BY <1>2
  <2>2. Of(compute, i, "qkv", b) /\ compute'[i] = compute[i]
    BY <1>1, <1>2, <2>1 DEF Of
  <2>3. QED
    BY <2>1, <2>2 DEF QkvOf
<1>3. ASSUME p.at \in {"projected", "moving"},
             \A i \in 1 .. Len(compute') : ~Of(compute', i, "qkv", b)
      PROVE  qkv'[b] = <<b, p.l>>
  <2>1. \A i \in 1 .. Len(compute) : ~Of(compute, i, "qkv", b)
    BY <1>1, <1>3 DEF Of
  <2>2. QED
    BY <1>3, <2>1 DEF QkvOf
<1>4. QED
  BY <1>2, <1>3 DEF QkvOf

LEMMA QkvCompute ==
  ASSUME NEW b \in 1 .. 2, NEW p, QkvOf(b, p), 1 \in 1 .. Len(compute),
         Advanced(compute, compute'), qkv = [k \in 1 .. 2 |-> qkv[k]],
         qkv' = IF compute[1].op = "qkv"
                THEN [qkv EXCEPT ![compute[1].b] = <<compute[1].b, compute[1].l>>] ELSE qkv
  PROVE  QkvOf(b, p)'
<1>1. \A i \in 1 .. Len(compute') : i + 1 \in 1 .. Len(compute) /\ compute'[i] = compute[i + 1]
  BY DEF Advanced
<1>2. ASSUME NEW i \in 1 .. Len(compute'), Of(compute', i, "qkv", b)
      PROVE  p.at \in {"projected", "moving"} /\ compute'[i].l = p.l
  <2>1. Of(compute, i + 1, "qkv", b)
    BY <1>1, <1>2 DEF Of
  <2>2. QED
    BY <1>1, <2>1 DEF QkvOf
<1>3. ASSUME p.at \in {"projected", "moving"},
             \A i \in 1 .. Len(compute') : ~Of(compute', i, "qkv", b)
      PROVE  qkv'[b] = <<b, p.l>>
  <2>1. CASE Of(compute, 1, "qkv", b)
    <3>1. compute[1].l = p.l
      BY <2>1 DEF QkvOf
    <3>2. QED
      BY <2>1, <3>1 DEF Of
  <2>2. CASE ~Of(compute, 1, "qkv", b)
    <3>1. qkv'[b] = qkv[b]
      BY <2>2 DEF Of
    <3>2. ASSUME NEW i \in 1 .. Len(compute) PROVE ~Of(compute, i, "qkv", b)
      <4>1. CASE i = 1
        BY <2>2, <4>1
      <4>2. CASE i # 1
        <5>1. i - 1 \in 1 .. Len(compute') /\ compute'[i - 1] = compute[i]
          BY <4>2 DEF Advanced
        <5>2. QED
          BY <1>3, <5>1 DEF Of
      <4>3. QED
        BY <4>1, <4>2
    <3>3. QED
      BY <1>3, <3>1, <3>2 DEF QkvOf
  <2>3. QED
    BY <2>1, <2>2
<1>4. QED
  BY <1>2, <1>3 DEF QkvOf

LEMMA QkvComm ==
  ASSUME NEW b, NEW p, QkvOf(b, p), Nearer(compute, compute'), qkv' = qkv
  PROVE  QkvOf(b, p)'
<1>1. Len(compute') = Len(compute)
  BY DEF Nearer
<1>2. \A i \in 1 .. Len(compute) :
        /\ Of(compute', i, "qkv", b) <=> Of(compute, i, "qkv", b)
        /\ Of(compute, i, "qkv", b) => compute'[i] = compute[i]
  BY DEF Nearer, Of
<1>3. QED
  BY <1>1, <1>2 DEF QkvOf

CopyOps == {"copy_qkv", "qkvtr_e", "copy_o"}

LEMMA MovingGrows ==
  ASSUME NEW b, NEW l, MovingOf(b, l), Extended(compute, compute', {}),
         Extended(comm, comm', CopyOps), qkvCpu' = qkvCpu,
         \A i \in 1 .. Len(compute') :
           \/ i \in 1 .. Len(compute)
           \/ ~Of(compute', i, "qkv", b) /\ ~Of(compute', i, "postproj", b)
  PROVE  MovingOf(b, l)'
<1>1. \A i \in 1 .. Len(compute) : i \in 1 .. Len(compute') /\ compute'[i] = compute[i]
  BY DEF Extended
<1>2. \A c \in 1 .. Len(comm) : c \in 1 .. Len(comm') /\ comm'[c] = comm[c]
  BY DEF Extended
<1>3. \A c \in 1 .. Len(comm') : c \in 1 .. Len(comm) \/ comm'[c].op \notin CopyOps
  BY DEF Extended
<1>4. ASSUME NEW i \in 1 .. Len(compute'),
             Of(compute', i, "qkv", b) \/ Of(compute', i, "postproj", b)
      PROVE  Settled(b, i)'
  <2>1. i \in 1 .. Len(compute) /\ compute'[i] = compute[i]
    BY <1>1, <1>4
  <2>2. Settled(b, i)
    BY <1>4, <2>1 DEF MovingOf, Of
  <2>3. Extended(comm, comm', {})
    BY ExtendedAnyway
  <2>4. QED
    BY <2>2, <2>3, SettledGrows
<1>5. ASSUME NEW c \in 1 .. Len(comm'), comm'[c].op \in {"copy_qkv", "copy_o"}
      PROVE  \E e \in 1 .. Len(comm') : e > c /\ comm'[e].op = "qkvtr_e"
  <2>1. c \in 1 .. Len(comm) /\ comm'[c] = comm[c]
    BY <1>2, <1>3, <1>5 DEF CopyOps
  <2>2. PICK e \in 1 .. Len(comm) : e > c /\ comm[e].op = "qkvtr_e"
    BY <1>5, <2>1 DEF MovingOf
  <2>3. QED
    BY <1>2, <2>2
<1>6. ASSUME NEW c \in 1 .. Len(comm'), comm'[c].op = "copy_qkv" PROVE comm'[c].b = b
  BY <1>2, <1>3, <1>6 DEF CopyOps, MovingOf
<1>7. ASSUME \A c \in 1 .. Len(comm') : comm'[c].op # "copy_qkv" PROVE qkvCpu' = <<b, l>>
  BY <1>2, <1>7 DEF MovingOf
<1>8. QED
  BY <1>4, <1>5, <1>6, <1>7 DEF MovingOf

LEMMA MovingCompute ==
  ASSUME NEW b, NEW l, MovingOf(b, l), Advanced(compute, compute'), Nearer(comm, comm'),
         qkvCpu' = qkvCpu
  PROVE  MovingOf(b, l)'
<1>1. /\ Len(comm') = Len(comm)
      /\ \A c \in 1 .. Len(comm) : /\ comm'[c].op = comm[c].op
                                   /\ comm[c].op # "wait" => comm'[c] = comm[c]
  BY DEF Nearer
<1>2. ASSUME NEW i \in 1 .. Len(compute'),
             Of(compute', i, "qkv", b) \/ Of(compute', i, "postproj", b)
      PROVE  Settled(b, i)'
  <2>1. i + 1 \in 1 .. Len(compute) /\ compute'[i] = compute[i + 1]
    BY DEF Advanced
  <2>2. Settled(b, i + 1)
    BY <1>2, <2>1 DEF MovingOf, Of
  <2>3. i + 1 \in Nat /\ (i + 1) - 1 = i
    OBVIOUS
  <2>4. Settled(b, (i + 1) - 1)'
    BY <2>2, <2>3, SettledCompute
  <2>5. QED
    BY <2>3, <2>4
<1>3. ASSUME NEW c \in 1 .. Len(comm'), comm'[c].op \in {"copy_qkv", "copy_o"}
      PROVE  \E e \in 1 .. Len(comm') : e > c /\ comm'[e].op = "qkvtr_e"
  <2>1. PICK e \in 1 .. Len(comm) : e > c /\ comm[e].op = "qkvtr_e"
    BY <1>1, <1>3 DEF MovingOf
  <2>2. QED
    BY <1>1, <2>1
<1>4. ASSUME NEW c \in 1 .. Len(comm'), comm'[c].op = "copy_qkv" PROVE comm'[c].b = b
  BY <1>1, <1>4 DEF MovingOf
<1>5. ASSUME \A c \in 1 .. Len(comm') : comm'[c].op # "copy_qkv" PROVE qkvCpu' = <<b, l>>
  BY <1>1, <1>5 DEF MovingOf
<1>6. QED
  BY <1>2, <1>3, <1>4, <1>5 DEF MovingOf

LEMMA MovingComm ==
  ASSUME NEW b, NEW p, MovingOf(b, p.l), QkvOf(b, p), p.at = "moving", 1 \in 1 .. Len(comm),
         Advanced(comm, comm'), Nearer(compute, compute'),
         comm[1].op = "wait" => comm[1].left = 0,
         qkvCpu' = IF comm[1].op = "copy_qkv" THEN qkv[comm[1].b] ELSE qkvCpu
  PROVE  MovingOf(b, p.l)'
<1>1. /\ Len(compute') = Len(compute)
      /\ \A i \in 1 .. Len(compute) : /\ compute'[i].op = compute[i].op
                                      /\ compute[i].op # "wait" => compute'[i] = compute[i]
  BY DEF Nearer
<1>2. /\ \A c \in 1 .. Len(comm') : c + 1 \in 1 .. Len(comm) /\ comm'[c] = comm[c + 1]
      /\ \A c \in 1 .. Len(comm) : c # 1 => c - 1 \in 1 .. Len(comm') /\ comm'[c - 1] = comm[c]
  BY DEF Advanced
<1>3. ASSUME NEW i \in 1 .. Len(compute'),
             Of(compute', i, "qkv", b) \/ Of(compute', i, "postproj", b)
      PROVE  Settled(b, i)'
  <2>1. Settled(b, i)
    BY <1>1, <1>3 DEF MovingOf, Of
  <2>2. i \in Nat /\ i # 0
    OBVIOUS
  <2>3. QED
    BY <2>1, <2>2, SettledComm
<1>4. ASSUME NEW c \in 1 .. Len(comm'), comm'[c].op \in {"copy_qkv", "copy_o"}
      PROVE  \E e \in 1 .. Len(comm') : e > c /\ comm'[e].op = "qkvtr_e"
  <2>1. PICK e \in 1 .. Len(comm) : e > c + 1 /\ comm[e].op = "qkvtr_e"
    BY <1>2, <1>4 DEF MovingOf
  <2>2. e # 1
    BY <2>1
  <2>3. e - 1 \in 1 .. Len(comm') /\ comm'[e - 1].op = "qkvtr_e"
    BY <1>2, <2>1, <2>2
  <2>4. e - 1 > c
    BY <2>1
  <2>5. QED
    BY <2>3, <2>4
<1>5. ASSUME NEW c \in 1 .. Len(comm'), comm'[c].op = "copy_qkv" PROVE comm'[c].b = b
  <2>1. c + 1 \in 1 .. Len(comm) /\ comm'[c] = comm[c + 1]
    BY <1>2
  <2>2. QED
    BY <1>5, <2>1 DEF MovingOf
<1>6. ASSUME \A c \in 1 .. Len(comm') : comm'[c].op # "copy_qkv" PROVE qkvCpu' = <<b, p.l>>
  <2>1. \A c \in 1 .. Len(comm) : c # 1 => comm[c].op # "copy_qkv"
    BY <1>2, <1>6
  <2>2. CASE comm[1].op = "copy_qkv"
    <3>1. comm[1].b = b
      BY <2>2 DEF MovingOf
    <3>2. ASSUME NEW i \in 1 .. Len(compute) PROVE ~Of(compute, i, "qkv", b)
      <4>1. SUFFICES ASSUME Of(compute, i, "qkv", b) PROVE FALSE
        OBVIOUS
      <4>2. Settled(b, i)
        BY <4>1 DEF MovingOf
      <4>3. PICK c \in 1 .. Len(comm), j \in 1 .. Len(comm) : comm[c].op = "copy_qkv" /\ j < c
        BY <4>2 DEF Settled, Of
      <4>4. c # 1
        BY <4>3
      <4>5. QED
        BY <2>1, <4>3, <4>4
    <3>3. qkv[b] = <<b, p.l>>
      BY <3>2 DEF QkvOf
    <3>4. QED
      BY <2>2, <3>1, <3>3
  <2>3. CASE comm[1].op # "copy_qkv"
    <3>1. \A c \in 1 .. Len(comm) : comm[c].op # "copy_qkv"
      BY <2>1, <2>3
    <3>2. QED
      BY <2>3, <3>1 DEF MovingOf
  <2>4. QED
    BY <2>2, <2>3
<1>7. QED
  BY <1>3, <1>4, <1>5, <1>6 DEF MovingOf

-----------------------------------------------------------------------------
(* Part VI.  The streams keep what is under way for each sub-batch of D,   *)
(* those with decodes on the CPU.                                          *)
PhaseInv(b, p) ==
  /\ QkvOf(b, p)
  /\ p.at = "moving" => MovingOf(b, p.l)
  /\ p.at = "attended" => \A i \in Nat : i = Len(compute) + 1 => Arrives(b, p.l, i)

OutputsUnderWay(D) ==
  \A i \in 1 .. Len(compute) : \A b, l :
    compute[i].op = "postproj" /\ compute[i].b = b /\ compute[i].l = l =>
      b \in 1 .. 2 /\ (b \in D => Arrives(b, l, i))

OneCopyOfOutputs ==
  \A c, e \in 1 .. Len(comm) : comm[c].op = "copy_o" /\ comm[e].op = "copy_o" => c = e

BufferUnused == \A c \in 1 .. Len(comm) : comm[c].op \notin {"copy_qkv", "qkvtr_e"}

NoneMoving(D, ph) == \A b \in 1 .. 2 : b \in D => ph[b].at # "moving"

StreamInv(D, ph) ==
  /\ \A b \in 1 .. 2 : b \in D => PhaseInv(b, ph[b])
  /\ OutputsUnderWay(D)
  /\ OneCopyOfOutputs
  /\ NoneMoving(D, ph) => BufferUnused

LEMMA PhaseGrows ==
  ASSUME NEW b, NEW p, PhaseInv(b, p), Extended(compute, compute', {}),
         Extended(comm, comm', {"copy_o"}), p.at = "moving" => Extended(comm, comm', CopyOps),
         UNCHANGED <<qkv, qkvCpu, oCpu, attnOut>>,
         \A i \in 1 .. Len(compute') :
           \/ i \in 1 .. Len(compute)
           \/ ~Of(compute', i, "qkv", b) /\ ~Of(compute', i, "postproj", b)
  PROVE  PhaseInv(b, p)'
<1>1. QkvOf(b, p)'
  BY QkvGrows DEF PhaseInv
<1>2. ASSUME p.at = "moving" PROVE MovingOf(b, p.l)'
  <2>1. MovingOf(b, p.l) /\ Extended(comm, comm', CopyOps)
    BY <1>2 DEF PhaseInv
  <2>2. QED
    BY <2>1, MovingGrows
<1>3. ASSUME p.at = "attended", NEW k \in Nat, k = Len(compute') + 1 PROVE Arrives(b, p.l, k)'
  <2>1. PICK i : i = Len(compute) + 1
    OBVIOUS
  <2>2. i \in Nat /\ i <= k
    BY <1>3, <2>1 DEF Extended
  <2>3. Arrives(b, p.l, i)
    BY <1>3, <2>1, <2>2 DEF PhaseInv
  <2>4. QED
    BY <2>2, <2>3, ArrivesGrows
<1>4. QED
  BY <1>1, <1>2, <1>3 DEF PhaseInv

LEMMA OutputsGrow ==
  ASSUME NEW D, OutputsUnderWay(D), Extended(compute, compute', {"postproj"}),
         Extended(comm, comm', {"copy_o"}), UNCHANGED <<oCpu, attnOut>>
  PROVE  OutputsUnderWay(D)'
<1>1. ASSUME NEW i \in 1 .. Len(compute'), NEW b, NEW l,
             compute'[i].op = "postproj", compute'[i].b = b, compute'[i].l = l
      PROVE  b \in 1 .. 2 /\ (b \in D => Arrives(b, l, i)')
  <2>1. i \in 1 .. Len(compute) /\ compute'[i] = compute[i]
    BY <1>1 DEF Extended
  <2>2. b \in 1 .. 2 /\ (b \in D => Arrives(b, l, i))
    BY <1>1, <2>1 DEF OutputsUnderWay
  <2>3. i \in Nat /\ i <= i
    OBVIOUS
  <2>4. Extended(compute, compute', {})
    BY ExtendedAnyway
  <2>5. b \in D => Arrives(b, l, i)'
    BY <2>2, <2>3, <2>4, ArrivesGrows
  <2>6. QED
    BY <2>2, <2>5
<1>2. QED
  BY <1>1 DEF OutputsUnderWay

LEMMA CommGrows ==
  ASSUME Extended(comm, comm', CopyOps)
  PROVE  /\ Extended(comm, comm', {"copy_o"})
         /\ OneCopyOfOutputs => OneCopyOfOutputs'
         /\ BufferUnused => BufferUnused'
<1>1. \A c \in 1 .. Len(comm) : comm'[c] = comm[c]
  BY DEF Extended
<1>2. \A c \in 1 .. Len(comm') : c \in 1 .. Len(comm) \/ comm'[c].op \notin CopyOps
  BY DEF Extended
<1>3. Extended(comm, comm', {"copy_o"})
  BY DEF Extended, CopyOps
<1>4. OneCopyOfOutputs => OneCopyOfOutputs'
  BY <1>1, <1>2 DEF OneCopyOfOutputs, CopyOps
<1>5. BufferUnused => BufferUnused'
  BY <1>1, <1>2 DEF BufferUnused, CopyOps
<1>6. QED
  BY <1>3, <1>4, <1>5

(* Operations that neither project nor copy, and calls for sub-batches     *)
(* without decodes on the CPU.                                             *)
LEMMA StreamGrows ==
  ASSUME NEW D, NEW ph, NEW qh, StreamInv(D, ph),
         \A b \in 1 .. 2 : b \in D => qh[b] = ph[b],
         Extended(compute, compute', {"qkv", "postproj"}), Extended(comm, comm', CopyOps),
         UNCHANGED <<qkv, qkvCpu, oCpu, attnOut>>
  PROVE  StreamInv(D, qh)'
<1>1. Extended(compute, compute', {}) /\ Extended(compute, compute', {"postproj"})
  BY DEF Extended
<1>2. \A i \in 1 .. Len(compute') :
        i \in 1 .. Len(compute) \/ compute'[i].op \notin {"qkv", "postproj"}
  BY DEF Extended
<1>3. ASSUME NEW b \in 1 .. 2, b \in D PROVE PhaseInv(b, qh[b])'
  <2>1. PICK p : p = ph[b]
    OBVIOUS
  <2>2. qh[b] = p /\ PhaseInv(b, p)
    BY <1>3, <2>1 DEF StreamInv
  <2>3. \A i \in 1 .. Len(compute') :
          \/ i \in 1 .. Len(compute)
          \/ ~Of(compute', i, "qkv", b) /\ ~Of(compute', i, "postproj", b)
    BY <1>2 DEF Of
  <2>4. PhaseInv(b, p)'
    BY <1>1, <2>2, <2>3, CommGrows, PhaseGrows
  <2>5. QED
    BY <2>2, <2>4
<1>4. OutputsUnderWay(D)'
  BY <1>1, CommGrows, OutputsGrow DEF StreamInv
<1>5. NoneMoving(D, qh) => NoneMoving(D, ph)
  BY DEF NoneMoving
<1>6. QED
  BY <1>3, <1>4, <1>5, CommGrows DEF StreamInv

(* preproj, for b on layer l.                                              *)
LEMMA StreamProjects ==
  ASSUME NEW D, NEW ph \in Boards, NEW b \in 1 .. 2, NEW l \in Layers, StreamInv(D, ph),
         ph[b].at = "free",
         Extended(compute, compute', {"postproj"}), Extended(comm, comm', CopyOps),
         \A i \in 1 .. Len(compute') :
           i \in 1 .. Len(compute) \/ (compute'[i].op = "qkv" =>
                                         compute'[i].b = b /\ compute'[i].l = l),
         \E i \in 1 .. Len(compute') : Of(compute', i, "qkv", b),
         UNCHANGED <<qkv, qkvCpu, oCpu, attnOut>>
  PROVE  StreamInv(D, With(ph, b, Phase("projected", l)))'
<1>1. PICK qh, z : qh = With(ph, b, z) /\ z = Phase("projected", l)
  OBVIOUS
<1>2. z.at = "projected" /\ z.l = l
  BY <1>1, PhaseFacts
<1>3. qh[b] = z /\ \A k \in 1 .. 2 : k # b => qh[k] = ph[k]
  BY <1>1 DEF With, Boards
<1>4. Extended(compute, compute', {})
  BY ExtendedAnyway
<1>5. ASSUME b \in D PROVE PhaseInv(b, z)'
  <2>1. \A i \in 1 .. Len(compute) : ~Of(compute, i, "qkv", b)
    BY <1>5 DEF StreamInv, PhaseInv, QkvOf
  <2>2. \A i \in 1 .. Len(compute) : compute'[i] = compute[i]
    BY DEF Extended
  <2>3. \A i \in 1 .. Len(compute') : Of(compute', i, "qkv", b) => compute'[i].l = l
    BY <2>1, <2>2 DEF Of
  <2>4. QkvOf(b, z)'
    BY <1>2, <2>3 DEF QkvOf
  <2>5. QED
    BY <1>2, <2>4 DEF PhaseInv
<1>6. ASSUME NEW k \in 1 .. 2, k \in D, k # b PROVE PhaseInv(k, ph[k])'
  <2>1. PICK p : p = ph[k]
    OBVIOUS
  <2>2. PhaseInv(k, p)
    BY <1>6, <2>1 DEF StreamInv
  <2>3. ASSUME NEW i \in 1 .. Len(compute'), i \notin 1 .. Len(compute)
        PROVE  ~Of(compute', i, "qkv", k) /\ ~Of(compute', i, "postproj", k)
    BY <1>6, <2>3 DEF Of, Extended
  <2>4. PhaseInv(k, p)'
    BY <1>4, <2>2, <2>3, CommGrows, PhaseGrows
  <2>5. QED
    BY <2>1, <2>4
<1>7. OutputsUnderWay(D)'
  BY CommGrows, OutputsGrow DEF StreamInv
<1>8. NoneMoving(D, qh) => NoneMoving(D, ph)
  BY <1>3 DEF NoneMoving
<1>9. \A k \in 1 .. 2 : k \in D => PhaseInv(k, qh[k])'
  BY <1>3, <1>5, <1>6
<1>10. StreamInv(D, qh)'
  BY <1>7, <1>8, <1>9, CommGrows DEF StreamInv
<1>11. QED
  BY <1>1, <1>10

(* postproj, for b on layer l.                                             *)
LEMMA StreamOutputs ==
  ASSUME NEW D, NEW ph \in Boards, NEW b \in 1 .. 2, NEW l \in Layers, StreamInv(D, ph),
         ph[b] = Phase("attended", l), TypedQueue(compute), TypedQueue(comm),
         compute' = Append(compute, On("postproj", b, l)), comm' = comm,
         UNCHANGED <<qkv, qkvCpu, oCpu, attnOut>>
  PROVE  StreamInv(D, With(ph, b, Phase("free", 0)))'
<1>1. PICK qh, z : qh = With(ph, b, z) /\ z = Phase("free", 0)
  OBVIOUS
<1>2. z.at = "free" /\ ph[b].at = "attended" /\ ph[b].l = l
  BY <1>1, PhaseFacts, PhaseZero
<1>3. qh[b] = z /\ \A k \in 1 .. 2 : k # b => qh[k] = ph[k]
  BY <1>1 DEF With, Boards
<1>4. PICK o, n : o = On("postproj", b, l) /\ n = Len(compute)
  OBVIOUS
<1>5. o.op = "postproj" /\ o.b = b /\ o.l = l
  BY <1>4, OnIs
<1>6. /\ Extended(compute, compute', {"qkv"}) /\ Extended(compute, compute', {})
      /\ n \in Nat /\ Len(compute') = n + 1 /\ compute'[n + 1] = o
  <2>1. o.op = "wait" => o \in Waits
    BY <1>5
  <2>2. o.op \notin {"qkv"}
    BY <1>5
  <2>3. compute' = compute \o <<o>>
    BY <1>4, <2>1, ExtendedByOne
  <2>4. Extended(compute, compute \o <<o>>, {"qkv"})
    BY <2>1, <2>2, ExtendedByOne
  <2>5. /\ Extended(compute, compute \o <<o>>, {})
        /\ n \in Nat /\ Len(compute \o <<o>>) = n + 1 /\ (compute \o <<o>>)[n + 1] = o
    BY <1>4, <2>1, ExtendedByOne
  <2>6. QED
    BY <2>3, <2>4, <2>5
<1>7. \A i \in 1 .. Len(compute') : i \in 1 .. Len(compute) \/ i = n + 1
  BY <1>4, <1>6
<1>8. Extended(comm, comm', CopyOps)
  BY ExtendedNot
<1>9. \A i \in 1 .. Len(compute) : compute'[i] = compute[i]
  BY <1>6 DEF Extended
<1>10. ASSUME b \in D PROVE PhaseInv(b, z)'
  <2>1. \A i \in 1 .. Len(compute) : ~Of(compute, i, "qkv", b)
    BY <1>2, <1>10 DEF StreamInv, PhaseInv, QkvOf
  <2>2. \A i \in 1 .. Len(compute') : ~Of(compute', i, "qkv", b)
    BY <1>5, <1>6, <1>7, <1>9, <2>1 DEF Of
  <2>3. QkvOf(b, z)'
    BY <1>2, <2>2 DEF QkvOf
  <2>4. QED
    BY <1>2, <2>3 DEF PhaseInv
<1>11. ASSUME NEW k \in 1 .. 2, k \in D, k # b PROVE PhaseInv(k, ph[k])'
  <2>1. PICK p : p = ph[k]
    OBVIOUS
  <2>2. PhaseInv(k, p)
    BY <1>11, <2>1 DEF StreamInv
  <2>3. \A i \in 1 .. Len(compute') :
          \/ i \in 1 .. Len(compute)
          \/ ~Of(compute', i, "qkv", k) /\ ~Of(compute', i, "postproj", k)
    BY <1>5, <1>6, <1>7, <1>11 DEF Of
  <2>4. PhaseInv(k, p)'
    BY <1>6, <1>8, <2>2, <2>3, CommGrows, PhaseGrows
  <2>5. QED
    BY <2>1, <2>4
<1>12. ASSUME NEW i \in 1 .. Len(compute'), NEW c, NEW m,
              compute'[i].op = "postproj", compute'[i].b = c, compute'[i].l = m
       PROVE  c \in 1 .. 2 /\ (c \in D => Arrives(c, m, i)')
  <2>1. Extended(comm, comm', {"copy_o"})
    BY <1>8, CommGrows
  <2>2. CASE i \in 1 .. Len(compute)
    <3>1. c \in 1 .. 2 /\ (c \in D => Arrives(c, m, i))
      BY <1>9, <1>12, <2>2 DEF StreamInv, OutputsUnderWay
    <3>2. i \in Nat /\ i <= i
      OBVIOUS
    <3>3. c \in D => Arrives(c, m, i)'
      BY <1>6, <2>1, <3>1, <3>2, ArrivesGrows
    <3>4. QED
      BY <3>1, <3>3
  <2>3. CASE i = n + 1
    <3>1. c = b /\ m = l
      BY <1>5, <1>6, <1>12, <2>3
    <3>2. i \in Nat /\ i <= i
      OBVIOUS
    <3>3. b \in D => Arrives(b, l, i)
      BY <1>2, <1>4, <2>3, <3>2 DEF StreamInv, PhaseInv
    <3>4. b \in D => Arrives(b, l, i)'
      BY <1>6, <2>1, <3>2, <3>3, ArrivesGrows
    <3>5. QED
      BY <3>1, <3>4
  <2>4. QED
    BY <1>7, <2>2, <2>3
<1>13. OutputsUnderWay(D)'
  BY <1>12 DEF OutputsUnderWay
<1>14. NoneMoving(D, qh) => NoneMoving(D, ph)
  BY <1>2, <1>3 DEF NoneMoving
<1>15. \A k \in 1 .. 2 : k \in D => PhaseInv(k, qh[k])'
  BY <1>3, <1>10, <1>11
<1>16. StreamInv(D, qh)'
  BY <1>8, <1>13, <1>14, <1>15, CommGrows DEF StreamInv
<1>17. QED
  BY <1>1, <1>16

(* transfer_qkv, for b with decodes on the CPU: the copy stream waits for  *)
(* all that the compute stream has to run, copies and records the event.   *)
LEMMA StreamTransfers ==
  ASSUME NEW D, NEW ph \in Boards, NEW b \in 1 .. 2, NEW l \in Layers, b \in D, StreamInv(D, ph),
         ph[b].at = "projected", ph[b].l = l, \A k \in 1 .. 2 : ph[k].at # "moving",
         TypedQueue(compute), Extended(comm, comm', {"copy_o"}),
         NEW n, n \in Nat, Len(comm') = n + 2, Len(comm) <= n,
         Len(compute) # 0 =>
           n \in 1 .. Len(comm') /\ comm'[n].op = "wait" /\ comm'[n].left = Len(compute),
         Of(comm', n + 1, "copy_qkv", b), comm'[n + 2].op = "qkvtr_e",
         UNCHANGED <<compute, qkv, qkvCpu, oCpu, attnOut>>,
         \A c \in 1 .. n : c \in 1 .. Len(comm) \/ comm'[c].op = "wait"
  PROVE  StreamInv(D, With(ph, b, Phase("moving", l)))'
<1>1. PICK qh, z : qh = With(ph, b, z) /\ z = Phase("moving", l)
  OBVIOUS
<1>2. z.at = "moving" /\ z.l = l
  BY <1>1, PhaseFacts
<1>3. qh[b] = z /\ \A k \in 1 .. 2 : k # b => qh[k] = ph[k]
  BY <1>1 DEF With, Boards
<1>4. /\ \A c \in 1 .. Len(comm') : c \in 1 .. n \/ c = n + 1 \/ c = n + 2
      /\ n + 1 \in 1 .. Len(comm') /\ n + 2 \in 1 .. Len(comm') /\ n < n + 1
  <2>1. PICK k : k = n + 2
    OBVIOUS
  <2>2. /\ \A c \in 1 .. k : c \in 1 .. n \/ c = n + 1 \/ c = n + 2
        /\ n + 1 \in 1 .. k /\ n + 2 \in 1 .. k /\ n < n + 1
    BY <2>1
  <2>3. k = Len(comm')
    BY <2>1
  <2>4. QED
    BY <2>2, <2>3
<1>5. BufferUnused
  BY DEF StreamInv, NoneMoving
<1>6. \A c \in 1 .. n : comm'[c].op \notin {"copy_qkv", "qkvtr_e"}
  BY <1>5 DEF BufferUnused, Extended
<1>7. Extended(compute, compute', {"postproj"}) /\ Extended(compute, compute', {})
  BY ExtendedNot
<1>8. QkvOf(b, z)'
  BY <1>2 DEF StreamInv, PhaseInv, QkvOf, Of
<1>9. MovingOf(b, l)'
  <2>1. ASSUME NEW i \in 1 .. Len(compute') PROVE Settled(b, i)'
    <3>1. Len(compute) # 0 /\ i <= Len(compute) /\ Len(compute) \in Nat
      BY QueueFacts DEF TypedQueue
    <3>2. comm'[n].left >= i
      BY <3>1
    <3>3. QED
      BY <1>4, <3>1, <3>2 DEF Settled
  <2>2. ASSUME NEW c \in 1 .. Len(comm'), comm'[c].op \in {"copy_qkv", "copy_o"}
        PROVE  \E e \in 1 .. Len(comm') : e > c /\ comm'[e].op = "qkvtr_e"
    <3>1. c # n + 2
      BY <2>2
    <3>2. n + 2 > c
      BY <1>4, <3>1
    <3>3. QED
      BY <1>4, <3>2
  <2>3. \A c \in 1 .. Len(comm') : comm'[c].op = "copy_qkv" => comm'[c].b = b
    BY <1>4, <1>6 DEF Of
  <2>4. ~ \A c \in 1 .. Len(comm') : comm'[c].op # "copy_qkv"
    BY <1>4 DEF Of
  <2>5. QED
    BY <2>1, <2>2, <2>3, <2>4 DEF MovingOf
<1>10. PhaseInv(b, z)'
  BY <1>2, <1>8, <1>9 DEF PhaseInv
<1>11. ASSUME NEW k \in 1 .. 2, k \in D, k # b PROVE PhaseInv(k, ph[k])'
  <2>1. PICK p : p = ph[k]
    OBVIOUS
  <2>2. PhaseInv(k, p) /\ p.at # "moving"
    BY <1>11, <2>1 DEF StreamInv
  <2>3. \A i \in 1 .. Len(compute') : i \in 1 .. Len(compute)
    OBVIOUS
  <2>4. PhaseInv(k, p)'
    BY <1>7, <2>2, <2>3, PhaseGrows
  <2>5. QED
    BY <2>1, <2>4
<1>12. OutputsUnderWay(D)'
  BY <1>7, OutputsGrow DEF StreamInv
<1>13. OneCopyOfOutputs'
  <2>1. OneCopyOfOutputs
    BY DEF StreamInv
  <2>2. \A c \in 1 .. Len(comm') : comm'[c].op = "copy_o" =>
          c \in 1 .. Len(comm) /\ comm[c].op = "copy_o"
    BY DEF Extended
  <2>3. QED
    BY <2>1, <2>2 DEF OneCopyOfOutputs
<1>14. ~NoneMoving(D, qh)
  BY <1>2, <1>3 DEF NoneMoving
<1>15. \A k \in 1 .. 2 : k \in D => PhaseInv(k, qh[k])'
  BY <1>3, <1>10, <1>11
<1>16. StreamInv(D, qh)'
  BY <1>12, <1>13, <1>14, <1>15 DEF StreamInv
<1>17. QED
  BY <1>1, <1>16

(* cpu_attention, for b with decodes on the CPU, once the event has        *)
(* happened: the outputs are copied behind all copies, and the compute     *)
(* stream waits for that.                                                  *)
LEMMA StreamAttends ==
  ASSUME NEW D, NEW ph \in Boards, NEW b \in 1 .. 2, NEW l \in Layers, b \in D, StreamInv(D, ph),
         ph[b] = Phase("moving", l), \A k \in 1 .. 2 : k # b => ph[k].at # "moving",
         \A c \in 1 .. Len(comm) : comm[c].op # "qkvtr_e",
         TypedQueue(comm),
         NEW n, n = Len(comm), Extended(comm, comm', {}), Len(comm') = n + 1,
         Of(comm', n + 1, "copy_o", b),
         NEW m, m = Len(compute), Extended(compute, compute', {"qkv", "postproj"}),
         Len(compute') = m + 1,
         compute'[m + 1].op = "wait", compute'[m + 1].left = n + 1,
         UNCHANGED <<qkv, qkvCpu, attnOut>>, oCpu' = qkvCpu
  PROVE  /\ StreamInv(D, With(ph, b, Phase("attended", l)))'
         /\ qkvCpu = <<b, l>>
<1>1. PICK qh, z : qh = With(ph, b, z) /\ z = Phase("attended", l)
  OBVIOUS
<1>2. z.at = "attended" /\ z.l = l /\ ph[b].at = "moving" /\ ph[b].l = l
  BY <1>1, PhaseFacts
<1>3. qh[b] = z /\ \A k \in 1 .. 2 : k # b => qh[k] = ph[k]
  BY <1>1 DEF With, Boards
<1>4. n \in Nat /\ m \in Nat
  BY DEF Extended
<1>5. MovingOf(b, l) /\ QkvOf(b, ph[b])
  BY <1>2 DEF StreamInv, PhaseInv
<1>6. \A c \in 1 .. n : comm[c].op \notin {"copy_qkv", "copy_o", "qkvtr_e"} /\ comm'[c] = comm[c]
  BY <1>5 DEF MovingOf, Extended
<1>7. qkvCpu = <<b, l>>
  BY <1>5, <1>6 DEF MovingOf
<1>8. \A i \in 1 .. m : ~Of(compute, i, "qkv", b) /\ ~Of(compute, i, "postproj", b)
  BY <1>5, <1>6 DEF MovingOf, Settled, Of
<1>9. /\ \A i \in 1 .. Len(compute') : i \in 1 .. m \/ i = m + 1
      /\ m + 1 \in 1 .. Len(compute') /\ n + 1 \in 1 .. Len(comm')
      /\ \A c \in 1 .. Len(comm') : c \in 1 .. n \/ c = n + 1
  BY <1>4
<1>10. \A i \in 1 .. m : compute'[i] = compute[i]
  BY DEF Extended
<1>11. PhaseInv(b, z)'
  <2>1. \A i \in 1 .. Len(compute') : ~Of(compute', i, "qkv", b)
    BY <1>8, <1>9, <1>10 DEF Of
  <2>2. QkvOf(b, z)'
    BY <1>2, <2>1 DEF QkvOf
  <2>3. ASSUME NEW i \in Nat, i = Len(compute') + 1 PROVE Arrives(b, l, i)'
    <3>1. oCpu' = <<b, l>>
      BY <1>7
    <3>2. m + 1 < i /\ compute'[m + 1].left >= n + 1
      BY <1>4, <2>3
    <3>3. QED
      BY <1>9, <3>1, <3>2 DEF Arrives
  <2>4. QED
    BY <1>2, <2>2, <2>3 DEF PhaseInv
(* Outputs of the other sub-batch have arrived: nothing is being copied.   *)
<1>12. ASSUME NEW k, k # b, NEW j, NEW i \in Nat, NEW i2 \in Nat, Arrives(k, j, i)
       PROVE  Arrives(k, j, i2)'
  <2>1. attnOut[k] = <<k, j>>
    BY <1>6, <1>12 DEF Arrives, Of
  <2>2. \A c \in 1 .. Len(comm') : ~Of(comm', c, "copy_o", k)
    BY <1>6, <1>9, <1>12 DEF Of
  <2>3. QED
    BY <2>1, <2>2 DEF Arrives
<1>13. ASSUME NEW k \in 1 .. 2, k \in D, k # b PROVE PhaseInv(k, ph[k])'
  <2>1. PICK p : p = ph[k]
    OBVIOUS
  <2>2. PhaseInv(k, p) /\ p.at # "moving"
    BY <1>13, <2>1 DEF StreamInv
  <2>3. QkvOf(k, p)'
    <3>1. \A i \in 1 .. Len(compute') : i \in 1 .. Len(compute) \/ ~Of(compute', i, "qkv", k)
      BY DEF Extended, Of
    <3>2. Extended(compute, compute', {})
      BY ExtendedAnyway
    <3>3. QED
      BY <2>2, <3>1, <3>2, QkvGrows DEF PhaseInv
  <2>4. ASSUME p.at = "attended", NEW i \in Nat PROVE Arrives(k, p.l, i)'
    <3>1. m + 1 \in Nat
      BY <1>4
    <3>2. Arrives(k, p.l, m + 1)
      BY <2>2, <2>4, <3>1 DEF PhaseInv
    <3>3. QED
      BY <1>12, <1>13, <3>1, <3>2
  <2>5. PhaseInv(k, p)'
    BY <2>2, <2>3, <2>4 DEF PhaseInv
  <2>6. QED
    BY <2>1, <2>5
<1>14. ASSUME NEW i \in 1 .. Len(compute'), NEW c, NEW j,
              compute'[i].op = "postproj", compute'[i].b = c, compute'[i].l = j
       PROVE  c \in 1 .. 2 /\ (c \in D => Arrives(c, j, i)')
  <2>1. i \in 1 .. m /\ compute'[i] = compute[i]
    BY <1>9, <1>10, <1>14
  <2>2. c \in 1 .. 2 /\ (c \in D => Arrives(c, j, i))
    BY <1>14, <2>1 DEF StreamInv, OutputsUnderWay
  <2>3. c # b
    BY <1>8, <1>14, <2>1 DEF Of
  <2>4. i \in Nat
    OBVIOUS
  <2>5. QED
    BY <1>12, <2>2, <2>3, <2>4
<1>15. OutputsUnderWay(D)'
  BY <1>14 DEF OutputsUnderWay
<1>16. OneCopyOfOutputs'
  BY <1>6, <1>9 DEF OneCopyOfOutputs
<1>17. BufferUnused'
  BY <1>6, <1>9 DEF BufferUnused, Of
<1>18. \A k \in 1 .. 2 : k \in D => PhaseInv(k, qh[k])'
  BY <1>3, <1>11, <1>13
<1>19. StreamInv(D, qh)'
  BY <1>15, <1>16, <1>17, <1>18 DEF StreamInv
<1>20. QED
  BY <1>1, <1>7, <1>19

LEMMA StreamRunsCompute ==
  ASSUME NEW D, NEW ph \in Boards, StreamInv(D, ph), 1 \in 1 .. Len(compute),
         Advanced(compute, compute'), Nearer(comm, comm'),
         compute[1].op = "wait" => compute[1].left = 0,
         qkv = [k \in 1 .. 2 |-> qkv[k]],
         qkv' = IF compute[1].op = "qkv"
                THEN [qkv EXCEPT ![compute[1].b] = <<compute[1].b, compute[1].l>>] ELSE qkv,
         UNCHANGED <<qkvCpu, oCpu, attnOut>>
  PROVE  StreamInv(D, ph)'
<1>1. /\ Len(compute) \in Nat /\ Len(compute') = Len(compute) - 1
      /\ \A i \in 1 .. Len(compute') : i + 1 \in 1 .. Len(compute) /\ compute'[i] = compute[i + 1]
  BY DEF Advanced
<1>2. /\ Len(comm') = Len(comm)
      /\ \A c \in 1 .. Len(comm) : comm'[c].op = comm[c].op
  BY DEF Nearer
<1>3. ASSUME NEW b \in 1 .. 2, b \in D PROVE PhaseInv(b, ph[b])'
  <2>1. PICK p : p = ph[b]
    OBVIOUS
  <2>2. PhaseInv(b, p)
    BY <1>3, <2>1 DEF StreamInv
  <2>3. QkvOf(b, p)'
    BY <2>2, QkvCompute DEF PhaseInv
  <2>4. p.at = "moving" => MovingOf(b, p.l)'
    BY <2>2, MovingCompute DEF PhaseInv
  <2>5. ASSUME p.at = "attended", NEW i \in Nat, i = Len(compute') + 1 PROVE Arrives(b, p.l, i)'
    <3>1. PICK k : k = Len(compute) + 1
      OBVIOUS
    <3>2. k \in Nat /\ k - 1 = i
      BY <1>1, <2>5, <3>1
    <3>3. Arrives(b, p.l, k)
      BY <2>2, <2>5, <3>1, <3>2 DEF PhaseInv
    <3>4. Arrives(b, p.l, k - 1)'
      BY <3>2, <3>3, ArrivesCompute
    <3>5. QED
      BY <3>2, <3>4
  <2>6. PhaseInv(b, p)'
    BY <2>3, <2>4, <2>5 DEF PhaseInv
  <2>7. QED
    BY <2>1, <2>6
<1>4. ASSUME NEW i \in 1 .. Len(compute'), NEW b, NEW l,
             compute'[i].op = "postproj", compute'[i].b = b, compute'[i].l = l
      PROVE  b \in 1 .. 2 /\ (b \in D => Arrives(b, l, i)')
  <2>1. PICK k : k = i + 1
    OBVIOUS
  <2>2. k \in 1 .. Len(compute) /\ compute'[i] = compute[k] /\ k \in Nat /\ k - 1 = i
    BY <1>1, <2>1
  <2>3. b \in 1 .. 2 /\ (b \in D => Arrives(b, l, k))
    BY <1>4, <2>2 DEF StreamInv, OutputsUnderWay
  <2>4. b \in D => Arrives(b, l, k - 1)'
    BY <2>2, <2>3, ArrivesCompute
  <2>5. QED
    BY <2>2, <2>3, <2>4
<1>5. OutputsUnderWay(D)'
  BY <1>4 DEF OutputsUnderWay
<1>6. OneCopyOfOutputs => OneCopyOfOutputs'
  BY <1>2 DEF OneCopyOfOutputs
<1>7. BufferUnused => BufferUnused'
  BY <1>2 DEF BufferUnused
<1>8. QED
  BY <1>3, <1>5, <1>6, <1>7 DEF StreamInv

LEMMA StreamRunsComm ==
  ASSUME NEW D, NEW ph \in Boards, StreamInv(D, ph), 1 \in 1 .. Len(comm),
         Advanced(comm, comm'), Nearer(compute, compute'),
         comm[1].op = "wait" => comm[1].left = 0,
         attnOut = [k \in 1 .. 2 |-> attnOut[k]],
         attnOut' = IF comm[1].op = "copy_o" THEN [attnOut EXCEPT ![comm[1].b] = oCpu] ELSE attnOut,
         qkvCpu' = IF comm[1].op = "copy_qkv" THEN qkv[comm[1].b] ELSE qkvCpu,
         UNCHANGED <<qkv, oCpu>>
  PROVE  StreamInv(D, ph)'
<1>1. /\ Len(compute) \in Nat /\ Len(compute') = Len(compute)
      /\ \A i \in 1 .. Len(compute) : /\ compute'[i].op = compute[i].op
                                      /\ compute[i].op # "wait" => compute'[i] = compute[i]
  BY DEF Nearer
<1>2. \A c \in 1 .. Len(comm') : c + 1 \in 1 .. Len(comm) /\ comm'[c] = comm[c + 1]
  BY DEF Advanced
<1>3. \A c, e \in 1 .. Len(comm) : comm[c].op = "copy_o" /\ comm[e].op = "copy_o" => c = e
  BY DEF StreamInv, OneCopyOfOutputs
<1>4. ASSUME NEW b \in 1 .. 2, b \in D PROVE PhaseInv(b, ph[b])'
  <2>1. PICK p : p = ph[b]
    OBVIOUS
  <2>2. PhaseInv(b, p)
    BY <1>4, <2>1 DEF StreamInv
  <2>3. QkvOf(b, p)'
    BY <2>2, QkvComm DEF PhaseInv
  <2>4. ASSUME p.at = "moving" PROVE MovingOf(b, p.l)'
    <3>1. MovingOf(b, p.l) /\ QkvOf(b, p)
      BY <2>2, <2>4 DEF PhaseInv
    <3>2. QED
      BY <2>4, <3>1, MovingComm
  <2>5. ASSUME p.at = "attended", NEW i \in Nat, i = Len(compute') + 1 PROVE Arrives(b, p.l, i)'
    <3>1. Arrives(b, p.l, i)
      BY <1>1, <2>2, <2>5 DEF PhaseInv
    <3>2. QED
      BY <1>3, <3>1, ArrivesComm
  <2>6. PhaseInv(b, p)'
    BY <2>3, <2>4, <2>5 DEF PhaseInv
  <2>7. QED
    BY <2>1, <2>6
<1>5. ASSUME NEW i \in 1 .. Len(compute'), NEW b, NEW l,
             compute'[i].op = "postproj", compute'[i].b = b, compute'[i].l = l
      PROVE  b \in 1 .. 2 /\ (b \in D => Arrives(b, l, i)')
  <2>1. i \in 1 .. Len(compute) /\ compute'[i] = compute[i] /\ i \in Nat
    BY <1>1, <1>5
  <2>2. b \in 1 .. 2 /\ (b \in D => Arrives(b, l, i))
    BY <1>5, <2>1 DEF StreamInv, OutputsUnderWay
  <2>3. b \in D => Arrives(b, l, i)'
    BY <1>3, <2>1, <2>2, ArrivesComm
  <2>4. QED
    BY <2>2, <2>3
<1>6. OutputsUnderWay(D)'
  BY <1>5 DEF OutputsUnderWay
<1>7. OneCopyOfOutputs'
  <2>1. ASSUME NEW c \in 1 .. Len(comm'), NEW e \in 1 .. Len(comm'),
               comm'[c].op = "copy_o", comm'[e].op = "copy_o"
        PROVE  c = e
    <3>1. c + 1 = e + 1
      BY <1>2, <1>3, <2>1
    <3>2. QED
      BY <3>1
  <2>2. QED
    BY <2>1 DEF OneCopyOfOutputs
<1>8. BufferUnused => BufferUnused'
  BY <1>2 DEF BufferUnused
<1>9. QED
  BY <1>4, <1>6, <1>7, <1>8 DEF StreamInv

(* Before the first call and after the last one.                           *)
LEMMA StreamAtRest ==
  ASSUME NEW D, NEW D2, StreamInv(D, Start), Len(compute') = 0, Extended(comm, comm', CopyOps)
  PROVE  StreamInv(D2, Start)'
<1>1. \A b \in 1 .. 2 : Start[b].at = "free"
  BY PhaseZero DEF Start
<1>2. \A i : i \notin 1 .. 0
  OBVIOUS
<1>3. \A b \in 1 .. 2 : PhaseInv(b, Start[b])'
  BY <1>1, <1>2 DEF PhaseInv, QkvOf
<1>4. OutputsUnderWay(D2)'
  BY <1>2 DEF OutputsUnderWay
<1>5. OneCopyOfOutputs /\ BufferUnused
  BY <1>1 DEF StreamInv, NoneMoving
<1>6. QED
  BY <1>3, <1>4, <1>5, CommGrows DEF StreamInv

LEMMA StreamAtFirst ==
  ASSUME NEW D, Len(compute) = 0, Len(comm) = 0 PROVE StreamInv(D, Start)
<1>1. \A b \in 1 .. 2 : Start[b].at = "free"
  BY PhaseZero DEF Start
<1>2. \A i : i \notin 1 .. 0
  OBVIOUS
<1>3. \A b \in 1 .. 2 : PhaseInv(b, Start[b])
  BY <1>1, <1>2 DEF PhaseInv, QkvOf
<1>4. OutputsUnderWay(D) /\ OneCopyOfOutputs /\ BufferUnused
  BY <1>2 DEF OutputsUnderWay, OneCopyOfOutputs, BufferUnused
<1>5. QED
  BY <1>3, <1>4 DEF StreamInv

-----------------------------------------------------------------------------
(* Part VII.  The inductive invariant.                                     *)
SwapsKnown == \A i \in 1 .. Len(host) : host[i].f = "swap_out" => Queue(cprfSwap[host[i].b].src)

Basics ==
  /\ PlaneInv
  /\ TypedQueue(compute) /\ TypedQueue(comm)
  /\ qkv = [b \in 1 .. 2 |-> qkv[b]] /\ attnOut = [b \in 1 .. 2 |-> attnOut[b]]
  /\ pc = "idle" => host = << >> /\ compute = << >>
  /\ SwapsKnown

(* The sub-batches with decodes on the CPU.                                *)
Deciding == {b \in 1 .. 2 : running[b].cdec # << >>}

OneMoving(ph) == \A k, m \in 1 .. 2 : ph[k].at = "moving" /\ ph[m].at = "moving" => k = m

(* Where the sub-batches are, from which the rest of the host's program    *)
(* takes them to the end of the iteration.                                 *)
At(D, ph) ==
  /\ ph \in Boards /\ D = Deciding
  /\ Script(host, ph, Start) /\ OneMoving(ph) /\ StreamInv(D, ph)

FInv == Basics /\ \E D, ph : At(D, ph)

LEMMA Called ==
  ASSUME Basics, NEW D, NEW ph, At(D, ph), host # << >>, Returns, cprfSwap' = cprfSwap
  PROVE  /\ IsCall(Head(host)) /\ SwapsKnown'
         /\ \E qh \in Boards : Plays(ph, Head(host), qh) /\ Script(host', qh, Start)
<1>1. Queue(host) /\ Script(host, ph, Start)
  BY DEF At, Script
<1>2. /\ Len(host) \in Nat /\ Len(host') = Len(host) - 1
      /\ \A i \in 1 .. Len(host') : host'[i] = host[i + 1]
  BY <1>1, QueueFacts DEF Returns
<1>3. \A i \in 1 .. Len(host') : i + 1 \in 1 .. Len(host)
  BY <1>2
<1>4. SwapsKnown'
  BY <1>2, <1>3 DEF Basics, SwapsKnown
<1>5. QED
  BY <1>1, <1>4, ScriptTail DEF Returns

LEMMA LayerCallIs ==
  ASSUME NEW c, IsCall(c), c.f \in LayerFs PROVE c.b \in 1 .. 2 /\ c.l \in Layers
BY DEF IsCall, BlockCalls, LayerFs

LEMMA BlockCallIs ==
  ASSUME NEW c, IsCall(c), c.f \in BlockCalls
  PROVE  IsSwap(c.swap) /\ c.f \notin {"preproj", "transfer_qkv", "cpu_attention", "postproj"}
BY DEF IsCall, BlockCalls, LayerFs

LEMMA MovesOn ==
  ASSUME NEW ph \in Boards, NEW b \in 1 .. 2, NEW z, OneMoving(ph),
         z.at = "moving" => \A k \in 1 .. 2 : ph[k].at # "moving"
  PROVE  OneMoving(With(ph, b, z))
<1>1. PICK qh : qh = With(ph, b, z)
  OBVIOUS
<1>2. qh[b] = z /\ \A k \in 1 .. 2 : k # b => qh[k] = ph[k]
  BY <1>1 DEF With, Boards
<1>3. OneMoving(qh)
  BY <1>2 DEF OneMoving
<1>4. QED
  BY <1>1, <1>3

LEMMA WithOthers ==
  ASSUME NEW ph \in Boards, NEW b \in 1 .. 2, NEW z
  PROVE  \A k \in 1 .. 2 : k # b => With(ph, b, z)[k] = ph[k]
BY DEF With, Boards

LEMMA HostKeeps ==
  ASSUME Basics, host # << >>, UNCHANGED <<plane, qkv, attnOut>>,
         TypedQueue(compute'), TypedQueue(comm'), SwapsKnown',
         NEW D, D = Deciding, NEW qh \in Boards,
         Script(host', qh, Start), OneMoving(qh), StreamInv(D, qh)'
  PROVE  FInv'
<1>1. PlaneInv'
  BY DEF Basics, PlaneInv, HasRows, plane
<1>2. pc' # "idle"
  BY DEF Basics, plane
<1>3. TypedQueue(compute)' /\ TypedQueue(comm)'
  BY DEF TypedQueue, Queue
<1>4. qkv' = [b \in 1 .. 2 |-> qkv'[b]] /\ attnOut' = [b \in 1 .. 2 |-> attnOut'[b]]
  BY DEF Basics
<1>5. Basics'
  BY <1>1, <1>2, <1>3, <1>4 DEF Basics
<1>6. D = Deciding'
  BY DEF Deciding, plane
<1>7. Script(host, qh, Start)'
  BY DEF Script, Queue, Play, Start
<1>8. At(D, qh)'
  BY <1>6, <1>7 DEF At
<1>9. QED
  BY <1>5, <1>8 DEF FInv


(* An action of the host, for its next call.                               *)
Acts(D, ph) == Basics /\ At(D, ph) /\ host # << >>

LEMMA ActsFacts ==
  ASSUME NEW D, NEW ph, Acts(D, ph)
  PROVE  /\ Basics /\ At(D, ph) /\ host # << >> /\ ph \in Boards /\ D = Deciding
         /\ OneMoving(ph) /\ StreamInv(D, ph)
         /\ TypedQueue(compute) /\ TypedQueue(comm)
         /\ IsCall(Head(host))
         /\ \A b \in 1 .. 2 : b \in D <=> running[b].cdec # << >>
<1>1. IsCall(Head(host))
  BY ScriptTail DEF Acts, At
<1>2. QED
  BY <1>1 DEF Acts, At, Basics, Deciding

LEMMA WaitBehind ==
  ASSUME NEW p, NEW q, TypedQueue(p), TypedQueue(q), NEW bad, "wait" \notin bad
  PROVE  Extended(p, p \o WaitFor(q), bad)
<1>1. TypedQueue(WaitFor(q)) /\ \A i \in 1 .. Len(WaitFor(q)) : WaitFor(q)[i].op = "wait"
  BY WaitForIs
<1>2. PICK t : t = WaitFor(q)
  OBVIOUS
<1>3. \A i \in 1 .. Len(t) : t[i].op \notin bad
  BY <1>1, <1>2
<1>4. QED
  BY <1>1, <1>2, <1>3, ExtendedBy

(* A step that leaves every sub-batch of D where it is, and launches       *)
(* nothing that counts.                                                    *)
LEMMA HostGoesOn ==
  ASSUME NEW D, NEW ph, Acts(D, ph), NEW qh \in Boards,
         SwapsKnown', Script(host', qh, Start), OneMoving(qh),
         \A b \in 1 .. 2 : b \in D => qh[b] = ph[b],
         Extended(compute, compute', {"qkv", "postproj"}), Extended(comm, comm', CopyOps),
         UNCHANGED <<plane, qkv, qkvCpu, oCpu, attnOut>>
  PROVE  FInv'
<1>1. StreamInv(D, qh)'
  BY ActsFacts, StreamGrows
<1>2. TypedQueue(compute') /\ TypedQueue(comm')
  BY DEF Extended
<1>3. QED
  BY <1>1, <1>2, ActsFacts, HostKeeps

LEMMA IdleCallStep ==
  ASSUME NEW D, NEW ph, Acts(D, ph), Returns, cprfSwap' = cprfSwap,
         Head(host).f \notin {"preproj", "transfer_qkv", "cpu_attention", "postproj"},
         Extended(compute, compute', {"qkv", "postproj"}), Extended(comm, comm', CopyOps),
         UNCHANGED <<plane, qkv, qkvCpu, oCpu, attnOut>>
  PROVE  FInv'
<1>1. PICK qh \in Boards : Plays(ph, Head(host), qh) /\ Script(host', qh, Start) /\ SwapsKnown'
  BY ActsFacts, Called
<1>2. qh = ph
  BY <1>1, PlayCases
<1>3. QED
  BY <1>1, <1>2, ActsFacts, HostGoesOn

LEMMA ComputeWaitCommStep ==
  ASSUME NEW D, NEW ph, Acts(D, ph), ComputeWaitComm PROVE FInv'
<1>1. /\ Head(host).f = "wait_comm" /\ Returns /\ compute' = compute \o WaitFor(comm)
      /\ comm' = comm /\ cprfSwap' = cprfSwap /\ UNCHANGED <<plane, qkv, qkvCpu, oCpu, attnOut>>
  BY DEF ComputeWaitComm, HostOnly, Calling, buffers
<1>2. Extended(compute, compute', {"qkv", "postproj"})
  BY <1>1, ActsFacts, WaitBehind
<1>3. Extended(comm, comm', CopyOps)
  BY <1>1, ActsFacts, ExtendedNot
<1>4. QED
  BY <1>1, <1>2, <1>3, IdleCallStep

LEMMA LaunchAttentionStep ==
  ASSUME NEW D, NEW ph, Acts(D, ph), LaunchAttention PROVE FInv'
<1>1. /\ Head(host).f = "launch_attention" /\ Returns
      /\ compute' = IF Sub.gdec = << >> THEN compute
                    ELSE Append(compute, On("decode", Head(host).b, Head(host).l))
      /\ comm' = comm /\ cprfSwap' = cprfSwap /\ UNCHANGED <<plane, qkv, qkvCpu, oCpu, attnOut>>
  BY DEF LaunchAttention, HostOnly, Calling, buffers
<1>2. Extended(compute, compute', {"qkv", "postproj"})
  <2>1. PICK o : o = On("decode", Head(host).b, Head(host).l)
    OBVIOUS
  <2>2. o.op = "decode"
    BY <2>1, OnIs
  <2>3. Extended(compute, Append(compute, o), {"qkv", "postproj"})
    <3>1. o.op \notin {"qkv", "postproj"} /\ (o.op = "wait" => o \in Waits) /\ TypedQueue(compute)
      BY <2>2, ActsFacts
    <3>2. Append(compute, o) = compute \o <<o>>
      BY <3>1, ExtendedByOne
    <3>3. Extended(compute, compute \o <<o>>, {"qkv", "postproj"})
      BY <3>1, ExtendedByOne
    <3>4. QED
      BY <3>2, <3>3
  <2>4. Extended(compute, compute, {"qkv", "postproj"})
    BY ActsFacts, ExtendedNot
  <2>5. QED
    BY <1>1, <2>1, <2>3, <2>4
<1>3. Extended(comm, comm', CopyOps)
  BY <1>1, ActsFacts, ExtendedNot
<1>4. QED
  BY <1>1, <1>2, <1>3, IdleCallStep

(* One more copy, of blocks.                                               *)
LEMMA BlockCopyStep ==
  ASSUME NEW D, NEW ph, Acts(D, ph), Returns, Head(host).f \in BlockCalls,
         NEW o, o.op \notin CopyOps, o.op # "wait", comm' = Append(comm, o) \/ comm' = comm,
         UNCHANGED <<plane, compute, cprfSwap, qkv, qkvCpu, oCpu, attnOut>>
  PROVE  FInv'
<1>1. Extended(comm, comm', CopyOps)
  <2>1. TypedQueue(comm)
    BY ActsFacts
  <2>2. Append(comm, o) = comm \o <<o>>
    BY <2>1, ExtendedByOne
  <2>3. Extended(comm, comm \o <<o>>, CopyOps)
    BY <2>1, ExtendedByOne
  <2>4. Extended(comm, comm, CopyOps)
    BY <2>1, ExtendedNot
  <2>5. QED
    BY <2>2, <2>3, <2>4
<1>2. Extended(compute, compute', {"qkv", "postproj"})
  BY ActsFacts, ExtendedNot
<1>3. Head(host).f \notin {"preproj", "transfer_qkv", "cpu_attention", "postproj"}
  BY DEF BlockCalls
<1>4. QED
  BY <1>1, <1>2, <1>3, IdleCallStep

LEMMA StageBlockStep ==
  ASSUME NEW D, NEW ph, Acts(D, ph), StageBlock PROVE FInv'
<1>1. PICK c, o : c = Head(host) /\ o = [c.swap EXCEPT !.op = "stage"]
  OBVIOUS
<1>2. /\ c.f = "stage" /\ Returns /\ comm' = Append(comm, o)
      /\ UNCHANGED <<plane, compute, cprfSwap, qkv, qkvCpu, oCpu, attnOut>>
  BY <1>1 DEF StageBlock, HostOnly, Calling, buffers
<1>3. c.f \in BlockCalls
  BY <1>2 DEF BlockCalls
<1>4. IsSwap(c.swap)
  BY <1>1, <1>3, ActsFacts, BlockCallIs
<1>5. o.op = "stage"
  BY <1>1, <1>4 DEF IsSwap
<1>6. o.op \notin CopyOps /\ o.op # "wait"
  BY <1>5 DEF CopyOps
<1>7. QED
  BY <1>1, <1>2, <1>3, <1>6, BlockCopyStep

LEMMA FetchBlockStep ==
  ASSUME NEW D, NEW ph, Acts(D, ph), FetchBlock PROVE FInv'
<1>1. PICK c, w : c = Head(host) /\ w = c.swap
  OBVIOUS
<1>2. PICK o : o = IF swapMode = "int8_cpu_kv" THEN w
                   ELSE [op |-> "put", gl |-> w.gl, dst |-> w.dst, kv |-> w.kv,
                         data |-> cmem[w.cl][w.src[1]]]
  OBVIOUS
<1>3. /\ c.f = "fetch" /\ Returns /\ comm' = Append(comm, o)
      /\ UNCHANGED <<plane, compute, cprfSwap, qkv, qkvCpu, oCpu, attnOut>>
  BY <1>1, <1>2 DEF FetchBlock, HostOnly, Calling, buffers
<1>4. c.f \in BlockCalls
  BY <1>3 DEF BlockCalls
<1>5. IsSwap(w)
  BY <1>1, <1>4, ActsFacts, BlockCallIs
<1>6. w.op = "swap"
  BY <1>5 DEF IsSwap
<1>7. o.op \in {"swap", "put"}
  BY <1>2, <1>6
<1>8. o.op \notin CopyOps /\ o.op # "wait"
  BY <1>7 DEF CopyOps
<1>9. QED
  BY <1>1, <1>3, <1>4, <1>8, BlockCopyStep

LEMMA StoreStagedStep ==
  ASSUME NEW D, NEW ph, Acts(D, ph), StoreStaged PROVE FInv'
<1>1. /\ Head(host).f = "store_staged" /\ Returns /\ comm' = comm
      /\ UNCHANGED <<plane, compute, cprfSwap, qkv, qkvCpu, oCpu, attnOut>>
  BY DEF StoreStaged, Calling, buffers
<1>2. Head(host).f \in BlockCalls
  BY <1>1 DEF BlockCalls
<1>3. PICK o : o = On("put", 1, 0)
  OBVIOUS
<1>4. o.op = "put"
  BY <1>3, OnIs
<1>5. o.op \notin CopyOps /\ o.op # "wait"
  BY <1>4 DEF CopyOps
<1>6. QED
  BY <1>1, <1>2, <1>5, BlockCopyStep

LEMMA SwapOps ==
  ASSUME NEW swaps, WholeSwaps(swaps)
  PROVE  TypedQueue(swaps) /\ \A i \in 1 .. Len(swaps) : swaps[i].op \notin CopyOps
<1>1. ASSUME NEW i \in 1 .. Len(swaps) PROVE swaps[i].op = "swap"
  <2>1. PICK o : o = swaps[i]
    OBVIOUS
  <2>2. IsSwap(o)
    BY <2>1 DEF WholeSwaps
  <2>3. o.op = "swap"
    BY <2>2 DEF IsSwap
  <2>4. QED
    BY <2>1, <2>3
<1>2. QED
  BY <1>1 DEF WholeSwaps, TypedQueue, CopyOps

LEMMA SwapOutBlocksStep ==
  ASSUME NEW D, NEW ph, Acts(D, ph), SwapOutBlocks PROVE FInv'
<1>1. PICK c, t : c = Head(host) /\ t = Tail(host)
  OBVIOUS
<1>2. PICK w : w = Swap("out", cprfSwap[c.b], ItmLayer(c.l), c.l)
  OBVIOUS
<1>3. PICK swaps : swaps = IF Sub.cprf = << >> THEN << >> ELSE <<w>>
  OBVIOUS
<1>4. /\ c.f = "swap_out" /\ comm' = comm \o OnStream(swaps) /\ host' = OnHost(swaps) \o t
      /\ UNCHANGED <<plane, compute, cprfSwap, qkv, qkvCpu, oCpu, attnOut>>
  <2>1. /\ comm' = comm \o OnStream(IF Sub.cprf = << >> THEN << >>
                                    ELSE <<Swap("out", cprfSwap[Head(host).b],
                                                ItmLayer(Head(host).l), Head(host).l)>>)
        /\ host' = OnHost(IF Sub.cprf = << >> THEN << >>
                          ELSE <<Swap("out", cprfSwap[Head(host).b],
                                      ItmLayer(Head(host).l), Head(host).l)>>) \o Tail(host)
        /\ Head(host).f = "swap_out"
    BY DEF SwapOutBlocks, Calling
  <2>2. UNCHANGED <<plane, compute, cprfSwap, qkv, qkvCpu, oCpu, attnOut>>
    BY DEF SwapOutBlocks, HostOnly, buffers
  <2>3. swaps = IF Sub.cprf = << >> THEN << >>
                ELSE <<Swap("out", cprfSwap[Head(host).b], ItmLayer(Head(host).l), Head(host).l)>>
    BY <1>1, <1>2, <1>3
  <2>4. QED
    BY <1>1, <2>1, <2>2, <2>3
<1>5. /\ Queue(host) /\ Script(host, ph, Start) /\ ph \in Boards
      /\ \A i \in 1 .. Len(host) : host[i].f = "swap_out" => Queue(cprfSwap[host[i].b].src)
  BY DEF Acts, At, Script, Basics, SwapsKnown
<1>6. /\ Len(host) \in Nat \ {0} /\ c = host[1] /\ Queue(t) /\ Len(t) = Len(host) - 1
      /\ \A i \in 1 .. Len(t) : t[i] = host[i + 1]
  BY <1>1, <1>5, QueueFacts DEF Acts
<1>7. WholeSwaps(swaps)
  <2>1. CASE swaps = << >>
    BY <2>1, NothingToSwap
  <2>2. CASE swaps = <<w>>
    <3>1. 1 \in 1 .. Len(host)
      BY <1>6
    <3>2. Queue(cprfSwap[c.b].src)
      BY <1>4, <1>5, <1>6, <3>1
    <3>3. IsSwap(w) /\ Queue(w.src)
      BY <1>2, <3>2, SwapIs
    <3>4. Queue(<<w>>) /\ Len(<<w>>) = 1 /\ <<w>>[1] = w
      BY QueueOfOne
    <3>5. \A i \in 1 .. 1 : i = 1
      OBVIOUS
    <3>6. QED
      BY <2>2, <3>3, <3>4, <3>5 DEF WholeSwaps
  <2>3. QED
    BY <1>3, <2>1, <2>2
<1>8. PICK s, h : s = OnStream(swaps) /\ h = OnHost(swaps)
  OBVIOUS
<1>9. BlockQueue(h) /\ WholeSwaps(s)
  BY <1>7, <1>8, OnHostQueue, WholeSwapsOnStream
<1>10. Extended(comm, comm', CopyOps)
  <2>1. TypedQueue(s) /\ \A i \in 1 .. Len(s) : s[i].op \notin CopyOps
    BY <1>9, SwapOps
  <2>2. Extended(comm, comm \o s, CopyOps)
    BY <2>1, ActsFacts, ExtendedBy
  <2>3. QED
    BY <1>4, <1>8, <2>2
<1>11. Extended(compute, compute', {"qkv", "postproj"})
  BY <1>4, ActsFacts, ExtendedNot
<1>12. Script(t, ph, Start)
  <2>1. PICK qh \in Boards : Plays(ph, c, qh) /\ Script(t, qh, Start)
    BY <1>1, <1>5, ScriptTail DEF Acts
  <2>2. qh = ph
    BY <1>4, <2>1, PlayCases
  <2>3. QED
    BY <2>1, <2>2
<1>13. Script(host', ph, Start)
  <2>1. Script(h, ph, ph)
    BY <1>5, <1>9, BlockScript
  <2>2. Script(h \o t, ph, Start)
    BY <1>12, <2>1, ScriptConcat
  <2>3. QED
    BY <1>4, <1>8, <2>2
<1>14. SwapsKnown'
  <2>1. PICK u : u = h \o t
    OBVIOUS
  <2>2. /\ Queue(h) /\ \A i \in 1 .. Len(h) : h[i].f # "swap_out"
    BY <1>9 DEF BlockQueue, BlockCalls
  <2>3. Joined(h, t, u)
    BY <1>6, <2>1, <2>2, QueueConcat
  <2>4. ASSUME NEW i \in 1 .. Len(u), u[i].f = "swap_out" PROVE Queue(cprfSwap[u[i].b].src)
    <3>1. PICK k \in 1 .. Len(t) : i = Len(h) + k
      BY <2>2, <2>3, <2>4 DEF Joined
    <3>2. u[i] = t[k]
      BY <2>3, <3>1 DEF Joined
    <3>3. k + 1 \in 1 .. Len(host) /\ t[k] = host[k + 1]
      BY <1>6
    <3>4. QED
      BY <1>5, <2>4, <3>2, <3>3
  <2>5. host' = u /\ cprfSwap' = cprfSwap
    BY <1>4, <1>8, <2>1
  <2>6. QED
    BY <2>4, <2>5 DEF SwapsKnown
<1>15. QED
  BY <1>4, <1>10, <1>11, <1>13, <1>14, ActsFacts, HostGoesOn

(* What preproj launches behind the projections.                           *)
LEMMA StoreOps ==
  ASSUME TypedQueue(comm), NEW b, NEW l, NEW prefs
  PROVE  LET t == IF prefs = {} THEN << >> ELSE WaitFor(comm) \o <<On("store", b, l)>>
         IN  TypedQueue(t) /\ \A i \in 1 .. Len(t) : t[i].op \notin {"qkv", "postproj"}
<1>1. PICK o, u : o = On("store", b, l) /\ u = WaitFor(comm) \o <<o>>
  OBVIOUS
<1>2. o.op = "store"
  BY <1>1, OnIs
<1>3. TypedQueue(WaitFor(comm)) /\ \A i \in 1 .. Len(WaitFor(comm)) : WaitFor(comm)[i].op = "wait"
  BY WaitForIs
<1>4. Extended(WaitFor(comm), u, {"qkv", "postproj"})
  <2>1. PICK w : w = WaitFor(comm)
    OBVIOUS
  <2>2. TypedQueue(w) /\ o.op \notin {"qkv", "postproj"} /\ (o.op = "wait" => o \in Waits)
    BY <1>2, <1>3, <2>1
  <2>3. Extended(w, w \o <<o>>, {"qkv", "postproj"})
    BY <2>2, ExtendedByOne
  <2>4. QED
    BY <1>1, <2>1, <2>3
<1>5. TypedQueue(u)
  BY <1>4 DEF Extended
<1>6. \A i \in 1 .. Len(u) : u[i].op \notin {"qkv", "postproj"}
  BY <1>3, <1>4 DEF Extended
<1>7. \A i : i \notin 1 .. 0
  OBVIOUS
<1>8. CASE prefs = {}
  BY <1>7, <1>8, NoOps
<1>9. CASE prefs # {}
  BY <1>1, <1>5, <1>6, <1>9
<1>10. QED
  BY <1>8, <1>9

LEMMA PreprojStep ==
  ASSUME NEW D, NEW ph, Acts(D, ph), Preproj PROVE FInv'
<1>1. PICK c, b, l : c = Head(host) /\ b = c.b /\ l = c.l
  OBVIOUS
<1>2. PICK o, t : /\ o = On("qkv", b, l)
                  /\ t = IF BM!Prefs(Sub) = {} THEN << >> ELSE WaitFor(comm) \o <<On("store", b, l)>>
  OBVIOUS
<1>3. /\ c.f = "preproj" /\ Returns /\ compute' = compute \o <<o>> \o t
      /\ UNCHANGED <<plane, comm, cprfSwap, qkv, qkvCpu, oCpu, attnOut>>
  BY <1>1, <1>2 DEF Preproj, HostOnly, Calling, buffers
<1>4. c.f \in LayerFs
  BY <1>3 DEF LayerFs
<1>5. b \in 1 .. 2 /\ l \in Layers
  BY <1>1, <1>4, ActsFacts, LayerCallIs
<1>6. PICK qh \in Boards : Plays(ph, c, qh) /\ Script(host', qh, Start) /\ SwapsKnown'
  BY <1>1, <1>3, ActsFacts, Called
<1>7. ph[b].at = "free" /\ qh = With(ph, b, Phase("projected", l))
  BY <1>1, <1>3, <1>6, PlayCases
<1>8. o.op = "qkv" /\ o.b = b /\ o.l = l
  BY <1>2, OnIs
<1>9. PICK u, m : u = compute \o <<o>> /\ m = Len(compute)
  OBVIOUS
<1>10. Extended(compute, u, {"postproj"}) /\ m \in Nat /\ Len(u) = m + 1 /\ u[m + 1] = o
  <2>1. TypedQueue(compute) /\ o.op \notin {"postproj"} /\ (o.op = "wait" => o \in Waits)
    BY <1>8, ActsFacts
  <2>2. Extended(compute, compute \o <<o>>, {"postproj"})
    BY <2>1, ExtendedByOne
  <2>3. m \in Nat /\ Len(compute \o <<o>>) = m + 1 /\ (compute \o <<o>>)[m + 1] = o
    BY <1>9, <2>1, ExtendedByOne
  <2>4. QED
    BY <1>9, <2>2, <2>3
<1>11. Extended(u, compute', {"qkv", "postproj"})
  <2>1. TypedQueue(t) /\ \A i \in 1 .. Len(t) : t[i].op \notin {"qkv", "postproj"}
    BY <1>2, ActsFacts, StoreOps
  <2>2. TypedQueue(u)
    BY <1>10 DEF Extended
  <2>3. Extended(u, u \o t, {"qkv", "postproj"})
    BY <2>1, <2>2, ExtendedBy
  <2>4. QED
    BY <1>3, <1>9, <2>3
<1>12. Extended(compute, compute', {"postproj"})
  <2>1. Extended(u, compute', {"postproj"})
    BY <1>11 DEF Extended
  <2>2. QED
    BY <1>10, <2>1, ExtendedTwice
<1>13. Extended(comm, comm', CopyOps)
  BY <1>3, ActsFacts, ExtendedNot
<1>14. m + 1 \in 1 .. Len(compute') /\ compute'[m + 1] = o
  <2>1. m + 1 \in 1 .. Len(u)
    BY <1>10
  <2>2. QED
    BY <1>10, <1>11, <2>1 DEF Extended
<1>15. ASSUME NEW i \in 1 .. Len(compute'), i \notin 1 .. Len(compute), compute'[i].op = "qkv"
       PROVE  compute'[i].b = b /\ compute'[i].l = l
  <2>1. i \in 1 .. Len(u)
    BY <1>11, <1>15 DEF Extended
  <2>2. i = m + 1
    BY <1>9, <1>10, <1>15, <2>1
  <2>3. QED
    BY <1>8, <1>14, <2>2
<1>16. Of(compute', m + 1, "qkv", b)
  BY <1>8, <1>14 DEF Of
<1>17. StreamInv(D, qh)'
  BY <1>3, <1>5, <1>7, <1>12, <1>13, <1>14, <1>15, <1>16, ActsFacts, StreamProjects
<1>18. OneMoving(qh)
  BY <1>5, <1>7, ActsFacts, MovesOn, PhaseFacts
<1>19. TypedQueue(compute') /\ TypedQueue(comm')
  BY <1>12, <1>13 DEF Extended
<1>20. QED
  BY <1>3, <1>6, <1>17, <1>18, <1>19, ActsFacts, HostKeeps

LEMMA PostprojStep ==
  ASSUME NEW D, NEW ph, Acts(D, ph), Postproj PROVE FInv'
<1>1. PICK c, b, l : c = Head(host) /\ b = c.b /\ l = c.l
  OBVIOUS
<1>2. /\ c.f = "postproj" /\ Returns /\ compute' = Append(compute, On("postproj", b, l))
      /\ comm' = comm /\ UNCHANGED <<plane, cprfSwap, qkv, qkvCpu, oCpu, attnOut>>
  BY <1>1 DEF Postproj, HostOnly, Calling, buffers
<1>3. c.f \in LayerFs
  BY <1>2 DEF LayerFs
<1>4. b \in 1 .. 2 /\ l \in Layers
  BY <1>1, <1>3, ActsFacts, LayerCallIs
<1>5. PICK qh \in Boards : Plays(ph, c, qh) /\ Script(host', qh, Start) /\ SwapsKnown'
  BY <1>1, <1>2, ActsFacts, Called
<1>6. ph[b] = Phase("attended", l) /\ qh = With(ph, b, Phase("free", 0))
  BY <1>1, <1>2, <1>5, PlayCases
<1>7. StreamInv(D, qh)'
  BY <1>2, <1>4, <1>6, ActsFacts, StreamOutputs
<1>8. OneMoving(qh)
  BY <1>4, <1>6, ActsFacts, MovesOn, PhaseZero
<1>9. TypedQueue(compute') /\ TypedQueue(comm')
  <2>1. PICK o : o = On("postproj", b, l)
    OBVIOUS
  <2>2. o.op = "wait" => o \in Waits
    BY <2>1, OnIs
  <2>3. Append(compute, o) = compute \o <<o>> /\ Extended(compute, compute \o <<o>>, {})
    BY <2>2, ActsFacts, ExtendedByOne
  <2>4. QED
    BY <1>2, <2>1, <2>3, ActsFacts DEF Extended
<1>10. QED
  BY <1>2, <1>5, <1>7, <1>8, <1>9, ActsFacts, HostKeeps

(* What transfer_qkv launches behind the wait, for a sub-batch with        *)
(* decodes on the CPU.                                                     *)
LEMMA TransferOps ==
  ASSUME NEW q, TypedQueue(q), NEW b, NEW n, n = Len(q)
  PROVE  LET r == q \o <<On("copy_qkv", b, 0), On("qkvtr_e", b, 0)>>
         IN  /\ Extended(q, r, {"copy_o"}) /\ n \in Nat /\ Len(r) = n + 2
             /\ Of(r, n + 1, "copy_qkv", b) /\ r[n + 2].op = "qkvtr_e"
<1>1. PICK x, y, t : x = On("copy_qkv", b, 0) /\ y = On("qkvtr_e", b, 0) /\ t = <<x, y>>
  OBVIOUS
<1>2. x.op = "copy_qkv" /\ x.b = b /\ y.op = "qkvtr_e"
  BY <1>1, OnIs
<1>3. Queue(t) /\ Len(t) = 2 /\ t[1] = x /\ t[2] = y
  <2>1. PICK S : S = {x, y}
    OBVIOUS
  <2>2. x \in S /\ y \in S
    BY <2>1
  <2>3. <<x, y>> \in Seq(S) /\ Len(<<x, y>>) = 2 /\ <<x, y>>[1] = x /\ <<x, y>>[2] = y
    BY ONLY <2>2
  <2>4. QED
    BY <1>1, <2>3 DEF Queue
<1>4. \A i \in 1 .. 2 : i = 1 \/ i = 2
  OBVIOUS
<1>5. TypedQueue(t) /\ \A i \in 1 .. Len(t) : t[i].op \notin {"copy_o"}
  BY <1>2, <1>3, <1>4 DEF TypedQueue
<1>6. PICK r : r = q \o t
  OBVIOUS
<1>7. Extended(q, r, {"copy_o"})
  BY <1>5, <1>6, ExtendedBy
<1>8. Joined(q, t, r)
  BY <1>5, <1>6, QueueConcat DEF TypedQueue
<1>9. n \in Nat /\ Len(r) = n + 2 /\ \A i \in 1 .. 2 : r[n + i] = t[i]
  BY <1>3, <1>8 DEF Joined
<1>10. r[n + 1] = x /\ r[n + 2] = y
  BY <1>3, <1>9
<1>11. QED
  BY <1>1, <1>2, <1>6, <1>7, <1>9, <1>10 DEF Of

LEMMA TransferQkvStep ==
  ASSUME NEW D, NEW ph, Acts(D, ph), TransferQkv PROVE FInv'
<1>1. PICK c, b : c = Head(host) /\ b = c.b
  OBVIOUS
<1>2. PICK q, n : q = comm \o WaitFor(compute) /\ n = Len(q)
  OBVIOUS
<1>3. /\ c.f = "transfer_qkv" /\ Returns
      /\ running[b].cdec = << >> => comm' = q \o << >>
      /\ running[b].cdec # << >> => comm' = q \o <<On("copy_qkv", b, 0), On("qkvtr_e", b, 0)>>
      /\ UNCHANGED <<plane, compute, cprfSwap, qkv, qkvCpu, oCpu, attnOut>>
  BY <1>1, <1>2 DEF TransferQkv, HostOnly, Calling, buffers, Sub
<1>4. c.f \in LayerFs
  BY <1>3 DEF LayerFs
<1>5. b \in 1 .. 2
  BY <1>1, <1>4, ActsFacts, LayerCallIs
<1>6. PICK qh \in Boards : Plays(ph, c, qh) /\ Script(host', qh, Start) /\ SwapsKnown'
  BY <1>1, <1>3, ActsFacts, Called
<1>7. PICK l : l = ph[b].l
  OBVIOUS
<1>8. /\ ph[b].at = "projected" /\ \A k \in 1 .. 2 : ph[k].at # "moving"
      /\ qh = With(ph, b, Phase("moving", l))
  BY <1>1, <1>3, <1>6, <1>7, PlayCases
<1>9. l \in Layers
  BY <1>5, <1>7, ActsFacts DEF Boards, Phases
<1>10. OneMoving(qh)
  BY <1>5, <1>8, ActsFacts, MovesOn
<1>11. Extended(comm, q, CopyOps) /\ TypedQueue(q)
  <2>1. "wait" \notin CopyOps
    BY DEF CopyOps
  <2>2. Extended(comm, comm \o WaitFor(compute), CopyOps)
    BY <2>1, ActsFacts, WaitBehind
  <2>3. QED
    BY <1>2, <2>2 DEF Extended
<1>12. CASE running[b].cdec = << >>
  <2>1. Extended(comm, comm', CopyOps)
    <3>1. \A i : i \notin 1 .. 0
      OBVIOUS
    <3>2. Extended(q, q \o << >>, CopyOps)
      BY <1>11, <3>1, NoOps, ExtendedBy
    <3>3. QED
      BY <1>3, <1>11, <1>12, <3>2, ExtendedTwice
  <2>2. Extended(compute, compute', {"qkv", "postproj"})
    BY <1>3, ActsFacts, ExtendedNot
  <2>3. b \notin D
    BY <1>5, <1>12, ActsFacts
  <2>4. \A k \in 1 .. 2 : k \in D => qh[k] = ph[k]
    BY <1>5, <1>8, <2>3, ActsFacts, WithOthers
  <2>5. QED
    BY <1>3, <1>6, <1>10, <2>1, <2>2, <2>4, HostGoesOn
<1>13. CASE running[b].cdec # << >>
  <2>1. b \in D
    BY <1>5, <1>13, ActsFacts
  <2>2. PICK r : r = q \o <<On("copy_qkv", b, 0), On("qkvtr_e", b, 0)>>
    OBVIOUS
  <2>3. comm' = r
    BY <1>3, <1>13, <2>2
  <2>4. /\ Extended(q, r, {"copy_o"}) /\ n \in Nat /\ Len(r) = n + 2
        /\ Of(r, n + 1, "copy_qkv", b) /\ r[n + 2].op = "qkvtr_e"
    BY <1>2, <1>11, <2>2, TransferOps
  <2>5. Extended(comm, r, {"copy_o"})
    <3>1. Extended(comm, q, {"copy_o"})
      BY <1>11 DEF Extended, CopyOps
    <3>2. QED
      BY <2>4, <3>1, ExtendedTwice
  <2>6. PICK w : w = WaitFor(compute)
    OBVIOUS
  <2>7. /\ TypedQueue(w) /\ \A i \in 1 .. Len(w) : w[i].op = "wait"
        /\ Len(compute) # 0 => Len(w) = 1 /\ w[1].op = "wait" /\ w[1].left = Len(compute)
    BY <2>6, ActsFacts, WaitForIs
  <2>8. Joined(comm, w, q)
    BY <1>2, <2>6, <2>7, ActsFacts, QueueConcat DEF TypedQueue
  <2>9. \A i \in 1 .. n : r[i] = q[i]
    BY <1>2, <2>4 DEF Extended
  <2>10. Len(comm) <= n /\ Len(comm) \in Nat
    BY <1>2, <1>11 DEF Extended
  <2>11. \A k \in 1 .. n : k \in 1 .. Len(comm) \/ r[k].op = "wait"
    <3>1. ASSUME NEW k \in 1 .. n, k \notin 1 .. Len(comm) PROVE q[k].op = "wait"
      BY <1>2, <2>7, <2>8, <3>1 DEF Joined
    <3>2. QED
      BY <2>9, <3>1
  <2>12. Len(compute) # 0 => n \in 1 .. Len(r) /\ r[n].op = "wait" /\ r[n].left = Len(compute)
    <3>1. SUFFICES ASSUME Len(compute) # 0
                   PROVE  n \in 1 .. Len(r) /\ r[n].op = "wait" /\ r[n].left = Len(compute)
      OBVIOUS
    <3>2. Len(w) = 1 /\ w[1].op = "wait" /\ w[1].left = Len(compute) /\ 1 \in 1 .. 1
      BY <2>7, <3>1
    <3>3. n = Len(comm) + 1 /\ q[Len(comm) + 1] = w[1]
      BY <1>2, <2>8, <3>2 DEF Joined
    <3>4. n \in 1 .. n /\ n \in 1 .. Len(r)
      BY <2>4, <2>10, <3>3
    <3>5. QED
      BY <2>9, <3>2, <3>3, <3>4
  <2>13. TypedQueue(compute)
    BY ActsFacts
  <2>14. StreamInv(D, With(ph, b, Phase("moving", l)))'
    BY <1>3, <1>5, <1>7, <1>8, <1>9, <2>1, <2>3, <2>4, <2>5, <2>10, <2>11, <2>12, <2>13,
       ActsFacts, StreamTransfers
  <2>15. TypedQueue(compute') /\ TypedQueue(comm')
    BY <1>3, <2>3, <2>5, <2>13 DEF Extended
  <2>16. QED
    BY <1>3, <1>6, <1>8, <1>10, <2>14, <2>15, ActsFacts, HostKeeps
<1>14. QED
  BY <1>12, <1>13

LEMMA TransferredIs ==
  ASSUME TypedQueue(comm), QkvTransferred PROVE \A c \in 1 .. Len(comm) : comm[c].op # "qkvtr_e"
<1>1. DOMAIN comm = 1 .. Len(comm)
  BY QueueFacts DEF TypedQueue
<1>2. QED
  BY <1>1 DEF QkvTransferred

LEMMA QkvHaveArrived ==
  ASSUME NEW D, NEW ph, Acts(D, ph) PROVE QkvArrive
<1>1. SUFFICES ASSUME Calling("cpu_attention"), Sub.cdec # << >>, QkvTransferred
               PROVE  qkvCpu = <<Head(host).b, Head(host).l>>
  BY DEF QkvArrive, AttendsOnCpu
<1>2. PICK c, b, l : c = Head(host) /\ b = c.b /\ l = c.l
  OBVIOUS
<1>3. c.f = "cpu_attention" /\ running[b].cdec # << >>
  BY <1>1, <1>2 DEF Calling, Sub
<1>4. c.f \in LayerFs
  BY <1>3 DEF LayerFs
<1>5. b \in 1 .. 2 /\ l \in Layers
  BY <1>2, <1>4, ActsFacts, LayerCallIs
<1>6. PICK qh \in Boards : Plays(ph, c, qh)
  BY <1>2, ScriptTail DEF Acts, At
<1>7. ph[b] = Phase("moving", l)
  BY <1>2, <1>3, <1>6, PlayCases
<1>8. ph[b].at = "moving" /\ ph[b].l = l
  BY <1>5, <1>7, PhaseFacts
<1>9. MovingOf(b, l)
  BY <1>3, <1>5, <1>8, ActsFacts DEF StreamInv, PhaseInv
<1>10. \A k \in 1 .. Len(comm) : comm[k].op # "qkvtr_e"
  BY <1>1, ActsFacts, TransferredIs
<1>11. \A k \in 1 .. Len(comm) : comm[k].op # "copy_qkv"
  BY <1>9, <1>10 DEF MovingOf
<1>12. QED
  BY <1>2, <1>9, <1>11 DEF MovingOf

LEMMA CpuAttentionStep ==
  ASSUME NEW D, NEW ph, Acts(D, ph), CpuAttention PROVE FInv'
<1>1. PICK c, b, l : c = Head(host) /\ b = c.b /\ l = c.l
  OBVIOUS
<1>2. PICK o, n, m : o = On("copy_o", b, l) /\ n = Len(comm) /\ m = Len(compute)
  OBVIOUS
<1>3. /\ c.f = "cpu_attention" /\ Returns /\ running[b].cdec # << >> /\ QkvTransferred
      /\ comm' = Append(comm, o) /\ compute' = compute \o WaitFor(comm') /\ oCpu' = qkvCpu
      /\ UNCHANGED <<plane, cprfSwap, qkv, qkvCpu, attnOut>>
  BY <1>1, <1>2 DEF CpuAttention, Calling, Sub
<1>4. c.f \in LayerFs
  BY <1>3 DEF LayerFs
<1>5. b \in 1 .. 2 /\ l \in Layers
  BY <1>1, <1>4, ActsFacts, LayerCallIs
<1>6. PICK qh \in Boards : Plays(ph, c, qh) /\ Script(host', qh, Start) /\ SwapsKnown'
  BY <1>1, <1>3, ActsFacts, Called
<1>7. ph[b] = Phase("moving", l) /\ qh = With(ph, b, Phase("attended", l))
  BY <1>1, <1>3, <1>6, PlayCases
<1>8. ph[b].at = "moving" /\ b \in D
  BY <1>3, <1>5, <1>7, ActsFacts, PhaseFacts
<1>9. \A k \in 1 .. 2 : k # b => ph[k].at # "moving"
  BY <1>5, <1>8, ActsFacts DEF OneMoving
<1>10. \A k \in 1 .. Len(comm) : comm[k].op # "qkvtr_e"
  BY <1>3, ActsFacts, TransferredIs
<1>11. o.op = "copy_o" /\ o.b = b
  BY <1>2, OnIs
<1>12. PICK r : r = comm \o <<o>>
  OBVIOUS
<1>13. comm' = r /\ Extended(comm, r, {}) /\ n \in Nat /\ Len(r) = n + 1 /\ r[n + 1] = o
  <2>1. TypedQueue(comm) /\ (o.op = "wait" => o \in Waits)
    BY <1>11, ActsFacts
  <2>2. Append(comm, o) = r /\ Extended(comm, r, {})
    BY <1>12, <2>1, ExtendedByOne
  <2>3. n \in Nat /\ Len(r) = n + 1 /\ r[n + 1] = o
    BY <1>2, <1>12, <2>1, ExtendedByOne
  <2>4. QED
    BY <1>3, <2>2, <2>3
<1>14. TypedQueue(r) /\ Len(r) # 0
  BY <1>13 DEF Extended
<1>15. Of(r, n + 1, "copy_o", b)
  BY <1>11, <1>13 DEF Of
<1>16. PICK w, u : w = WaitFor(r) /\ u = compute \o w
  OBVIOUS
<1>17. TypedQueue(w) /\ Len(w) = 1 /\ w[1].op = "wait" /\ w[1].left = n + 1
  BY <1>13, <1>14, <1>16, WaitForIs
<1>18. compute' = u
  BY <1>3, <1>13, <1>16
<1>19. Extended(compute, u, {"qkv", "postproj"})
  BY <1>14, <1>16, ActsFacts, WaitBehind
<1>20. Len(u) = m + 1 /\ u[m + 1].op = "wait" /\ u[m + 1].left = n + 1
  <2>1. Joined(compute, w, u)
    BY <1>16, <1>17, ActsFacts, QueueConcat DEF TypedQueue
  <2>2. 1 \in 1 .. 1
    OBVIOUS
  <2>3. Len(u) = m + 1 /\ u[m + 1] = w[1]
    BY <1>2, <1>17, <2>1, <2>2 DEF Joined
  <2>4. QED
    BY <1>17, <2>3
<1>21. StreamInv(D, qh)'
  BY <1>2, <1>3, <1>5, <1>7, <1>8, <1>9, <1>10, <1>13, <1>15, <1>18, <1>19, <1>20,
     ActsFacts, StreamAttends
<1>22. OneMoving(qh)
  BY <1>5, <1>7, ActsFacts, MovesOn, PhaseFacts
<1>23. TypedQueue(compute') /\ TypedQueue(comm')
  BY <1>13, <1>14, <1>18, <1>19 DEF Extended
<1>24. QED
  BY <1>3, <1>6, <1>21, <1>22, <1>23, ActsFacts, HostKeeps

LEMMA NoCpuAttentionStep ==
  ASSUME NEW D, NEW ph, Acts(D, ph), NoCpuAttention PROVE FInv'
<1>1. PICK c, b, l : c = Head(host) /\ b = c.b /\ l = c.l
  OBVIOUS
<1>2. /\ c.f = "cpu_attention" /\ Returns /\ running[b].cdec = << >>
      /\ compute' = compute \o WaitFor(comm) /\ comm' = comm
      /\ UNCHANGED <<plane, cprfSwap, qkv, qkvCpu, oCpu, attnOut>>
  BY <1>1 DEF NoCpuAttention, HostOnly, Calling, Sub, buffers
<1>3. c.f \in LayerFs
  BY <1>2 DEF LayerFs
<1>4. b \in 1 .. 2 /\ l \in Layers
  BY <1>1, <1>3, ActsFacts, LayerCallIs
<1>5. PICK qh \in Boards : Plays(ph, c, qh) /\ Script(host', qh, Start) /\ SwapsKnown'
  BY <1>1, <1>2, ActsFacts, Called
<1>6. qh = With(ph, b, Phase("attended", l))
  BY <1>1, <1>2, <1>5, PlayCases
<1>7. \A k \in 1 .. 2 : k \in D => qh[k] = ph[k]
  <2>1. b \notin D
    BY <1>2, <1>4, ActsFacts
  <2>2. QED
    BY <1>4, <1>6, <2>1, ActsFacts, WithOthers
<1>8. OneMoving(qh)
  BY <1>4, <1>6, ActsFacts, MovesOn, PhaseFacts
<1>9. Extended(compute, compute', {"qkv", "postproj"})
  BY <1>2, ActsFacts, WaitBehind
<1>10. Extended(comm, comm', CopyOps)
  BY <1>2, ActsFacts, ExtendedNot
<1>11. QED
  BY <1>2, <1>5, <1>7, <1>8, <1>9, <1>10, HostGoesOn

LEMMA HostStepKeeps ==
  ASSUME FInv, HostStep PROVE FInv'
<1>1. PICK D, ph : Basics /\ At(D, ph)
  BY DEF FInv
<1>2. host # << >>
  BY DEF HostStep, ComputeWaitComm, Preproj, TransferQkv, LaunchAttention, CpuAttention,
         NoCpuAttention, SwapOutBlocks, Postproj, StageBlock, StoreStaged, FetchBlock, Calling
<1>3. Acts(D, ph)
  BY <1>1, <1>2 DEF Acts
<1>4. CASE ComputeWaitComm
  BY <1>3, <1>4, ComputeWaitCommStep
<1>5. CASE Preproj
  BY <1>3, <1>5, PreprojStep
<1>6. CASE TransferQkv
  BY <1>3, <1>6, TransferQkvStep
<1>7. CASE LaunchAttention
  BY <1>3, <1>7, LaunchAttentionStep
<1>8. CASE CpuAttention
  BY <1>3, <1>8, CpuAttentionStep
<1>9. CASE NoCpuAttention
  BY <1>3, <1>9, NoCpuAttentionStep
<1>10. CASE SwapOutBlocks
  BY <1>3, <1>10, SwapOutBlocksStep
<1>11. CASE Postproj
  BY <1>3, <1>11, PostprojStep
<1>12. CASE StageBlock
  BY <1>3, <1>12, StageBlockStep
<1>13. CASE StoreStaged
  BY <1>3, <1>13, StoreStagedStep
<1>14. CASE FetchBlock
  BY <1>3, <1>14, FetchBlockStep
<1>15. QED
  BY <1>4, <1>5, <1>6, <1>7, <1>8, <1>9, <1>10, <1>11, <1>12, <1>13, <1>14 DEF HostStep

LEMMA StartFacts ==
  Start \in Boards /\ Script(<< >>, Start, Start) /\ OneMoving(Start)
<1>1. Start \in Boards
  BY StartBoard, BoardFacts
<1>2. \A b \in 1 .. 2 : Start[b].at = "free"
  BY PhaseZero DEF Start
<1>3. QED
  BY <1>1, <1>2, ScriptNone DEF OneMoving

LEMMA InitFInv == Init => FInv
<1>1. SUFFICES ASSUME Init PROVE FInv
  OBVIOUS
<1>2. /\ host = << >> /\ compute = << >> /\ comm = << >>
      /\ qkv = <<Nothing, Nothing>> /\ attnOut = <<Nothing, Nothing>>
  BY <1>1 DEF Init
<1>3. PlaneInv
  BY <1>1, PlaneInit DEF Init
<1>4. TypedQueue(compute) /\ TypedQueue(comm) /\ Len(compute) = 0 /\ Len(comm) = 0 /\ Len(host) = 0
  BY <1>2, NoOps
<1>5. qkv = [b \in 1 .. 2 |-> qkv[b]] /\ attnOut = [b \in 1 .. 2 |-> attnOut[b]]
  BY <1>2
<1>6. SwapsKnown
  <2>1. \A i : i \notin 1 .. 0
    OBVIOUS
  <2>2. QED
    BY <1>4, <2>1 DEF SwapsKnown
<1>7. Basics
  BY <1>2, <1>3, <1>4, <1>5, <1>6 DEF Basics
<1>8. PICK D : D = Deciding
  OBVIOUS
<1>9. StreamInv(D, Start)
  BY <1>4, StreamAtFirst
<1>10. At(D, Start)
  BY <1>2, <1>8, <1>9, StartFacts DEF At
<1>11. QED
  BY <1>7, <1>10 DEF FInv

LEMMA AtEnd ==
  ASSUME NEW D, NEW ph, At(D, ph), host = << >> PROVE StreamInv(D, Start)
<1>1. ph = Start
  BY ScriptEnds DEF At
<1>2. QED
  BY <1>1 DEF At

LEMMA EndStep == ASSUME FInv, NEW finished, End(finished) PROVE FInv'
<1>1. PICK D, ph : Basics /\ At(D, ph)
  BY DEF FInv
<1>2. /\ host = << >> /\ compute = << >> /\ BM!UpdateAndFree(finished)
      /\ UNCHANGED <<host, compute, comm, cprfSwap, qkv, qkvCpu, oCpu, attnOut>>
  BY DEF End, buffers
<1>3. PlaneInv'
  BY <1>1, <1>2, PlaneUpdate DEF Basics
<1>4. Basics'
  BY <1>1, <1>2, <1>3 DEF Basics, TypedQueue, SwapsKnown, Queue
<1>5. PICK D2 : D2 = Deciding'
  OBVIOUS
<1>6. StreamInv(D, Start)
  BY <1>1, <1>2, AtEnd
<1>7. Len(compute') = 0 /\ Extended(comm, comm', CopyOps)
  BY <1>1, <1>2, NoOps, ExtendedNot DEF Basics
<1>8. StreamInv(D2, Start)'
  BY <1>2, <1>6, <1>7, StreamAtRest
<1>9. At(D2, Start)'
  <2>1. Script(host', Start, Start) /\ OneMoving(Start) /\ Start \in Boards
    BY <1>2, StartFacts
  <2>2. Script(host, Start, Start)'
    BY <2>1 DEF Script, Queue, Play, Start
  <2>3. QED
    BY <1>5, <1>8, <2>1, <2>2 DEF At
<1>10. QED
  BY <1>4, <1>9 DEF FInv

LEMMA CprfSwapIs ==
  ASSUME NEW s, HasRows(s[4].gpu), NEW b, b.cprf \in Seq(Ids), NEW len, NEW from
  PROVE  Queue(CprfSwap(s, b, len, from).src)
<1>1. CprfSwap(s, b, len, from).src = Pids(s[4].gpu.table, b.cprf)
  BY DEF CprfSwap
<1>2. QED
  BY <1>1, PidsQueue

LEMMA BeginStep == ASSUME FInv, NEW c, Begin(c) PROVE FInv'
<1>1. PICK D, ph : Basics /\ At(D, ph)
  BY DEF FInv
<1>2. PICK s, swaps, w, h : /\ s = Stages(c) /\ swaps = ConventionalSwaps(c, s)
                            /\ w = OnStream(swaps) /\ h = OnHost(swaps)
  OBVIOUS
<1>3. /\ BM!Prepare(c) /\ comm' = comm \o w /\ host' = h \o ForwardBatches(c.batches)
      /\ cprfSwap' = [k \in DOMAIN c.batches |-> CprfSwap(s, c.batches[k], lens', born')]
      /\ UNCHANGED <<compute, qkv, qkvCpu, oCpu, attnOut>>
  BY <1>2 DEF Begin, buffers
<1>4. pc = "idle" /\ pc' = "exec"
  BY <1>3 DEF BM!Prepare
<1>5. host = << >> /\ compute = << >>
  BY <1>1, <1>4 DEF Basics
<1>6. /\ PlaneInv' /\ HasRows(s[4].gpu)
      /\ c.swapOut \in Seq(Ids) /\ c.swapIn \in Seq(Ids)
      /\ Len(c.batches) \in {1, 2} /\ DOMAIN c.batches = 1 .. Len(c.batches)
      /\ \A k \in 1 .. Len(c.batches) : c.batches[k].cprf \in Seq(Ids)
  BY <1>1, <1>2, <1>3, PlanePrepare DEF Basics
<1>7. WholeSwaps(w) /\ BlockQueue(h)
  BY <1>1, <1>2, <1>6, ConventionalAreWhole, WholeSwapsOnStream, OnHostQueue DEF Basics
<1>8. Extended(comm, comm', CopyOps)
  BY <1>1, <1>3, <1>7, SwapOps, ExtendedBy DEF Basics
<1>9. PICK p, u : p = ForwardBatches(c.batches) /\ u = h \o p
  OBVIOUS
<1>10. Script(p, Start, Start) /\ NumberedUpTo(p, Len(c.batches))
  BY <1>6, <1>9, BatchesScript, BatchesNumbered
<1>11. Script(u, Start, Start)
  <2>1. Script(h, Start, Start)
    BY <1>7, StartFacts, BlockScript
  <2>2. QED
    BY <1>9, <1>10, <2>1, ScriptConcat
<1>12. ASSUME NEW i \in 1 .. Len(u), u[i].f = "swap_out" PROVE Queue(cprfSwap'[u[i].b].src)
  <2>1. Queue(h) /\ Queue(p) /\ \A k \in 1 .. Len(h) : h[k].f # "swap_out"
    BY <1>7, <1>10 DEF BlockQueue, BlockCalls, Script
  <2>2. Joined(h, p, u)
    BY <1>9, <2>1, QueueConcat
  <2>3. PICK k \in 1 .. Len(p) : i = Len(h) + k
    BY <1>12, <2>1, <2>2 DEF Joined
  <2>4. u[i] = p[k]
    BY <2>2, <2>3 DEF Joined
  <2>5. PICK b : b = u[i].b
    OBVIOUS
  <2>6. b \in 1 .. Len(c.batches)
    BY <1>10, <1>12, <2>4, <2>5 DEF NumberedUpTo
  <2>7. cprfSwap'[b] = CprfSwap(s, c.batches[b], lens', born')
    BY <1>3, <1>6, <2>6
  <2>8. PICK x, y : x = lens' /\ y = born'
    OBVIOUS
  <2>9. Queue(CprfSwap(s, c.batches[b], x, y).src)
    BY <1>6, <2>6, CprfSwapIs
  <2>10. QED
    BY <2>5, <2>7, <2>8, <2>9
<1>13. SwapsKnown'
  <2>1. host' = u
    BY <1>3, <1>9
  <2>2. QED
    BY <1>12, <2>1 DEF SwapsKnown, Queue
<1>14. TypedQueue(compute') /\ TypedQueue(comm')
  BY <1>1, <1>3, <1>8 DEF Basics, Extended
<1>15. TypedQueue(compute)' /\ TypedQueue(comm)'
  BY <1>14 DEF TypedQueue, Queue
<1>16. qkv' = [b \in 1 .. 2 |-> qkv'[b]] /\ attnOut' = [b \in 1 .. 2 |-> attnOut'[b]]
  BY <1>1, <1>3 DEF Basics
<1>17. Basics'
  BY <1>4, <1>6, <1>13, <1>15, <1>16 DEF Basics
<1>18. PICK D2 : D2 = Deciding'
  OBVIOUS
<1>19. StreamInv(D2, Start)'
  <2>1. Len(compute') = 0
    BY <1>3, <1>5, NoOps
  <2>2. StreamInv(D, Start)
    BY <1>1, <1>5, AtEnd
  <2>3. QED
    BY <1>8, <2>1, <2>2, StreamAtRest
<1>20. At(D2, Start)'
  <2>1. Script(host', Start, Start) /\ OneMoving(Start) /\ Start \in Boards
    BY <1>3, <1>9, <1>11, StartFacts
  <2>2. Script(host, Start, Start)'
    BY <2>1 DEF Script, Queue, Play, Start
  <2>3. QED
    BY <1>18, <1>19, <2>1, <2>2 DEF At
<1>21. QED
  BY <1>17, <1>20 DEF FInv

(* A step of a stream: the host and the control plane stay.                *)
LEMMA StreamKeeps ==
  ASSUME Basics, NEW D, NEW ph, At(D, ph), UNCHANGED <<plane, host, cprfSwap>>,
         TypedQueue(compute'), TypedQueue(comm'), compute = << >> => compute' = << >>,
         qkv' = [b \in 1 .. 2 |-> qkv'[b]], attnOut' = [b \in 1 .. 2 |-> attnOut'[b]],
         StreamInv(D, ph)'
  PROVE  FInv'
<1>1. PlaneInv'
  BY DEF Basics, PlaneInv, HasRows, plane
<1>2. pc' = "idle" => host' = << >> /\ compute' = << >>
  BY DEF Basics, plane
<1>3. TypedQueue(compute)' /\ TypedQueue(comm)'
  BY DEF TypedQueue, Queue
<1>4. SwapsKnown'
  BY DEF Basics, SwapsKnown
<1>5. Basics'
  BY <1>1, <1>2, <1>3, <1>4 DEF Basics
<1>6. D = Deciding' /\ OneMoving(ph) /\ ph \in Boards
  BY DEF At, Deciding, plane
<1>7. Script(host, ph, Start)'
  <2>1. Script(host', ph, Start)
    BY DEF At
  <2>2. QED
    BY <2>1 DEF Script, Queue, Play, Start
<1>8. At(D, ph)'
  BY <1>6, <1>7 DEF At
<1>9. QED
  BY <1>5, <1>8 DEF FInv

LEMMA RunComputeStep == ASSUME FInv, RunCompute PROVE FInv'
<1>1. PICK D, ph : Basics /\ At(D, ph)
  BY DEF FInv
<1>2. /\ Ready(compute) /\ compute' = Tail(compute) /\ comm' = OneLess(comm)
      /\ qkv' = IF Head(compute).op = "qkv"
                THEN [qkv EXCEPT ![Head(compute).b] = <<Head(compute).b, Head(compute).l>>] ELSE qkv
      /\ UNCHANGED <<plane, host, cprfSwap, qkvCpu, oCpu, attnOut>>
  BY DEF RunCompute
<1>3. /\ TypedQueue(compute) /\ TypedQueue(comm)
      /\ qkv = [b \in 1 .. 2 |-> qkv[b]] /\ attnOut = [b \in 1 .. 2 |-> attnOut[b]]
  BY <1>1 DEF Basics
<1>4. compute # << >> /\ (Head(compute).op = "wait" => Head(compute).left = 0)
  BY <1>2 DEF Ready
<1>5. Advanced(compute, compute') /\ Head(compute) = compute[1] /\ 1 \in 1 .. Len(compute)
  BY <1>2, <1>3, <1>4, AdvancedTail
<1>6. Nearer(comm, comm')
  BY <1>2, <1>3, NearerOneLess
<1>7. ph \in Boards /\ StreamInv(D, ph)
  BY <1>1 DEF At
<1>8. compute[1].op = "wait" => compute[1].left = 0
  BY <1>4, <1>5
<1>9. qkv' = IF compute[1].op = "qkv"
             THEN [qkv EXCEPT ![compute[1].b] = <<compute[1].b, compute[1].l>>] ELSE qkv
  BY <1>2, <1>5
<1>10. StreamInv(D, ph)'
  BY <1>2, <1>3, <1>5, <1>6, <1>7, <1>8, <1>9, StreamRunsCompute
<1>11. TypedQueue(compute') /\ TypedQueue(comm')
  BY <1>5, <1>6 DEF Advanced, Nearer
<1>12. qkv' = [b \in 1 .. 2 |-> qkv'[b]]
  BY <1>3, <1>9
<1>13. attnOut' = [b \in 1 .. 2 |-> attnOut'[b]]
  BY <1>2, <1>3
<1>14. QED
  BY <1>1, <1>2, <1>4, <1>10, <1>11, <1>12, <1>13, StreamKeeps

LEMMA RunCommStep == ASSUME FInv, RunComm PROVE FInv'
<1>1. PICK D, ph : Basics /\ At(D, ph)
  BY DEF FInv
<1>2. /\ Ready(comm) /\ comm' = Tail(comm) /\ compute' = OneLess(compute)
      /\ qkvCpu' = IF Head(comm).op = "copy_qkv" THEN qkv[Head(comm).b] ELSE qkvCpu
      /\ attnOut' = IF Head(comm).op = "copy_o"
                    THEN [attnOut EXCEPT ![Head(comm).b] = oCpu] ELSE attnOut
      /\ UNCHANGED <<plane, host, cprfSwap, qkv, oCpu>>
  BY DEF RunComm
<1>3. /\ TypedQueue(compute) /\ TypedQueue(comm)
      /\ qkv = [b \in 1 .. 2 |-> qkv[b]] /\ attnOut = [b \in 1 .. 2 |-> attnOut[b]]
  BY <1>1 DEF Basics
<1>4. comm # << >> /\ (Head(comm).op = "wait" => Head(comm).left = 0)
  BY <1>2 DEF Ready
<1>5. Advanced(comm, comm') /\ Head(comm) = comm[1] /\ 1 \in 1 .. Len(comm)
  BY <1>2, <1>3, <1>4, AdvancedTail
<1>6. Nearer(compute, compute')
  BY <1>2, <1>3, NearerOneLess
<1>7. ph \in Boards /\ StreamInv(D, ph)
  BY <1>1 DEF At
<1>8. comm[1].op = "wait" => comm[1].left = 0
  BY <1>4, <1>5
<1>9. /\ qkvCpu' = IF comm[1].op = "copy_qkv" THEN qkv[comm[1].b] ELSE qkvCpu
      /\ attnOut' = IF comm[1].op = "copy_o" THEN [attnOut EXCEPT ![comm[1].b] = oCpu] ELSE attnOut
  BY <1>2, <1>5
<1>10. StreamInv(D, ph)'
  BY <1>2, <1>3, <1>5, <1>6, <1>7, <1>8, <1>9, StreamRunsComm
<1>11. TypedQueue(compute') /\ TypedQueue(comm')
  BY <1>5, <1>6 DEF Advanced, Nearer
<1>12. attnOut' = [b \in 1 .. 2 |-> attnOut'[b]]
  BY <1>3, <1>9
<1>13. qkv' = [b \in 1 .. 2 |-> qkv'[b]]
  BY <1>2, <1>3
<1>14. compute = << >> => compute' = << >>
  <2>1. Len(compute') = Len(compute)
    BY <1>6 DEF Nearer
  <2>2. (Len(compute) = 0 <=> compute = << >>) /\ (Len(compute') = 0 <=> compute' = << >>)
    BY <1>3, <1>11, QueueFacts DEF TypedQueue
  <2>3. QED
    BY <2>1, <2>2
<1>15. QED
  BY <1>1, <1>2, <1>10, <1>11, <1>12, <1>13, <1>14, StreamKeeps

LEMMA StutterFInv == ASSUME FInv, UNCHANGED vars PROVE FInv'
<1>1. PICK D, ph : Basics /\ At(D, ph)
  BY DEF FInv
<1>2. UNCHANGED <<plane, host, cprfSwap, compute, comm, qkv, qkvCpu, oCpu, attnOut>>
  BY DEF vars, buffers
<1>3. /\ TypedQueue(compute) /\ TypedQueue(comm) /\ StreamInv(D, ph)
      /\ qkv = [b \in 1 .. 2 |-> qkv[b]] /\ attnOut = [b \in 1 .. 2 |-> attnOut[b]]
  BY <1>1 DEF Basics, At
<1>4. Extended(compute, compute', {"qkv", "postproj"}) /\ Extended(comm, comm', CopyOps)
  BY <1>2, <1>3, ExtendedNot
<1>5. StreamInv(D, ph)'
  BY <1>2, <1>3, <1>4, StreamGrows
<1>6. TypedQueue(compute') /\ TypedQueue(comm')
  BY <1>4 DEF Extended
<1>7. QED
  BY <1>1, <1>2, <1>3, <1>5, <1>6, StreamKeeps

LEMMA NextFInv == FInv /\ [Next]_vars => FInv'
<1>1. SUFFICES ASSUME FInv, [Next]_vars PROVE FInv'
  OBVIOUS
<1>2. CASE \E c \in Calls : Begin(c)
  BY <1>1, <1>2, BeginStep
<1>3. CASE HostStep
  BY <1>1, <1>3, HostStepKeeps
<1>4. CASE RunCompute
  BY <1>1, <1>4, RunComputeStep
<1>5. CASE RunComm
  BY <1>1, <1>5, RunCommStep
<1>6. CASE \E finished \in SUBSET Ids : End(finished)
  BY <1>1, <1>6, EndStep
<1>7. CASE UNCHANGED vars
  BY <1>1, <1>7, StutterFInv
<1>8. QED
  BY <1>1, <1>2, <1>3, <1>4, <1>5, <1>6, <1>7 DEF Next

LEMMA OutputsHaveArrived == FInv => OutputsArrive
<1>1. SUFFICES ASSUME FInv, compute # << >>, Head(compute).op = "postproj",
                      running[Head(compute).b].cdec # << >>
               PROVE  attnOut[Head(compute).b] = <<Head(compute).b, Head(compute).l>>
  BY DEF OutputsArrive
<1>2. PICK D, ph : Basics /\ At(D, ph)
  BY <1>1 DEF FInv
<1>3. PICK o, b, l : o = Head(compute) /\ b = o.b /\ l = o.l
  OBVIOUS
<1>4. TypedQueue(compute)
  BY <1>2 DEF Basics
<1>5. o = compute[1] /\ 1 \in 1 .. Len(compute)
  BY <1>1, <1>3, <1>4, AdvancedTail
<1>6. b \in 1 .. 2 /\ (b \in D => Arrives(b, l, 1))
  BY <1>1, <1>2, <1>3, <1>5 DEF At, StreamInv, OutputsUnderWay
<1>7. b \in D
  BY <1>1, <1>2, <1>3, <1>6 DEF At, Deciding
<1>8. \A j \in 1 .. Len(compute) : ~(j < 1)
  OBVIOUS
<1>9. attnOut[b] = <<b, l>>
  BY <1>6, <1>7, <1>8 DEF Arrives
<1>10. QED
  BY <1>3, <1>9

(* The output projection of a sub-batch with decodes on the CPU reads the  *)
(* outputs of its own layer's attention, not those of an earlier layer:    *)
(* the wait of the compute stream in _attention is enough, however far the *)
(* host runs ahead, for every number of layers, of batches and of          *)
(* iterations and every way of swapping.                                   *)
THEOREM OutputsInTime == Spec => []OutputsArrive
<1>1. FInv => OutputsArrive
  BY OutputsHaveArrived
<1>2. QED
  BY InitFInv, NextFInv, <1>1, PTL DEF Spec

(* The attention of the host, which starts when qkvtr_e has happened, then *)
(* finds in the pinned buffers the q, k and v of its own sub-batch and     *)
(* layer: one buffer and one event serve both sub-batches.                 *)
THEOREM QkvInTime == Spec => []QkvArrive
<1>1. FInv => QkvArrive
  <2>1. SUFFICES ASSUME FInv PROVE QkvArrive
    OBVIOUS
  <2>2. PICK D, ph : Basics /\ At(D, ph)
    BY <2>1 DEF FInv
  <2>3. CASE host # << >>
    BY <2>2, <2>3, QkvHaveArrived DEF Acts
  <2>4. CASE host = << >>
    BY <2>4 DEF QkvArrive, AttendsOnCpu, Calling
  <2>5. QED
    BY <2>3, <2>4
<1>2. QED
  BY InitFInv, NextFInv, <1>1, PTL DEF Spec
=============================================================================
