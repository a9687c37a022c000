---------------------------- MODULE LayerKernels ----------------------------
(***************************************************************************)
(* What the kernels of a forward pass read and write, by address           *)
(* (swiftllm/worker/layers, swiftllm/worker/kernels, csrc, pacpu).  A      *)
(* launch is a grid of programs; a program is described by the cells it    *)
(* reads and the values it stores, as functions of the memory of its rank. *)
(*                                                                         *)
(* A cell is <<buffer, sub-batch, index in the flat tensor>>.  The hidden  *)
(* dimension and head_dim are one cell wide, k and v share a cell.  A value*)
(* says what it was computed from: it is the set of the terms of a sum, so *)
(* that zero is the empty set.  Whatever is computed from operands that do *)
(* not belong together is Wrong, and so is memory nobody has set.          *)
(***************************************************************************)
EXTENDS BatchLayout, LayerCalls, Shards, KernelChecks, FiniteSets, FiniteSetsExt, TLC

CONSTANTS
  BlockSize,
  NumGpu, NumCpu,            \* blocks in a layer of either cache
  TileQ, TileK, MinTile,     \* BLOCK_Q, BLOCK_K and their lower bound
  Threads                    \* omp_get_max_threads()

ASSUME KernelsAssumption ==
  /\ {BlockSize, NumGpu, NumCpu, TileQ, TileK, MinTile, Threads} \subseteq Nat \ {0}
  /\ Threads <= MaxWs

Part(c, l, tok, u) == [c |-> c, l |-> l, tok |-> tok, u |-> u]
Wrong == Part("wrong", 0, <<0, 0>>, 0)

(* What a linear layer makes of the norm of the stream after n half-layers.*)
Derive(value, n, to, u) ==
  IF \E p \in value : value = {p} /\ p.c = "norm" /\ p.l = n
  THEN {Part(to, n \div 2, p.tok, u) : p \in value} ELSE {Wrong}

Program(reads, writes) == [reads |-> reads, writes |-> writes]
NoWork == Program({}, << >>)

(* Writes of one program; of two to a cell, which no kernel makes, either. *)
MergedWrites(writes) == FoldSet(LAMBDA f, g : f @@ g, << >>, writes)

(* One program that does the work of several.                              *)
Together(programs) ==
  Program(UNION {p.reads : p \in programs}, MergedWrites({p.writes : p \in programs}))

-----------------------------------------------------------------------------
(* The dimensions of the tensors of a rank of world w.                     *)

LocalQ(w) == RealSize(w.num_q_heads, w.world_size)
LocalKv(w) == RealSize(w.num_kv_heads, w.world_size)
LocalFfn(w) == RealSize(w.ffn_inter_dim, w.world_size)
LocalVocab(w) == RealSize(w.vocab_size, w.world_size)

(* The index in the whole model of a rank's i-th head, channel or token.   *)
Whole(w, rk, size, i) == Min(Shard(size, rk, w.world_size)) + i

Rows(b) == 0 .. (b.args.iter_width - 1)
X(w, k, row) == <<"x", 0, w.batches[k].offs + row>>
Residual(w, k, row) == <<"residual", 0, w.batches[k].offs + row>>
O(w, k, row, h) == <<"attn_out", 0, (w.batches[k].offs + row) * LocalQ(w) + h>>
Q(w, k, row, h) == <<"q", k, row * LocalQ(w) + h>>
KV(w, k, row, h) == <<"kv", k, row * LocalKv(w) + h>>
UG(w, k, row, c) == <<"up_gate", k, row * 2 * LocalFfn(w) + c>>
QCpu(w, i, h) == <<"q_cpu", 0, i * LocalQ(w) + h>>
KVCpu(w, i, h) == <<"kv_cpu", 0, i * LocalKv(w) + h>>
OCpu(w, i, h) == <<"o_cpu", 0, i * LocalQ(w) + h>>
Mid(w, k, i, h, sb) ==
  <<"mid_o", k, (i * LocalQ(w) + h) * w.batches[k].args.num_seq_blocks + sb>>
OBuf(w, t, h) == <<"o_buf", 0, t * LocalQ(w) + h>>
AttnScore(w, n, h) == <<"attn_score", 0, n * LocalQ(w) + h>>
AttnSum(w, t, h) == <<"attn_sum", 0, t * LocalQ(w) + h>>

Cached(w, dev, l, blk, h, off) ==
  <<dev, 0, ((l * (IF dev = "gpu" THEN NumGpu ELSE NumCpu) + blk) * LocalKv(w) + h) * BlockSize + off>>

GpuKV(w, l, id, h, pos) ==
  Cached(w, "gpu", l, w.gpu_block_table[id][pos \div BlockSize + 1], h, pos % BlockSize)
CpuKV(w, l, id, h, pos) ==
  Cached(w, "cpu", l, w.cpu_block_table[id][pos \div BlockSize + 1], h, pos % BlockSize)

(* A launch for a sub-batch with arguments a does not raise.               *)
Accepts(w, op, a) ==
  CASE op = "rotary" -> RotaryCompiled(LocalQ(w), LocalKv(w), w.head_dim)
    [] op = "store_kvcache" -> StoreCompiled(LocalKv(w), w.head_dim)
    [] op = "paged1" -> WholeSeqBlocks(a.seq_block_size, BlockSize)
    [] op = "cpu_store" ->
         HyperParamsExpected(w.library, LocalQ(w), LocalKv(w), NumLayers, w.head_dim, BlockSize)
    [] OTHER -> TRUE

ItmLayer(w, l) == IF w.extra_layer_for_cprf THEN NumLayers ELSE l

-----------------------------------------------------------------------------
(* Sums.                                                                   *)

(* The residual stream of a token after n half-layers, attention and FFN.  *)
Stream(w, tok, n) ==
  {Part("embedding", 0, tok, 0)} \cup
  {Part("attn", l, tok, h) : l \in 0 .. ((n + 1) \div 2 - 1), h \in 0 .. (w.num_q_heads - 1)} \cup
  {Part("ffn", l, tok, c) : l \in 0 .. (n \div 2 - 1), c \in 0 .. (w.ffn_inter_dim - 1)}

(* fused_add_rmsnorm_inplace on one row: residual := x + residual, and x   *)
(* := its norm, of use if that is the whole stream and nothing twice.      *)
AddNorm(w, m, x, residual, n) ==
  LET sum == m[x] \cup m[residual]
      good == /\ m[x] \cap m[residual] = {}
              /\ \E p \in sum : sum = Stream(w, p.tok, n)
      tok == (CHOOSE p \in sum : TRUE).tok
  IN Program({x, residual},
             residual :> sum @@ x :> (IF good THEN {Part("norm", n, tok, 0)} ELSE {Wrong}))

(* embedding(): tokens outside the rank's segment are left at zero.        *)
Embedding(w, rk, m, row) ==
  LET tok == w.tokens[row + 1]
      local == w.vocab_id[tok] - LocalVocab(w) * rk
      x == <<"x", 0, row>>
  IN IF local < 0 \/ local >= LocalVocab(w) THEN NoWork
     ELSE Program({}, x :> (IF Whole(w, rk, w.vocab_size, local) = w.vocab_id[tok]
                            THEN {Part("embedding", 0, tok, 0)} ELSE {Wrong}))

Qkv(w, rk, m, k, l, row) ==
  LET x == m[X(w, k, row)]
      q(h) == Derive(x, 2 * l, "q_raw", Whole(w, rk, w.num_q_heads, h))
      kv(h) == Derive(x, 2 * l, "kv_raw", Whole(w, rk, w.num_kv_heads, h))
  IN Program({X(w, k, row)},
       MergedWrites({Q(w, k, row, h) :> q(h) : h \in 0 .. (LocalQ(w) - 1)} \cup
                    {KV(w, k, row, h) :> kv(h) : h \in 0 .. (LocalKv(w) - 1)}))

(* A sum over the columns a rank holds of w.o_proj or w.down_proj.         *)
PartialSum(w, m, cells, c, l, to, firstUnit) ==
  IF \E p \in UNION {m[cell] : cell \in cells} :
       UNION {m[cell] : cell \in cells} =
         {Part(c, l, p.tok, firstUnit + i) : i \in 0 .. (Cardinality(cells) - 1)}
  THEN {Part(to, l, p.tok, p.u) : p \in UNION {m[cell] : cell \in cells}} ELSE {Wrong}

OProj(w, rk, m, k, l, row) ==
  LET cells == {O(w, k, row, h) : h \in 0 .. (LocalQ(w) - 1)}
  IN Program(cells, X(w, k, row) :>
       PartialSum(w, m, cells, "o", l, "attn", Whole(w, rk, w.num_q_heads, 0)))

(* linear with up_gate_proj = cat(up_proj, gate_proj).                     *)
UpGate(w, rk, m, k, l, row) ==
  LET n == LocalFfn(w)
      value(to, c) == Derive(m[X(w, k, row)], 2 * l + 1, to, Whole(w, rk, w.ffn_inter_dim, c))
  IN Program({X(w, k, row)},
       MergedWrites({UG(w, k, row, c) :> value("up", c) : c \in 0 .. (n - 1)} \cup
                    {UG(w, k, row, n + c) :> value("gate", c) : c \in 0 .. (n - 1)}))

(* silu_and_mul_inplace, one block of channels.                            *)
Silu(w, m, k, l, row, c) ==
  LET up == UG(w, k, row, c)
      gate == UG(w, k, row, c + LocalFfn(w))
  IN Program({up, gate}, up :>
       (IF \E p \in m[up] : p.c = "up" /\ m[up] = {p} /\ m[gate] = {[p EXCEPT !.c = "gate"]}
        THEN {[p EXCEPT !.c = "act"] : p \in m[up]} ELSE {Wrong}))

Down(w, rk, m, k, l, row) ==
  LET cells == {UG(w, k, row, c) : c \in 0 .. (LocalFfn(w) - 1)}
  IN Program(cells, X(w, k, row) :>
       PartialSum(w, m, cells, "act", l, "ffn", Whole(w, rk, w.ffn_inter_dim, 0)))

-----------------------------------------------------------------------------
(* Rotary embedding: a program per row and k/v head.                       *)

Turned(m, cell, raw, to, pos) ==
  IF \E p \in m[cell] : m[cell] = {p} /\ p.c = raw /\ p.tok[2] = pos
  THEN {[p EXCEPT !.c = to] : p \in m[cell]} ELSE {Wrong}

(* Mutant: the group of q heads is found with the k/v heads' stride.       *)
RotatedQOverlapping(w, k, row, kvh) ==
  LET G == LocalQ(w) \div LocalKv(w)
  IN {Q(w, k, row, kvh + j) : j \in 0 .. (G - 1)}

RotatedQ(w, k, row, kvh) ==
  LET G == LocalQ(w) \div LocalKv(w)
  IN {Q(w, k, row, kvh * G + j) : j \in 0 .. (G - 1)}

Rotary(w, m, k, row, kvh) ==
  LET pos == w.batches[k].position_indices[row + 1]
      kv == KV(w, k, row, kvh)
      qs == RotatedQ(w, k, row, kvh)
  IN Program(qs \cup {kv},
       MergedWrites({kv :> Turned(m, kv, "kv_raw", "kv", pos)} \cup
                    {q :> Turned(m, q, "q_raw", "q", pos) : q \in qs}))

-----------------------------------------------------------------------------
(* Attention.                                                              *)

(* Attention of the query in cell q over n keys and values.                *)
Attended(m, q, kv, n) == IF Cardinality(kv) = n THEN m[q] \cup kv ELSE {Wrong}

AttendedTo(m, q, cells) == Attended(m, q, UNION {m[c] : c \in cells}, Cardinality(cells))

(* The query has met every token up to its own, once, at its own head.     *)
Output(w, seen) ==
  IF \E q \in seen : q.c = "q" /\
       seen = {q} \cup {Part("kv", q.l, <<q.tok[1], p>>, KvHead(q.u, w.num_q_heads, w.num_kv_heads)) :
                          p \in 0 .. q.tok[2]}
  THEN {Part("o", q.l, q.tok, q.u) : q \in {x \in seen : x.c = "q"}} ELSE {Wrong}

(* Partial results are put together: each has the query, none shares a key.*)
Merged(m, cells) ==
  LET keys(c) == {p \in m[c] : p.c # "q"}
  IN IF \E c, d \in cells : c # d /\ keys(c) \cap keys(d) # {} THEN {Wrong}
     ELSE UNION {m[c] : c \in cells}

(* Mutant: every prompt goes to the intermediate layer.                    *)
StoreLayerAlwaysItm(w, a, l, i) == ItmLayer(w, l)

StoreLayer(w, a, l, i) == IF i < a.num_cprfs THEN ItmLayer(w, l) ELSE l

(* store_kvcache: block pos of the i-th prompt, all heads.                 *)
StoreKv(w, m, k, l, i, pos) ==
  LET b == w.batches[k]
      len == b.args.seq_lens[i + 1]
      layer == StoreLayer(w, b.args, l, i)
      blk == w.gpu_block_table[b.args.seq_ids[i + 1]][pos + 1]
      row(x) == b.st_locs[i + 1] + pos * BlockSize + x
      offs == {x \in 0 .. (BlockSize - 1) : pos * BlockSize + x < len}
      heads == 0 .. (LocalKv(w) - 1)
  IN IF pos * BlockSize >= len THEN NoWork
     ELSE Program({KV(w, k, row(x), h) : x \in offs, h \in heads},
            MergedWrites({Cached(w, "gpu", layer, blk, h, x) :> m[KV(w, k, row(x), h)] :
                            x \in offs, h \in heads}))

(* flash_attn's varlen_fwd: a program per prompt and query head.           *)
Flash(w, m, k, i, h) ==
  LET b == w.batches[k]
      rows == b.st_locs[i + 1] .. (b.st_locs[i + 2] - 1)
      kvh == KvHead(h, LocalQ(w), LocalKv(w))
      past(row) == {KV(w, k, r, kvh) : r \in {s \in rows : s <= row}}
  IN Program({Q(w, k, row, h) : row \in rows} \cup {KV(w, k, row, kvh) : row \in rows},
       MergedWrites({O(w, k, row, h) :> Output(w, AttendedTo(m, Q(w, k, row, h), past(row))) :
                       row \in rows}))

NextPowerOf2(n) == LET f[p \in 1 .. 2 * n] == IF p >= n THEN p ELSE f[2 * p] IN f[1]
Tile(size, b) ==
  LET fit == NextPowerOf2(IF b.args.max_pref_toks > MinTile THEN b.args.max_pref_toks ELSE MinTile)
  IN IF fit < size THEN fit ELSE size

Steps(from, to, by) == {n \in from .. (to - 1) : (n - from) % by = 0}

(* Mutant: the columns past the end of the prompt are not masked.          *)
KeysLoadedUnmasked(start, BQ, BK, len) ==
  {s + j : s \in Steps(0, start + BQ, BK), j \in 0 .. (BK - 1)}

(* The keys a program of prefill_attn loads: all before its queries, then, *)
(* under a mask, those beside them.                                        *)
KeysLoaded(start, BQ, BK, len) ==
  {s + j : s \in Steps(0, start, BK), j \in 0 .. (BK - 1)} \cup
  {n \in {s + j : s \in Steps(start, start + BQ, BK), j \in 0 .. (BK - 1)} : n < len}

(* _fwd_prefill_attention, with the numbers of heads of the whole model.   *)
Prefill(w, m, k, i, h, qb) ==
  LET b == w.batches[k]
      BQ == Tile(TileQ, b)
      len == b.args.seq_lens[i + 1]
      st == b.st_locs[i + 1]
      mine == {n \in qb * BQ .. (qb * BQ + BQ - 1) : n < len}
      kvh == KvHead(h, w.num_q_heads, w.num_kv_heads)
      q(n) == <<"q", k, (st + n) * w.num_q_heads + h>>
      kv(n) == <<"kv", k, (st + n) * w.num_kv_heads + kvh>>
      o(n) == <<"attn_out", 0, (b.offs + st + n) * w.num_q_heads + h>>
      keys == KeysLoaded(qb * BQ, BQ, Tile(TileK, b), len)
  IN IF qb * BQ >= len THEN NoWork
     ELSE Program({q(n) : n \in mine} \cup {kv(n) : n \in keys},
            MergedWrites({o(n) :> Output(w, AttendedTo(m, q(n),
                            {kv(x) : x \in {y \in keys : y < qb * BQ \/ (y < len /\ y <= n)}})) :
                            n \in mine}))

-----------------------------------------------------------------------------
(* Paged attention on the GPU.                                             *)

(* Phase 1: a program per decoding sequence, query head and sequence block.*)
(* The last block's program stores the newest token before it loads, and   *)
(* masks what lies behind it; the others take all of their blocks.         *)
Paged1(w, m, k, l, i, h, sb) ==
  LET b == w.batches[k]
      a == b.args
      row == a.sum_pref_toks + i
      id == a.seq_ids[a.num_prefs + i + 1]
      len == a.seq_lens[a.num_prefs + i + 1]
      start == sb * a.seq_block_size
      last == start + a.seq_block_size >= len
      kvh == KvHead(h, LocalQ(w), LocalKv(w))
      cell(p) == GpuKV(w, l, id, kvh, p)
      new == KV(w, k, row, kvh)
      stored == IF last THEN cell(len - 1) :> m[new] ELSE << >>
      perSeq == a.seq_block_size \div BlockSize
      blocks == sb * perSeq .. (sb * perSeq + (IF last THEN CeilDiv(len - start, BlockSize) ELSE perSeq) - 1)
      loaded == UNION {j * BlockSize .. ((j + 1) * BlockSize - 1) : j \in blocks}
      met == IF last THEN {p \in loaded : p < len} ELSE loaded
      seen == Attended(m, Q(w, k, row, h), UNION {(stored @@ m)[cell(p)] : p \in met}, Cardinality(met))
  IN IF start >= len THEN NoWork
     ELSE Program({Q(w, k, row, h)} \cup (IF last THEN {new} ELSE {}) \cup
                    ({cell(p) : p \in loaded} \ DOMAIN stored),
            Mid(w, k, i, h, sb) :> seen @@ stored)

(* Phase 2: the results of the sequence blocks are put together.           *)
Paged2(w, m, k, i, h) ==
  LET a == w.batches[k].args
      len == a.seq_lens[a.num_prefs + i + 1]
      mids == {Mid(w, k, i, h, sb) : sb \in 0 .. (CeilDiv(len, a.seq_block_size) - 1)}
  IN Program(mids, O(w, k, a.sum_pref_toks + i, h) :> Output(w, Merged(m, mids)))

-----------------------------------------------------------------------------
(* INT8 (worker/quantize.py).  A code is of use with the scale it was made *)
(* with, which is named by the values whose maximum it is; the code of     *)
(* zero is zero with any.                                                  *)

ScaleCell(cell) == <<"cpu_scales", cell[2], cell[3]>>

(* reduce_dims: the cells <<head, token>> of a block that have one scale.  *)
ScaleGroup(granularity, block, c) ==
  IF granularity = "per-channel" THEN {d \in DOMAIN block : d[1] = c[1]} ELSE {c}

Coded(value, group) ==
  [code |-> IF value = {} THEN {} ELSE {[c |-> "int8", value |-> value, scale |-> group]},
   scale |-> {[c |-> "scale", of |-> group]}]

QuantizeInt8(block, granularity) ==
  [c \in DOMAIN block |->
     Coded(block[c], {block[d] : d \in ScaleGroup(granularity, block, c)})]

DequantizeInt8(code, scale) ==
  IF code = {} THEN {}
  ELSE IF \E q \in code : q.c = "int8" /\ scale = {[c |-> "scale", of |-> q.scale]}
  THEN (CHOOSE q \in code : TRUE).value ELSE {Wrong}

(* The keys and values an attention on the CPU finds in a cell.            *)
CpuValue(w, m, cell) ==
  IF w.int8_cpu_kv THEN DequantizeInt8(m[cell], m[ScaleCell(cell)]) ELSE m[cell]

-----------------------------------------------------------------------------
(* Attention on the CPU (pacpu/core.h): the i-th of the last num_cdecs     *)
(* sequences of the batch.                                                 *)

CpuSeq(a, i) == [id |-> a.seq_ids[a.num_prgds + i + 1], len |-> a.seq_lens[a.num_prgds + i + 1]]

(* The copies of _transfer_qkv and of the outputs back.                    *)
CopyQkv(w, m, k, i) ==
  LET a == w.batches[k].args
      row == a.iter_width - a.num_cdecs + i
      q == 0 .. (LocalQ(w) - 1)
      kv == 0 .. (LocalKv(w) - 1)
  IN Program({Q(w, k, row, h) : h \in q} \cup {KV(w, k, row, h) : h \in kv},
       MergedWrites({QCpu(w, i, h) :> m[Q(w, k, row, h)] : h \in q} \cup
                    {KVCpu(w, i, h) :> m[KV(w, k, row, h)] : h \in kv}))

CopyO(w, m, k, i) ==
  LET a == w.batches[k].args
      row == a.iter_width - a.num_cdecs + i
      heads == 0 .. (LocalQ(w) - 1)
  IN Program({OCpu(w, i, h) : h \in heads},
       MergedWrites({O(w, k, row, h) :> m[OCpu(w, i, h)] : h \in heads}))

(* The sequences thread t stores and gathers for.                          *)
Mine(a, t) ==
  LET size == (a.num_cdecs - 1) \div Threads + 1
  IN {i \in 0 .. (a.num_cdecs - 1) : t * size <= i /\ i < (t + 1) * size}

(* brute::store_kv and brute::store_kv_int8, which quantizes by token.     *)
Stored(w, value, cell) ==
  LET coded == Coded(value, {value})
  IN IF w.int8_cpu_kv THEN cell :> coded.code @@ ScaleCell(cell) :> coded.scale ELSE cell :> value

CpuStore(w, m, k, l, t) ==
  LET a == w.batches[k].args
      heads == 0 .. (LocalKv(w) - 1)
      cell(i, h) == CpuKV(w, l, CpuSeq(a, i).id, h, CpuSeq(a, i).len - 1)
  IN Program({KVCpu(w, i, h) : i \in Mine(a, t), h \in heads},
       MergedWrites({Stored(w, m[KVCpu(w, i, h)], cell(i, h)) : i \in Mine(a, t), h \in heads}))

(* The blocks of all sequences, one after the other, are dealt to the      *)
(* threads; a task is what one thread has of one sequence.                 *)
FirstBlocks(a) ==
  [i \in 0 .. a.num_cdecs |-> Total([j \in 1 .. i |-> CeilDiv(CpuSeq(a, j - 1).len, BlockSize)])]

FirstOfThread(tot, t) ==
  t * (tot \div Threads) + (IF t < tot % Threads THEN t ELSE tot % Threads)

TaskStarts(a, first) ==
  LET tot == first[a.num_cdecs]
  IN {g \in {first[i] : i \in 0 .. (a.num_cdecs - 1)} \cup
            {FirstOfThread(tot, t) : t \in 0 .. (Threads - 1)} : g < tot}

Task(a, first, starts, g) ==
  LET tot == first[a.num_cdecs]
      i == CHOOSE i \in 0 .. (a.num_cdecs - 1) : first[i] <= g /\ g < first[i + 1]
      end == Min({s \in starts \cup {tot} : s > g})
  IN [n |-> Cardinality({s \in starts : s < g}), seq |-> i,
      thread |-> CHOOSE t \in 0 .. (Threads - 1) :
                   FirstOfThread(tot, t) <= g /\ g < FirstOfThread(tot, t + 1),
      from |-> (g - first[i]) * BlockSize,
      cum |-> Total([j \in 1 .. i |-> CpuSeq(a, j - 1).len]) + (g - first[i]) * BlockSize,
      to |-> Min({(end - first[i]) * BlockSize, CpuSeq(a, i).len})]

TasksFrom(a, first, starts) == {Task(a, first, starts, g) : g \in starts}
Tasks(a) == TasksFrom(a, FirstBlocks(a), TaskStarts(a, FirstBlocks(a)))

TaskTarget(w, a, task, h) ==
  IF task.to - task.from = CpuSeq(a, task.seq).len THEN OCpu(w, task.seq, h) ELSE OBuf(w, task.n, h)

(* attn_one_seq, one head: the scores, the sum of their exponentials, and  *)
(* the output.                                                             *)
CpuTask(w, m, a, l, task, h) ==
  LET q == QCpu(w, task.seq, h)
      mine == task.from .. (task.to - 1)
      cell(p) == CpuKV(w, l, CpuSeq(a, task.seq).id, KvHead(h, LocalQ(w), LocalKv(w)), p)
      cells == {cell(p) : p \in mine}
      scales == IF w.int8_cpu_kv THEN {ScaleCell(c) : c \in cells} ELSE {}
      score(p) == AttnScore(w, task.cum + p - task.from, h) :> (m[q] \cup CpuValue(w, m, cell(p)))
      seen == Attended(m, q, UNION {CpuValue(w, m, c) : c \in cells}, Cardinality(mine))
      to == TaskTarget(w, a, task, h)
  IN Program({q} \cup cells \cup scales,
       MergedWrites({score(p) : p \in mine} \cup
                    {AttnSum(w, task.n, h) :> seen,
                     to :> (IF to[1] = "o_cpu" THEN Output(w, seen) ELSE seen)}))

CpuTasks(w, m, k, l, t) ==
  LET a == w.batches[k].args
  IN Together({CpuTask(w, m, a, l, task, h) :
                 task \in {x \in Tasks(a) : x.thread = t}, h \in 0 .. (LocalQ(w) - 1)})

(* gather_output_one_seq, for sequences of more than one task: the sums,   *)
(* made relative to the sum of all, are the weights of the outputs.        *)
GatherOutput(w, m, tasks, i, h) ==
  LET parts == {OBuf(w, task.n, h) : task \in tasks}
      sums == {AttnSum(w, task.n, h) : task \in tasks}
      weighed == \A task \in tasks : m[OBuf(w, task.n, h)] = m[AttnSum(w, task.n, h)]
  IN IF Cardinality(tasks) > 1
     THEN Program(parts \cup sums,
            [c \in sums |-> Merged(m, sums)] @@
            OCpu(w, i, h) :> (IF weighed THEN Output(w, Merged(m, parts)) ELSE {Wrong}))
     ELSE NoWork

CpuGather(w, m, k, t) ==
  LET a == w.batches[k].args
  IN Together({GatherOutput(w, m, {x \in Tasks(a) : x.seq = i}, i, h) :
                 i \in Mine(a, t), h \in 0 .. (LocalQ(w) - 1)})

-----------------------------------------------------------------------------
(* Swaps of one block: from layer gl of the GPU to layer cl of the CPU if  *)
(* out, else the other way.                                                *)

Offsets == 0 .. (BlockSize - 1)
BlockCells(w, dev, l, blk) ==
  [h \in 0 .. (LocalKv(w) - 1), x \in Offsets |-> Cached(w, dev, l, blk, h, x)]

(* values[c] is what to[c] is to hold.                                     *)
Transfer(reads, to, values) ==
  Program(reads, MergedWrites({to[c] :> values[c] : c \in DOMAIN to}))

(* swiftllm_c.swap_blocks                                                  *)
SwapFp16(m, from, to) ==
  Transfer({from[c] : c \in DOMAIN from}, to, [c \in DOMAIN to |-> m[from[c]]])

(* --int8-transfer: codes and scales are not stored on either side.        *)
SwapInt8(w, m, from, to) ==
  LET wire == QuantizeInt8([c \in DOMAIN from |-> m[from[c]]], w.quant_granularity)
  IN Transfer({from[c] : c \in DOMAIN from}, to,
              [c \in DOMAIN to |-> DequantizeInt8(wire[c].code, wire[c].scale)])

(* --int8-cpu-kv                                                           *)
SwapInt8CpuKv(w, m, out, gpu, cpu) ==
  LET block == QuantizeInt8([c \in DOMAIN gpu |-> m[gpu[c]]], w.quant_granularity)
      scales == [c \in DOMAIN cpu |-> ScaleCell(cpu[c])]
  IN IF out
     THEN Program({gpu[c] : c \in DOMAIN gpu},
            MergedWrites({cpu[c] :> block[c].code @@ scales[c] :> block[c].scale : c \in DOMAIN cpu}))
     ELSE Transfer({cpu[c] : c \in DOMAIN cpu} \cup {scales[c] : c \in DOMAIN cpu}, gpu,
                   [c \in DOMAIN gpu |-> DequantizeInt8(m[cpu[c]], m[scales[c]])])

SwapBlock(w, m, out, gl, cl, src, dst) ==
  LET gpu == BlockCells(w, "gpu", gl, IF out THEN src ELSE dst)
      cpu == BlockCells(w, "cpu", cl, IF out THEN dst ELSE src)
      from == IF out THEN gpu ELSE cpu
      to == IF out THEN cpu ELSE gpu
  IN IF w.int8_cpu_kv THEN SwapInt8CpuKv(w, m, out, gpu, cpu)
     ELSE IF w.int8_transfer THEN SwapInt8(w, m, from, to)
     ELSE SwapFp16(m, from, to)

(* _swap_out_blocks: the prompts bound for the CPU, one block.             *)
SwapOut(w, m, k, l, j) ==
  SwapBlock(w, m, TRUE, ItmLayer(w, l), l, w.src_blk_ids[k][j], w.dst_blk_ids[k][j])

(* do_one_iteration's swap of a layer, one block.                          *)
SwapSequences(w, m, l, j) ==
  SwapBlock(w, m, w.swappings.is_swap_out, l, l, w.swappings.src[j], w.swappings.dst[j])

-----------------------------------------------------------------------------
(* The post-layer.                                                         *)

Y(i) == <<"y", 0, i>>
YResidual(i) == <<"y_residual", 0, i>>
Logit(w, i, v) == <<"logits", 0, i * LocalVocab(w) + v>>

Select(w, m, i) ==
  LET row == AllLastTokens(w.batches)[i + 1]
      x == <<"x", 0, row>>
      residual == <<"residual", 0, row>>
  IN Program({x, residual}, Y(i) :> m[x] @@ YResidual(i) :> m[residual])

FinalNorm(w, m, i) == AddNorm(w, m, Y(i), YResidual(i), 2 * NumLayers)

LmHead(w, rk, m, i) ==
  Program({Y(i)},
    MergedWrites({Logit(w, i, v) :> Derive(m[Y(i)], 2 * NumLayers, "logit",
                                           Whole(w, rk, w.vocab_size, v)) :
                    v \in 0 .. (LocalVocab(w) - 1)}))
=============================================================================
