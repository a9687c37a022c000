---------------------------- MODULE ModelWorkers ----------------------------
(***************************************************************************)
(* One iteration of the workers of a model (swiftllm/worker/model.py,      *)
(* layers/*.py, server/executor.py): every rank of a tensor parallel model *)
(* runs the same sequence of launches on its shard and its own memory.     *)
(* The programs of a launch run in any order, launches one after the other *)
(* (module ForwardPass is about the streams that see to that).  Ranks are  *)
(* independent but for the collective operations, where all of them meet.  *)
(***************************************************************************)
EXTENDS LayerKernels

CONSTANT Worlds   \* the models, batches and block tables to run

VARIABLES
  world,     \* one of Worlds
  program,   \* the launches of every rank
  mem,       \* the memory of every rank
  at,        \* the launch a rank has reached
  todo,      \* the programs of it that have not run
  raised,    \* the ranks that have raised an exception
  returned   \* what the executor returned: the tokens

vars == <<world, program, mem, at, todo, raised, returned>>

-----------------------------------------------------------------------------
(* The batches, as the executor hands them to the workers: with one worker *)
(* they are the engine's own, otherwise Ray sends each its state.          *)

Received(ws, args) ==
  IF ws = 1 THEN args
  ELSE [k \in DOMAIN args |-> [args[k] EXCEPT !.all_reqs = [i \in DOMAIN @ |-> GetState(@[i])]]]

-----------------------------------------------------------------------------
(* The launches.                                                           *)

Launch(op, k, l) == [op |-> op, b |-> k, l |-> l]
When(cond, launches) == IF cond THEN launches ELSE << >>

MaybeAllReduce(w, k, l) == When(w.world_size > 1, <<Launch("all_reduce", k, l)>>)

Preproj(w, k, l) ==
  MaybeAllReduce(w, k, l) \o
  <<Launch("attn_norm", k, l), Launch("qkv", k, l), Launch("rotary", k, l)>> \o
  When(w.batches[k].args.num_prefs > 0, <<Launch("store_kvcache", k, l)>>)

LaunchAttention(w, k, l) ==
  When(w.batches[k].args.num_prefs > 0, <<Launch(IF w.flash THEN "flash" ELSE "prefill", k, l)>>) \o
  When(w.batches[k].args.num_gdecs > 0, <<Launch("paged1", k, l), Launch("paged2", k, l)>>)

CpuAttention(w, k, l) ==
  When(w.batches[k].args.num_cdecs > 0,
       <<Launch("cpu_store", k, l), Launch("cpu_tasks", k, l), Launch("cpu_gather", k, l),
         Launch("copy_o", k, l)>>)

Postproj(w, k, l) ==
  <<Launch("o_proj", k, l)>> \o MaybeAllReduce(w, k, l) \o
  <<Launch("ffn_norm", k, l), Launch("up_gate", k, l), Launch("silu", k, l), Launch("down", k, l)>>

Launched(w, call) ==
  CASE call.f = "preproj" -> Preproj(w, call.b, call.l)
    [] call.f = "transfer_qkv" ->
         When(w.batches[call.b].args.num_cdecs > 0, <<Launch("copy_qkv", call.b, call.l)>>)
    [] call.f = "launch_attention" -> LaunchAttention(w, call.b, call.l)
    [] call.f = "cpu_attention" -> CpuAttention(w, call.b, call.l)
    [] call.f = "swap_out" ->
         When(w.batches[call.b].args.num_cprfs > 0, <<Launch("swap_out", call.b, call.l)>>)
    [] call.f = "postproj" -> Postproj(w, call.b, call.l)
    [] OTHER -> << >>

(* Mutant: only rank 0, which needs the logits, calls gather.              *)
PostLayerGatherAtRoot(w, rk) ==
  <<Launch("select", 0, 0)>> \o When(w.world_size > 1, <<Launch("reduce_last", 0, 0)>>) \o
  <<Launch("final_norm", 0, 0), Launch("lm_head", 0, 0)>> \o
  When(w.world_size > 1 /\ rk = 0, <<Launch("gather", 0, 0)>>)

PostLayer(w, rk) ==
  <<Launch("select", 0, 0)>> \o When(w.world_size > 1, <<Launch("reduce_last", 0, 0)>>) \o
  <<Launch("final_norm", 0, 0), Launch("lm_head", 0, 0)>> \o
  When(w.world_size > 1, <<Launch("gather", 0, 0)>>)

ForwardLaunches(w, rk) ==
  LET calls == ForwardBatches(w.batches)
  IN FlattenSeq([l \in 1 .. NumLayers |-> When(w.swappings.src # << >>, <<Launch("swap", 0, l - 1)>>)]) \o
     <<Launch("embedding", 0, 0)>> \o
     FlattenSeq([i \in DOMAIN calls |-> Launched(w, calls[i])]) \o PostLayer(w, rk)

Collectives == {"all_reduce", "reduce_last", "gather"}

-----------------------------------------------------------------------------
(* The programs of a launch, and what each does.                           *)

AllRows(w) == 0 .. (Total([k \in DOMAIN w.batches |-> w.batches[k].args.iter_width]) - 1)
LastRows(w) == 0 .. (Len(AllLastTokens(w.batches)) - 1)
Below(n) == 0 .. (n - 1)

Grid(w, launch) ==
  IF launch.op = "embedding" THEN {<<row>> : row \in AllRows(w)}
  ELSE IF launch.op = "swap" THEN {<<j>> : j \in DOMAIN w.swappings.src}
  ELSE IF launch.op \in {"select", "final_norm", "lm_head"} THEN {<<i>> : i \in LastRows(w)}
  ELSE IF launch.op \in Collectives THEN {}
  ELSE
  LET b == w.batches[launch.b]
      a == b.args
      prompts == Below(a.num_prefs)
  IN CASE launch.op \in {"attn_norm", "qkv", "o_proj", "ffn_norm", "up_gate", "down"} ->
            {<<row>> : row \in Rows(b)}
       [] launch.op = "rotary" -> Rows(b) \X Below(LocalKv(w))
       [] launch.op = "silu" -> Rows(b) \X Below(LocalFfn(w))
       [] launch.op = "store_kvcache" -> prompts \X Below(CeilDiv(a.max_pref_toks, BlockSize))
       [] launch.op = "flash" -> prompts \X Below(LocalQ(w))
       [] launch.op = "prefill" ->
            prompts \X Below(w.num_q_heads) \X Below(CeilDiv(a.max_pref_toks, Tile(TileQ, b)))
       [] launch.op = "paged1" -> Below(a.num_gdecs) \X Below(LocalQ(w)) \X Below(a.num_seq_blocks)
       [] launch.op = "paged2" -> Below(a.num_gdecs) \X Below(LocalQ(w))
       [] launch.op \in {"copy_qkv", "copy_o"} -> {<<i>> : i \in Below(a.num_cdecs)}
       [] launch.op \in {"cpu_store", "cpu_tasks", "cpu_gather"} -> {<<t>> : t \in Below(Threads)}
       [] launch.op = "swap_out" -> {<<j>> : j \in DOMAIN w.src_blk_ids[launch.b]}

Effect(w, rk, m, launch, p) ==
  LET k == launch.b
      l == launch.l
  IN CASE launch.op = "swap" -> SwapSequences(w, m, l, p[1])
       [] launch.op = "embedding" -> Embedding(w, rk, m, p[1])
       [] launch.op = "attn_norm" -> AddNorm(w, m, X(w, k, p[1]), Residual(w, k, p[1]), 2 * l)
       [] launch.op = "qkv" -> Qkv(w, rk, m, k, l, p[1])
       [] launch.op = "rotary" -> Rotary(w, m, k, p[1], p[2])
       [] launch.op = "store_kvcache" -> StoreKv(w, m, k, l, p[1], p[2])
       [] launch.op = "flash" -> Flash(w, m, k, p[1], p[2])
       [] launch.op = "prefill" -> Prefill(w, m, k, p[1], p[2], p[3])
       [] launch.op = "paged1" -> Paged1(w, m, k, l, p[1], p[2], p[3])
       [] launch.op = "paged2" -> Paged2(w, m, k, p[1], p[2])
       [] launch.op = "copy_qkv" -> CopyQkv(w, m, k, p[1])
       [] launch.op = "cpu_store" -> CpuStore(w, m, k, l, p[1])
       [] launch.op = "cpu_tasks" -> CpuTasks(w, m, k, l, p[1])
       [] launch.op = "cpu_gather" -> CpuGather(w, m, k, p[1])
       [] launch.op = "copy_o" -> CopyO(w, m, k, p[1])
       [] launch.op = "swap_out" -> SwapOut(w, m, k, l, p[1])
       [] launch.op = "o_proj" -> OProj(w, rk, m, k, l, p[1])
       [] launch.op = "ffn_norm" -> AddNorm(w, m, X(w, k, p[1]), Residual(w, k, p[1]), 2 * l + 1)
       [] launch.op = "up_gate" -> UpGate(w, rk, m, k, l, p[1])
       [] launch.op = "silu" -> Silu(w, m, k, l, p[1], p[2])
       [] launch.op = "down" -> Down(w, rk, m, k, l, p[1])
       [] launch.op = "select" -> Select(w, m, p[1])
       [] launch.op = "final_norm" -> FinalNorm(w, m, p[1])
       [] launch.op = "lm_head" -> LmHead(w, rk, m, p[1])

-----------------------------------------------------------------------------
(* Memory: buffers, k_cache/v_cache and k_swap/v_swap.                     *)

Cells(w) ==
  LET n == Cardinality(AllRows(w))
      y == Cardinality(LastRows(w))
      buffer(name, k, size) == {<<name, k, i>> : i \in Below(size)}
      a(k) == w.batches[k].args
      cdecs == Largest([k \in DOMAIN w.batches |-> a(k).num_cdecs])
      tasks == MaxTaskNum * LocalQ(w)
  IN UNION {buffer("x", 0, n), buffer("residual", 0, n), buffer("attn_out", 0, n * LocalQ(w)),
            buffer("gpu", 0, (IF w.extra_layer_for_cprf THEN NumLayers + 1 ELSE NumLayers)
                               * NumGpu * LocalKv(w) * BlockSize),
            buffer("cpu", 0, NumLayers * NumCpu * LocalKv(w) * BlockSize),
            buffer("cpu_scales", 0, IF w.int8_cpu_kv THEN NumLayers * NumCpu * LocalKv(w) * BlockSize ELSE 0),
            buffer("q_cpu", 0, cdecs * LocalQ(w)), buffer("kv_cpu", 0, cdecs * LocalKv(w)),
            buffer("o_cpu", 0, cdecs * LocalQ(w)),
            buffer("o_buf", 0, tasks), buffer("attn_sum", 0, tasks),
            buffer("attn_score", 0, MaxTokNum * LocalQ(w)),
            buffer("y", 0, y), buffer("y_residual", 0, y), buffer("logits", 0, y * LocalVocab(w)),
            buffer("gathered", 0, IF w.world_size > 1 THEN y * w.vocab_size ELSE 0)} \cup
     UNION {buffer("q", k, a(k).iter_width * LocalQ(w)) \cup
            buffer("kv", k, a(k).iter_width * LocalKv(w)) \cup
            buffer("up_gate", k, a(k).iter_width * 2 * LocalFfn(w)) \cup
            buffer("mid_o", k, a(k).num_gdecs * LocalQ(w) * a(k).num_seq_blocks) :
              k \in DOMAIN w.batches}

KVOf(w, rk, l, id, h, pos) == {Part("kv", l, <<id, pos>>, Whole(w, rk, w.num_kv_heads, h))}

(* What earlier iterations left: the KV of sequences that are on a device. *)
Residents(w, rk) ==
  LET entries == UNION {{<<r, l, h, p>> : l \in Layers, h \in Below(LocalKv(w)), p \in Below(r.len)} :
                          r \in w.residents}
      value(e) == KVOf(w, rk, e[2], e[1].id, e[3], e[4])
      cell(e) == IF e[1].dev = "gpu" THEN GpuKV(w, e[2], e[1].id, e[3], e[4])
                 ELSE CpuKV(w, e[2], e[1].id, e[3], e[4])
      held(e) == IF e[1].dev = "gpu" THEN cell(e) :> value(e) ELSE Stored(w, value(e), cell(e))
  IN MergedWrites({held(e) : e \in entries})

(* x and residual are zeroed, as the caches were; the rest is old.         *)
FirstMemory(w, rk) ==
  Residents(w, rk) @@
  [c \in Cells(w) |-> IF c[1] \in {"x", "residual", "gpu", "cpu", "cpu_scales"} THEN {} ELSE {Wrong}]

-----------------------------------------------------------------------------
Everyone == Ranks(world.world_size)
Finished(rk) == at[rk] > Len(program[rk])
Current(rk) == program[rk][at[rk]]

(* The programs of the n-th launch of a rank, none after the last.         *)
GridAt(rk, n) ==
  IF n > Len(program[rk]) THEN {} ELSE Grid(world, program[rk][n])

(* Every rank loads the model before the first iteration, or none runs.    *)
Weights(w) ==
  LayerWeights(w.num_q_heads, w.num_kv_heads, w.ffn_inter_dim) \cup ModelWeights(w.vocab_size)

Init ==
  /\ world \in Worlds
  /\ Loads(Weights(world), world.world_size)
  /\ program = [rk \in Everyone |-> ForwardLaunches(world, rk)]
  /\ mem = [rk \in Everyone |-> FirstMemory(world, rk)]
  /\ at = [rk \in Everyone |-> 1]
  /\ todo = [rk \in Everyone |-> GridAt(rk, 1)]
  /\ raised = {}
  /\ returned = << >>

(* The launch does not raise (0 stands for all sub-batches).               *)
Accepted(launch) ==
  launch.b # 0 => Accepts(world, launch.op, world.batches[launch.b].args)

(* A program of the launch runs; the last one lets the rank go on.         *)
Advance(rk, p) ==
  LET last == todo[rk] = {p}
  IN /\ todo' = [todo EXCEPT ![rk] = IF last THEN GridAt(rk, at[rk] + 1) ELSE @ \ {p}]
     /\ at' = IF last THEN [at EXCEPT ![rk] = @ + 1] ELSE at
     /\ UNCHANGED <<world, program, raised, returned>>

Execute(rk) ==
  \E p \in todo[rk] :
    /\ Accepted(Current(rk))
    /\ Advance(rk, p)
    /\ mem' = [mem EXCEPT ![rk] = Effect(world, rk, @, Current(rk), p).writes @@ @]

(* A launch raises, and with it the rank's iteration.                      *)
Raise(rk) ==
  /\ rk \notin raised
  /\ todo[rk] # {} /\ ~Accepted(Current(rk))
  /\ raised' = raised \cup {rk}
  /\ UNCHANGED <<world, program, mem, at, todo, returned>>

(* All ranks have called the same collective operation.                    *)
Meeting(ops) ==
  /\ \A rk \in Everyone : ~Finished(rk)
  /\ \A rk \in Everyone : Current(rk) = Current(0)
  /\ Current(0).op \in ops

AllGoOn ==
  /\ at' = [rk \in Everyone |-> at[rk] + 1]
  /\ todo' = [rk \in Everyone |-> GridAt(rk, at[rk] + 1)]
  /\ UNCHANGED <<world, program, raised, returned>>

Reduced(cell) ==
  IF \E r, s \in Everyone : r # s /\ mem[r][cell] \cap mem[s][cell] # {} THEN {Wrong}
  ELSE UNION {mem[rk][cell] : rk \in Everyone}

AllReduce ==
  /\ Meeting({"all_reduce", "reduce_last"})
  /\ LET k == Current(0).b
         cells == IF Current(0).op = "reduce_last" THEN {Y(i) : i \in LastRows(world)}
                  ELSE {X(world, k, row) : row \in Rows(world.batches[k])}
     IN mem' = [rk \in Everyone |-> [c \in cells |-> Reduced(c)] @@ mem[rk]]
  /\ AllGoOn

(* torch.cat(gather_list, dim=1)                                           *)
Gather ==
  /\ Meeting({"gather"})
  /\ LET n == LocalVocab(world)
         gathered == [c \in {<<"gathered", 0, i>> : i \in Below(Cardinality(LastRows(world)) * world.vocab_size)} |->
                        LET v == c[3] % world.vocab_size
                        IN mem[v \div n][Logit(world, c[3] \div world.vocab_size, v % n)]]
     IN mem' = [mem EXCEPT ![0] = gathered @@ @]
  /\ AllGoOn

(* argmax over a row that holds the logits of one token for the whole      *)
(* vocabulary is the token that follows it.                                *)
ArgMax(m, i) ==
  LET name == IF world.world_size > 1 THEN "gathered" ELSE "logits"
      row == [v \in Below(world.vocab_size) |-> m[<<name, 0, i * world.vocab_size + v>>]]
  IN IF \E p \in row[0] : \A v \in Below(world.vocab_size) :
           row[v] = {Part("logit", NumLayers, p.tok, v)}
     THEN LET p == CHOOSE p \in row[0] : TRUE IN <<p.tok[1], p.tok[2] + 1>>
     ELSE Wrong.tok

(* ray.get of the workers' results, of which the first is rank 0's.        *)
Return ==
  /\ returned = << >> /\ \A rk \in Everyone : Finished(rk)
  /\ returned' = [i \in 1 .. Cardinality(LastRows(world)) |-> ArgMax(mem[0], i - 1)]
  /\ UNCHANGED <<world, program, mem, at, todo, raised>>

Next ==
  \/ \E rk \in Everyone : Execute(rk) \/ Raise(rk)
  \/ AllReduce
  \/ Gather
  \/ Return

Spec == Init /\ [][Next]_vars

(* Kernels that were launched run, and so do collectives all ranks call.   *)
(* What they do to the memory does not decide whether they can.            *)
Continue ==
  \/ \E rk \in Everyone : Raise(rk) \/ \E p \in todo[rk] : Accepted(Current(rk)) /\ Advance(rk, p)
  \/ Meeting(Collectives) /\ AllGoOn
  \/ Return

FairSpec == Spec /\ WF_<<at, todo, raised, returned>>(Continue)

-----------------------------------------------------------------------------
AllReqs(w) == FlattenSeq([k \in DOMAIN w.batches |-> w.batches[k].args.all_reqs])

(* Ranks are somewhere in their program, and as many tokens are returned   *)
(* as the batches have requests (asserted in structs.py:97).               *)
TypeOK ==
  /\ world \in Worlds
  /\ \A rk \in Everyone :
       /\ at[rk] \in 1 .. (Len(program[rk]) + 1)
       /\ todo[rk] \subseteq GridAt(rk, at[rk])
  /\ raised \subseteq Everyone
  /\ Len(returned) \in {0, Len(AllReqs(world))}

(* The tokens returned are, in the order in which update_output deals them *)
(* out, the successors of the last token of every request, each computed   *)
(* from all of its sequence and from no other: by every shard, head and    *)
(* channel once (post_layer.py:39-68, structs.py:91).                      *)
NextTokensRight ==
  returned # << >> =>
    returned = [i \in DOMAIN AllReqs(world) |->
                  Token(AllReqs(world)[i], SeqLen(AllReqs(world)[i]))]

(* After an iteration the KV of every token of the batch is where the next *)
(* one looks for it, in each layer and head: prompts for the CPU have been *)
(* swapped out, decodes have joined their sequence, and the KV of the      *)
(* sequences that were not in the batch is as it was.                      *)
KVWritten ==
  (\A rk \in Everyone : Finished(rk)) =>
    \A rk \in Everyone, r \in world.results :
      \A l \in Layers, h \in Below(LocalKv(world)), p \in Below(r.len) :
        KVOf(world, rk, l, r.id, h, p) =
          IF r.dev = "gpu" THEN mem[rk][GpuKV(world, l, r.id, h, p)]
          ELSE CpuValue(world, mem[rk], CpuKV(world, l, r.id, h, p))

(* An accepted launch whose programs have all still to run.                *)
Begins(rk) ==
  /\ ~Finished(rk) /\ Accepted(Current(rk))
  /\ todo[rk] # {} /\ todo[rk] = Grid(world, Current(rk))

RaceFree(effect) ==
  \A p, q \in DOMAIN effect : p # q =>
    \A c \in DOMAIN effect[p].writes :
      /\ c \notin effect[q].reads
      /\ c \in DOMAIN effect[q].writes => effect[p].writes[c] = effect[q].writes[c]

(* No program of a launch reads what another writes, and if two write one  *)
(* cell it is the same value: the query heads of a group all store the     *)
(* newest key and value, each before it loads them (paged_attn.py:73-90).  *)
NoRaces ==
  \A rk \in Everyone : Begins(rk) =>
    RaceFree([p \in todo[rk] |-> Effect(world, rk, mem[rk], Current(rk), p)])

Accesses(effect) == effect.reads \cup DOMAIN effect.writes

(* Kernels address by hand; what they load and store lies in the buffers   *)
(* they were given, partial tiles included (prefill_attn.py:76-86).        *)
AccessesInBounds ==
  \A rk \in Everyone : Begins(rk) =>
    \A p \in todo[rk] :
      Accesses(Effect(world, rk, mem[rk], Current(rk), p)) \subseteq DOMAIN mem[rk]

(* Ranks never wait for each other for ever: unless a launch of its batches*)
(* is one the kernels were not compiled for, the iteration returns.        *)
IterationReturns ==
  (\A rk \in Everyone : \A n \in DOMAIN program[rk] : Accepted(program[rk][n])) =>
    <>(returned # << >>)
=============================================================================
