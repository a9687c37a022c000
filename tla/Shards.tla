------------------------------- MODULE Shards -------------------------------
(***************************************************************************)
(* How a tensor parallel model is divided between its ranks                *)
(* (swiftllm/worker/weight.py): every weight is registered with a shape and*)
(* the dimensions to split, a rank loads a slice of the split ones.        *)
(* Dimensions are counted in the units the kernels work on: heads for the  *)
(* attention projections, channels for the FFN, tokens for the vocabulary. *)
(***************************************************************************)
EXTENDS Integers

Ranks(ws) == 0 .. (ws - 1)

(* get_real_shape: what a rank holds of a dimension that is split.         *)
RealSize(size, ws) == size \div ws

(* slice(rk * size // ws, (rk + 1) * size // ws)                           *)
Shard(size, rk, ws) ==
  ((rk * size) \div ws) .. (((rk + 1) * size) \div ws - 1)

Item(attr, rows, cols, split) == [attr |-> attr, rows |-> rows, cols |-> cols, split |-> split]

(* The weights of a layer; the hidden dimension itself is not divided.     *)
LayerWeights(nq, nkv, ffn) ==
  {Item("attn_norm", 1, 1, "none"), Item("ffn_norm", 1, 1, "none"),
   Item("q_proj", nq, 1, "rows"), Item("k_proj", nkv, 1, "rows"),
   Item("v_proj", nkv, 1, "rows"), Item("o_proj", 1, nq, "cols"),
   Item("up_proj", ffn, 1, "rows"), Item("gate_proj", ffn, 1, "rows"),
   Item("down_proj", 1, ffn, "cols")}

ModelWeights(vocab) ==
  {Item("wte", vocab, 1, "rows"), Item("lm_head", vocab, 1, "rows"),
   Item("final_norm", 1, 1, "none")}

SplitSize(item) == IF item.split = "rows" THEN item.rows ELSE item.cols

(* load_weights goes through: each split dimension is a multiple of ws.    *)
Loads(items, ws) == \A item \in items : item.split # "none" => SplitSize(item) % ws = 0

(* What a rank has loaded of an item, by the indices of the whole.         *)
Loaded(item, rk, ws) ==
  IF item.split = "none" THEN 0 .. 0 ELSE Shard(SplitSize(item), rk, ws)

(* The head of k and v a query head attends to (attention and rotary       *)
(* kernels; the number of heads are those of the tensors, so of a rank).   *)
KvHead(h, nq, nkv) == h \div (nq \div nkv)
=============================================================================
