----------------------------- MODULE LayerCalls -----------------------------
(***************************************************************************)
(* The host program of a forward pass (swiftllm/worker/model.py and        *)
(* transformer_layer.py): which part of which layer is called, for which   *)
(* sub-batch, in what order.  Sub-batches are numbered from 1, layers from *)
(* 0.  What a call launches is described by the modules that extend this   *)
(* one: ForwardPass for streams and copies, LayerKernels for the data.     *)
(***************************************************************************)
EXTENDS Integers, Sequences, SequencesExt

CONSTANT NumLayers

ASSUME LayersAssumption == NumLayers \in Nat \ {0}

Layers == 0 .. (NumLayers - 1)
NextLayer(l) == (l + 1) % NumLayers

Call(f, b, l) == [f |-> f, b |-> b, l |-> l]

Attention(b, l) == <<Call("launch_attention", b, l), Call("cpu_attention", b, l)>>

Forward(l) ==
  <<Call("preproj", 1, l), Call("transfer_qkv", 1, l)>> \o Attention(1, l) \o
  <<Call("swap_out", 1, l), Call("postproj", 1, l)>>

(* One sub-batch is projected while the other is in attention.             *)
PipelineStage(l, stage) ==
  LET b == stage + 1
      other == 2 - stage
  IN <<Call("transfer_qkv", other, l), Call("swap_out", b, l), Call("postproj", b, l),
       Call("preproj", b, NextLayer(l))>> \o Attention(other, (l + stage) % NumLayers)

ForwardDouble(l) == PipelineStage(l, 0) \o PipelineStage(l, 1)

(* Mutant: attention may start before the swaps of the iteration.          *)
FirstStageUnsynchronized ==
  <<Call("preproj", 1, 0), Call("transfer_qkv", 1, 0), Call("preproj", 2, 0)>> \o
  Attention(1, 0)

FirstStage ==
  <<Call("preproj", 1, 0), Call("wait_comm", 1, 0), Call("transfer_qkv", 1, 0),
    Call("preproj", 2, 0)>> \o Attention(1, 0)

LastStage ==
  LET l == NumLayers - 1
  IN <<Call("transfer_qkv", 2, l), Call("swap_out", 1, l), Call("postproj", 1, l)>> \o
     Attention(2, l) \o <<Call("postproj", 2, l)>>

ForwardSequential ==
  <<Call("wait_comm", 1, 0)>> \o FlattenSeq([i \in 1 .. NumLayers |-> Forward(i - 1)])

ForwardPipeline ==
  FirstStage \o FlattenSeq([i \in 1 .. (NumLayers - 1) |-> ForwardDouble(i - 1)]) \o LastStage

ForwardBatches(batches) == IF Len(batches) = 1 THEN ForwardSequential ELSE ForwardPipeline
=============================================================================
