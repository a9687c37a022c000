---------------------------- MODULE KernelChecks ----------------------------
(***************************************************************************)
(* What the compiled kernels are for.  A build of pacpu is made for one    *)
(* model and tensor parallel degree and has the size of a block and of its *)
(* arrays built in (pacpu/dtype.h); csrc has kernels for some numbers of   *)
(* heads.  A call with anything else raises, with the exception of the     *)
(* sizes of the arrays, which nothing checks.                              *)
(***************************************************************************)
EXTENDS Integers

CONSTANTS
  CompiledHeads,       \* pairs of numbers of q and of k/v heads (csrc: <<32, 8>>, <<16, 16>>, ...)
  CompiledHeadDim,     \* HEAD_DIM, also of csrc (128)
  CompiledBlockSize,   \* BLOCK_SIZE (16)
  MaxBatchSize,        \* MAX_BATCH_SIZE (4096)
  MaxWs,               \* MAX_WS (256)
  MaxTokNum            \* MAX_TOK_NUM (1048576)

(* A build of pacpu, by NUM_Q_HEADS and NUM_KV_HEADS of a rank and NUM_LAYERS.*)
Library(q, kv, layers) == [num_q_heads |-> q, num_kv_heads |-> kv, num_layers |-> layers]

Libraries == [num_q_heads : Nat, num_kv_heads : Nat, num_layers : Nat]

(* No --library-path: torch.ops has no pacpu, which serves no heads at all.*)
NoLibrary == Library(0, 0, 0)

(* assert_hyper_params_expected goes through.                              *)
HyperParamsExpected(library, q, kv, layers, dim, block) ==
  library = Library(q, kv, layers) /\ dim = CompiledHeadDim /\ block = CompiledBlockSize

(* rotary_embedding_inplace, and store_kvcache, have a kernel.             *)
RotaryCompiled(q, kv, dim) == dim = CompiledHeadDim /\ <<q, kv>> \in CompiledHeads

StoreCompiled(kv, dim) == dim = CompiledHeadDim /\ \E heads \in CompiledHeads : heads[2] = kv

(* paged_attention's assertion.                                            *)
WholeSeqBlocks(seqBlock, block) == seqBlock % block = 0

MaxTaskNum == MaxBatchSize + MaxWs

(* So many sequences, with so many tokens together, are what the global    *)
(* arrays of pacpu are made for.                                           *)
ScratchHolds(seqs, tokens) == seqs <= MaxBatchSize /\ tokens <= MaxTokNum
=============================================================================
