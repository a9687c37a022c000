---------------------------- MODULE DeviceBlocks ----------------------------
(***************************************************************************)
(* The block accounting of one device (class DeviceBlockManager of         *)
(* swiftllm/server/block_manager.py), as operators on a record:            *)
(*                                                                         *)
(*   table[id]  the live prefix of row id of block_table: the physical     *)
(*              block of every logical block of the sequence, so that      *)
(*              seq_num_blks[id] is its length                             *)
(*   free[s]    the blocks b with is_block_free[s][b]                      *)
(*   nfree[s]   the counter num_free_blocks[s], kept beside the bitmap     *)
(*   ok         FALSE once a call has raised                               *)
(*                                                                         *)
(* A split s is a layer range with a bitmap of its own: split 0 is the KV  *)
(* cache proper, split 1 (only with extra_layer_for_cprf) the intermediate *)
(* layer in which prompts bound for the CPU are prefilled.                 *)
(***************************************************************************)
EXTENDS Integers, Sequences, FiniteSets

CONSTANTS
  Ids,         \* request ids: the rows of the block tables
  BlockSize,   \* tokens per block
  ExtraLayer   \* the switch extra_layer_for_cprf

ASSUME BlockSizeAssumption == BlockSize \in Nat \ {0}
ASSUME ExtraLayerAssumption == ExtraLayer \in BOOLEAN

Splits == IF ExtraLayer THEN {0, 1} ELSE {0}

(* The split a cprf prompt is prefilled in.                                *)
ItmSplit == IF ExtraLayer THEN 1 ELSE 0

NewDevice(numBlocks) ==
  [table |-> [id \in Ids |-> << >>],
   free  |-> [s \in Splits |-> 0 .. (numBlocks - 1)],
   nfree |-> [s \in Splits |-> numBlocks],
   ok    |-> TRUE]

BlocksFor(len) == (len + BlockSize - 1) \div BlockSize

Elems(seq) == {seq[i] : i \in 1 .. Len(seq)}

Distinct(seq) == \A i, j \in 1 .. Len(seq) : seq[i] = seq[j] => i = j

-----------------------------------------------------------------------------
(* Allocation.  A slot <<i, j>> is the j-th logical block of the i-th      *)
(* request of the call; slots are served in lexicographic order.           *)

NewSlots(d, ids, target) ==
  UNION {{i} \X ((Len(d.table[ids[i]]) + 1) .. target[ids[i]]) : i \in 1 .. Len(ids)}

Before(v, w) == v[1] < w[1] \/ (v[1] = w[1] /\ v[2] < w[2])

(* torch.nonzero lists the free blocks in increasing order: entry k        *)
(* (counted from 0) is the one with k smaller free blocks.                 *)
NthFree(free, k) == CHOOSE b \in free : Cardinality({c \in free : c < b}) = k

(* _get_new_blk_ids for the slots of one split: the k-th slot is given the *)
(* k-th free block.                                                        *)
Assign(free, slots) ==
  [v \in slots |-> NthFree(free, Cardinality({w \in slots : Before(w, v)}))]

(* The slots of the first split_point requests are taken from split 1, the *)
(* others from split 0.                                                    *)
SlotsOf(s, d, ids, splitPoint, target) ==
  {v \in NewSlots(d, ids, target) : s = (IF v[1] <= splitPoint THEN 1 ELSE 0)}

(* "Logic error: Some sequences have more blocks already allocated than    *)
(* needed", and "No enough free blocks available".                         *)
AllocRaises(d, ids, splitPoint, target) ==
  \/ \E i \in 1 .. Len(ids) : Len(d.table[ids[i]]) > target[ids[i]]
  \/ \E s \in Splits : Cardinality(SlotsOf(s, d, ids, splitPoint, target)) > d.nfree[s]

(* Mutant: the new block numbers are written from the start of the row.    *)
NewRowsFromZero(d, ids, splitPoint, target, given) ==
  LET old(i) == Len(d.table[ids[i]])
      row(i) == [j \in 1 .. target[ids[i]] |->
                   IF j > target[ids[i]] - old(i) /\ j <= old(i) THEN d.table[ids[i]][j]
                   ELSE given[IF i <= splitPoint THEN 1 ELSE 0]
                          [<<i, IF j > old(i) THEN j ELSE old(i) + j>>]]
  IN [id \in Ids |-> IF id \in Elems(ids) THEN row(CHOOSE i \in 1 .. Len(ids) : ids[i] = id)
                                          ELSE d.table[id]]

(* block_table and seq_num_blks after the call: blocks already held stay   *)
(* where they are, given[s] serves the slots of split s.                   *)
NewRows(d, ids, splitPoint, target, given) ==
  LET row(i) == [j \in 1 .. target[ids[i]] |->
                   IF j <= Len(d.table[ids[i]]) THEN d.table[ids[i]][j]
                   ELSE given[IF i <= splitPoint THEN 1 ELSE 0][<<i, j>>]]
  IN [id \in Ids |-> IF id \in Elems(ids) THEN row(CHOOSE i \in 1 .. Len(ids) : ids[i] = id)
                                          ELSE d.table[id]]

Alloc(d, ids, splitPoint, target) ==
  IF ~d.ok \/ AllocRaises(d, ids, splitPoint, target)
  THEN [d EXCEPT !.ok = FALSE]
  ELSE LET given == [s \in Splits |->
                       Assign(d.free[s], SlotsOf(s, d, ids, splitPoint, target))]
       IN [table |-> NewRows(d, ids, splitPoint, target, given),
           free  |-> [s \in Splits |-> d.free[s] \ {given[s][v] : v \in DOMAIN given[s]}],
           nfree |-> [s \in Splits |-> d.nfree[s] - Cardinality(DOMAIN given[s])],
           ok    |-> TRUE]

-----------------------------------------------------------------------------
(* Release of every block of some requests, into one split.                *)

HeldSlots(d, S) == UNION {{id} \X (1 .. Len(d.table[id])) : id \in S}

PidOf(d, slot) == d.table[slot[1]][slot[2]]

Free(d, S, s) ==
  IF ~d.ok THEN d
  ELSE [d EXCEPT
          !.table = [id \in Ids |-> IF id \in S THEN << >> ELSE @[id]],
          !.free[s] = @ \cup {PidOf(d, v) : v \in HeldSlots(d, S)},
          !.nfree[s] = @ + Cardinality(HeldSlots(d, S))]

-----------------------------------------------------------------------------
(* The accounting is exact on a device of n blocks when the rows of the    *)
(* requests in itm are read in split 1 and all others in split 0.          *)

SplitOf(itm, id) == IF id \in itm THEN 1 ELSE 0

Held(d, itm, s) == HeldSlots(d, {id \in Ids : SplitOf(itm, id) = s})

DeviceType(d, n) ==
  /\ d = [table |-> d.table, free |-> d.free, nfree |-> d.nfree, ok |-> d.ok]
  /\ d.table \in [Ids -> Seq(0 .. (n - 1))]
  /\ d.free \in [Splits -> SUBSET (0 .. (n - 1))]
  /\ d.nfree \in [Splits -> Nat]
  /\ d.ok \in BOOLEAN

(* No block is in two rows, or twice in one.                               *)
NoSharing(d, itm) ==
  \A s \in Splits : \A v, w \in Held(d, itm, s) : PidOf(d, v) = PidOf(d, w) => v = w

(* A block is free exactly when no row names it: none is handed out while  *)
(* a sequence still owns it, and none is lost.                             *)
FreeIsComplement(d, itm, n) ==
  \A s \in Splits :
    d.free[s] = (0 .. (n - 1)) \ {PidOf(d, v) : v \in Held(d, itm, s)}

(* The counter agrees with the bitmap.                                     *)
CounterExact(d) == \A s \in Splits : d.nfree[s] = Cardinality(d.free[s])

ExactAccounting(d, itm, n) ==
  NoSharing(d, itm) /\ FreeIsComplement(d, itm, n) /\ CounterExact(d)
=============================================================================
