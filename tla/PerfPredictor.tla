---------------------------- MODULE PerfPredictor ----------------------------
(***************************************************************************)
(* swiftllm/perfpredictor.py and the configuration it is built from: the   *)
(* sample points of the four tables, the lower-bound indices computed for  *)
(* them, and the look-ups the scheduler makes.  A time is never computed:  *)
(* what matters is which samples a look-up reads.  Sequences start at 1,   *)
(* so every index is one more than the code's.                             *)
(***************************************************************************)
EXTENDS Integers, Sequences, FiniteSets, SequencesExt

CONSTANTS
    DenseBits,      \* widths below 2^DenseBits all have a sample (the code: 9)
    RotarySlack     \* positions beyond max_seq_len that have a rotary entry (the code: 128)

ASSUME SamplesAssumption == DenseBits \in Nat /\ RotarySlack \in Nat

Tables == {"linr", "pref", "gdec", "cdec"}

(* int.bit_length, of the absolute value *)
BitLength(n) ==
    LET m == IF n < 0 THEN -n ELSE n
    IN  CHOOSE k \in 0..m : 2^k > m /\ (k > 0 => 2^(k - 1) <= m)

Smaller(a, b) == IF a < b THEN a ELSE b

(* Python's ranges and list repetitions are empty when the count is negative. *)
Count(n) == IF n > 0 THEN n ELSE 0

CeilDiv(a, b) == (a + b - 1) \div b

(* EngineConfig's derived limits. *)
MaxSeqLen(c) == c.block_size * c.max_blocks_per_seq

MaxGpuTokens(c) == c.block_size * c.num_gpu_blocks

MaxCpuTokens(c) == c.block_size * c.num_cpu_blocks

(* [2 ** i for i in range(a, b)] *)
Powers(a, b) == [i \in 1..Count(b - a) |-> 2^(a + i - 1)]

(* sum([[2 ** (i-2) * 3, 2 ** i] for i in range(a, b)], []); a >= 2 where it is used *)
HalfSteps(a, b) == FlattenSeq([i \in 1..Count(b - a) |-> <<3 * 2^(a + i - 3), 2^(a + i - 1)>>])

LinrList(c) ==
    [i \in 1..(2^DenseBits - 1) |-> i]
        \o Powers(DenseBits, BitLength(c.max_tokens_in_batch - 1)) \o <<c.max_tokens_in_batch>>

(* The samples of prefilling and of GPU decoding, up to the largest value. *)
StepList(c, largest) ==
    HalfSteps(BitLength(c.block_size - 1), BitLength(largest - 1)) \o <<largest>>

CdecSList(c) == Powers(0, BitLength(c.max_batch_size - 1)) \o <<c.max_batch_size>>

(* mutant: rows reach as far as the sequences may, whatever the CPU holds *)
CdecNListsUnbounded(c) ==
    [i \in DOMAIN CdecSList(c) |->
        LET first == CdecSList(c)[i] * c.block_size
            last == CdecSList(c)[i] * MaxSeqLen(c)
        IN  <<first>> \o Powers(BitLength(first), BitLength(last - 1)) \o <<last>>]

CdecNLists(c) ==
    [i \in DOMAIN CdecSList(c) |->
        LET first == CdecSList(c)[i] * c.block_size
            last == Smaller(CdecSList(c)[i] * MaxSeqLen(c), MaxCpuTokens(c))
        IN  <<first>> \o Powers(BitLength(first), BitLength(last - 1)) \o <<last>>]

(* sorted(list(S)) *)
Sorted(S) == [i \in 1..Cardinality(S) |-> CHOOSE x \in S : Cardinality({y \in S : y <= x}) = i]

CdecAgg(c) == Sorted(UNION {ToSet(l) : l \in ToSet(CdecNLists(c))})

(* 2 ** (i-2) is a fraction for i < 2, and no list can be repeated a fractional number of times. *)
FractionalSamples(c) ==
    \E largest \in {c.max_tokens_in_batch, MaxGpuTokens(c)} :
        BitLength(c.block_size - 1) < Smaller(2, BitLength(largest - 1))

(* The samples TablePerfPredictor chooses for a table whose look-ups have one argument. *)
SampleList(c, t) ==
    CASE t = "linr" -> LinrList(c)
      [] t = "pref" -> StepList(c, c.max_tokens_in_batch)
      [] t = "gdec" -> StepList(c, MaxGpuTokens(c))
      [] t = "cdec" -> CdecAgg(c)

Repeated(n, v) == [k \in 1..Count(n) |-> v]

(* mutant: one entry too few before the first sample *)
LbIdxShort(list) ==
    Repeated(list[1], 1)
        \o FlattenSeq([i \in 1..(Len(list) - 1) |-> Repeated(list[i + 1] - list[i], i + 1)])

(* _get_lb_idx_list: for x from 0, the position of the smallest sample >= x (at x + 1). *)
LbIdx(list) ==
    Repeated(list[1] + 1, 1)
        \o FlattenSeq([i \in 1..(Len(list) - 1) |-> Repeated(list[i + 1] - list[i], i + 1)])

(* _interp_1d answers x: the value is in reach, its index exists, and so does its entry. *)
Answers(x, xs, size, lb) ==
    x <= Last(xs) /\ (x > 0 => x + 1 \in DOMAIN lb /\ lb[x + 1] <= size)

(* The positions of the samples _interp_1d reads for x. *)
SamplesRead(x, xs, lb) ==
    LET i == lb[x + 1]
    IN  IF x = 0 THEN {} ELSE IF i = 1 \/ x = xs[i] THEN {i} ELSE {i - 1, i}

(* get_cdec_T asserts and answers: the row of S, or the two rows it lies between, hold N. *)
CdecAnswers(S, N, Ss, Ns, rows, lbS, lbN) ==
    /\ S < Len(lbS)
    /\ S > 0 => \A i \in SamplesRead(S, Ss, lbS) : i <= Len(rows) /\ Answers(N, Ns, Len(rows[i]), lbN)

(* What a look-up should read: the sample itself, or its two neighbours, or the first one. *)
Bracketed(x, xs, read) ==
    \/ x = 0
    \/ \E i \in read : xs[i] = x /\ read = {i}
    \/ read = {1} /\ x < xs[1]
    \/ \E i \in read : read = {i - 1, i} /\ xs[i - 1] < x /\ x < xs[i]

=============================================================================
