------------------------------ MODULE KernelCall ------------------------------
(***************************************************************************)
(* What one launch of the attention kernels works on, and the shared       *)
(* memory its warps exchange tiles through.                                *)
(*                                                                         *)
(* A call attends a subproblem of L tokens.  The classic engine passes it  *)
(* alone, the waves pad it to S rows (uniform layout) or pack it (varlen). *)
(* Its rows may lie anywhere in the tensor the kernel reads: base[b] is    *)
(* the row of the first token of block b (cqs_block_base).                 *)
(***************************************************************************)
EXTENDS TileMask, Bags

CONSTANT SegAlign  \* tokens of a block of the block map (seg_align)

\* A block of the block map is made of whole summary blocks (128 and 64 tokens).
ASSUME SegAlignAssumption == SegAlign \in Nat \ {0} /\ SegAlign % kCqsBlk = 0

Warp == 0 .. 1

\* actual_seqlen is S; L < S only in the uniform layout, whose tail is padding
\* with no group bits.
Real(c)      == 0 .. c.L - 1
BitsOf(c, i) == IF i < c.L THEN c.bits[i] ELSE {}
TablesOf(c)  == IF c.layout = "uniform" THEN Padded(Summaries(c.bits, c.L), c.S)
                ELSE Summaries(c.bits, c.L)

\* Is_even_MN of the launchers, for the tile shape t of a kernel.
Even(c, t, len) == c.layout # "varlen" /\ len % t.kM = 0 /\ len % t.kN = 0

\* The row of the tensor that holds token i.
RowOf(c, i) == c.base[i \div SegAlign] + (i % SegAlign)

cqs_seg_delta(c, i) == c.base[i \div SegAlign] + (i % SegAlign) - i

\* The pairs the call keeps.
Keeps(c, i, j) ==
    /\ c.causal => j <= i
    /\ c.cqs => c.bits[i] \cap c.bits[j] = {}

\* apply_mask<Causal, Even>: does it leave the score of (i, j) alone?  active
\* says that the element test of the group bits runs.
Unmasked(c, causal, even, active, len, i, j) ==
    /\ causal => j < MinOf(len, i + 1)
    /\ ~causal /\ ~even => j < len
    /\ active /\ i < len /\ j < len => BitsOf(c, i) \cap BitsOf(c, j) = {}

-----------------------------------------------------------------------------
\* A tile in shared memory is written in two parts, the rows i with i % 2 = w by
\* the copies of warp w.  A part holds the rows from at on; rows from lim on were
\* not copied and hold zero if the copy cleared them, whatever was there if not.
Junk  == -1
Zero  == -2
Stale == [at |-> 0, lim |-> 0, clr |-> FALSE]

\* copy<Is_even_MN, Is_even_K, Clear_OOB_MN>: lim rows are inside the sequence.
Copy(at, lim, clr) == [at |-> at, lim |-> lim, clr |-> clr]

RowIn(part, i) ==
    LET x == part[i % 2]
    IN  IF i < x.lim THEN x.at + i ELSE IF x.clr THEN Zero ELSE Junk

\* A value that a NaN or a stale operand reached.
Poison == <<Junk>>
=============================================================================
