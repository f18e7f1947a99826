------------------------------- MODULE TileMask -------------------------------
(***************************************************************************)
(* The tile verdicts of mask.h.  A kernel tile is a range of rows and a    *)
(* range of columns; from the OR and the AND of the group bits of every    *)
(* block of kCqsBlk tokens the kernels decide whether the whole tile is    *)
(* masked (its GEMMs are skipped) or holds no masked pair (the per-element *)
(* test is skipped).  Group bits are sets of groups: OR is union, AND is   *)
(* intersection and 0 is the empty set.                                    *)
(*                                                                         *)
(* t stands for the pointers a CTA is given: t.nblk blocks of summaries,   *)
(* t.blk_or and t.blk_and, over a sequence of len tokens.                  *)
(***************************************************************************)
EXTENDS Integers, FiniteSets

CONSTANTS
    kCqsBlk,       \* tokens of a summary block (CQS_BLK_SIZE)
    Group          \* the groups a bit can name

ASSUME TileMaskAssumption == kCqsBlk \in Nat \ {0}

CeilDiv(a, b) == (a + b - 1) \div b
MinOf(a, b)   == IF a < b THEN a ELSE b

TileOf(start, extent) == start .. start + extent - 1

-----------------------------------------------------------------------------
\* cqs_block_summaries: the tail of the last block counts as 0 in the OR and
\* as all ones in the AND.
BlockTokens(b, len) == b * kCqsBlk .. MinOf((b+1) * kCqsBlk, len) - 1

\* Fault: the AND is an OR.
SummariesOr(bits, len) ==
    LET nblk  == CeilDiv(len, kCqsBlk)
        or(b) == UNION {bits[u] : u \in BlockTokens(b, len)}
    IN  [nblk    |-> nblk,
         blk_or  |-> [b \in 0 .. nblk-1 |-> or(b)],
         blk_and |-> [b \in 0 .. nblk-1 |-> or(b)]]

Summaries(bits, len) ==
    LET nblk == CeilDiv(len, kCqsBlk)
    IN  [nblk    |-> nblk,
         blk_or  |-> [b \in 0 .. nblk-1 |-> UNION {bits[u] : u \in BlockTokens(b, len)}],
         blk_and |-> [b \in 0 .. nblk-1 |->
                         {g \in Group : \A u \in BlockTokens(b, len) : g \in bits[u]}]]

\* The uniform layout of build_wave_tables: the blocks of the padding are zero.
Padded(t, len) ==
    LET nblk == len \div kCqsBlk
        pad(f) == [b \in 0 .. nblk-1 |-> IF b < t.nblk THEN f[b] ELSE {}]
    IN  [nblk |-> nblk, blk_or |-> pad(t.blk_or), blk_and |-> pad(t.blk_and)]

-----------------------------------------------------------------------------
\* The blocks a token range touches.
Blocks(t, start, extent) ==
    start \div kCqsBlk .. MinOf(CeilDiv(start + extent, kCqsBlk), t.nblk) - 1

cqs_blk_range_or(t, start, extent) ==
    UNION {t.blk_or[b] : b \in Blocks(t, start, extent)}

cqs_blk_range_and(t, start, extent) ==
    LET blocks == Blocks(t, start, extent)
    IN  IF blocks = {} THEN {} ELSE {g \in Group : \A b \in blocks : g \in t.blk_and[b]}

Aligned(base, extent) == base % kCqsBlk = 0 /\ extent % kCqsBlk = 0

\* The row half of both verdicts, taken once per row block.
cqs_row_summary(t, base, extent, len) ==
    LET row_and == IF Aligned(base, extent) /\ base + extent <= len
                   THEN cqs_blk_range_and(t, base, extent) ELSE {}
    IN  [row_or |-> cqs_blk_range_or(t, base, extent), row_and |-> row_and]

\* The column half.  A full aligned tile of two summary blocks reads them
\* directly; any other tile takes the range reductions.
ColGeneral(t, base, extent, len) ==
    LET ok == Aligned(base, extent) /\ base + extent <= len
    IN  [col_or  |-> cqs_blk_range_or(t, base, extent),
         col_and |-> IF ok THEN cqs_blk_range_and(t, base, extent) ELSE {},
         col_ok  |-> ok]

ColFast(t, base) ==
    LET b0 == base \div kCqsBlk
    IN  [col_or  |-> t.blk_or[b0] \cup t.blk_or[b0+1],
         col_and |-> t.blk_and[b0] \cap t.blk_and[b0+1],
         col_ok  |-> TRUE]

FastPath(t, base, extent, len) ==
    /\ extent = 2 * kCqsBlk /\ base % kCqsBlk = 0
    /\ base + extent <= len
    /\ base \div kCqsBlk + 2 <= t.nblk

cqs_col_summary(t, base, extent, len) ==
    IF FastPath(t, base, extent, len) THEN ColFast(t, base)
    ELSE ColGeneral(t, base, extent, len)

\* The verdicts of the forward, from the two halves.
cqs_tile_masked_c(r, c) == c.col_ok /\ r.row_and \cap c.col_and # {}
cqs_tile_clear_c(r, c)  == r.row_or \cap c.col_or = {}

\* The verdicts of the backward, from the tile.
cqs_tile_masked(t, row, rows, col, cols, len) ==
    /\ Aligned(row, rows) /\ Aligned(col, cols)
    /\ row + rows <= len /\ col + cols <= len
    /\ cqs_blk_range_and(t, row, rows) \cap cqs_blk_range_and(t, col, cols) # {}

cqs_tile_clear(t, row, rows, col, cols) ==
    cqs_blk_range_or(t, row, rows) \cap cqs_blk_range_or(t, col, cols) = {}

-----------------------------------------------------------------------------
\* What a verdict promises about the tokens below len: a masked tile holds no
\* kept pair, a clear tile no masked one.
AllMasked(bits, R, K) == \A r \in R, k \in K : bits[r] \cap bits[k] # {}
NoneMasked(bits, R, K) == \A r \in R, k \in K : bits[r] \cap bits[k] = {}
=============================================================================
