------------------------------ MODULE WaveTables ------------------------------
(***************************************************************************)
(* What native_wave.py derives from the shape of a call before anything    *)
(* runs: the subproblems, their grouping into waves, the packed layout of  *)
(* a wave and the addresses the kernels compute from it.                   *)
(***************************************************************************)
EXTENDS TaskTree

CONSTANT Calls     \* the calls explored

\* A call: batch of its inputs; causal; kernel "cuda" or "triton"; host iff the
\* inputs are on the host; acc_gpu; the depths of its forward and backward; the
\* budgets of a wave (tokens, subproblems with 0 for no cap) and of the chunk pool.
\* N, C, InterestSet and Align (SEG_ALIGN) are those of the decomposition.
ASSUME WaveAssumption ==
    \A c \in Calls : /\ c.batch \in Nat \ {0}
                    /\ {c.host, c.causal, c.acc_gpu} \subseteq BOOLEAN
                    /\ c.kernel \in {"cuda", "triton"}
                    /\ c.itr \in 1 .. Deepest /\ c.bwd_itr \in 1 .. Deepest
                    /\ c.n_slots \in Cardinality(InterestSet) .. C

ChunkSize(k) == ChunkEnd(N, k) - ChunkStart(N, k)
CeilTo(x)    == Align * ((x + Align - 1) \div Align)
slot_len     == CeilTo(Max({ChunkSize(k) : k \in Chunk}))

level1_chunks(p) == QuorumChunks(p[1])

\* The members of a set of numbers, the smallest first.
Ascending(set) == [r \in 1 .. Cardinality(set) |-> CHOOSE x \in set : Rank(set, x) = r-1]

\* wave_tasks: the rows of a subproblem in local order, the pairs it keeps and the
\* level-1 chunks its tokens live in.
wave_tasks ==
    LET task(p) == [rows   |-> Ascending(TaskOf[p].tokens),
                    kept   |-> KeptOf[p],
                    chunks |-> level1_chunks(p)]
    IN  Table([d \in 1 .. Deepest |-> Table([i \in DOMAIN Tasks[d] |-> task(Tasks[d][i])])])

-----------------------------------------------------------------------------
\* The rows of the first i subproblems of a wave, and of all.
RowsBefore(wave, i) ==
    LET rows[j \in 0 .. Len(wave)] == IF j = 0 THEN 0 ELSE rows[j-1] + Len(wave[j].rows)
    IN  rows[i]

RowsOf(wave)   == RowsBefore(wave, Len(wave))
ChunksOf(wave) == UNION {wave[i].chunks : i \in DOMAIN wave}

\* A fault: the waves ignore the number of slots.
FitsTokens(c, pooled, wave, t) ==
    /\ RowsOf(wave) + Len(t.rows) <= c.max_tokens
    /\ c.max_sub > 0 => Len(wave) < c.max_sub

\* plan_waves, and with a pool ChunkPool.plan: may t join the wave?
Fits(c, pooled, wave, t) ==
    /\ RowsOf(wave) + Len(t.rows) <= c.max_tokens
    /\ c.max_sub > 0 => Len(wave) < c.max_sub
    /\ pooled => Cardinality(ChunksOf(wave) \cup t.chunks) <= c.n_slots

\* Greedy contiguous grouping.
Plan(c, pooled, tasks) ==
    LET waves[i \in 0 .. Len(tasks)] ==
            IF i = 0 THEN <<>>
            ELSE LET done == waves[i-1]
                     t    == tasks[i]
                 IN  IF done # <<>> /\ Fits(c, pooled, Last(done), t)
                     THEN Append(Front(done), Append(Last(done), t))
                     ELSE Append(done, <<t>>)
    IN  waves[Len(tasks)]

FwdWaves == Table([c \in Calls |-> Plan(c, c.host, wave_tasks[c.itr])])
BwdWaves == Table([c \in Calls |-> Plan(c, FALSE, wave_tasks[c.bwd_itr])])

-----------------------------------------------------------------------------
\* build_wave_tables.  uniform: every subproblem padded to S rows; varlen: packed.
Uniform(c) == c.causal \/ c.kernel = "triton"
S(wave)    == CeilTo(Max({Len(wave[i].rows) : i \in DOMAIN wave}))

cu(c, wave, i) ==
    IF Uniform(c) THEN (i-1) * S(wave) ELSE RowsBefore(wave, i-1)

\* The subproblem rows of a wave, <<subproblem, local row>>; tok gives the token of
\* each, and padding (tok = -1) is left out.
WaveRows(wave) == UNION {{i} \X (0 .. Len(wave[i].rows) - 1) : i \in DOMAIN wave}
Tok(wave, x)   == wave[x[1]].rows[x[2] + 1]

\* order, seg and uniq: the packed rows of token u, and the distinct tokens.
Order(wave, u) == {x \in WaveRows(wave) : Tok(wave, x) = u}
Uniq(wave)     == {Tok(wave, x) : x \in WaveRows(wave)}

\* seg_base: the token of the first row of every block.
seg_base(wave, x) == Tok(wave, <<x[1], Align * (x[2] \div Align)>>)

\* rows_of_global: where the pool holds token g.
rows_of_global(slot_of, g) ==
    LET k == ChunkAt(N, g)
    IN  slot_of[k] * slot_len + (g - ChunkStart(N, k))

\* Is the wave gathered into a packed tensor, or does the kernel read the inputs or
\* the pool through the block map?
Gathered(c) == c.kernel = "triton" \/ (~c.host /\ N % Align # 0 /\ Uniform(c))

\* block_base_for: absolute rows (uniform) or rows relative to the subproblem.
block_base_for(c, wave, i, row) ==
    IF Uniform(c) THEN row ELSE row - cu(c, wave, i)

\* The row the kernel adds to the base of its block: the offset of the sequence it
\* works on, which the uniform layout sets to zero by a batch stride of zero.
SequenceOffset(c, wave, i) == IF Uniform(c) THEN 0 ELSE cu(c, wave, i)

KernelRow(c, wave, slot_of, x) ==
    LET g    == seg_base(wave, x)
        row  == IF c.host THEN rows_of_global(slot_of, g) ELSE g
    IN  SequenceOffset(c, wave, x[1]) + block_base_for(c, wave, x[1], row) + (x[2] % Align)

-----------------------------------------------------------------------------
\* The varlen offset of subproblem i in the backward.
bwd_cu(wave, i) == RowsBefore(wave, i-1)

\* A fault: no padding between subproblems.
DpsPacked(wave, x) == bwd_cu(wave, x[1]) + x[2]

\* pos: where wave_backward puts the dpsum of a row, and where the kernel reads it.
DpsWritten(wave, x) == bwd_cu(wave, x[1]) + Align * (x[1]-1) + x[2]
DpsRead(wave, x)    == bwd_cu(wave, x[1]) + Align * (x[1]-1) + x[2]
=============================================================================
