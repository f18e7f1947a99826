----------------------------- MODULE MCNativeWave -----------------------------
EXTENDS NativeWave
MCInterestSet == {0, 1}

\* Host accumulators come one level down, or with waves of several subproblems: with
\* less the fold meets rows without a key (MCFoldCalls).
\*
\* Seven tokens leave a ragged last block and, two levels down, empty chunks.  The
\* forward and the backward have each depth; a wave holds one subproblem, two, or
\* what fits in twelve rows; the pool has room for one subproblem's chunks or for all.
Call(batch, host, causal, kernel, acc_gpu, itr, max_tokens, max_sub, n_slots) ==
    [batch |-> batch, host |-> host, causal |-> causal, kernel |-> kernel,
     acc_gpu |-> acc_gpu, itr |-> itr, bwd_itr |-> 3 - itr, max_tokens |-> max_tokens,
     max_sub |-> max_sub, n_slots |-> n_slots]

Budgets == {<<1, 0>>, <<12, 0>>, <<100, 2>>}

MCCalls ==
    {Call(1, TRUE, causal, kernel, TRUE, itr, bud[1], bud[2], slots) :
        causal \in BOOLEAN, kernel \in {"cuda", "triton"}, itr \in 1 .. 2, bud \in Budgets,
        slots \in 2 .. 3}
    \cup
    {Call(2, FALSE, causal, kernel, TRUE, itr, bud[1], bud[2], 2) :
        causal \in BOOLEAN, kernel \in {"cuda", "triton"}, itr \in 1 .. 2, bud \in Budgets}
    \cup
    {Call(IF host THEN 1 ELSE 2, host, causal, kernel, FALSE, 1, bud[1], bud[2], 2) :
        host \in BOOLEAN, causal \in BOOLEAN, kernel \in {"cuda", "triton"}, bud \in Budgets}
    \cup
    {Call(IF host THEN 1 ELSE 2, host, causal, "cuda", FALSE, 2, tokens, 0, 3) :
        host \in BOOLEAN, causal \in BOOLEAN, tokens \in {12, 100}}

\* Host accumulators, two levels down, one subproblem per wave.
MCFoldCalls ==
    {Call(1, host, TRUE, "cuda", FALSE, 2, 100, 1, 2) : host \in BOOLEAN}

\* The same with two batch elements on the host.
MCBatchCalls ==
    {Call(2, TRUE, TRUE, "cuda", TRUE, 1, 12, 0, slots) : slots \in 2 .. 3}
=============================================================================
