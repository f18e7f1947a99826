------------------------------ MODULE KernelPair ------------------------------
(***************************************************************************)
(* The two kernels of a subproblem on one stream: the forward writes a     *)
(* partial row and its lse, the lse of all subproblems are merged into the *)
(* global one, and the backward reads that (StableAccumulator and          *)
(* flash_attn_bwd_cqs_global_lse).  The merge is reduced to what the       *)
(* backward tells apart: a token has a finite global lse if this forward   *)
(* gave it one or if another subproblem did.                               *)
(***************************************************************************)
EXTENDS KernelCall, Sequences

CONSTANT Calls     \* the launches explored

VARIABLES
    call, phase, finite,
    m_block, f_pc, step, n_block, f_smem, f_inflight, acc_s, acc_o, written,
    col, row, b_pc, b_smem, b_inflight, lse, sP, sdS, acc_dk, acc_dv, sdKV, dq, dk, dv

F == INSTANCE ForwardKernel WITH pc <- f_pc, smem <- f_smem, inflight <- f_inflight
B == INSTANCE BackwardKernel WITH pc <- b_pc, smem <- b_smem, inflight <- b_inflight

fwdVars == <<m_block, f_pc, step, n_block, f_smem, f_inflight, acc_s, acc_o, written>>
bwdVars == <<col, row, b_pc, b_smem, b_inflight, lse, sP, sdS, acc_dk, acc_dv, sdKV,
             dq, dk, dv>>
vars == <<call, phase, finite, fwdVars, bwdVars>>

\* A subproblem of at least one token, covered by its grid, its padding and its
\* block map.  The map gives each token a row of its own (BlockMapExact); a tile of
\* either kernel lies in one of its blocks and one side of a tile divides the other.
ASSUME CallsAssumption ==
    \A c \in Calls :
        /\ c.L \in Nat \ {0} /\ c.bits \in [0 .. c.L - 1 -> SUBSET Group]
        /\ c.S \in Nat /\ c.L <= c.S /\ (c.layout # "uniform" => c.S = c.L)
        /\ c.layout = "uniform" => c.S % SegAlign = 0 /\ c.causal
        /\ c.layout = "varlen" => ~c.causal
        /\ \A t \in {c.fwd, c.bwd} :
              /\ {t.kM, t.kN} \subseteq Nat \ {0}
              /\ SegAlign % t.kM = 0 /\ SegAlign % t.kN = 0
              /\ t.kM % t.kN = 0 \/ t.kN % t.kM = 0
        /\ c.bwd.kN % 2 = 0
        /\ c.grid \in Nat /\ c.grid * c.fwd.kM >= c.S
        /\ c.base \in [0 .. CeilDiv(c.S, SegAlign) - 1 -> Nat]
        /\ \A i, j \in Real(c) : RowOf(c, i) = RowOf(c, j) => i = j

Init ==
    /\ call \in Calls
    /\ phase = "forward"
    /\ finite = {}
    /\ F!FwdInit
    /\ B!BwdInit

Forward ==
    /\ phase = "forward"
    /\ F!FwdNext
    /\ UNCHANGED <<phase, finite, bwdVars>>

\* The backward is launched behind the forward; the tokens for which only other
\* subproblems have a finite lse are none or all of them.
Merge ==
    /\ phase = "forward" /\ F!FwdDone
    /\ phase' = "backward"
    /\ \E others \in {{}, Real(call)} :
          finite' = others \cup {i \in Real(call) : written[i].lse = "finite"}
    /\ UNCHANGED <<call, fwdVars, bwdVars>>

Backward ==
    /\ phase = "backward"
    /\ B!BwdNext
    /\ UNCHANGED <<phase, fwdVars>>

Complete ==
    /\ phase = "backward" /\ B!BwdDone
    /\ UNCHANGED vars

Next == Forward \/ Merge \/ Backward \/ Complete

Spec == Init /\ [][Next]_vars

-----------------------------------------------------------------------------
\* Type invariant of the composition: registers, shared memory and global memory
\* of the running CTA hold what their tiles allow.
TypeOK ==
    /\ call \in Calls /\ phase \in {"forward", "backward"} /\ finite \subseteq Real(call)
    /\ \A w \in Warp :
          /\ step[w] \in 0 .. F!MaskSteps
          /\ n_block[w] \in -1 .. CeilDiv(call.S, call.fwd.kN) - 1
          /\ \A x \in f_inflight[w] : x.slot \in {"Q", "K", "V"} /\ x.src.at >= 0
          /\ col[w] \in 0 .. CeilDiv(call.L, call.bwd.kN)
          /\ row[w] \in 0 .. CeilDiv(call.L, call.bwd.kM) - 1
    /\ DOMAIN written = 0 .. call.S - 1
    /\ DOMAIN dq = Real(call) /\ DOMAIN dk = Real(call) /\ DOMAIN dv = Real(call)

\* The verdicts of mask.h never skip work that counts: in every tile of both
\* kernels a masked verdict leaves no kept pair of real tokens and a clear
\* verdict no masked one, and the two-block fast path of cqs_col_summary_c
\* returns what the general path returns.
RealTile(base, extent) == TileOf(base, extent) \cap Real(call)

FwdVerdicts(m, n) ==
    LET t == TablesOf(call)
        R == RealTile(m * call.fwd.kM, call.fwd.kM)
        K == RealTile(n * call.fwd.kN, call.fwd.kN)
        rs == cqs_row_summary(t, m * call.fwd.kM, call.fwd.kM, call.S)
        cs == cqs_col_summary(t, n * call.fwd.kN, call.fwd.kN, call.S)
    IN  /\ cqs_tile_masked_c(rs, cs) => AllMasked(call.bits, R, K)
        /\ cqs_tile_clear_c(rs, cs) => NoneMasked(call.bits, R, K)
        /\ cs = ColGeneral(t, n * call.fwd.kN, call.fwd.kN, call.S)

BwdVerdicts(m, n) ==
    LET R == RealTile(m * call.bwd.kM, call.bwd.kM)
        K(w) == {n * call.bwd.kN + c : c \in B!SpanOf(w)} \cap Real(call)
    IN  /\ B!Skip(m, n) => \A w \in Warp : AllMasked(call.bits, R, K(w))
        /\ \A w \in Warp : call.cqs /\ ~B!ActiveIn(w, m, n) => NoneMasked(call.bits, R, K(w))

VerdictsSound ==
    /\ \A m \in 0 .. CeilDiv(call.S, call.fwd.kM) - 1, n \in 0 .. CeilDiv(call.S, call.fwd.kN) - 1 :
          FwdVerdicts(m, n)
    /\ \A m \in 0 .. CeilDiv(call.L, call.bwd.kM) - 1, n \in 0 .. CeilDiv(call.L, call.bwd.kN) - 1 :
          BwdVerdicts(m, n)

\* Every row the forward stores is the sum over exactly the keys the call keeps
\* for that token, each once, with its own key and value row and no NaN, and its
\* lse is finite iff there is such a key: whatever order the copies land in,
\* whichever tiles were skipped, and for the ragged last tile too.
RowsExact ==
    \A i \in Real(call) :
        LET keys == {j \in Real(call) : Keeps(call, i, j)}
            w    == written[i]
        IN  IF w.lse = "none" THEN ~F!FwdDone
            ELSE /\ ~w.nan
                 /\ w.lse = IF keys = {} THEN "inf" ELSE "finite"
                 /\ w.sum = SetToBag({<<RowOf(call, i), RowOf(call, j), RowOf(call, j)>> : j \in keys})

\* After the backward every kept pair has added exactly one product, of the right
\* rows, to dQ of its query and to dK and dV of its key, and no gradient has met a
\* stale or uninitialised operand.
GradientsExact ==
    phase = "backward" /\ B!BwdDone =>
        \A x \in Real(call) :
            LET keys    == {j \in Real(call) : Keeps(call, x, j)}
                queries == {i \in Real(call) : Keeps(call, i, x)}
            IN  /\ dq[x] = SetToBag({<<x, j, x, j, j>> : j \in keys})
                /\ dk[x] = SetToBag({<<i, x, i, x, i>> : i \in queries})
                /\ dv[x] = SetToBag({<<i, x, i>> : i \in queries})
=============================================================================
