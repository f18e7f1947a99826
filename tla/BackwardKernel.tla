---------------------------- MODULE BackwardKernel ----------------------------
(***************************************************************************)
(* compute_dq_dk_dv_1colblock of flash_bwd_kernel.h, run over the column   *)
(* blocks of a subproblem by compute_dq_dk_dv_seqk_parallel.  A CTA holds  *)
(* kN columns of K and V, walks the row blocks from the last to the first, *)
(* keeps dK and dV in registers and adds dQ to global memory atomically.   *)
(* P and dS pass from warp to warp through shared memory, Q is double      *)
(* buffered or not, and a tile the group bits mask entirely skips its      *)
(* GEMMs but none of the copies and barriers.                              *)
(*                                                                         *)
(* Deterministic mode gives a CTA several column blocks, one after the     *)
(* other in the same shared memory; otherwise each has a CTA of its own.   *)
(* CTAs meet only in atomicAdd, so they run in turn.  A gradient is the    *)
(* bag of the products summed into it, each product the rows it read.      *)
(***************************************************************************)
EXTENDS KernelCall, Sequences

VARIABLES
    call,          \* the launch
    finite,        \* tokens whose global lse is finite
    col,           \* column block of each warp
    row,           \* row block of each warp
    pc,            \* where each warp is
    smem,          \* sQ (two buffers), sdO, sK and sV, two parts each
    inflight,      \* copies each warp issued that have not landed
    lse,           \* rows of the tile whose loaded lse is finite, per warp
    sP,            \* sP and sdS: an entry per row and column of the tile
    sdS,
    acc_dk,        \* registers: dK and dV of the columns of the tile
    acc_dv,
    sdKV,          \* sdK and sdV, staged over sK and sV by the epilogue
    dq, dk, dv     \* global memory

kM  == call.bwd.kM
kN  == call.bwd.kN
SeqLen == call.L

TileRow == 0 .. kM - 1
TileCol == 0 .. kN - 1
Buffer == {"Q0", "Q1"}

EvenMN == call.layout = "classic" /\ Even(call, call.bwd, SeqLen)

LastRowBlock == CeilDiv(SeqLen, kM) - 1
LastColBlock == CeilDiv(SeqLen, kN) - 1

\* m_block_min.
RowBlockMin(n) == IF call.causal THEN (n * kN) \div kM ELSE 0

\* The verdicts: on the whole tile, and on the columns warp w scores.
Skip(m, n) ==
    call.cqs /\ cqs_tile_masked(TablesOf(call), m * kM, kM, n * kN, kN, SeqLen)

SpanOf(w) == {c \in TileCol : (2 * c) \div kN = w}
ActiveIn(w, m, n) ==
    call.cqs /\ ~cqs_tile_clear(TablesOf(call), m * kM, kM, n * kN + w * (kN \div 2), kN \div 2)

\* Which warp accumulates a column of dK and dV, and a row of dQ.
Mine(w, T) == {i \in T : i % 2 = w}

-----------------------------------------------------------------------------
Zeros  == [r \in TileRow |-> [c \in TileCol |-> <<>>]]
NoGrad == [c \in TileCol |-> EmptyBag]

QBuffer(m) == IF call.doubleBuffer /\ m % 2 = 1 THEN "Q1" ELSE "Q0"

\* Copies of row block m and of column block n; those of the prologue clear the
\* rows past the end, the later ones are full.
EdgeTile(slot, block, size) ==
    [slot |-> slot,
     src  |-> Copy(block * size, IF EvenMN THEN size ELSE MinOf(size, SeqLen - block * size), TRUE)]
FullTile(slot, block, size) == [slot |-> slot, src |-> Copy(block * size, size, FALSE)]

\* A copy lands; sK and sV are also where the epilogue stages sdK and sdV.
Overwritten(slot, w) ==
    [c \in TileCol |->
        [k |-> IF slot = "K" /\ c \in Mine(w, TileCol) THEN SetToBag({Poison}) ELSE sdKV[c].k,
         v |-> IF slot = "V" /\ c \in Mine(w, TileCol) THEN SetToBag({Poison}) ELSE sdKV[c].v]]

Land(w) ==
    \E x \in inflight[w] :
        /\ smem' = [smem EXCEPT ![x.slot][w] = x.src]
        /\ inflight' = [inflight EXCEPT ![w] = @ \ {x}]
        /\ sdKV' = Overwritten(x.slot, w)
        /\ UNCHANGED <<call, finite, col, row, pc, lse, sP, sdS, acc_dk, acc_dv, dq, dk, dv>>

Issue(w, copies) == inflight' = [inflight EXCEPT ![w] = @ \cup copies]
Goto(w, label)   == pc' = [pc EXCEPT ![w] = label]

\* The barriers of the program and what follows each; only the one at the top of
\* an iteration waits for the copies.
After == [start   |-> "load",      \* deterministic only: shared memory is reused
          landed  |-> "scores",
          shared  |-> "values",    \* P and dS are in shared memory
          consumed|-> "queries",   \* sdO may be overwritten
          drained |-> "refill",    \* sQ may be overwritten (no double buffer)
          finished|-> "stage",     \* sK and sV may be overwritten
          staged  |-> "store"]

Barrier == DOMAIN After

Sync ==
    /\ \A w \in Warp : pc[w] \in Barrier /\ (pc[w] = "landed" => inflight[w] = {})
    /\ pc' = [w \in Warp |-> After[pc[w]]]
    /\ UNCHANGED <<call, finite, col, row, smem, inflight, lse, sP, sdS, acc_dk, acc_dv,
                   sdKV, dq, dk, dv>>

-----------------------------------------------------------------------------
\* Fault: the second column block of a CTA loads its tiles without a barrier.
EntryFree(w) == "load"

Entry(w) == IF call.deterministic THEN "start" ELSE "load"

\* A warp takes up column block n or leaves the kernel.
Enter(w) ==
    /\ pc[w] = "enter"
    /\ Goto(w, IF col[w] <= LastColBlock THEN Entry(w) ELSE "exit")
    /\ UNCHANGED <<call, finite, col, row, smem, inflight, lse, sP, sdS, acc_dk, acc_dv,
                   sdKV, dq, dk, dv>>

FiniteRows(m) == {r \in TileRow : m * kM + r < SeqLen /\ m * kM + r \in finite}

\* The prologue.
Load(w) ==
    LET m == LastRowBlock
    IN  /\ pc[w] = "load"
        /\ Goto(w, "landed")
        /\ row' = [row EXCEPT ![w] = m]
        /\ Issue(w, {EdgeTile("dO", m, kM), EdgeTile(QBuffer(m), m, kM),
                     EdgeTile("K", col[w], kN), EdgeTile("V", col[w], kN)})
        /\ lse' = [lse EXCEPT ![w] = FiniteRows(m)]
        /\ acc_dk' = [acc_dk EXCEPT ![w] = NoGrad]
        /\ acc_dv' = [acc_dv EXCEPT ![w] = NoGrad]
        /\ UNCHANGED <<call, finite, col, smem, sP, sdS, sdKV, dq, dk, dv>>

\* P of row r and column c: zero if masked or if lse is +inf, what the product
\* of the operands is otherwise.
Prob(w, m, n, r, c) ==
    LET q    == RowIn(smem[QBuffer(m)], r)
        k    == RowIn(smem["K"], c)
        kept == Unmasked(call, call.causal, EvenMN, ActiveIn(w, m, n), SeqLen,
                         m * kM + r, n * kN + c)
    IN  IF ~kept THEN <<>>
        ELSE IF Junk \in {q, k} THEN Poison
        ELSE IF r \in lse[w] THEN <<q, k>> ELSE <<>>

\* dS = P (dP - dPsum), with dP = dO V^T: a stale operand poisons it even if P = 0.
Grad(p, r, c) ==
    LET o == RowIn(smem["dO"], r)
        v == RowIn(smem["V"], c)
    IN  IF p = Poison \/ Junk \in {o, v} THEN Poison
        ELSE IF p = <<>> THEN <<>> ELSE p \o <<o, v>>

\* A skipped tile leaves P and dS at zero.  With a double buffer the next Q is
\* prefetched here.
Scores(w) ==
    LET m == row[w]
        n == col[w]
        p(r, c) == IF Skip(m, n) THEN <<>> ELSE Prob(w, m, n, r, c)
        g(r, c) == IF Skip(m, n) THEN <<>> ELSE Grad(p(r, c), r, c)
    IN  /\ pc[w] = "scores"
        /\ Goto(w, "shared")
        /\ sP'  = [r \in TileRow |-> [c \in TileCol |->
                      IF c \in SpanOf(w) THEN p(r, c) ELSE sP[r][c]]]
        /\ sdS' = [r \in TileRow |-> [c \in TileCol |->
                      IF c \in SpanOf(w) THEN g(r, c) ELSE sdS[r][c]]]
        /\ IF call.doubleBuffer /\ m > RowBlockMin(n)
           THEN Issue(w, {FullTile(QBuffer(m-1), m-1, kM)}) ELSE UNCHANGED inflight
        /\ UNCHANGED <<call, finite, col, row, smem, lse, acc_dk, acc_dv, sdKV, dq, dk, dv>>

\* One product of a GEMM: nothing if the entry is zero and the operand sound.
Product(entry, x) ==
    IF entry = Poison \/ x = Junk THEN {Poison}
    ELSE IF entry = <<>> THEN {} ELSE {entry \o <<x>>}

SumOver(T, term(_)) == SetToBag(UNION {term(i) : i \in T})

\* dV += P^T dO.
Values(w) ==
    LET m == row[w]
        term(c) == SumOver(TileRow, LAMBDA r : Product(sP[r][c], RowIn(smem["dO"], r)))
    IN  /\ pc[w] = "values"
        /\ Goto(w, "consumed")
        /\ acc_dv' = [acc_dv EXCEPT ![w] = [c \in TileCol |->
              IF c \in Mine(w, TileCol) /\ ~Skip(m, col[w]) THEN @[c] (+) term(c) ELSE @[c]]]
        /\ UNCHANGED <<call, finite, col, row, smem, inflight, lse, sP, sdS, acc_dk, sdKV,
                       dq, dk, dv>>

\* The next dO and lse are loaded, dQ = dS K is added to global memory (the rows
\* past the end have slack rows there) and dK += dS^T Q.
Queries(w) ==
    LET m    == row[w]
        live == ~Skip(m, col[w])
        more == m > RowBlockMin(col[w])
        qrow(r) == SumOver(TileCol, LAMBDA c : Product(sdS[r][c], RowIn(smem["K"], c)))
        kcol(c) == SumOver(TileRow, LAMBDA r : Product(sdS[r][c], RowIn(smem[QBuffer(m)], r)))
    IN  /\ pc[w] = "queries"
        /\ IF more THEN Issue(w, {FullTile("dO", m-1, kM)}) ELSE UNCHANGED inflight
        /\ lse' = [lse EXCEPT ![w] = IF more THEN FiniteRows(m-1) ELSE @]
        /\ dq' = [i \in DOMAIN dq |->
              IF live /\ i - m * kM \in Mine(w, TileRow) THEN dq[i] (+) qrow(i - m * kM) ELSE dq[i]]
        /\ acc_dk' = [acc_dk EXCEPT ![w] = [c \in TileCol |->
              IF c \in Mine(w, TileCol) /\ live THEN @[c] (+) kcol(c) ELSE @[c]]]
        /\ row' = [row EXCEPT ![w] = IF more /\ call.doubleBuffer THEN m - 1 ELSE m]
        /\ Goto(w, IF ~more THEN "finished" ELSE IF call.doubleBuffer THEN "landed" ELSE "drained")
        /\ UNCHANGED <<call, finite, col, smem, sP, sdS, acc_dv, sdKV, dk, dv>>

\* Without a double buffer the next Q replaces the one every warp has read.
Refill(w) ==
    /\ pc[w] = "refill"
    /\ row' = [row EXCEPT ![w] = @ - 1]
    /\ Issue(w, {FullTile(QBuffer(row[w] - 1), row[w] - 1, kM)})
    /\ Goto(w, "landed")
    /\ UNCHANGED <<call, finite, col, smem, lse, sP, sdS, acc_dk, acc_dv, sdKV, dq, dk, dv>>

\* The epilogue: dK and dV are staged where K and V were.
Stage(w) ==
    /\ pc[w] = "stage"
    /\ Goto(w, "staged")
    /\ sdKV' = [c \in TileCol |-> IF c \in Mine(w, TileCol)
                                  THEN [k |-> acc_dk[w][c], v |-> acc_dv[w][c]] ELSE sdKV[c]]
    /\ smem' = [s \in DOMAIN smem |-> IF s \in {"K", "V"} THEN [u \in Warp |-> Stale] ELSE smem[s]]
    /\ UNCHANGED <<call, finite, col, row, inflight, lse, sP, sdS, acc_dk, acc_dv, dq, dk, dv>>

\* Each warp stores the columns of one half of the tile, those inside the sequence.
Store(w) ==
    LET here(j) == j - col[w] * kN \in SpanOf(w)
    IN  /\ pc[w] = "store"
        /\ dk' = [j \in DOMAIN dk |-> IF here(j) THEN sdKV[j - col[w] * kN].k ELSE dk[j]]
        /\ dv' = [j \in DOMAIN dv |-> IF here(j) THEN sdKV[j - col[w] * kN].v ELSE dv[j]]
        /\ col' = [col EXCEPT ![w] = @ + 1]
        /\ Goto(w, IF call.deterministic THEN "enter" ELSE "exit")
        /\ UNCHANGED <<call, finite, row, smem, inflight, lse, sP, sdS, acc_dk, acc_dv, sdKV, dq>>

\* Outside deterministic mode the next column block has a CTA of its own.
NextCta ==
    /\ \A w \in Warp : pc[w] = "exit" /\ col[w] <= LastColBlock
    /\ pc' = [w \in Warp |-> "enter"]
    /\ smem' = [s \in DOMAIN smem |-> [w \in Warp |-> Stale]]
    /\ UNCHANGED <<call, finite, col, row, inflight, lse, sP, sdS, acc_dk, acc_dv, sdKV, dq, dk, dv>>

BwdInit ==
    /\ col = [w \in Warp |-> 0]
    /\ row = [w \in Warp |-> 0]
    /\ pc = [w \in Warp |-> "enter"]
    /\ smem = [s \in Buffer \cup {"dO", "K", "V"} |-> [w \in Warp |-> Stale]]
    /\ inflight = [w \in Warp |-> {}]
    /\ lse = [w \in Warp |-> {}]
    /\ sP = Zeros /\ sdS = Zeros
    /\ acc_dk = [w \in Warp |-> NoGrad] /\ acc_dv = [w \in Warp |-> NoGrad]
    /\ sdKV = [c \in TileCol |-> [k |-> EmptyBag, v |-> EmptyBag]]
    /\ dq = [i \in Real(call) |-> EmptyBag]
    /\ dk = [i \in Real(call) |-> EmptyBag]
    /\ dv = [i \in Real(call) |-> EmptyBag]

BwdDone == \A w \in Warp : pc[w] = "exit" /\ col[w] > LastColBlock

BwdNext ==
    \/ Sync
    \/ NextCta
    \/ \E w \in Warp :
          \/ Land(w) \/ Enter(w) \/ Load(w) \/ Scores(w) \/ Values(w) \/ Queries(w)
          \/ Refill(w) \/ Stage(w) \/ Store(w)
=============================================================================
