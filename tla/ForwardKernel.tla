---------------------------- MODULE ForwardKernel ----------------------------
(***************************************************************************)
(* compute_attn_1rowblock of flash_fwd_kernel.h: one thread block (CTA)    *)
(* computes kM rows of attention.  Its warps copy tiles of Q, K and V into *)
(* shared memory with cp.async, meet at __syncthreads, and fold one column *)
(* block after another into their rows, from the last block to the first.  *)
(* The first blocks need the causal or length mask (the masking loop); the *)
(* others are visited only if the group bits leave a pair of them alive    *)
(* (the live loop, which prefetches the next LIVE tile).                   *)
(*                                                                         *)
(* A copy lands at any time between its issue and its wait.  A row block   *)
(* shares nothing with another, so the blocks of a launch run in turn.     *)
(* What a row accumulates is the bag of (query row, key row, value row)    *)
(* triples it multiplied: exact arithmetic is left out, NaN is not.        *)
(***************************************************************************)
EXTENDS KernelCall

VARIABLES
    call,          \* the launch
    m_block,       \* row block of the running CTA
    pc,            \* where each warp is
    step,          \* masking_step of each warp; MaskSteps in the live loop
    n_block,       \* column block of each warp
    smem,          \* sQ, sK and sV, two parts each
    inflight,      \* copies each warp issued that have not landed
    acc_s,         \* scores of the tile, by row: key row or NegInf per column
    acc_o,         \* accumulated rows
    written        \* rows of the output and of the lse in global memory

NegInf == -3

kM  == call.fwd.kM
kN  == call.fwd.kN
SeqLen == call.S

TileRow == 0 .. kM - 1
TileCol == 0 .. kN - 1
Row(r)    == m_block * kM + r
Col(n, c) == n * kN + c
Mine(w)   == {r \in TileRow : r % 2 = w}

NoScore == [k |-> [c \in {} |-> NegInf], q |-> Zero]
NoRow   == [seen |-> FALSE, sum |-> EmptyBag, nan |-> FALSE]

EvenMN == Even(call, call.fwd, SeqLen)

\* n_masking_steps.
MaskSteps ==
    IF ~call.causal THEN 1
    ELSE IF EvenMN THEN CeilDiv(kM, kN) ELSE CeilDiv(kM, kN) + 1

\* n_block_max; n_block_min is 0.
NBlockMax ==
    LET all == CeilDiv(SeqLen, kN)
    IN  IF call.causal THEN MinOf(all, CeilDiv((m_block + 1) * kM, kN)) ELSE all

-----------------------------------------------------------------------------
\* The verdicts on column block n for this row block.
RowHalf    == cqs_row_summary(TablesOf(call), m_block * kM, kM, SeqLen)
ColHalf(n) == cqs_col_summary(TablesOf(call), n * kN, kN, SeqLen)

TileMasked(n) == call.cqs /\ cqs_tile_masked_c(RowHalf, ColHalf(n))
Active(n)     == call.cqs /\ ~cqs_tile_clear_c(RowHalf, ColHalf(n))

\* The search for the next live tile at or below n: -1 if there is none.
NextLive(n) ==
    LET live == {x \in 0 .. n : ~TileMasked(x)}
    IN  IF live = {} THEN -1 ELSE CHOOSE x \in live : \A y \in live : y <= x

Masking(w) == step[w] < MaskSteps

-----------------------------------------------------------------------------
\* seg_k, seg_v and the Q tile: the source row of a tile is that of its first
\* token.
Tile(slot, first, lim, clr) ==
    [slot |-> slot, src |-> Copy(first + cqs_seg_delta(call, first), lim, clr)]

FullTile(slot, n) == Tile(slot, n * kN, kN, FALSE)

\* The tile of the last column block, whose copy is predicated by the length.
EdgeTile(slot, n, clr) ==
    Tile(slot, n * kN, IF EvenMN THEN kN ELSE MinOf(kN, SeqLen - n * kN), clr)

QTile == Tile("Q", m_block * kM,
              IF EvenMN THEN kM ELSE MinOf(kM, SeqLen - m_block * kM), FALSE)

\* A cp.async of warp w takes effect.
Land(w) ==
    \E x \in inflight[w] :
        /\ smem' = [smem EXCEPT ![x.slot][w] = x.src]
        /\ inflight' = [inflight EXCEPT ![w] = @ \ {x}]
        /\ UNCHANGED <<call, m_block, pc, step, n_block, acc_s, acc_o, written>>

Issue(w, copies) == inflight' = [inflight EXCEPT ![w] = @ \cup copies]
Goto(w, label)   == pc' = [pc EXCEPT ![w] = label]

\* Fault: no wait for the copies.
Unwaited(w) == TRUE

\* cp_async_wait<0>: all copies of this warp have landed.
Waited(w)   == inflight[w] = {}

\* __syncthreads, after each warp waited for its own copies.
Sync ==
    /\ \A w \in Warp : pc[w] \in {"landK", "landV"} /\ Waited(w)
    /\ pc' = [w \in Warp |-> IF pc[w] = "landK" THEN "scores" ELSE "values"]
    /\ UNCHANGED <<call, m_block, step, n_block, smem, inflight, acc_s, acc_o, written>>

\* The prologue: a CTA past the end of its sequence returns at once.
Prologue(w) ==
    /\ pc[w] = "prologue"
    /\ IF m_block * kM >= SeqLen
       THEN /\ Goto(w, "exit")
            /\ UNCHANGED <<n_block, inflight>>
       ELSE /\ Goto(w, "landK")
            /\ n_block' = [n_block EXCEPT ![w] = NBlockMax - 1]
            /\ Issue(w, {QTile, EdgeTile("K", NBlockMax - 1, FALSE)})
    /\ UNCHANGED <<call, m_block, step, smem, acc_s, acc_o, written>>

\* The copy of V is issued, then Q K^T and apply_mask.
VCopy(w) ==
    IF step[w] = 0 THEN EdgeTile("V", n_block[w], TRUE) ELSE FullTile("V", n_block[w])

Kept(w, n, r, c) ==
    Unmasked(call, call.causal /\ Masking(w), EvenMN \/ ~Masking(w), Active(n),
             SeqLen, Row(r), Col(n, c))

Scores(w) ==
    LET n == n_block[w]
    IN  /\ pc[w] = "scores"
        /\ Goto(w, "landV")
        /\ Issue(w, {VCopy(w)})
        /\ acc_s' = [r \in TileRow |->
                        IF r \notin Mine(w) THEN acc_s[r]
                        ELSE [q |-> RowIn(smem["Q"], r),
                              k |-> [c \in TileCol |-> IF Kept(w, n, r, c)
                                        THEN RowIn(smem["K"], c) ELSE NegInf]]]
        /\ UNCHANGED <<call, m_block, step, n_block, smem, acc_o, written>>

-----------------------------------------------------------------------------
\* Is the maximum of a row that has seen no finite score guarded?
CheckInf(w) == call.cqs \/ (call.causal /\ Masking(w))

\* softmax_rescale_o and P V for one row: a row whose maximum is still -inf is
\* rescaled by exp(-inf - -inf) unless guarded, and a weight of zero times a
\* stale value may be NaN.
Fold(w, r) ==
    LET s    == acc_s[r]
        a    == acc_o[r]
        live == {c \in TileCol : s.k[c] # NegInf}
    IN  [seen |-> a.seen \/ live # {},
         sum  |-> a.sum (+) SetToBag({<<s.q, s.k[c], RowIn(smem["V"], c)>> : c \in live}),
         nan  |-> \/ a.nan
                  \/ \E c \in TileCol : RowIn(smem["V"], c) = Junk
                  \/ step[w] > 0 /\ ~a.seen /\ live = {} /\ ~CheckInf(w)]

FoldRows(w) == acc_o' = [r \in TileRow |-> IF r \in Mine(w) THEN Fold(w, r) ELSE acc_o[r]]

\* Second half of an iteration of the masking loop: the next K is prefetched.
MaskedValues(w) ==
    LET n    == n_block[w]
        last == step[w] + 1 = MaskSteps \/ (MaskSteps > 1 /\ n <= 0)
    IN  /\ pc[w] = "values" /\ Masking(w)
        /\ IF n > 0 THEN Issue(w, {FullTile("K", n - 1)}) ELSE UNCHANGED inflight
        /\ FoldRows(w)
        /\ n_block' = [n_block EXCEPT ![w] = n - 1]
        /\ step' = [step EXCEPT ![w] = IF last THEN MaskSteps ELSE @ + 1]
        /\ Goto(w, IF last THEN "search" ELSE "landK")
        /\ UNCHANGED <<call, m_block, smem, acc_s, written>>

\* Between the loops: if the prefetched tile is masked, the first live one is
\* fetched in its place, after a wait for the copy in flight.
Search(w) ==
    LET n == NextLive(n_block[w])
    IN  /\ pc[w] = "search"
        /\ n_block' = [n_block EXCEPT ![w] = n]
        /\ Goto(w, IF n >= 0 THEN "landK" ELSE "epilogue")
        /\ IF n >= 0 /\ n # n_block[w]
           THEN Waited(w) /\ Issue(w, {FullTile("K", n)})
           ELSE UNCHANGED inflight
        /\ UNCHANGED <<call, m_block, step, smem, acc_s, acc_o, written>>

\* Second half of an iteration of the live loop.
LiveValues(w) ==
    LET next == NextLive(n_block[w] - 1)
    IN  /\ pc[w] = "values" /\ ~Masking(w)
        /\ IF next >= 0 THEN Issue(w, {FullTile("K", next)}) ELSE UNCHANGED inflight
        /\ FoldRows(w)
        /\ n_block' = [n_block EXCEPT ![w] = next]
        /\ Goto(w, IF next >= 0 THEN "landK" ELSE "epilogue")
        /\ UNCHANGED <<call, m_block, step, smem, acc_s, written>>

\* normalize_softmax_lse and the stores of the fp32 rows and of the lse: a row
\* whose sum is zero or NaN has lse = +inf.
Epilogue(w) ==
    /\ pc[w] = "epilogue"
    /\ Goto(w, "exit")
    /\ written' = [i \in DOMAIN written |->
          LET r == i - m_block * kM
          IN  IF r \in Mine(w)
              THEN [sum |-> acc_o[r].sum, nan |-> acc_o[r].nan,
                    lse |-> IF acc_o[r].seen /\ ~acc_o[r].nan THEN "finite" ELSE "inf"]
              ELSE written[i]]
    /\ UNCHANGED <<call, m_block, step, n_block, smem, inflight, acc_s, acc_o>>

\* The next CTA of the grid starts with registers and shared memory of its own.
NextCta ==
    /\ \A w \in Warp : pc[w] = "exit"
    /\ m_block + 1 < call.grid
    /\ m_block' = m_block + 1
    /\ pc' = [w \in Warp |-> "prologue"]
    /\ step' = [w \in Warp |-> 0]
    /\ n_block' = [w \in Warp |-> 0]
    /\ smem' = [s \in {"Q", "K", "V"} |-> [w \in Warp |-> Stale]]
    /\ inflight' = [w \in Warp |-> {}]
    /\ acc_s' = [r \in TileRow |-> NoScore]
    /\ acc_o' = [r \in TileRow |-> NoRow]
    /\ UNCHANGED <<call, written>>

FwdInit ==
    /\ m_block = 0
    /\ pc = [w \in Warp |-> "prologue"]
    /\ step = [w \in Warp |-> 0]
    /\ n_block = [w \in Warp |-> 0]
    /\ smem = [s \in {"Q", "K", "V"} |-> [w \in Warp |-> Stale]]
    /\ inflight = [w \in Warp |-> {}]
    /\ acc_s = [r \in TileRow |-> NoScore]
    /\ acc_o = [r \in TileRow |-> NoRow]
    /\ written = [i \in 0 .. call.S - 1 |-> [sum |-> EmptyBag, nan |-> FALSE, lse |-> "none"]]

FwdDone == m_block + 1 = call.grid /\ \A w \in Warp : pc[w] = "exit"

FwdNext ==
    \/ Sync
    \/ NextCta
    \/ \E w \in Warp :
          \/ Land(w) \/ Prologue(w) \/ Scores(w) \/ MaskedValues(w)
          \/ Search(w) \/ LiveValues(w) \/ Epilogue(w)
=============================================================================
