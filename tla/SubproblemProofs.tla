--------------------------- MODULE SubproblemProofs ---------------------------
(***************************************************************************)
(* One subproblem.  The walk of build_path_state, for every decomposition, *)
(* length, path and gather order: the tokens and groups it computes, and   *)
(* what the levels below it share out.  The tile verdicts of mask.h on     *)
(* such groups, the rows that the forward kernel stores, and the gradients *)
(* that the backward kernel returns, for every launch.                     *)
(***************************************************************************)
EXTENDS KernelPair, PathState, FiniteSetTheorems, SequenceTheorems, WellFoundedInduction, TLAPS

\* Quotient and remainder.
LEMMA Quotient ==
    ASSUME NEW a \in Int, NEW b \in Nat \ {0}
    PROVE  a \div b \in Int /\ a % b \in 0 .. b - 1 /\ a = b * (a \div b) + (a % b)
  OBVIOUS

\* A quotient is bounded by what it is the quotient of.
LEMMA Below ==
    ASSUME NEW a \in Int, NEW b \in Nat \ {0}, NEW q \in Int
    PROVE  /\ a < b * q => a \div b < q
           /\ b * q <= a => q <= a \div b
<1> DEFINE x == a \div b
           r == a % b
<1>1. x \in Int /\ r \in 0 .. b - 1 /\ a = b * x + r
  BY Quotient
<1> HIDE DEF x, r
<1>2. ASSUME a < b * q, q <= x PROVE FALSE
  <2>1. b * q <= b * x
    BY <1>1, <1>2
  <2>2. QED
    BY <1>1, <1>2, <2>1
<1>3. ASSUME b * q <= a, x < q PROVE FALSE
  <2>1. x + 1 <= q /\ b * (x + 1) <= b * q /\ b * (x + 1) = b * x + b
    BY <1>1, <1>3
  <2>2. QED
    BY <1>1, <1>3, <2>1
<1>4. QED
  BY <1>1, <1>2, <1>3 DEF x

\* The quotient that rounds up covers what it rounds.
LEMMA RoundsUp ==
    ASSUME NEW a \in Int, NEW b \in Nat \ {0}
    PROVE  CeilDiv(a, b) \in Int /\ a <= b * CeilDiv(a, b)
<1> DEFINE x == (a + b - 1) \div b
           r == (a + b - 1) % b
<1>1. x \in Int /\ r \in 0 .. b - 1 /\ a + b - 1 = b * x + r
  BY Quotient
<1> HIDE DEF x, r
<1>2. a <= b * x
  BY <1>1
<1>3. QED
  BY <1>1, <1>2 DEF x, CeilDiv

-----------------------------------------------------------------------------
(* What the summaries of a launch say of a token.                            *)

\* The arguments of a launch.
LEMMA CallIs ==
    ASSUME NEW c \in Calls
    PROVE  /\ c.L \in Nat /\ c.S \in Nat /\ c.L <= c.S
           /\ c.bits \in [Real(c) -> SUBSET Group]
           /\ c.fwd.kM \in Nat \ {0} /\ c.fwd.kN \in Nat \ {0}
           /\ c.bwd.kM \in Nat \ {0} /\ c.bwd.kN \in Nat \ {0} /\ c.bwd.kN % 2 = 0
           /\ c.layout = "uniform" => c.S % SegAlign = 0
           /\ kCqsBlk \in Nat \ {0}
  BY CallsAssumption, TileMaskAssumption DEF Real

\* The padding ends with a block of summaries.
LEMMA WholeBlocks ==
    ASSUME NEW s \in Nat, s % SegAlign = 0
    PROVE  s <= kCqsBlk * (s \div kCqsBlk)
<1> DEFINE q == s \div SegAlign
           r == SegAlign \div kCqsBlk
<1>1. SegAlign \in Nat \ {0} /\ kCqsBlk \in Nat \ {0}
  BY SegAlignAssumption, TileMaskAssumption
<1>2. q \in Int /\ s = SegAlign * q
  BY <1>1, Quotient
<1>3. r \in Int /\ SegAlign = kCqsBlk * r
  BY <1>1, Quotient, SegAlignAssumption
<1> HIDE DEF q, r
<1>4. s = kCqsBlk * (r * q) /\ r * q \in Int
  BY <1>1, <1>2, <1>3
<1>5. r * q <= s \div kCqsBlk
  BY <1>1, <1>4, Below
<1>6. s <= kCqsBlk * (s \div kCqsBlk)
  <2> DEFINE x == r * q
             y == s \div kCqsBlk
  <2>1. x \in Int /\ y \in Int /\ x <= y /\ s = kCqsBlk * x
    BY <1>1, <1>4, <1>5, Quotient
  <2> HIDE DEF x, y
  <2>2. kCqsBlk * x <= kCqsBlk * y
    BY <1>1, <2>1
  <2>3. QED
    BY <2>1, <2>2 DEF y
<1>7. QED
  BY <1>6

\* The summaries of a sequence, block by block.
LEMMA SummariesAre ==
    ASSUME NEW c \in Calls
    PROVE  LET t == Summaries(c.bits, c.L)
           IN  /\ t.nblk \in Int
               /\ \A u \in Real(c) :
                     /\ u \div kCqsBlk \in 0 .. t.nblk - 1
                     /\ c.bits[u] \subseteq t.blk_or[u \div kCqsBlk]
                     /\ t.blk_and[u \div kCqsBlk] \subseteq c.bits[u]
               /\ \A b \in 0 .. t.nblk - 1 : t.blk_and[b] \subseteq Group
<1> DEFINE nblk == CeilDiv(c.L, kCqsBlk)
           or(b) == UNION {c.bits[u] : u \in BlockTokens(b, c.L)}
           and(b) == {g \in Group : \A u \in BlockTokens(b, c.L) : g \in c.bits[u]}
           t == Summaries(c.bits, c.L)
<1>1. /\ t.nblk = nblk
      /\ \A b \in 0 .. nblk - 1 : t.blk_or[b] = or(b) /\ t.blk_and[b] = and(b)
  BY DEF Summaries
<1>2. nblk \in Int /\ c.L <= kCqsBlk * nblk /\ kCqsBlk \in Nat \ {0} /\ c.L \in Nat
  BY CallIs, RoundsUp
<1>3. ASSUME NEW u \in Real(c)
      PROVE  u \div kCqsBlk \in 0 .. nblk - 1 /\ u \in BlockTokens(u \div kCqsBlk, c.L)
  <2> DEFINE b == u \div kCqsBlk
  <2>1. u \in 0 .. c.L - 1
    BY DEF Real
  <2> HIDE DEF nblk
  <2>2. b \in Int /\ u % kCqsBlk \in 0 .. kCqsBlk - 1 /\ u = kCqsBlk * b + (u % kCqsBlk)
    BY <1>2, <2>1, Quotient
  <2>3. 0 <= b /\ b < nblk
    BY <1>2, <2>1, Below
  <2>4. u < kCqsBlk * (b + 1) /\ kCqsBlk * b <= u
    BY <1>2, <2>2
  <2>5. (b + 1) * kCqsBlk = kCqsBlk * (b + 1) /\ b * kCqsBlk = kCqsBlk * b
    BY <1>2, <2>2
  <2>6. u \in BlockTokens(b, c.L)
    BY <1>2, <2>1, <2>2, <2>4, <2>5 DEF BlockTokens, MinOf
  <2>7. QED
    BY <1>2, <2>2, <2>3, <2>6
<1>4. \A u \in Real(c) : c.bits[u] \subseteq Group
  BY CallIs
<1>5. ASSUME NEW u \in Real(c)
      PROVE  c.bits[u] \subseteq or(u \div kCqsBlk) /\ and(u \div kCqsBlk) \subseteq c.bits[u]
  BY <1>3
<1>6. QED
  BY <1>1, <1>2, <1>3, <1>5

\* The tables a launch is given, also where they are padded.
LEMMA TablesAre ==
    ASSUME NEW c \in Calls
    PROVE  /\ TablesOf(c).nblk \in Int
           /\ \A u \in Real(c) :
                 /\ u \div kCqsBlk \in 0 .. TablesOf(c).nblk - 1
                 /\ c.bits[u] \subseteq TablesOf(c).blk_or[u \div kCqsBlk]
                 /\ TablesOf(c).blk_and[u \div kCqsBlk] \subseteq c.bits[u]
           /\ \A b \in 0 .. TablesOf(c).nblk - 1 : TablesOf(c).blk_and[b] \subseteq Group
<1>1. CASE c.layout # "uniform"
  BY <1>1, SummariesAre DEF TablesOf
<1>2. CASE c.layout = "uniform"
  <2> DEFINE t == Summaries(c.bits, c.L)
             p == Padded(t, c.S)
             nb == c.S \div kCqsBlk
  <2>1. TablesOf(c) = p
    BY <1>2 DEF TablesOf
  <2>2. /\ p.nblk = nb
        /\ \A b \in 0 .. nb - 1 : /\ p.blk_or[b] = (IF b < t.nblk THEN t.blk_or[b] ELSE {})
                                 /\ p.blk_and[b] = (IF b < t.nblk THEN t.blk_and[b] ELSE {})
    BY DEF Padded
  <2>3. c.L \in Nat /\ c.S \in Nat /\ c.L <= c.S /\ kCqsBlk \in Nat \ {0} /\ c.S <= kCqsBlk * nb
    BY <1>2, CallIs, WholeBlocks
  <2>4. nb \in Int
    BY <2>3, Quotient
  <2> HIDE DEF nb, p
  <2>5. ASSUME NEW u \in Real(c)
        PROVE  u \div kCqsBlk \in 0 .. nb - 1
    <3>1. u \in Int /\ 0 <= u /\ u < kCqsBlk * nb
      BY <2>3, <2>4 DEF Real
    <3>2. u \div kCqsBlk < nb
      BY <2>3, <2>4, <3>1, Below
    <3>3. u \div kCqsBlk \in Int /\ 0 <= u \div kCqsBlk
      BY <3>1, SummariesAre
    <3>4. QED
      BY <2>4, <3>2, <3>3
  <2>6. /\ t.nblk \in Int
        /\ \A u \in Real(c) : /\ u \div kCqsBlk \in 0 .. t.nblk - 1
                              /\ c.bits[u] \subseteq t.blk_or[u \div kCqsBlk]
                              /\ t.blk_and[u \div kCqsBlk] \subseteq c.bits[u]
        /\ \A b \in 0 .. t.nblk - 1 : t.blk_and[b] \subseteq Group
    BY SummariesAre
  <2> HIDE DEF t
  <2>7. \A b \in 0 .. nb - 1 : p.blk_and[b] \subseteq Group
    BY <2>2, <2>4, <2>6
  <2>8. QED
    BY <2>1, <2>2, <2>4, <2>5, <2>6, <2>7
<1>3. QED
  BY <1>1, <1>2

\* A token of a range lies in one of its blocks.
LEMMA InBlocks ==
    ASSUME NEW c \in Calls, NEW start \in Nat, NEW extent \in Nat,
           NEW u \in TileOf(start, extent) \cap Real(c)
    PROVE  u \div kCqsBlk \in Blocks(TablesOf(c), start, extent)
<1> DEFINE b == u \div kCqsBlk
           lo == start \div kCqsBlk
           hi == CeilDiv(start + extent, kCqsBlk)
<1>1. kCqsBlk \in Nat \ {0} /\ u \in Int /\ start <= u /\ u < start + extent
  BY CallIs DEF TileOf
<1>2. /\ lo \in Int /\ kCqsBlk * lo <= u
      /\ hi \in Int /\ u < kCqsBlk * hi
  <2>1. lo \in Int /\ start % kCqsBlk \in 0 .. kCqsBlk - 1 /\ start = kCqsBlk * lo + (start % kCqsBlk)
    BY <1>1, Quotient
  <2>2. hi \in Int /\ start + extent <= kCqsBlk * hi
    BY <1>1, RoundsUp
  <2> HIDE DEF lo, hi
  <2>3. QED
    BY <1>1, <2>1, <2>2
<1> HIDE DEF lo, hi
<1>3. b \in Int /\ lo <= b /\ b < hi
  BY <1>1, <1>2, Below, Quotient
<1>4. TablesOf(c).nblk \in Int /\ b < TablesOf(c).nblk
  BY <1>3, TablesAre
<1> HIDE DEF b
<1>5. b \in lo .. MinOf(hi, TablesOf(c).nblk) - 1
  BY <1>2, <1>3, <1>4 DEF MinOf
<1>6. QED
  BY <1>5 DEF Blocks, lo, hi, b

\* The OR over a range holds the groups of its tokens, the AND is held by each.
LEMMA RangesAre ==
    ASSUME NEW c \in Calls, NEW start \in Nat, NEW extent \in Nat,
           NEW u \in TileOf(start, extent) \cap Real(c)
    PROVE  /\ c.bits[u] \subseteq cqs_blk_range_or(TablesOf(c), start, extent)
           /\ cqs_blk_range_and(TablesOf(c), start, extent) \subseteq c.bits[u]
<1> DEFINE b == u \div kCqsBlk
<1>1. b \in Blocks(TablesOf(c), start, extent)
  BY InBlocks
<1>2. c.bits[u] \subseteq TablesOf(c).blk_or[b] /\ TablesOf(c).blk_and[b] \subseteq c.bits[u]
  BY TablesAre
<1> HIDE DEF b
<1>3. QED
  BY <1>1, <1>2 DEF cqs_blk_range_or, cqs_blk_range_and

-----------------------------------------------------------------------------
(* The verdicts.                                                             *)

\* The two-block fast path of the column half reads what the reductions compute.
LEMMA FastIsGeneral ==
    ASSUME NEW c \in Calls, NEW base \in Nat, NEW extent \in Nat, NEW len
    PROVE  cqs_col_summary(TablesOf(c), base, extent, len)
               = ColGeneral(TablesOf(c), base, extent, len)
<1> DEFINE t == TablesOf(c)
           b0 == base \div kCqsBlk
<1> SUFFICES ASSUME FastPath(t, base, extent, len)
             PROVE  ColFast(t, base) = ColGeneral(t, base, extent, len)
  BY DEF cqs_col_summary
<1>1. /\ extent = 2 * kCqsBlk /\ base % kCqsBlk = 0 /\ base + extent <= len
      /\ b0 + 2 <= t.nblk /\ kCqsBlk \in Nat \ {0} /\ t.nblk \in Int
  BY CallIs, TablesAre DEF FastPath
<1>2. b0 \in Int /\ base = kCqsBlk * b0
  BY <1>1, Quotient
<1>3. 0 <= b0
  BY <1>1, <1>2, Below
<1>4. CeilDiv(base + extent, kCqsBlk) = b0 + 2
  <2> DEFINE e == base + extent + kCqsBlk - 1
             q == e \div kCqsBlk
  <2> DEFINE lo == b0 + 2
             hi == b0 + 3
  <2>1. /\ kCqsBlk * lo = kCqsBlk * b0 + 2 * kCqsBlk
        /\ kCqsBlk * hi = kCqsBlk * b0 + 3 * kCqsBlk
    BY <1>1, <1>2
  <2> HIDE DEF b0
  <2>2. /\ e \in Int /\ kCqsBlk * lo <= e /\ e < kCqsBlk * hi
        /\ lo \in Int /\ hi \in Int
    BY <1>1, <1>2, <2>1
  <2> HIDE DEF e, lo, hi
  <2>3. q \in Int /\ lo <= q
    BY <1>1, <2>2, Below, Quotient
  <2>4. q < hi
    BY <1>1, <2>2, Below
  <2>5. q = b0 + 2
    BY <1>2, <2>3, <2>4 DEF lo, hi
  <2>6. QED
    BY <2>5 DEF e, CeilDiv
<1>5. Blocks(t, base, extent) = {b0, b0 + 1}
  <2>1. MinOf(CeilDiv(base + extent, kCqsBlk), t.nblk) = b0 + 2
    BY <1>1, <1>2, <1>4 DEF MinOf
  <2>2. Blocks(t, base, extent) = b0 .. b0 + 1
    BY <1>2, <2>1 DEF Blocks
  <2> HIDE DEF b0
  <2>3. b0 .. b0 + 1 = {b0, b0 + 1}
    BY <1>2
  <2>4. QED
    BY <2>2, <2>3
<1>6. t.blk_and[b0] \subseteq Group /\ t.blk_and[b0 + 1] \subseteq Group
  <2>1. b0 \in 0 .. t.nblk - 1 /\ b0 + 1 \in 0 .. t.nblk - 1
    BY <1>1, <1>2, <1>3
  <2>2. QED
    BY <2>1, TablesAre
<1>7. Aligned(base, extent)
  <2>1. (2 * kCqsBlk) % kCqsBlk = 0
    <3> DEFINE e == 2 * kCqsBlk
               q == e \div kCqsBlk
    <3>1. e \in Int /\ kCqsBlk * 2 <= e /\ e < kCqsBlk * 3 /\ e = kCqsBlk * 2
      BY <1>1
    <3> HIDE DEF e
    <3>2. q \in Int /\ e % kCqsBlk \in 0 .. kCqsBlk - 1 /\ e = kCqsBlk * q + (e % kCqsBlk)
      BY <1>1, <3>1, Quotient
    <3>3. 2 <= q /\ q < 3
      BY <1>1, <3>1, Below
    <3> HIDE DEF q
    <3>4. q = 2
      BY <3>2, <3>3
    <3>5. e % kCqsBlk = 0
      BY <1>1, <3>1, <3>2, <3>4
    <3>6. QED
      BY <3>5 DEF e
  <2>2. QED
    BY <1>1, <2>1 DEF Aligned
<1>8. cqs_blk_range_or(t, base, extent) = t.blk_or[b0] \cup t.blk_or[b0 + 1]
  BY <1>5 DEF cqs_blk_range_or
<1>9. cqs_blk_range_and(t, base, extent) = t.blk_and[b0] \cap t.blk_and[b0 + 1]
  BY <1>5, <1>6 DEF cqs_blk_range_and
<1>10. QED
  BY <1>1, <1>7, <1>8, <1>9 DEF ColFast, ColGeneral

\* The forward's verdicts on a tile.
LEMMA ForwardSound ==
    ASSUME call \in Calls, NEW m \in Nat, NEW nb \in Nat
    PROVE  FwdVerdicts(m, nb)
<1> DEFINE t == TablesOf(call)
           row0 == m * call.fwd.kM
           col0 == nb * call.fwd.kN
           R == RealTile(row0, call.fwd.kM)
           K == RealTile(col0, call.fwd.kN)
           rs == cqs_row_summary(t, row0, call.fwd.kM, call.S)
           cs == cqs_col_summary(t, col0, call.fwd.kN, call.S)
<1>1. /\ row0 \in Nat /\ col0 \in Nat /\ call.fwd.kM \in Nat /\ call.fwd.kN \in Nat
  BY CallIs
<1>2. cs = ColGeneral(t, col0, call.fwd.kN, call.S)
  BY <1>1, FastIsGeneral
<1>3. /\ \A i \in R : call.bits[i] \subseteq rs.row_or /\ rs.row_and \subseteq call.bits[i]
      /\ \A j \in K : call.bits[j] \subseteq cs.col_or /\ cs.col_and \subseteq call.bits[j]
  BY <1>1, <1>2, RangesAre DEF RealTile, cqs_row_summary, ColGeneral
<1>4. cqs_tile_masked_c(rs, cs) => AllMasked(call.bits, R, K)
  BY <1>3 DEF cqs_tile_masked_c, AllMasked
<1>5. cqs_tile_clear_c(rs, cs) => NoneMasked(call.bits, R, K)
  BY <1>3 DEF cqs_tile_clear_c, NoneMasked
<1>6. QED
  BY <1>2, <1>4, <1>5 DEF FwdVerdicts

\* The columns a warp scores are its half of the tile.
LEMMA SpanIs ==
    ASSUME call \in Calls, NEW w \in Warp, NEW c \in B!SpanOf(w)
    PROVE  /\ c \in Nat /\ c < call.bwd.kN
           /\ w * (call.bwd.kN \div 2) <= c
           /\ c < w * (call.bwd.kN \div 2) + (call.bwd.kN \div 2)
<1> DEFINE k == call.bwd.kN
           h == k \div 2
           q == (2 * c) \div k
<1>1. k \in Nat \ {0} /\ h \in Int /\ k = 2 * h /\ w \in {0, 1}
  <2>1. k \in Nat \ {0} /\ k % 2 = 0 /\ w \in {0, 1}
    BY CallIs DEF Warp
  <2> HIDE DEF k
  <2>2. QED
    BY <2>1
<1>2. c \in Nat /\ c < k /\ q = w
  BY <1>1 DEF B!SpanOf, B!TileCol, B!kN
<1>3. q \in Int /\ (2 * c) % k \in 0 .. k - 1 /\ 2 * c = k * q + ((2 * c) % k)
  <2> DEFINE e == 2 * c
  <2>1. e \in Int
    BY <1>2
  <2> HIDE DEF e, k
  <2>2. e \div k \in Int /\ e % k \in 0 .. k - 1 /\ e = k * (e \div k) + (e % k)
    BY <1>1, <2>1, Quotient
  <2>3. QED
    BY <2>2 DEF e
<1> HIDE DEF k, h, q
<1>4. k * w = 2 * (w * h) /\ w * h \in Int
  BY <1>1
<1>5. 2 * (w * h) <= 2 * c /\ 2 * c < 2 * (w * h) + 2 * h
  BY <1>1, <1>2, <1>3, <1>4
<1>6. w * h <= c /\ c < w * h + h
  <2> DEFINE x == w * h
  <2>1. x \in Int /\ 2 * x <= 2 * c /\ 2 * c < 2 * x + 2 * h
    BY <1>4, <1>5
  <2> HIDE DEF x
  <2>2. x <= c /\ c < x + h
    BY <1>1, <1>2, <2>1
  <2>3. QED
    BY <2>2 DEF x
<1>7. QED
  BY <1>2, <1>6 DEF k, h

\* The backward kernel reads its tables with the operators of this module.
LEMMA SameTables ==
    /\ B!TablesOf(call) = TablesOf(call)
    /\ \A t, start, extent :
          /\ B!cqs_blk_range_or(t, start, extent) = cqs_blk_range_or(t, start, extent)
          /\ B!cqs_blk_range_and(t, start, extent) = cqs_blk_range_and(t, start, extent)
<1>1. B!TablesOf(call) = TablesOf(call)
  BY DEF B!TablesOf, TablesOf, B!Padded, Padded, B!Summaries, Summaries, B!CeilDiv, CeilDiv,
         B!BlockTokens, BlockTokens, B!MinOf, MinOf
<1>2. \A t, start, extent : B!Blocks(t, start, extent) = Blocks(t, start, extent)
  BY DEF B!Blocks, Blocks, B!CeilDiv, CeilDiv, B!MinOf, MinOf
<1>3. QED
  BY <1>1, <1>2 DEF B!cqs_blk_range_or, cqs_blk_range_or, B!cqs_blk_range_and, cqs_blk_range_and

\* The backward's verdicts on a tile, the second of them by warp.
LEMMA BackwardSound ==
    ASSUME call \in Calls, NEW m \in Nat, NEW nb \in Nat
    PROVE  BwdVerdicts(m, nb)
<1> DEFINE t == TablesOf(call)
           kM == call.bwd.kM
           kN == call.bwd.kN
           h == kN \div 2
           row0 == m * kM
           col0 == nb * kN
           R == RealTile(row0, kM)
           K(w) == {nb * kN + c : c \in B!SpanOf(w)} \cap Real(call)
<1>1. kM \in Nat /\ kN \in Nat /\ row0 \in Nat /\ col0 \in Nat /\ h \in Nat
  <2>1. kM \in Nat /\ kN \in Nat /\ row0 \in Nat /\ col0 \in Nat
    BY CallIs
  <2>2. QED
    BY <2>1
<1>2. \A i \in R : /\ call.bits[i] \subseteq cqs_blk_range_or(t, row0, kM)
                   /\ cqs_blk_range_and(t, row0, kM) \subseteq call.bits[i]
  BY <1>1, RangesAre DEF RealTile
<1>3. ASSUME NEW w \in Warp, NEW j \in K(w)
      PROVE  /\ cqs_blk_range_and(t, col0, kN) \subseteq call.bits[j]
             /\ call.bits[j] \subseteq cqs_blk_range_or(t, col0 + w * h, h)
  <2>1. PICK c \in B!SpanOf(w) : j = col0 + c
    OBVIOUS
  <2>2. /\ c \in Nat /\ c < kN /\ w * h <= c /\ c < w * h + h /\ w * h \in Nat
    BY <1>1, SpanIs DEF Warp
  <2>3. j \in TileOf(col0, kN) \cap Real(call) /\ j \in TileOf(col0 + w * h, h) \cap Real(call)
    <3> HIDE DEF h, col0, kN
    <3>1. j \in TileOf(col0, kN) /\ j \in TileOf(col0 + w * h, h)
      BY <1>1, <2>1, <2>2 DEF TileOf
    <3>2. QED
      BY <3>1 DEF col0, kN
  <2>4. col0 + w * h \in Nat
    BY <1>1, <2>2
  <2> HIDE DEF h, col0, kN
  <2>5. QED
    BY <1>1, <2>3, <2>4, RangesAre
<1>4. ASSUME B!Skip(m, nb), NEW w \in Warp PROVE AllMasked(call.bits, R, K(w))
  <2>1. cqs_blk_range_and(t, row0, kM) \cap cqs_blk_range_and(t, col0, kN) # {}
    BY <1>4, SameTables DEF B!Skip, B!kM, B!kN, B!cqs_tile_masked
  <2> HIDE DEF R, K, t, row0, col0, kM, kN, h
  <2>2. QED
    BY <1>2, <1>3, <2>1 DEF AllMasked
<1>5. ASSUME NEW w \in Warp, call.cqs, ~B!ActiveIn(w, m, nb) PROVE NoneMasked(call.bits, R, K(w))
  <2>1. cqs_blk_range_or(t, row0, kM) \cap cqs_blk_range_or(t, col0 + w * h, h) = {}
    BY <1>5, SameTables DEF B!ActiveIn, B!kM, B!kN, B!cqs_tile_clear
  <2> HIDE DEF R, K, t, row0, col0, kM, kN, h
  <2>2. QED
    BY <1>2, <1>3, <2>1 DEF NoneMasked
<1>6. QED
  BY <1>4, <1>5 DEF BwdVerdicts

-----------------------------------------------------------------------------
\* No step of either kernel changes what was launched.
LEMMA SameCall == [Next]_vars => call' = call
<1>1. F!FwdNext => call' = call
  BY DEF F!FwdNext, F!Sync, F!NextCta, F!Land, F!Prologue, F!Scores, F!MaskedValues,
         F!Search, F!LiveValues, F!Epilogue
<1>2. B!BwdNext => call' = call
  BY DEF B!BwdNext, B!Sync, B!NextCta, B!Land, B!Enter, B!Load, B!Scores, B!Values,
         B!Queries, B!Refill, B!Stage, B!Store
<1>3. QED
  BY <1>1, <1>2 DEF Next, Forward, Merge, Backward, Complete, vars

\* A tile that either kernel skips holds no kept pair, one it does not test pair by
\* pair holds no masked one, and the fast path changes no verdict: for every length,
\* tile shape, layout, padding and group bits.
THEOREM VerdictsAreSound == Spec => []VerdictsSound
<1>1. Init => call \in Calls
  BY DEF Init
<1>2. call \in Calls /\ [Next]_vars => (call \in Calls)'
  BY SameCall
<1>3. call \in Calls => VerdictsSound
  <2> SUFFICES ASSUME call \in Calls PROVE VerdictsSound
    OBVIOUS
  <2>1. /\ CeilDiv(call.S, call.fwd.kM) \in Int /\ CeilDiv(call.S, call.fwd.kN) \in Int
        /\ CeilDiv(call.L, call.bwd.kM) \in Int /\ CeilDiv(call.L, call.bwd.kN) \in Int
    <3>1. /\ call.S \in Int /\ call.L \in Int
          /\ call.fwd.kM \in Nat \ {0} /\ call.fwd.kN \in Nat \ {0}
          /\ call.bwd.kM \in Nat \ {0} /\ call.bwd.kN \in Nat \ {0}
      BY CallIs
    <3>2. QED
      BY <3>1, RoundsUp
  <2>2. QED
    BY <2>1, ForwardSound, BackwardSound DEF VerdictsSound
<1>4. QED
  BY <1>1, <1>2, <1>3, PTL DEF Spec

-----------------------------------------------------------------------------

-----------------------------------------------------------------------------
(* Numbers, sets and lists.                                                  *)

\* Every non-empty set of naturals has a least element.
LEMMA LeastNatural ==
    ASSUME NEW T, T \subseteq Nat, T # {}
    PROVE  \E k \in T : \A m \in T : k <= m
<1> DEFINE R == {ss \in Nat \X Nat : ss[1] < ss[2]}
<1>1. IsWellFoundedOn(R, Nat)
  BY NatLessThanWellFounded, Zenon DEF OpToRel
<1>2. \A m, k \in Nat : <<m, k>> \notin R => k <= m
  OBVIOUS
<1> HIDE DEF R
<1>3. \E k \in T : \A m \in T : <<m, k>> \notin R
  BY <1>1, WFMin, Zenon
<1>4. QED
  BY <1>2, <1>3

\* Induction over the naturals.
LEMMA Induction ==
    ASSUME NEW H, 0 \in H, \A i \in Nat : i \in H => i + 1 \in H
    PROVE  \A i \in Nat : i \in H
<1> SUFFICES ASSUME Nat \ H # {} PROVE FALSE
  OBVIOUS
<1>1. PICK m \in Nat \ H : \A k \in Nat \ H : m <= k
  BY LeastNatural
<1>2. m - 1 \in Nat /\ ~(m <= m - 1)
  BY <1>1
<1>3. QED
  BY <1>1, <1>2

\* How many members of a set of numbers are smaller.
Smaller(T, x) == Cardinality({w \in T : w < x})

\* In a finite set each number has a place of its own, and every place is taken.
LEMMA PlaceIs ==
    ASSUME NEW T, T \subseteq Int, IsFiniteSet(T)
    PROVE  /\ Cardinality(T) \in Nat
           /\ \A x \in T : Smaller(T, x) \in 0 .. Cardinality(T) - 1
           /\ \A x, y \in T : x < y => Smaller(T, x) < Smaller(T, y)
           /\ \A r \in 0 .. Cardinality(T) - 1 : \E x \in T : Smaller(T, x) = r
<1> DEFINE Under(x) == {w \in T : w < x}
           m == Cardinality(T)
           f == [x \in T |-> Smaller(T, x)]
<1>1. \A V \in SUBSET T : IsFiniteSet(V) /\ Cardinality(V) \in Nat
  BY FS_Subset, FS_CardinalityType
<1>2. ASSUME NEW V \in SUBSET T, NEW x \in V
      PROVE  Cardinality(Under(x) \cap V) < Cardinality(V)
  <2>1. Under(x) \cap V \subseteq V /\ Under(x) \cap V # V /\ IsFiniteSet(V)
    BY <1>1
  <2>2. Cardinality(Under(x) \cap V) <= Cardinality(V) /\ Cardinality(Under(x) \cap V) # Cardinality(V)
    BY <2>1, FS_Subset
  <2>3. Cardinality(V) \in Nat /\ Cardinality(Under(x) \cap V) \in Nat
    BY <1>1, <2>1
  <2>4. QED
    BY <2>2, <2>3
<1>3. m \in Nat /\ \A x \in T : Smaller(T, x) \in 0 .. m - 1
  <2>1. m \in Nat /\ \A x \in T : Cardinality(Under(x)) \in Nat
    BY <1>1
  <2>2. \A x \in T : Cardinality(Under(x)) < m
    <3>1. \A x \in T : Under(x) \cap T = Under(x)
      OBVIOUS
    <3> HIDE DEF Under
    <3>2. QED
      BY <1>2, <3>1
  <2> HIDE DEF m
  <2>3. QED
    BY <2>1, <2>2 DEF Smaller
<1>4. ASSUME NEW x \in T, NEW y \in T, x < y
      PROVE  Smaller(T, x) < Smaller(T, y)
  <2> DEFINE V == Under(y)
  <2>0. \A w \in T : w < x => w < y
    BY <1>4
  <2>1. V \in SUBSET T /\ x \in V /\ Under(x) \cap V = Under(x)
    BY <1>4, <2>0
  <2>2. Cardinality(Under(x) \cap V) < Cardinality(V)
    <3> HIDE DEF V, Under
    <3>1. QED
      BY <1>2, <2>1
  <2>3. QED
    BY <2>1, <2>2 DEF Smaller
<1>5. \A r \in 0 .. m - 1 : \E x \in T : Smaller(T, x) = r
  <2>1. \A x, y \in T : Smaller(T, x) = Smaller(T, y) => x = y
    <3> SUFFICES ASSUME NEW x \in T, NEW y \in T, Smaller(T, x) = Smaller(T, y), x # y
                 PROVE  FALSE
      OBVIOUS
    <3>1. x < y \/ y < x
      OBVIOUS
    <3>2. Smaller(T, x) \in Int
      BY <1>3
    <3>3. QED
      BY <1>4, <3>1, <3>2
  <2> HIDE DEF m
  <2>2. f \in Injection(T, 0 .. m - 1)
    BY <1>3, <2>1 DEF Injection, IsInjective
  <2>3. IsFiniteSet(0 .. m - 1) /\ Cardinality(0 .. m - 1) = m
    BY <1>3, FS_Interval
  <2> HIDE DEF f
  <2>4. f \in Surjection(T, 0 .. m - 1)
    BY <2>2, <2>3, FS_Injection DEF m
  <2>5. QED
    BY <2>4 DEF Surjection, f
<1>6. QED
  BY <1>3, <1>4, <1>5

\* The entries of a list, each before the later ones in the sense of a relation.
Ordered(s, R) == \A i, j \in DOMAIN s : i < j => <<s[i], s[j]>> \in R

\* Lists in order whose members are in order, one after the other: a list in order.
LEMMA ConcatOrdered ==
    ASSUME NEW X, NEW R, NEW s \in Seq(X), NEW t \in Seq(X), Ordered(s, R), Ordered(t, R),
           \A x \in Range(s), y \in Range(t) : <<x, y>> \in R
    PROVE  s \o t \in Seq(X) /\ Range(s \o t) = Range(s) \cup Range(t) /\ Ordered(s \o t, R)
<1>1. /\ s \o t \in Seq(X)
      /\ DOMAIN (s \o t) = 1 .. Len(s) + Len(t)
      /\ \A i \in 1 .. Len(s) + Len(t) :
            (s \o t)[i] = IF i <= Len(s) THEN s[i] ELSE t[i - Len(s)]
  BY ConcatProperties
<1>2. Range(s \o t) = Range(s) \cup Range(t)
  BY RangeConcatenation
<1>3. Len(s) \in Nat /\ Len(t) \in Nat /\ DOMAIN s = 1 .. Len(s) /\ DOMAIN t = 1 .. Len(t)
  OBVIOUS
<1>4. ASSUME NEW i \in 1 .. Len(s) + Len(t), NEW j \in 1 .. Len(s) + Len(t), i < j
      PROVE  <<(s \o t)[i], (s \o t)[j]>> \in R
  <2>1. CASE j <= Len(s)
    BY <1>1, <1>3, <1>4, <2>1 DEF Ordered
  <2>2. CASE ~(i <= Len(s))
    <3>1. i - Len(s) \in DOMAIN t /\ j - Len(s) \in DOMAIN t /\ i - Len(s) < j - Len(s)
      BY <1>3, <1>4, <2>2
    <3>2. (s \o t)[i] = t[i - Len(s)] /\ (s \o t)[j] = t[j - Len(s)]
      BY <1>1, <1>3, <1>4, <2>2
    <3>3. QED
      BY <3>1, <3>2 DEF Ordered
  <2>3. CASE i <= Len(s) /\ ~(j <= Len(s))
    <3>1. i \in DOMAIN s /\ j - Len(s) \in DOMAIN t
      BY <1>3, <2>3
    <3>2. (s \o t)[i] = s[i] /\ (s \o t)[j] = t[j - Len(s)]
      BY <1>1, <2>3
    <3>3. s[i] \in Range(s) /\ t[j - Len(s)] \in Range(t)
      BY <3>1 DEF Range
    <3>4. QED
      BY <3>2, <3>3
  <2>4. QED
    BY <1>3, <1>4, <2>1, <2>2, <2>3
<1>5. Ordered(s \o t, R)
  BY <1>1, <1>4 DEF Ordered
<1>6. QED
  BY <1>1, <1>2, <1>5

\* Lists in order, flattened: everything in them, in order.
LEMMA FlattenOrdered ==
    ASSUME NEW X, NEW R, NEW m \in Nat, NEW seqs \in [1 .. m -> Seq(X)],
           \A i \in 1 .. m : Ordered(seqs[i], R),
           \A i, j \in 1 .. m : i < j =>
              \A x \in Range(seqs[i]), y \in Range(seqs[j]) : <<x, y>> \in R
    PROVE  /\ FlattenSeq(seqs) \in Seq(X)
           /\ Range(FlattenSeq(seqs)) = UNION {Range(seqs[i]) : i \in 1 .. m}
           /\ Ordered(FlattenSeq(seqs), R)
<1> DEFINE Is(f, k) == f = [i \in 1 .. k |-> IF i = 1 THEN seqs[i] ELSE f[i - 1] \o seqs[i]]
           Upto(l, k) == /\ l \in Seq(X)
                         /\ Range(l) = UNION {Range(seqs[i]) : i \in 1 .. k}
                         /\ Ordered(l, R)
           H == {k \in Nat : k + 1 <= m => \E f : Is(f, k + 1) /\ \A i \in 1 .. k + 1 : Upto(f[i], i)}
<1>1. Len(seqs) = m
  OBVIOUS
<1>2. CASE m = 0
  <2>1. FlattenSeq(seqs) = <<>> /\ <<>> \in Seq(X)
    BY <1>1, <1>2 DEF FlattenSeq
  <2>2. DOMAIN FlattenSeq(seqs) = {}
    BY <2>1
  <2>3. QED
    BY <1>2, <2>1, <2>2 DEF Range, Ordered
<1>3. CASE m # 0
  <2>1. 0 \in H
    <3> DEFINE f == [i \in 1 .. 1 |-> seqs[1]]
    <3>1. 1 \in 1 .. m /\ \A i \in 1 .. 1 : i = 1
      BY <1>3
    <3>2. Is(f, 1)
      OBVIOUS
    <3>3. Range(seqs[1]) = UNION {Range(seqs[i]) : i \in 1 .. 1}
      BY <3>1
    <3>4. f[1] = seqs[1] /\ seqs[1] \in Seq(X) /\ Ordered(seqs[1], R)
      BY <3>1
    <3> HIDE DEF f, Is
    <3>5. Upto(f[1], 1)
      BY <3>3, <3>4
    <3> HIDE DEF Upto
    <3>6. \A i \in 1 .. 0 + 1 : Upto(f[i], i)
      BY <3>1, <3>5
    <3>7. Is(f, 0 + 1)
      BY <3>2
    <3>8. QED
      BY <3>6, <3>7
  <2>2. ASSUME NEW k \in Nat, k \in H PROVE k + 1 \in H
    <3> DEFINE j == k + 1
    <3>1. /\ j \in Nat \ {0} /\ j + 1 # 1 /\ (j + 1) - 1 = j /\ j <= j + 1
          /\ j + 1 \in 1 .. j + 1
      OBVIOUS
    <3> HIDE DEF Is, Upto
    <3> SUFFICES ASSUME j + 1 <= m
                 PROVE  \E f : Is(f, j + 1) /\ \A i \in 1 .. j + 1 : Upto(f[i], i)
      BY <3>1
    <3>2. j <= m /\ j + 1 \in 1 .. m /\ j \in 1 .. j
      BY <3>1
    <3>3. PICK f : Is(f, j) /\ \A i \in 1 .. j : Upto(f[i], i)
      BY <2>2, <3>2
    <3> HIDE DEF j
    <3> DEFINE g == [i \in 1 .. j + 1 |-> IF i = 1 THEN seqs[i] ELSE f[i - 1] \o seqs[i]]
    <3>4. \A i \in 1 .. j : g[i] = f[i]
      <4>1. \A i \in 1 .. j : i \in 1 .. j + 1
        BY <3>1
      <4>2. \A i \in 1 .. j : f[i] = IF i = 1 THEN seqs[i] ELSE f[i - 1] \o seqs[i]
        BY <3>3, Zenon DEF Is
      <4>3. QED
        BY <4>1, <4>2, Zenon
    <3>5. \A i \in 1 .. j + 1 : i # 1 => i - 1 \in 1 .. j
      BY <3>1
    <3>6. \A i \in 1 .. j + 1 : g[i] = IF i = 1 THEN seqs[i] ELSE g[i - 1] \o seqs[i]
      BY <3>4, <3>5
    <3>7. DOMAIN g = 1 .. j + 1 /\ g = [i \in DOMAIN g |-> g[i]]
      OBVIOUS
    <3>8. g[j + 1] = f[j] \o seqs[j + 1]
      BY <3>1, <3>2
    <3> HIDE DEF g
    <3>9. Is(g, j + 1)
      BY <3>6, <3>7 DEF Is
    <3>10. Upto(f[j], j)
      BY <3>2, <3>3
    <3>11. \A i \in 1 .. j : i \in 1 .. m /\ i < j + 1
      BY <3>1, <3>2
    <3>12. \A x \in Range(f[j]), y \in Range(seqs[j + 1]) : <<x, y>> \in R
      BY <3>2, <3>10, <3>11 DEF Upto
    <3>13. /\ g[j + 1] \in Seq(X) /\ Ordered(g[j + 1], R)
           /\ Range(g[j + 1]) = Range(f[j]) \cup Range(seqs[j + 1])
      <4>1. f[j] \in Seq(X) /\ Ordered(f[j], R)
        BY <3>10 DEF Upto
      <4>2. seqs[j + 1] \in Seq(X) /\ Ordered(seqs[j + 1], R)
        BY <3>2
      <4>3. QED
        BY <3>8, <3>12, <4>1, <4>2, ConcatOrdered
    <3>14. 1 .. j + 1 = (1 .. j) \cup {j + 1}
      BY <3>1
    <3>15. Upto(g[j + 1], j + 1)
      BY <3>10, <3>13, <3>14 DEF Upto
    <3>16. \A i \in 1 .. j + 1 : Upto(g[i], i)
      BY <3>3, <3>4, <3>14, <3>15
    <3>17. QED
      BY <3>9, <3>16
  <2>3. m - 1 \in H
    <3> HIDE DEF H
    <3>1. m - 1 \in Nat
      BY <1>3
    <3>2. QED
      BY <2>1, <2>2, <3>1, Induction
  <2>4. m - 1 \in Nat /\ (m - 1) + 1 = m /\ m <= m /\ m \in 1 .. m
    BY <1>3
  <2> HIDE DEF Is, Upto
  <2>5. PICK f : Is(f, m) /\ \A i \in 1 .. m : Upto(f[i], i)
    BY <2>3, <2>4
  <2> DEFINE flat == CHOOSE g : Is(g, m)
  <2>6. Is(flat, m)
    BY <2>5
  <2>7. FlattenSeq(seqs) = flat[m]
    BY <1>1, <1>3 DEF FlattenSeq, Is
  <2> HIDE DEF flat
  <2> DEFINE J == {k \in Nat : k + 1 <= m => flat[k + 1] = f[k + 1]}
  <2>8. 0 \in J
    BY <2>5, <2>6 DEF Is
  <2>9. ASSUME NEW k \in Nat, k \in J PROVE k + 1 \in J
    <3> SUFFICES ASSUME (k + 1) + 1 <= m PROVE flat[(k + 1) + 1] = f[(k + 1) + 1]
      OBVIOUS
    <3>1. /\ (k + 1) + 1 \in 1 .. m /\ (k + 1) + 1 # 1 /\ ((k + 1) + 1) - 1 = k + 1
          /\ k + 1 <= m
      OBVIOUS
    <3>2. flat[k + 1] = f[k + 1]
      BY <2>9, <3>1
    <3>3. /\ flat[(k + 1) + 1] = flat[k + 1] \o seqs[(k + 1) + 1]
          /\ f[(k + 1) + 1] = f[k + 1] \o seqs[(k + 1) + 1]
      BY <2>5, <2>6, <3>1 DEF Is
    <3>4. QED
      BY <3>2, <3>3
  <2>10. m - 1 \in J
    <3> HIDE DEF J
    <3>1. QED
      BY <2>4, <2>8, <2>9, Induction
  <2>11. flat[m] = f[m]
    BY <2>4, <2>10
  <2>12. QED
    BY <2>4, <2>5, <2>7, <2>11 DEF Upto
<1>4. QED
  BY <1>2, <1>3

-----------------------------------------------------------------------------
(* The chunks of a level.                                                    *)

\* A decomposition the code accepts.
Scheme ==
    /\ decomposition \in Decompositions /\ CheckQuorumSet
    /\ sorted \in BOOLEAN /\ (Align > 1 => sorted)

LEMMA SchemeIs ==
    ASSUME Scheme
    PROVE  /\ C \in Nat \ {0} /\ Align \in Nat \ {0} /\ Chunk = 0 .. C - 1
           /\ InterestSeq \in Seq(Chunk)
           /\ D!Chunk = Chunk
  BY PathAssumption DEF Scheme, C, Align, InterestSeq, Chunk, D!Chunk

\* Quotient and remainder.
LEMMA Divides ==
    ASSUME NEW a \in Nat, NEW b \in Nat \ {0}
    PROVE  a \div b \in Nat /\ a % b \in 0 .. b - 1 /\ a = b * (a \div b) + (a % b)
  OBVIOUS

\* Starts and ends of chunk_layout: whole blocks of Align tokens to every chunk, one
\* more to the first ones, the ragged tail to the last.
LEMMA CutIs ==
    ASSUME Scheme, NEW L \in Nat
    PROVE  /\ \A k \in Chunk :
                 /\ Sizes(L)[k] \in Nat
                 /\ Starts(L)[k] = D!ChunkStart(L, k)
                 /\ D!ChunkEnd(L, k) = D!ChunkStart(L, k) + Sizes(L)[k]
                 /\ \E y \in Nat : D!ChunkStart(L, k) = Align * y
           /\ D!ChunkStart(L, 0) = 0
<1> DEFINE b == L \div Align
           q == b \div C
           r == b % C
           y(k) == k * q + (IF k < r THEN k ELSE r)
           z(k) == Align * q + (IF k < r THEN Align ELSE 0)
           tail(k) == IF k = C - 1 THEN L % Align ELSE 0
<1>1. C \in Nat \ {0} /\ Align \in Nat \ {0} /\ Chunk = 0 .. C - 1
  BY SchemeIs
<1>2. /\ b \in Nat /\ L % Align \in 0 .. Align - 1 /\ L = Align * b + (L % Align)
      /\ q \in Nat /\ r \in 0 .. C - 1 /\ b = C * q + r
  <2>1. b \in Nat /\ L % Align \in 0 .. Align - 1 /\ L = Align * b + (L % Align)
    BY <1>1, Divides
  <2> HIDE DEF b
  <2>2. QED
    BY <1>1, <2>1, Divides
<1>3. \A k \in Chunk : Sizes(L)[k] = z(k) + tail(k)
  <2>1. CASE Align = 1
    <3>1. L \div 1 = L /\ L % 1 = 0
      OBVIOUS
    <3>2. Sizes(L) = [k \in Chunk |-> (L \div C) + (IF k < L % C THEN 1 ELSE 0)]
      BY <2>1 DEF Sizes
    <3>3. b = L /\ L % Align = 0
      BY <2>1, <3>1
    <3>4. q = L \div C /\ r = L % C
      BY <3>3
    <3> HIDE DEF b, q, r
    <3>5. 1 * q = q
      BY <1>2
    <3>6. QED
      BY <1>2, <2>1, <3>2, <3>3, <3>4, <3>5
  <2>2. CASE Align # 1
    <3>1. ~(Align <= 1)
      BY <1>1, <2>2
    <3>2. \A k \in Chunk :
             Sizes(L)[k] = q * Align + (IF k < r THEN Align ELSE 0)
                           + (IF k = C - 1 THEN L % Align ELSE 0)
      BY <3>1 DEF Sizes
    <3> HIDE DEF b, q, r
    <3>3. q * Align = Align * q
      BY <1>1, <1>2
    <3>4. QED
      BY <3>2, <3>3
  <2>3. QED
    BY <2>1, <2>2
<1>4. \A k : D!ChunkStart(L, k) = Align * y(k)
  BY DEF D!ChunkStart
<1> HIDE DEF b, q, r
<1>5. \A k \in Chunk : y(k) \in Nat
  <2> TAKE k \in Chunk
  <2>1. k \in Nat /\ k * q \in Nat
    BY <1>1, <1>2
  <2>2. QED
    BY <1>2, <2>1
<1>6. \A k \in Chunk : z(k) \in Nat /\ tail(k) \in Nat
  BY <1>1, <1>2
<1>7. ASSUME NEW k \in Nat PROVE Align * y(k + 1) = Align * y(k) + z(k)
  <2> DEFINE x == k * q
             w == IF k < r THEN k ELSE r
             v == IF k < r THEN 1 ELSE 0
  <2>1. (k + 1) * q = x + q /\ x \in Int
    BY <1>2
  <2>2. (IF k + 1 < r THEN k + 1 ELSE r) = w + v
    BY <1>2
  <2>3. y(k + 1) = (x + w) + (q + v) /\ y(k) = x + w
    <3> HIDE DEF x
    <3>1. (x + q) + (w + v) = (x + w) + (q + v)
      BY <1>2, <2>1
    <3> HIDE DEF w, v
    <3>2. y(k + 1) = (x + q) + (w + v)
      BY <2>1, <2>2
    <3>3. QED
      BY <3>1, <3>2 DEF x, w
  <2> DEFINE e == x + w
             u == q + v
  <2>4. e \in Int /\ u \in Int
    BY <1>2, <2>1
  <2>5. z(k) = Align * u
    <3>1. CASE k < r
      <4>1. Align * (q + 1) = Align * q + Align
        BY <1>1, <1>2
      <4>2. QED
        BY <3>1, <4>1
    <3>2. CASE ~(k < r)
      <4>1. q + 0 = q /\ Align * q + 0 = Align * q
        BY <1>1, <1>2
      <4>2. QED
        BY <3>2, <4>1
    <3>3. QED
      BY <3>1, <3>2
  <2> HIDE DEF y, z
  <2>6. Align * (e + u) = Align * e + Align * u
    <3> HIDE DEF e, u
    <3>1. QED
      BY <1>1, <2>4
  <2>7. QED
    BY <2>3, <2>5, <2>6
<1>8. Align * y(C - 1) + z(C - 1) + tail(C - 1) = L
  <2>1. (IF C - 1 < r THEN C - 1 ELSE r) = r /\ ~(C - 1 < r)
    BY <1>1, <1>2
  <2>2. y(C - 1) = (C - 1) * q + r /\ z(C - 1) = Align * q + 0 /\ tail(C - 1) = L % Align
    BY <2>1
  <2>3. (C - 1) * q = C * q - q /\ C * q \in Int
    BY <1>1, <1>2
  <2>4. y(C - 1) = b - q
    <3> DEFINE x == C * q
    <3> HIDE DEF x, y
    <3>1. (C - 1) * q = x - q /\ b = x + r /\ x \in Int
      BY <1>2, <2>3 DEF x
    <3>2. QED
      BY <1>2, <2>2, <3>1
  <2> HIDE DEF y, z, tail
  <2>5. Align * (b - q) = Align * b - Align * q /\ Align * b \in Int /\ Align * q \in Int
    BY <1>1, <1>2
  <2>6. QED
    BY <1>2, <2>2, <2>4, <2>5
<1> HIDE DEF y, z, tail
<1>9. y(0) = 0
  BY <1>2 DEF y
<1>10. \A k \in Chunk : Starts(L)[k] = Align * y(k)
  <2> DEFINE sizes == Sizes(L)
             Is(f) == f = [k \in Chunk |-> IF k = 0 THEN 0 ELSE f[k - 1] + sizes[k - 1]]
             g == [k \in Chunk |-> Align * y(k)]
             start == CHOOSE f : Is(f)
  <2>1. \A k \in Chunk : k # 0 => k - 1 \in Chunk /\ k - 1 \in Nat /\ k - 1 # C - 1 /\ (k - 1) + 1 = k
    BY <1>1
  <2>2. \A k \in Chunk : k # 0 => sizes[k - 1] = z(k - 1)
    <3> TAKE k \in Chunk
    <3> HAVE k # 0
    <3>1. sizes[k - 1] = z(k - 1) + 0
      BY <1>3, <2>1 DEF tail
    <3>2. z(k - 1) \in Nat
      BY <1>6, <2>1
    <3>3. QED
      BY <3>1, <3>2
  <2> HIDE DEF sizes
  <2>3. \A k \in Chunk : g[k] = IF k = 0 THEN 0 ELSE g[k - 1] + sizes[k - 1]
    <3> TAKE k \in Chunk
    <3>1. CASE k = 0
      BY <1>1, <1>9, <3>1
    <3>2. CASE k # 0
      <4>1. Align * y((k - 1) + 1) = Align * y(k - 1) + z(k - 1)
        BY <1>7, <2>1, <3>2
      <4>2. QED
        BY <2>1, <2>2, <3>2, <4>1
    <3>3. QED
      BY <3>1, <3>2
  <2>4. DOMAIN g = Chunk /\ g = [k \in DOMAIN g |-> g[k]]
    OBVIOUS
  <2> HIDE DEF g
  <2>5. Is(g)
    BY <2>3, <2>4
  <2>6. Is(start)
    <3> HIDE DEF Is
    <3>1. QED
      BY <2>5
  <2>7. Starts(L) = start
    BY DEF Starts, sizes
  <2> HIDE DEF start
  <2> DEFINE H == {k \in Nat : k \in Chunk => start[k] = g[k]}
  <2>8. 0 \in H
    BY <2>5, <2>6
  <2>9. ASSUME NEW k \in Nat, k \in H PROVE k + 1 \in H
    <3> SUFFICES ASSUME k + 1 \in Chunk PROVE start[k + 1] = g[k + 1]
      OBVIOUS
    <3>1. k \in Chunk /\ k + 1 # 0 /\ (k + 1) - 1 = k
      BY <1>1
    <3>2. start[k] = g[k]
      BY <2>9, <3>1
    <3>3. QED
      BY <2>5, <2>6, <3>1, <3>2
  <2> HIDE DEF H
  <2>10. \A k \in Nat : k \in H
    BY <2>8, <2>9, Induction
  <2>11. \A k \in Chunk : start[k] = g[k]
    BY <1>1, <2>10 DEF H
  <2>12. QED
    BY <2>7, <2>11 DEF g
<1>11. \A k \in Chunk : D!ChunkEnd(L, k) = Align * y(k) + Sizes(L)[k]
  <2> TAKE k \in Chunk
  <2>1. CASE k = C - 1
    <3>1. D!ChunkEnd(L, k) = L
      BY <2>1 DEF D!ChunkEnd
    <3>2. Align * y(k) \in Int /\ z(k) \in Int /\ tail(k) \in Int
      BY <1>1, <1>5, <1>6
    <3>3. Align * y(k) + z(k) + tail(k) = Align * y(k) + (z(k) + tail(k))
      BY <3>2
    <3>4. QED
      BY <1>3, <1>8, <2>1, <3>1, <3>3
  <2>2. CASE k # C - 1
    <3>1. D!ChunkEnd(L, k) = Align * y(k + 1)
      BY <1>4, <2>2 DEF D!ChunkEnd
    <3>2. k \in Nat /\ z(k) \in Nat
      BY <1>1, <1>6
    <3>3. Sizes(L)[k] = z(k) + 0 /\ z(k) + 0 = z(k)
      BY <1>3, <2>2, <3>2 DEF tail
    <3>4. QED
      BY <1>7, <3>1, <3>2, <3>3
  <2>3. QED
    BY <2>1, <2>2
<1>12. D!ChunkStart(L, 0) = 0
  BY <1>1, <1>4, <1>9
<1>13. QED
  <2>1. \A k \in Chunk : Sizes(L)[k] \in Nat
    BY <1>3, <1>6
  <2>2. QED
    BY <1>4, <1>5, <1>10, <1>11, <1>12, <2>1

\* A chunk ends before a later one starts.
LEMMA ChunksApart ==
    ASSUME Scheme, NEW L \in Nat
    PROVE  /\ \A k \in Chunk : /\ D!ChunkStart(L, k) \in Nat /\ D!ChunkEnd(L, k) \in Nat
                               /\ D!ChunkStart(L, k) <= D!ChunkEnd(L, k)
           /\ \A j, k \in Chunk : j < k => D!ChunkEnd(L, j) <= D!ChunkStart(L, k)
           /\ D!ChunkEnd(L, C - 1) = L
<1> DEFINE first(k) == D!ChunkStart(L, k)
           last(k) == D!ChunkEnd(L, k)
           H == {i \in Nat : \A j \in Chunk : j + i + 1 \in Chunk => last(j) <= first(j + i + 1)}
<1>1. C \in Nat \ {0} /\ Align \in Nat \ {0} /\ Chunk = 0 .. C - 1
  BY SchemeIs
<1>2. \A k \in Chunk : first(k) \in Nat /\ last(k) \in Nat /\ first(k) <= last(k)
  <2> TAKE k \in Chunk
  <2>1. PICK y \in Nat : first(k) = Align * y
    BY CutIs
  <2>2. first(k) \in Nat
    BY <1>1, <2>1
  <2>3. Sizes(L)[k] \in Nat /\ last(k) = first(k) + Sizes(L)[k]
    BY CutIs
  <2> HIDE DEF first, last
  <2>4. QED
    BY <2>2, <2>3
<1>3. \A k \in Chunk : k + 1 \in Chunk => last(k) = first(k + 1)
  BY <1>1 DEF D!ChunkEnd
<1>4. last(C - 1) = L
  BY DEF D!ChunkEnd
<1> HIDE DEF first, last
<1>5. 0 \in H
  <2>1. \A j \in Chunk : j + 0 + 1 = j + 1
    BY <1>1
  <2>2. \A j \in Chunk : j + 1 \in Chunk => last(j) <= first(j + 1)
    BY <1>2, <1>3
  <2>3. QED
    BY <2>1, <2>2
<1>6. ASSUME NEW i \in Nat, i \in H PROVE i + 1 \in H
  <2> SUFFICES ASSUME NEW j \in Chunk, j + (i + 1) + 1 \in Chunk
               PROVE  last(j) <= first(j + (i + 1) + 1)
    OBVIOUS
  <2>1. j + i + 1 \in Chunk /\ (j + i + 1) + 1 = j + (i + 1) + 1
    BY <1>1
  <2>2. last(j) <= first(j + i + 1)
    BY <1>6, <2>1
  <2>3. last(j + i + 1) = first((j + i + 1) + 1)
    BY <1>3, <2>1
  <2>4. first(j + i + 1) <= last(j + i + 1)
    BY <1>2, <2>1
  <2>5. /\ last(j) \in Nat /\ first(j + i + 1) \in Nat /\ last(j + i + 1) \in Nat
    BY <1>2, <2>1
  <2>6. QED
    BY <2>1, <2>2, <2>3, <2>4, <2>5
<1> HIDE DEF H
<1>7. \A i \in Nat : i \in H
  BY <1>5, <1>6, Induction
<1>8. ASSUME NEW j \in Chunk, NEW k \in Chunk, j < k PROVE last(j) <= first(k)
  <2>1. k - j - 1 \in Nat /\ j + (k - j - 1) + 1 = k
    BY <1>1, <1>8
  <2>2. QED
    BY <1>7, <2>1 DEF H
<1>9. QED
  BY <1>2, <1>4, <1>8 DEF first, last

\* Every local position is in one chunk, the one that labels it.
LEMMA ChunkIs ==
    ASSUME Scheme, NEW L \in Nat
    PROVE  \A p \in 0 .. L - 1 : \A k \in Chunk :
              /\ D!ChunkAt(L, p) \in Chunk
              /\ D!ChunkAt(L, p) = k <=> D!ChunkStart(L, k) <= p /\ p < D!ChunkEnd(L, k)
<1> SUFFICES ASSUME NEW p \in 0 .. L - 1
             PROVE  \A k \in Chunk :
                       /\ D!ChunkAt(L, p) \in Chunk
                       /\ D!ChunkAt(L, p) = k <=> D!ChunkStart(L, k) <= p /\ p < D!ChunkEnd(L, k)
  OBVIOUS
<1> DEFINE first(k) == D!ChunkStart(L, k)
           last(k) == D!ChunkEnd(L, k)
           In(k) == first(k) <= p /\ p < last(k)
           T == {k \in Chunk : p < last(k)}
<1>1. C \in Nat \ {0} /\ Chunk = 0 .. C - 1
  BY SchemeIs
<1>2. /\ \A k \in Chunk : first(k) \in Nat /\ last(k) \in Nat /\ first(k) <= last(k)
      /\ \A j, k \in Chunk : j < k => last(j) <= first(k)
      /\ last(C - 1) = L /\ first(0) = 0
  BY ChunksApart, CutIs
<1>3. \A k \in Chunk : k # 0 => k - 1 \in Chunk /\ last(k - 1) = first(k)
  BY <1>1 DEF D!ChunkEnd
<1>c. D!ChunkAt(L, p) = CHOOSE k \in Chunk : In(k)
  BY SchemeIs DEF D!ChunkAt
<1> HIDE DEF first, last
<1>4. PICK k \in T : \A j \in T : k <= j
  <2>1. C - 1 \in T /\ T \subseteq Nat
    BY <1>1, <1>2
  <2> HIDE DEF T
  <2>2. QED
    BY <2>1, LeastNatural
<1>5. k \in Chunk /\ p < last(k)
  BY <1>4
<1>6. first(k) <= p
  <2>1. CASE k = 0
    BY <1>2, <2>1
  <2>2. CASE k # 0
    <3>1. k - 1 \in Chunk /\ last(k - 1) = first(k) /\ ~(k <= k - 1)
      BY <1>1, <1>3, <1>5, <2>2
    <3>2. ~(p < last(k - 1))
      BY <1>4, <3>1
    <3>3. last(k - 1) \in Nat
      BY <1>2, <3>1
    <3>4. QED
      BY <3>1, <3>2, <3>3
  <2>3. QED
    BY <2>1, <2>2
<1>7. In(k)
  BY <1>5, <1>6
<1>8. ASSUME NEW j \in Chunk, NEW i \in Chunk, In(j), In(i) PROVE j = i
  <2>1. /\ j < i => last(j) <= first(i)
        /\ i < j => last(i) <= first(j)
    BY <1>2
  <2>2. /\ last(j) \in Nat /\ first(j) \in Nat /\ last(i) \in Nat /\ first(i) \in Nat
    BY <1>2
  <2>3. ~(j < i) /\ ~(i < j)
    BY <1>8, <2>1, <2>2
  <2>4. QED
    BY <1>1, <2>3
<1> HIDE DEF In
<1>9. D!ChunkAt(L, p) \in Chunk /\ In(D!ChunkAt(L, p))
  BY <1>5, <1>7, <1>c
<1>10. \A j \in Chunk : D!ChunkAt(L, p) = j <=> In(j)
  BY <1>8, <1>9
<1>11. QED
  BY <1>9, <1>10 DEF In, first, last

\* A segment of the gather holds the local positions of its chunk, in order.
LEMMA SegmentIs ==
    ASSUME Scheme, NEW L \in Nat, NEW k \in Chunk
    PROVE  /\ Segment(L, k) \in Seq(1 .. L)
           /\ Range(Segment(L, k)) = {i \in 1 .. L : D!ChunkAt(L, i - 1) = k}
           /\ Ordered(Segment(L, k), {x \in Int \X Int : x[1] < x[2]})
<1> DEFINE a == D!ChunkStart(L, k)
           e == D!ChunkEnd(L, k)
           z == Sizes(L)[k]
<1>1. /\ a \in Nat /\ z \in Nat /\ e = a + z /\ e \in Nat /\ e <= L
      /\ Segment(L, k) = [i \in 1 .. z |-> a + i]
  <2>1. a \in Nat /\ z \in Nat /\ e = a + z /\ e \in Nat
    BY CutIs, ChunksApart
  <2>2. e <= L
    <3>1. C \in Nat \ {0} /\ Chunk = 0 .. C - 1
      BY SchemeIs
    <3>2. C - 1 \in Chunk /\ (k = C - 1 \/ k < C - 1)
      BY <3>1
    <3>3. /\ D!ChunkEnd(L, C - 1) = L
          /\ D!ChunkStart(L, C - 1) \in Nat /\ D!ChunkStart(L, C - 1) <= D!ChunkEnd(L, C - 1)
          /\ k < C - 1 => e <= D!ChunkStart(L, C - 1)
      BY <3>2, ChunksApart
    <3> HIDE DEF e
    <3>4. QED
      BY <2>1, <3>2, <3>3 DEF e
  <2>3. Segment(L, k) = [i \in 1 .. z |-> a + i]
    BY CutIs DEF Segment
  <2>4. QED
    BY <2>1, <2>2, <2>3
<1>2. \A i \in 1 .. L : D!ChunkAt(L, i - 1) = k <=> a <= i - 1 /\ i - 1 < e
  <2> TAKE i \in 1 .. L
  <2>1. i - 1 \in 0 .. L - 1
    OBVIOUS
  <2>2. QED
    BY <2>1, ChunkIs
<1> HIDE DEF a, e, z
<1>3. Segment(L, k) \in Seq(1 .. L)
  BY <1>1
<1>4. Range(Segment(L, k)) = {a + i : i \in 1 .. z}
  BY <1>1 DEF Range
<1>5. \A i \in 1 .. L : a <= i - 1 /\ i - 1 < e <=> i \in {a + x : x \in 1 .. z}
  <2> TAKE i \in 1 .. L
  <2>1. a <= i - 1 /\ i - 1 < e => i - a \in 1 .. z /\ a + (i - a) = i
    BY <1>1
  <2>2. \A x \in 1 .. z : a <= (a + x) - 1 /\ (a + x) - 1 < e
    BY <1>1
  <2>3. QED
    BY <2>1, <2>2
<1>6. \A x \in 1 .. z : a + x \in 1 .. L
  BY <1>1
<1>7. Range(Segment(L, k)) = {i \in 1 .. L : D!ChunkAt(L, i - 1) = k}
  BY <1>2, <1>4, <1>5, <1>6
<1>8. Ordered(Segment(L, k), {x \in Int \X Int : x[1] < x[2]})
  BY <1>1 DEF Ordered
<1>9. QED
  BY <1>3, <1>7, <1>8

-----------------------------------------------------------------------------
(* One level of the walk.                                                    *)

Less      == {x \in Int \X Int : x[1] < x[2]}
Different == {x \in Int \X Int : x[1] # x[2]}

\* A sum of two chunks, modulo the number of chunks.
LEMMA ModIs ==
    ASSUME Scheme, NEW a \in Chunk, NEW b \in Chunk
    PROVE  /\ (a + b) % C = IF a + b < C THEN a + b ELSE a + b - C
           /\ (a - b) % C = IF a < b THEN a - b + C ELSE a - b
           /\ (a + b) % C \in Chunk
<1>1. C \in Nat \ {0} /\ a \in 0 .. C - 1 /\ b \in 0 .. C - 1 /\ Chunk = 0 .. C - 1
  BY SchemeIs
<1> DEFINE c == C
<1> HIDE DEF c
<1>2. c \in Nat \ {0} /\ a \in 0 .. c - 1 /\ b \in 0 .. c - 1
  BY <1>1 DEF c
<1>3. /\ (a + b) % c = IF a + b < c THEN a + b ELSE a + b - c
      /\ (a - b) % c = IF a < b THEN a - b + c ELSE a - b
  BY <1>2
<1>4. (a + b) % c \in 0 .. c - 1
  BY <1>2, <1>3
<1>5. QED
  BY <1>1, <1>3, <1>4 DEF c

\* The chunks an owner gathers, each once, in order where the gather is sorted.
LEMMA QuorumIs ==
    ASSUME Scheme, NEW o \in Chunk
    PROVE  /\ Len(InterestSeq) \in Nat /\ DOMAIN InterestSeq = 1 .. Len(InterestSeq)
           /\ QuorumSeq(o) \in [1 .. Len(InterestSeq) -> Chunk]
           /\ Range(QuorumSeq(o)) = D!QuorumChunks(o)
           /\ Ordered(QuorumSeq(o), Different)
           /\ sorted => Ordered(QuorumSeq(o), Less)
<1> DEFINE m == Len(InterestSeq)
           q == quorum_chunks(o)
           T == Range(q)
           s == [i \in 1 .. m |-> CHOOSE k \in T : Smaller(T, k) = i - 1]
<1>1. /\ m \in Nat /\ DOMAIN InterestSeq = 1 .. m /\ Chunk \subseteq Int
      /\ \A i \in 1 .. m : InterestSeq[i] \in Chunk
  BY SchemeIs
<1>2. \A i, j \in 1 .. m : i # j => InterestSeq[i] # InterestSeq[j]
  BY <1>1 DEF Scheme, CheckQuorumSet
<1> HIDE DEF m
<1>3. q \in [1 .. m -> Chunk] /\ \A i \in 1 .. m : q[i] = (o + InterestSeq[i]) % C
  <2>1. q = [i \in 1 .. m |-> (o + InterestSeq[i]) % C]
    BY <1>1 DEF quorum_chunks
  <2> HIDE DEF q
  <2>2. \A i \in 1 .. m : (o + InterestSeq[i]) % C \in Chunk
    BY <1>1, ModIs
  <2>3. QED
    BY <2>1, <2>2
<1>4. ASSUME NEW i \in 1 .. m, NEW j \in 1 .. m, i # j PROVE q[i] # q[j]
  <2> DEFINE a == InterestSeq[i]
             b == InterestSeq[j]
  <2>1. /\ q[i] = IF o + a < C THEN o + a ELSE o + a - C
        /\ q[j] = IF o + b < C THEN o + b ELSE o + b - C
    BY <1>1, <1>3, ModIs
  <2>2. a # b /\ a \in 0 .. C - 1 /\ b \in 0 .. C - 1 /\ o \in 0 .. C - 1 /\ C \in Nat
    BY <1>1, <1>2, <1>4, SchemeIs
  <2> HIDE DEF a, b, q
  <2>3. QED
    BY <2>1, <2>2
<1> HIDE DEF q
<1>5. T = D!QuorumChunks(o)
  <2>1. T = {q[i] : i \in 1 .. m}
    BY <1>3 DEF Range
  <2>2. Range(InterestSeq) = {InterestSeq[i] : i \in 1 .. m}
    BY <1>1 DEF Range
  <2>3. D!QuorumChunks(o) = {(o + off) % C : off \in Range(InterestSeq)}
    BY DEF D!QuorumChunks
  <2>4. QED
    BY <1>3, <2>1, <2>2, <2>3
<1>6. Ordered(q, Different)
  <2>1. DOMAIN q = 1 .. m /\ \A i \in 1 .. m : q[i] \in Int
    BY <1>1, <1>3
  <2>2. \A i, j \in 1 .. m : i < j => q[i] # q[j]
    <3>1. \A i, j \in 1 .. m : i < j => i # j
      BY <1>1
    <3>2. QED
      BY <1>4, <3>1
  <2>3. QED
    BY <2>1, <2>2 DEF Ordered, Different
<1>7. CASE ~sorted
  <2>1. QuorumSeq(o) = q
    BY <1>7 DEF QuorumSeq, q
  <2>2. QED
    BY <1>1, <1>3, <1>5, <1>6, <1>7, <2>1 DEF m
<1>8. CASE sorted
  <2>1. QuorumSeq(o) = s
    <3>1. DOMAIN q = 1 .. m
      BY <1>3
    <3>2. QED
      BY <1>8, <3>1 DEF QuorumSeq, q, Smaller
  <2>2. T \subseteq Chunk /\ T \subseteq Int
    BY <1>1, <1>3 DEF Range
  <2>3. q \in Bijection(1 .. m, T)
    BY <1>3, <1>4 DEF Bijection, Injection, Surjection, IsInjective, Range
  <2>4. IsFiniteSet(T) /\ Cardinality(T) = m
    <3>1. ExistsBijection(1 .. m, T)
      BY <2>3 DEF ExistsBijection
    <3> HIDE DEF T
    <3>2. QED
      BY <1>1, <3>1, FS_NatBijection, FS_CountingElements
  <2> HIDE DEF T
  <2>5. /\ \A x \in T : Smaller(T, x) \in 0 .. m - 1
        /\ \A x, y \in T : x < y => Smaller(T, x) < Smaller(T, y)
        /\ \A r \in 0 .. m - 1 : \E x \in T : Smaller(T, x) = r
    BY <2>2, <2>4, PlaceIs
  <2>6. \A i \in 1 .. m : s[i] \in T /\ Smaller(T, s[i]) = i - 1
    <3> TAKE i \in 1 .. m
    <3>1. i - 1 \in 0 .. m - 1
      BY <1>1
    <3>2. s[i] = CHOOSE k \in T : Smaller(T, k) = i - 1
      OBVIOUS
    <3> HIDE DEF s
    <3>3. QED
      BY <2>5, <3>1, <3>2
  <2>7. DOMAIN s = 1 .. m /\ s = [i \in DOMAIN s |-> s[i]]
    OBVIOUS
  <2> HIDE DEF s
  <2>8. \A x, y \in T : Smaller(T, x) = Smaller(T, y) => x = y
    <3> SUFFICES ASSUME NEW x \in T, NEW y \in T, Smaller(T, x) = Smaller(T, y), x # y
                 PROVE  FALSE
      OBVIOUS
    <3>1. x < y \/ y < x
      BY <2>2
    <3>2. Smaller(T, x) \in Int
      BY <2>5
    <3>3. QED
      BY <2>5, <3>1, <3>2
  <2>9. Range(s) = T
    <3>1. \A x \in T : Smaller(T, x) + 1 \in 1 .. m /\ (Smaller(T, x) + 1) - 1 = Smaller(T, x)
      BY <1>1, <2>5
    <3>2. \A x \in T : s[Smaller(T, x) + 1] = x
      BY <2>6, <2>8, <3>1
    <3>3. QED
      BY <2>6, <2>7, <3>1, <3>2 DEF Range
  <2>10. ASSUME NEW i \in 1 .. m, NEW j \in 1 .. m, i < j PROVE s[i] < s[j]
    <3>1. Smaller(T, s[i]) < Smaller(T, s[j]) /\ Smaller(T, s[i]) \in Int /\ Smaller(T, s[j]) \in Int
      BY <1>1, <2>6, <2>10
    <3>2. s[i] \in T /\ s[j] \in T /\ s[i] \in Int /\ s[j] \in Int
      BY <2>2, <2>6
    <3>3. s[i] # s[j]
      BY <3>1
    <3>4. ~(s[j] < s[i])
      BY <2>5, <3>1, <3>2
    <3>5. QED
      BY <3>2, <3>3, <3>4
  <2>11. s \in [1 .. m -> Chunk] /\ \A i \in 1 .. m : s[i] \in Int
    BY <2>2, <2>6, <2>7
  <2>12. Ordered(s, Less) /\ Ordered(s, Different)
    <3>1. \A i, j \in 1 .. m : i < j => s[i] < s[j] /\ s[i] # s[j]
      BY <2>10, <2>11
    <3>2. QED
      BY <2>7, <2>11, <3>1 DEF Ordered, Less, Different
  <2>13. QED
    BY <1>1, <1>5, <2>1, <2>9, <2>11, <2>12 DEF m
<1>9. QED
  BY <1>7, <1>8 DEF Scheme

\* labels_cur names the chunk of every position.
LEMMA LabelsAre ==
    ASSUME Scheme, NEW X, token_ids \in Seq(X)
    PROVE  /\ Len(token_ids) \in Nat /\ DOMAIN token_ids = 1 .. Len(token_ids)
           /\ CurrentLabels \in [1 .. Len(token_ids) -> Chunk]
           /\ \A i \in 1 .. Len(token_ids) : CurrentLabels[i] = D!ChunkAt(Len(token_ids), i - 1)
<1> DEFINE L == Len(token_ids)
<1>1. L \in Nat /\ DOMAIN token_ids = 1 .. L
  OBVIOUS
<1> HIDE DEF L
<1>2. ASSUME NEW i \in 1 .. L
      PROVE  CurrentLabels[i] = D!ChunkAt(L, i - 1) /\ D!ChunkAt(L, i - 1) \in Chunk
  <2>1. i - 1 \in 0 .. L - 1
    BY <1>1
  <2>2. D!ChunkAt(L, i - 1) \in Chunk
    <3>1. 0 \in Chunk
      BY SchemeIs
    <3>2. QED
      BY <1>1, <2>1, <3>1, ChunkIs
  <2>3. \A k \in Chunk : i \in Range(Segment(L, k)) <=> D!ChunkAt(L, i - 1) = k
    BY <1>1, SegmentIs
  <2>4. CurrentLabels[i] = CHOOSE k \in Chunk : i \in Range(Segment(L, k))
    BY DEF CurrentLabels, L
  <2>5. QED
    BY <2>2, <2>3, <2>4
<1>3. CurrentLabels = [i \in 1 .. L |-> CurrentLabels[i]]
  BY DEF CurrentLabels, L
<1>4. QED
  BY <1>1, <1>2, <1>3 DEF L

\* The gather takes the positions of the quorum's chunks, each once, and keeps their
\* order where it is sorted.
LEMMA GatherIs ==
    ASSUME Scheme, NEW X, token_ids \in Seq(X), NEW o \in Chunk
    PROVE  /\ GatherIdx(o) \in Seq(1 .. Len(token_ids))
           /\ Range(GatherIdx(o)) = {i \in 1 .. Len(token_ids) : CurrentLabels[i] \in D!QuorumChunks(o)}
           /\ Ordered(GatherIdx(o), Different)
           /\ sorted => Ordered(GatherIdx(o), Less)
<1> DEFINE L == Len(token_ids)
           m == Len(InterestSeq)
           q == QuorumSeq(o)
           segs == [i \in 1 .. m |-> Segment(L, q[i])]
<1>1. /\ m \in Nat /\ DOMAIN InterestSeq = 1 .. m /\ q \in [1 .. m -> Chunk]
      /\ Range(q) = D!QuorumChunks(o)
      /\ Ordered(q, Different) /\ (sorted => Ordered(q, Less))
  BY QuorumIs
<1>2. /\ L \in Nat /\ \A i \in 1 .. L : /\ CurrentLabels[i] = D!ChunkAt(L, i - 1)
                                        /\ CurrentLabels[i] \in Chunk
  BY LabelsAre
<1>3. GatherIdx(o) = FlattenSeq(segs)
  BY <1>1 DEF GatherIdx
<1> HIDE DEF L, m, q
<1>4. \A i \in 1 .. m : /\ segs[i] \in Seq(1 .. L)
                        /\ Range(segs[i]) = {x \in 1 .. L : D!ChunkAt(L, x - 1) = q[i]}
                        /\ Ordered(segs[i], Less)
  BY <1>1, <1>2, SegmentIs DEF Less
<1>5. segs \in [1 .. m -> Seq(1 .. L)]
  BY <1>4
<1> HIDE DEF segs
<1>6. \A i \in 1 .. m : Ordered(segs[i], Different)
  BY <1>4 DEF Ordered, Less, Different
<1>7. ASSUME NEW i \in 1 .. m, NEW j \in 1 .. m, i < j,
             NEW x \in Range(segs[i]), NEW y \in Range(segs[j])
      PROVE  <<x, y>> \in Different /\ (sorted => <<x, y>> \in Less)
  <2>1. /\ x \in 1 .. L /\ D!ChunkAt(L, x - 1) = q[i]
        /\ y \in 1 .. L /\ D!ChunkAt(L, y - 1) = q[j]
    BY <1>4, <1>7
  <2>2. q[i] # q[j] /\ q[i] \in Chunk /\ q[j] \in Chunk
    BY <1>1, <1>7 DEF Ordered, Different
  <2>3. x # y
    BY <2>1, <2>2
  <2>4. ASSUME sorted PROVE x < y
    <3>1. q[i] < q[j]
      BY <1>1, <1>7, <2>4 DEF Ordered, Less
    <3>2. D!ChunkEnd(L, q[i]) <= D!ChunkStart(L, q[j])
      BY <1>2, <2>2, <3>1, ChunksApart
    <3>3. x - 1 \in 0 .. L - 1 /\ y - 1 \in 0 .. L - 1
      BY <1>2, <2>1
    <3>4. x - 1 < D!ChunkEnd(L, q[i]) /\ D!ChunkStart(L, q[j]) <= y - 1
      BY <1>2, <2>1, <2>2, <3>3, ChunkIs
    <3>5. D!ChunkEnd(L, q[i]) \in Nat /\ D!ChunkStart(L, q[j]) \in Nat
      BY <1>2, <2>2, ChunksApart
    <3>6. QED
      BY <2>1, <3>2, <3>4, <3>5
  <2>5. QED
    BY <2>1, <2>3, <2>4 DEF Different, Less
<1>8. /\ FlattenSeq(segs) \in Seq(1 .. L)
      /\ Range(FlattenSeq(segs)) = UNION {Range(segs[i]) : i \in 1 .. m}
      /\ Ordered(FlattenSeq(segs), Different)
  BY <1>1, <1>5, <1>6, <1>7, FlattenOrdered
<1>9. sorted => Ordered(FlattenSeq(segs), Less)
  BY <1>1, <1>4, <1>5, <1>7, FlattenOrdered
<1>10. UNION {Range(segs[i]) : i \in 1 .. m} = {i \in 1 .. L : CurrentLabels[i] \in D!QuorumChunks(o)}
  <2>1. \A x : x \in D!QuorumChunks(o) <=> \E i \in 1 .. m : x = q[i]
    BY <1>1 DEF Range
  <2>2. \A x : x \in UNION {Range(segs[i]) : i \in 1 .. m}
                 <=> x \in 1 .. L /\ \E i \in 1 .. m : D!ChunkAt(L, x - 1) = q[i]
    BY <1>4
  <2>3. QED
    BY <1>2, <2>1, <2>2
<1>11. QED
  BY <1>3, <1>8, <1>9, <1>10 DEF L

\* The remainders of a number and the next.
LEMMA NextRemainder ==
    ASSUME NEW a \in Nat, NEW b \in Nat \ {0}
    PROVE  (a + 1) % b = IF (a % b) + 1 = b THEN 0 ELSE (a % b) + 1
<1> DEFINE q == a \div b
           r == a % b
           x == (a + 1) \div b
           y == (a + 1) % b
<1>1. /\ q \in Nat /\ r \in 0 .. b - 1 /\ a = b * q + r
      /\ x \in Nat /\ y \in 0 .. b - 1 /\ a + 1 = b * x + y
  <2>1. q \in Nat /\ r \in 0 .. b - 1 /\ a = b * q + r
    BY Divides
  <2> DEFINE e == a + 1
  <2>2. e \in Nat
    OBVIOUS
  <2> HIDE DEF e
  <2>3. e \div b \in Nat /\ e % b \in 0 .. b - 1 /\ e = b * (e \div b) + (e % b)
    BY <2>2, Divides
  <2>4. QED
    BY <2>1, <2>3 DEF e
<1> HIDE DEF q, r, x, y
<1>2. b * q + r + 1 = b * x + y /\ b * q \in Int /\ b * x \in Int
  BY <1>1
<1>3. ASSUME x >= q + 2 PROVE FALSE
  <2>1. b * x >= b * (q + 2) /\ b * (q + 2) = b * q + 2 * b
    BY <1>1, <1>3
  <2>2. QED
    BY <1>1, <1>2, <2>1
<1>4. ASSUME x <= q - 1 PROVE FALSE
  <2>1. b * x <= b * (q - 1) /\ b * (q - 1) = b * q - b
    BY <1>1, <1>4
  <2>2. QED
    BY <1>1, <1>2, <2>1
<1>5. x = q \/ x = q + 1
  BY <1>1, <1>3, <1>4
<1>6. CASE x = q
  <2>1. y = r + 1
    BY <1>1, <1>2, <1>6
  <2>2. QED
    BY <1>1, <2>1 DEF r, y
<1>7. CASE x = q + 1
  <2>1. b * x = b * q + b
    BY <1>1, <1>7
  <2>2. y = r + 1 - b
    BY <1>1, <1>2, <2>1
  <2>3. QED
    BY <1>1, <2>2 DEF r, y
<1>8. QED
  BY <1>5, <1>6, <1>7

\* A chunk boundary is a block boundary.
LEMMA SameBlock ==
    ASSUME Scheme, NEW X, token_ids \in Seq(X), NEW i \in 1 .. Len(token_ids) - 1, i % Align # 0
    PROVE  CurrentLabels[i + 1] = CurrentLabels[i]
<1> DEFINE L == Len(token_ids)
           k == CurrentLabels[i + 1]
<1>1. L \in Nat /\ i \in 1 .. L /\ i + 1 \in 1 .. L /\ (i + 1) - 1 = i /\ i - 1 \in 0 .. L - 1 /\ i \in 0 .. L - 1
  OBVIOUS
<1>2. k = D!ChunkAt(L, i) /\ k \in Chunk /\ CurrentLabels[i] = D!ChunkAt(L, i - 1)
  BY <1>1, LabelsAre
<1> HIDE DEF L, k
<1>3. D!ChunkStart(L, k) <= i /\ i < D!ChunkEnd(L, k)
  BY <1>1, <1>2, ChunkIs
<1>4. PICK y \in Nat : D!ChunkStart(L, k) = Align * y
  BY <1>1, <1>2, CutIs
<1>5. D!ChunkStart(L, k) # i
  <2> SUFFICES ASSUME i = Align * y PROVE FALSE
    BY <1>4
  <2> DEFINE q == i \div Align
             r == i % Align
  <2>1. Align \in Nat \ {0}
    BY SchemeIs
  <2>2. q \in Nat /\ r \in 1 .. Align - 1 /\ i = Align * q + r
    <3>1. i \in Nat
      BY <1>1
    <3>2. q \in Nat /\ r \in 0 .. Align - 1 /\ i = Align * q + r
      BY <2>1, <3>1, Divides
    <3>3. r # 0
      OBVIOUS
    <3> HIDE DEF q, r
    <3>4. QED
      BY <3>2, <3>3
  <2> HIDE DEF q, r
  <2>3. Align * y = Align * q + r /\ Align * q \in Int
    BY <2>1, <2>2
  <2>4. y <= q \/ y >= q + 1
    BY <2>2
  <2>5. CASE y <= q
    <3>1. Align * y <= Align * q
      BY <2>1, <2>2, <2>5
    <3>2. QED
      BY <2>2, <2>3, <3>1
  <2>6. CASE y >= q + 1
    <3>1. Align * y >= Align * (q + 1) /\ Align * (q + 1) = Align * q + Align
      BY <2>1, <2>2, <2>6
    <3>2. QED
      BY <2>1, <2>2, <2>3, <3>1
  <2>7. QED
    BY <2>4, <2>5, <2>6
<1>6. D!ChunkStart(L, k) \in Nat /\ D!ChunkEnd(L, k) \in Nat
  BY <1>1, <1>2, ChunksApart
<1>7. D!ChunkStart(L, k) <= i - 1 /\ i - 1 < D!ChunkEnd(L, k)
  BY <1>1, <1>3, <1>5, <1>6
<1>8. D!ChunkAt(L, i - 1) = k
  BY <1>1, <1>2, <1>7, ChunkIs
<1>9. QED
  BY <1>2, <1>8 DEF k

\* The sorted gather moves whole blocks, and to the start of a block.
LEMMA BlocksMove ==
    ASSUME Scheme, sorted, NEW X, token_ids \in Seq(X), NEW o \in Chunk
    PROVE  LET idx == GatherIdx(o)
           IN  \A r \in 1 .. Len(idx) - 1 :
                  r % Align # 0 => idx[r + 1] = idx[r] + 1 /\ idx[r] % Align # 0
<1> DEFINE idx == GatherIdx(o)
           L == Len(token_ids)
           M == Len(idx)
           G == {i \in 1 .. L : CurrentLabels[i] \in D!QuorumChunks(o)}
           x(r) == idx[r + 1] - 1
           H == {r \in Nat : r < M => x(r) % Align = r % Align}
<1>1. /\ L \in Nat /\ M \in Nat /\ Align \in Nat \ {0}
      /\ DOMAIN idx = 1 .. M /\ \A i \in 1 .. M : idx[i] \in 1 .. L
  BY GatherIs, SchemeIs
<1>2. \A j, r \in 1 .. M : j < r => idx[j] < idx[r]
  BY <1>1, GatherIs DEF Ordered, Less
<1>3. \A i \in G : \E j \in 1 .. M : idx[j] = i
  BY <1>1, GatherIs DEF Range
<1>4. \A j \in 1 .. M : idx[j] \in G
  BY <1>1, GatherIs DEF Range
<1>5. \A i \in 1 .. L - 1 : i % Align # 0 => (i \in G <=> i + 1 \in G)
  BY <1>1, SameBlock
<1> HIDE DEF idx, L, G
<1> HIDE DEF M
<1>6. \A r \in Nat : r < M => r + 1 \in 1 .. M /\ x(r) \in 0 .. L - 1
  BY <1>1
\* a gathered row that starts no block has its predecessor gathered before it
<1>7. ASSUME NEW r \in Nat, r < M, x(r) % Align # 0
      PROVE  \E j \in Nat : j < r /\ x(j) = x(r) - 1
  <2>1. x(r) \in 0 .. L - 1 /\ r + 1 \in 1 .. M
    BY <1>6, <1>7
  <2>2. x(r) # 0
    <3>1. 0 % Align = 0
      BY <1>1
    <3>2. QED
      BY <1>7, <3>1
  <2> DEFINE i == x(r)
  <2>3. i \in 1 .. L - 1 /\ i % Align # 0 /\ i + 1 = idx[r + 1]
    BY <1>1, <1>7, <2>1, <2>2
  <2>4. i \in G
    BY <1>4, <1>5, <2>1, <2>3
  <2>5. PICK j \in 1 .. M : idx[j] = i
    BY <1>3, <2>4
  <2>6. ~(r + 1 < j) /\ r + 1 # j
    <3> HIDE DEF i
    <3>1. idx[j] < idx[r + 1]
      BY <2>3, <2>5
    <3>2. idx[j] \in Int /\ idx[r + 1] \in Int
      BY <1>1, <2>1
    <3>3. QED
      BY <1>2, <2>1, <3>1, <3>2
  <2>7. j - 1 \in Nat /\ j - 1 < r /\ (j - 1) + 1 = j
    BY <1>1, <2>1, <2>6
  <2>8. x(j - 1) = i - 1
    BY <2>5, <2>7
  <2>9. QED
    BY <2>7, <2>8
\* and one that ends none is followed by the next row
<1>8. ASSUME NEW r \in Nat, r + 1 < M, (x(r) + 1) % Align # 0
      PROVE  x(r + 1) = x(r) + 1
  <2>1. r + 1 \in 1 .. M /\ (r + 1) + 1 \in 1 .. M /\ r + 1 < (r + 1) + 1
    BY <1>1, <1>8
  <2>2. idx[r + 1] < idx[(r + 1) + 1] /\ idx[r + 1] \in 1 .. L /\ idx[(r + 1) + 1] \in 1 .. L
    BY <1>1, <1>2, <2>1
  <2> DEFINE i == idx[r + 1]
  <2>3. i \in 1 .. L - 1 /\ i % Align # 0
    <3>1. x(r) + 1 = i
      BY <2>2
    <3>2. QED
      BY <1>1, <1>8, <2>2, <3>1
  <2>4. i + 1 \in G
    BY <1>4, <1>5, <2>1, <2>3
  <2>5. PICK j \in 1 .. M : idx[j] = i + 1
    BY <1>3, <2>4
  <2>6. r + 1 < j
    <3>1. ~(j < r + 1) /\ j # r + 1
      BY <1>2, <2>1, <2>2, <2>5
    <3>2. QED
      BY <1>1, <2>1, <3>1
  <2>7. j = (r + 1) + 1 \/ (r + 1) + 1 < j
    BY <1>1, <2>1, <2>6
  <2>8. idx[(r + 1) + 1] <= i + 1
    <3>1. (r + 1) + 1 < j => idx[(r + 1) + 1] < idx[j]
      BY <1>2, <2>1
    <3>2. QED
      BY <2>2, <2>5, <2>7, <3>1
  <2>9. idx[(r + 1) + 1] = i + 1
    BY <2>2, <2>8
  <2>10. QED
    BY <2>2, <2>9
<1>9. 0 \in H
  <2>1. ASSUME 0 < M, x(0) % Align # 0 PROVE FALSE
    <3>1. \E j \in Nat : j < 0 /\ x(j) = x(0) - 1
      BY <1>7, <2>1
    <3>2. QED
      BY <3>1
  <2>2. 0 % Align = 0
    BY <1>1
  <2>3. QED
    BY <2>1, <2>2
<1>10. ASSUME NEW r \in Nat, r \in H PROVE r + 1 \in H
  <2> SUFFICES ASSUME r + 1 < M PROVE x(r + 1) % Align = (r + 1) % Align
    OBVIOUS
  <2>1. r < M /\ x(r) \in Nat /\ x(r + 1) \in Nat
    BY <1>1, <1>6
  <2>2. x(r) % Align = r % Align
    BY <1>10, <2>1
  <2>3. (x(r) + 1) % Align = (r + 1) % Align
    <3> DEFINE a == x(r)
    <3> HIDE DEF a, x
    <3>1. a \in Nat /\ a % Align = r % Align
      BY <2>1, <2>2 DEF a
    <3>2. (a + 1) % Align = IF (a % Align) + 1 = Align THEN 0 ELSE (a % Align) + 1
      BY <1>1, <3>1, NextRemainder
    <3>3. (r + 1) % Align = IF (r % Align) + 1 = Align THEN 0 ELSE (r % Align) + 1
      BY <1>1, NextRemainder
    <3>4. QED
      BY <3>1, <3>2, <3>3 DEF a
  <2> HIDE DEF x
  <2>4. CASE (r + 1) % Align # 0
    BY <1>8, <2>3, <2>4
  <2>5. CASE (r + 1) % Align = 0
    <3> SUFFICES ASSUME x(r + 1) % Align # 0 PROVE FALSE
      BY <2>5
    <3>1. PICK j \in Nat : j < r + 1 /\ x(j) = x(r + 1) - 1
      <4>1. r + 1 \in Nat
        OBVIOUS
      <4>2. QED
        BY <1>7, <4>1
    <3>2. x(r) < x(r + 1) /\ (j < r => x(j) < x(r)) /\ x(j) \in Nat
      <4>1. /\ r + 1 \in 1 .. M /\ (r + 1) + 1 \in 1 .. M /\ j + 1 \in 1 .. M
            /\ r + 1 < (r + 1) + 1 /\ (j < r => j + 1 < r + 1) /\ j < M
        BY <1>1, <3>1
      <4>2. idx[r + 1] < idx[(r + 1) + 1] /\ (j < r => idx[j + 1] < idx[r + 1])
        BY <1>2, <4>1
      <4>3. idx[r + 1] \in Int /\ idx[(r + 1) + 1] \in Int /\ idx[j + 1] \in 1 .. L
        BY <1>1, <4>1
      <4>4. QED
        <5>1. /\ x(r) = idx[r + 1] - 1 /\ x(r + 1) = idx[(r + 1) + 1] - 1
              /\ x(j) = idx[j + 1] - 1
          BY DEF x
        <5> HIDE DEF x
        <5> DEFINE u == idx[r + 1]
                   v == idx[(r + 1) + 1]
                   w == idx[j + 1]
        <5>2. u \in Int /\ v \in Int /\ w \in Nat /\ w # 0 /\ u < v /\ (j < r => w < u)
          BY <1>1, <4>2, <4>3
        <5> HIDE DEF u, v, w
        <5>3. u - 1 < v - 1 /\ (j < r => w - 1 < u - 1) /\ w - 1 \in Nat
          BY <5>2
        <5>4. QED
          BY <5>1, <5>3 DEF u, v, w
    <3>3. j = r
      BY <2>1, <3>1, <3>2
    <3>4. x(r) + 1 = x(r + 1)
      BY <2>1, <3>1, <3>3
    <3>5. QED
      BY <2>3, <2>5, <3>4
  <2>6. QED
    BY <2>4, <2>5
<1> HIDE DEF H
<1>11. \A r \in Nat : r \in H
  BY <1>9, <1>10, Induction
<1>12. ASSUME NEW r \in 1 .. M - 1, r % Align # 0
       PROVE  idx[r + 1] = idx[r] + 1 /\ idx[r] % Align # 0
  <2> DEFINE s == r - 1
  <2>1. s \in Nat /\ s < M /\ s + 1 < M /\ s + 1 = r
    BY <1>1
  <2>2. x(s) % Align = s % Align /\ x(s) \in Nat
    <3>1. s \in H
      BY <1>11, <2>1
    <3>2. x(s) \in 0 .. L - 1
      BY <1>6, <2>1
    <3>3. x(s) % Align = s % Align
      BY <2>1, <3>1 DEF H
    <3> HIDE DEF x, s
    <3>4. QED
      BY <1>1, <3>2, <3>3
  <2>3. (x(s) + 1) % Align = (s + 1) % Align
    <3> DEFINE a == x(s)
    <3> HIDE DEF a, x, s
    <3>1. a \in Nat /\ a % Align = s % Align
      BY <2>2 DEF a
    <3>2. (a + 1) % Align = IF (a % Align) + 1 = Align THEN 0 ELSE (a % Align) + 1
      BY <1>1, <3>1, NextRemainder
    <3>3. (s + 1) % Align = IF (s % Align) + 1 = Align THEN 0 ELSE (s % Align) + 1
      BY <1>1, <2>1, NextRemainder
    <3>4. QED
      BY <3>1, <3>2, <3>3 DEF a
  <2>4. x(s) + 1 = idx[r]
    <3>1. idx[r] \in Int
      BY <1>1, <2>1
    <3>2. QED
      BY <2>1, <3>1
  <2>5. x(s + 1) = x(s) + 1
    <3> HIDE DEF x, s
    <3>1. QED
      BY <1>8, <1>12, <2>1, <2>3
  <2>6. x(s + 1) = idx[r + 1] - 1 /\ idx[r + 1] \in Int
    BY <1>1, <2>1
  <2>7. QED
    BY <1>12, <2>1, <2>3, <2>4, <2>5, <2>6
<1>13. QED
  BY <1>12 DEF M, idx

-----------------------------------------------------------------------------
(* The subproblem of a path in the set-based operators.                      *)

\* Places in a set are places in the list of its members in order.
LEMMA RankIs ==
    ASSUME NEW s \in Seq(Int), Ordered(s, Less)
    PROVE  /\ D!Cardinality(Range(s)) = Len(s)
           /\ \A i \in 1 .. Len(s) : D!Rank(Range(s), s[i]) = i - 1
<1> DEFINE L == Len(s)
<1>1. L \in Nat /\ DOMAIN s = 1 .. L /\ \A i \in 1 .. L : s[i] \in Int
  OBVIOUS
<1> HIDE DEF L
<1>2. \A i, j \in 1 .. L : i < j => s[i] < s[j]
  BY <1>1 DEF Ordered, Less
<1>3. \A i, j \in 1 .. L : s[i] < s[j] => i < j
  <2> SUFFICES ASSUME NEW i \in 1 .. L, NEW j \in 1 .. L, s[i] < s[j], ~(i < j)
               PROVE  FALSE
    OBVIOUS
  <2>1. i = j \/ j < i
    BY <1>1
  <2>2. QED
    BY <1>1, <1>2, <2>1
<1>4. \A T : D!Cardinality(T) = Cardinality(T)
  BY Zenon DEF D!Cardinality, Cardinality, D!IsFiniteSet, IsFiniteSet
<1>5. ASSUME NEW k \in Nat, k <= L
      PROVE  Cardinality({s[j] : j \in 1 .. k}) = k
  <2> DEFINE T == {s[j] : j \in 1 .. k}
             f == [j \in 1 .. k |-> s[j]]
  <2>1. \A j \in 1 .. k : j \in 1 .. L
    BY <1>1, <1>5
  <2>2. \A i, j \in 1 .. k : s[i] = s[j] => i = j
    <3> SUFFICES ASSUME NEW i \in 1 .. k, NEW j \in 1 .. k, s[i] = s[j], i # j PROVE FALSE
      OBVIOUS
    <3>1. i < j \/ j < i
      OBVIOUS
    <3>2. s[i] \in Int
      BY <1>1, <2>1
    <3>3. QED
      BY <1>2, <2>1, <3>1, <3>2
  <2>3. f \in Bijection(1 .. k, T)
    BY <2>2 DEF Bijection, Injection, Surjection, IsInjective
  <2>4. ExistsBijection(1 .. k, T)
    BY <2>3 DEF ExistsBijection
  <2> HIDE DEF T
  <2>5. QED
    BY <2>4, FS_CountingElements DEF T
<1>6. Cardinality(Range(s)) = L
  <2>1. Range(s) = {s[j] : j \in 1 .. L} /\ L <= L
    BY <1>1 DEF Range
  <2>2. QED
    BY <1>1, <1>5, <2>1
<1>7. ASSUME NEW i \in 1 .. L PROVE D!Rank(Range(s), s[i]) = i - 1
  <2>1. D!Rank(Range(s), s[i]) = Cardinality({w \in Range(s) : w < s[i]})
    BY <1>4 DEF D!Rank
  <2>2. {w \in Range(s) : w < s[i]} = {s[j] : j \in 1 .. i - 1}
    <3>1. \A j \in 1 .. i - 1 : j \in 1 .. L /\ j < i
      BY <1>1
    <3>2. \A j \in 1 .. L : j < i => j \in 1 .. i - 1
      BY <1>1
    <3>3. Range(s) = {s[j] : j \in 1 .. L}
      BY <1>1 DEF Range
    <3>4. QED
      BY <1>2, <1>3, <3>1, <3>2, <3>3
  <2>3. i - 1 \in Nat /\ i - 1 <= L
    BY <1>1
  <2>4. QED
    BY <1>5, <2>1, <2>2, <2>3
<1>8. QED
  BY <1>4, <1>6, <1>7 DEF L

\* Before the first level.
Whole == [path |-> <<>>, tokens |-> 0 .. n-1, bits |-> [u \in 0 .. n-1 |-> {}]]

\* The subproblem at the end of a path.
TaskAt(p) ==
    LET task[k \in 0 .. Len(p)] ==
            IF k = 0
            THEN [path |-> <<>>, tokens |-> 0 .. n-1, bits |-> [u \in 0 .. n-1 |-> {}]]
            ELSE D!Child(task[k-1], p[k])
    IN  task[Len(p)]

\* It is built level by level.
LEMMA TaskAtIs ==
    /\ TaskAt(<<>>) = Whole
    /\ \A p \in Seq(Chunk) : \A o \in Chunk : TaskAt(Append(p, o)) = D!Child(TaskAt(p), o)
<1> DEFINE Is(f, p, m) == f = [k \in 0 .. m |-> IF k = 0 THEN Whole ELSE D!Child(f[k - 1], p[k])]
           The(p, m) == CHOOSE f : Is(f, p, m)
<1>1. \A p : TaskAt(p) = The(p, Len(p))[Len(p)]
  BY DEF TaskAt, Whole
<1>2. ASSUME NEW p, NEW m \in Nat PROVE \E f : Is(f, p, m)
  <2> DEFINE H == {k \in Nat : \E f : Is(f, p, k)}
  <2>1. 0 \in H
    <3> DEFINE f == [k \in 0 .. 0 |-> Whole]
    <3>1. \A k \in 0 .. 0 : k = 0
      OBVIOUS
    <3>2. Is(f, p, 0)
      BY <3>1
    <3> HIDE DEF f, Is
    <3>3. QED
      BY <3>2
  <2>2. ASSUME NEW k \in Nat, k \in H PROVE k + 1 \in H
    <3>1. PICK f : Is(f, p, k)
      BY <2>2
    <3> DEFINE g == [j \in 0 .. k + 1 |-> IF j = 0 THEN Whole ELSE D!Child(f[j - 1], p[j])]
    <3>2. \A j \in 0 .. k : g[j] = f[j]
      BY <3>1
    <3>3. \A j \in 0 .. k + 1 : j # 0 => j - 1 \in 0 .. k
      OBVIOUS
    <3>4. \A j \in 0 .. k + 1 : g[j] = IF j = 0 THEN Whole ELSE D!Child(g[j - 1], p[j])
      BY <3>2, <3>3
    <3>5. DOMAIN g = 0 .. k + 1 /\ g = [j \in DOMAIN g |-> g[j]]
      OBVIOUS
    <3> HIDE DEF g
    <3>6. Is(g, p, k + 1)
      BY <3>4, <3>5
    <3> HIDE DEF Is
    <3>7. QED
      BY <3>6
  <2> HIDE DEF H
  <2>3. m \in H
    BY <2>1, <2>2, Induction
  <2>4. QED
    BY <2>3 DEF H
<1>3. \A p : \A m \in Nat : Is(The(p, m), p, m)
  <2> TAKE p
  <2> TAKE m \in Nat
  <2>1. \E f : Is(f, p, m)
    BY <1>2
  <2> HIDE DEF Is
  <2>2. QED
    BY <2>1
<1>4. TaskAt(<<>>) = Whole
  <2>1. TaskAt(<<>>) = The(<<>>, 0)[0]
    BY <1>1
  <2>2. Is(The(<<>>, 0), <<>>, 0)
    BY <1>3
  <2> HIDE DEF The
  <2>3. QED
    BY <2>1, <2>2
<1>5. ASSUME NEW p \in Seq(Chunk), NEW o \in Chunk
      PROVE  TaskAt(Append(p, o)) = D!Child(TaskAt(p), o)
  <2> DEFINE m == Len(p)
             s == Append(p, o)
             f == The(p, m)
             g == The(s, m + 1)
  <2>1. m \in Nat /\ Len(s) = m + 1 /\ s[m + 1] = o /\ \A k \in 1 .. m : s[k] = p[k]
    OBVIOUS
  <2>2. Is(f, p, m) /\ Is(g, s, m + 1)
    <3>1. m + 1 \in Nat
      BY <2>1
    <3> HIDE DEF Is, The, m, s
    <3>2. QED
      BY <1>3, <2>1, <3>1
  <2>3. TaskAt(p) = f[m] /\ TaskAt(s) = g[m + 1]
    BY <1>1, <2>1
  <2> HIDE DEF f, g, m, s
  <2> DEFINE H == {k \in Nat : k <= m => g[k] = f[k]}
  <2>4. 0 \in H
    BY <2>1, <2>2
  <2>5. ASSUME NEW k \in Nat, k \in H PROVE k + 1 \in H
    <3> SUFFICES ASSUME k + 1 <= m PROVE g[k + 1] = f[k + 1]
      OBVIOUS
    <3>1. /\ k <= m /\ k + 1 \in 1 .. m /\ k + 1 \in 0 .. m /\ k + 1 \in 0 .. m + 1
          /\ k + 1 # 0 /\ (k + 1) - 1 = k
      BY <2>1
    <3>2. g[k] = f[k]
      BY <2>5, <3>1
    <3>3. g[k + 1] = D!Child(g[k], s[k + 1]) /\ f[k + 1] = D!Child(f[k], p[k + 1])
      BY <2>2, <3>1
    <3>4. QED
      BY <2>1, <3>1, <3>2, <3>3
  <2>6. g[m] = f[m]
    <3> HIDE DEF H
    <3>1. m \in H
      BY <2>1, <2>4, <2>5, Induction
    <3>2. m <= m
      BY <2>1
    <3>3. QED
      BY <3>1, <3>2 DEF H
  <2>7. g[m + 1] = D!Child(g[m], s[m + 1])
    <3>1. m + 1 \in 0 .. m + 1 /\ m + 1 # 0 /\ (m + 1) - 1 = m
      BY <2>1
    <3>2. QED
      BY <2>2, <3>1
  <2>8. QED
    BY <2>1, <2>3, <2>6, <2>7 DEF s
<1>6. QED
  BY <1>4, <1>5

-----------------------------------------------------------------------------
(* Every pair of chunks has one owner.                                       *)

\* An owner gathers a chunk iff their difference is an offset.
LEMMA MemberIs ==
    ASSUME Scheme, NEW x \in Chunk, NEW o \in Chunk
    PROVE  /\ x \in D!QuorumChunks(o) <=> (x - o) % C \in Range(InterestSeq)
           /\ (x - o) % C = IF x < o THEN x - o + C ELSE x - o
<1>1. /\ (x - o) % C = IF x < o THEN x - o + C ELSE x - o
      /\ C \in Nat \ {0} /\ x \in 0 .. C - 1 /\ o \in 0 .. C - 1
  BY ModIs, SchemeIs
<1>2. ASSUME NEW off \in Range(InterestSeq)
      PROVE  (o + off) % C = x <=> off = (x - o) % C
  <2>1. off \in Chunk
    BY SchemeIs DEF Range
  <2>2. (o + off) % C = (IF o + off < C THEN o + off ELSE o + off - C) /\ off \in 0 .. C - 1
    BY <2>1, ModIs, SchemeIs
  <2> DEFINE c == C
             y == (o + off) % C
             z == (x - o) % C
  <2>3. /\ y = (IF o + off < c THEN o + off ELSE o + off - c) /\ off \in 0 .. c - 1
        /\ z = (IF x < o THEN x - o + c ELSE x - o)
        /\ c \in Nat \ {0} /\ x \in 0 .. c - 1 /\ o \in 0 .. c - 1
    BY <1>1, <2>2
  <2> HIDE DEF c, y, z
  <2>4. y = x <=> off = z
    BY <2>3
  <2>5. QED
    BY <2>4 DEF y, z
<1>3. x \in D!QuorumChunks(o) <=> \E off \in Range(InterestSeq) : (o + off) % C = x
  BY DEF D!QuorumChunks
<1>4. QED
  BY <1>1, <1>2, <1>3

\* Two chunks are gathered together by one owner; an owner gathers its own chunk iff 0
\* is an offset.
LEMMA OwnerIs ==
    ASSUME Scheme, NEW x \in Chunk, NEW y \in Chunk
    PROVE  /\ x # y => \E o \in Chunk :
                          /\ x \in D!QuorumChunks(o) /\ y \in D!QuorumChunks(o)
                          /\ \A i \in Chunk : x \in D!QuorumChunks(i) /\ y \in D!QuorumChunks(i) => i = o
           /\ 0 \in Range(InterestSeq) <=> x \in D!QuorumChunks(x)
<1> DEFINE I == DOMAIN InterestSeq
           d == (x - y) % C
           P == {p \in I \X I : p[1] # p[2] /\ (InterestSeq[p[1]] - InterestSeq[p[2]]) % C = d}
           c == C
<1>1. c \in Nat \ {0} /\ x \in 0 .. c - 1 /\ y \in 0 .. c - 1 /\ Chunk = 0 .. c - 1
  BY SchemeIs
<1>2. \A i \in I : InterestSeq[i] \in Chunk /\ InterestSeq[i] \in Range(InterestSeq)
  BY SchemeIs DEF Range
<1>3. 0 \in Range(InterestSeq) <=> x \in D!QuorumChunks(x)
  <2>1. (x - x) % C = IF x < x THEN x - x + C ELSE x - x
    BY MemberIs
  <2>2. (x - x) % C = 0
    BY <1>1, <2>1
  <2>3. QED
    BY <2>2, MemberIs
<1>4. ASSUME x # y
      PROVE  \E o \in Chunk :
                /\ x \in D!QuorumChunks(o) /\ y \in D!QuorumChunks(o)
                /\ \A i \in Chunk : x \in D!QuorumChunks(i) /\ y \in D!QuorumChunks(i) => i = o
  <2>1. d = IF x < y THEN x - y + c ELSE x - y
    BY MemberIs
  <2> HIDE DEF d, c
  <2>2. d \in 1 .. c - 1
    BY <1>1, <1>4, <2>1
  <2>3. PICK p : P = {p}
    <3>1. Cardinality(P) = 1
      BY <2>2 DEF Scheme, CheckQuorumSet, c
    <3>2. IsFiniteSet(P)
      <4>1. I = 1 .. Len(InterestSeq) /\ Len(InterestSeq) \in Nat
        BY SchemeIs
      <4>2. IsFiniteSet(I)
        BY <4>1, FS_Interval
      <4> HIDE DEF I
      <4>3. IsFiniteSet(I \X I)
        BY <4>2, FS_Product
      <4>4. QED
        BY <4>3, FS_Subset
    <3> HIDE DEF P
    <3>3. QED
      BY <3>1, <3>2, FS_Singleton
  <2> DEFINE a == InterestSeq[p[1]]
             b == InterestSeq[p[2]]
  <2>4. /\ a \in 0 .. c - 1 /\ b \in 0 .. c - 1 /\ (a - b) % C = d
        /\ a \in Range(InterestSeq) /\ b \in Range(InterestSeq)
        /\ (a - b) % C = IF a < b THEN a - b + c ELSE a - b
    <3>1. p \in P
      BY <2>3
    <3>2. p[1] \in I /\ p[2] \in I /\ (a - b) % C = d
      BY <3>1
    <3>3. a \in Chunk /\ b \in Chunk /\ a \in Range(InterestSeq) /\ b \in Range(InterestSeq)
      BY <1>2, <3>2
    <3>4. (a - b) % C = IF a < b THEN a - b + C ELSE a - b
      BY <3>3, MemberIs
    <3>5. QED
      BY <1>1, <3>2, <3>3, <3>4 DEF c
  <2> DEFINE o == IF x < a THEN x - a + c ELSE x - a
  <2> HIDE DEF a, b
  <2>5. o \in 0 .. c - 1
    BY <1>1, <2>4
  <2>6. \A i \in Chunk : /\ (x - i) % C = IF x < i THEN x - i + c ELSE x - i
                         /\ (y - i) % C = IF y < i THEN y - i + c ELSE y - i
    BY MemberIs DEF c
  <2>7. (x - o) % C = a /\ (y - o) % C = b
    <3>1. /\ (x - o) % C = IF x < o THEN x - o + c ELSE x - o
          /\ (y - o) % C = IF y < o THEN y - o + c ELSE y - o
      <4>1. o \in Chunk
        BY <1>1, <2>5
      <4> HIDE DEF o
      <4>2. QED
        BY <2>6, <4>1
    <3>2. (IF a < b THEN a - b + c ELSE a - b) = (IF x < y THEN x - y + c ELSE x - y)
      BY <2>1, <2>4
    <3>3. (IF x < o THEN x - o + c ELSE x - o) = a
      BY <1>1, <2>4
    <3>4. (IF y < o THEN y - o + c ELSE y - o) = b
      BY <1>1, <2>4, <3>2
    <3>5. QED
      BY <3>1, <3>3, <3>4
  <2>8. ASSUME NEW i \in Chunk, x \in D!QuorumChunks(i), y \in D!QuorumChunks(i)
        PROVE  i = o
    <3> DEFINE e == (x - i) % C
               f == (y - i) % C
    <3>1. e \in Range(InterestSeq) /\ f \in Range(InterestSeq)
      BY <2>8, MemberIs
    <3>2. PICK j \in I, k \in I : e = InterestSeq[j] /\ f = InterestSeq[k]
      BY <3>1 DEF Range
    <3>3. /\ e = (IF x < i THEN x - i + c ELSE x - i)
          /\ f = (IF y < i THEN y - i + c ELSE y - i)
      BY <2>6
    <3>4. e \in Chunk /\ f \in Chunk
      BY <1>2, <3>2
    <3>5. (e - f) % C = IF e < f THEN e - f + C ELSE e - f
      BY <3>4, MemberIs
    <3> HIDE DEF e, f
    <3>6. i \in 0 .. c - 1
      BY <1>1
    <3>7. (IF e < f THEN e - f + c ELSE e - f) = d /\ e # f
      BY <1>1, <1>4, <2>1, <3>3, <3>6
    <3>8. (e - f) % C = d /\ j # k
      BY <3>2, <3>5, <3>7 DEF c
    <3>9. <<j, k>> \in P
      BY <3>2, <3>8
    <3>10. p = <<j, k>>
      BY <2>3, <3>9
    <3>11. e = a
      BY <3>2, <3>10 DEF a
    <3>12. QED
      BY <1>1, <2>4, <3>3, <3>6, <3>11
  <2>9. o \in Chunk /\ x \in D!QuorumChunks(o) /\ y \in D!QuorumChunks(o)
    <3>1. o \in Chunk
      BY <1>1, <2>5
    <3> HIDE DEF o
    <3>2. QED
      BY <2>4, <2>7, <3>1, MemberIs
  <2> HIDE DEF o
  <2>10. QED
    BY <2>8, <2>9
<1>5. QED
  BY <1>3, <1>4

-----------------------------------------------------------------------------
(* The invariant of the walk.                                                *)

\* A row that starts no block follows the row before it.
Blocks0 ==
    \A r \in 1 .. Len(token_ids) - 1 :
       r % Align # 0 => token_ids[r + 1] = token_ids[r] + 1

\* The walk is at a subproblem: every token once, a label of every level for every row;
\* sorted, in order, in blocks, and with the tokens and groups of the set-based one.
WalkInv ==
    /\ Scheme /\ n \in Nat /\ path \in Seq(Chunk)
    /\ token_ids \in Seq(0 .. n - 1) /\ Ordered(token_ids, Different)
    /\ labels \in Seq(Seq(Chunk)) /\ Len(labels) = Len(path)
    /\ \A l \in 1 .. Len(labels) : Len(labels[l]) = Len(token_ids)
    /\ sorted => Ordered(token_ids, Less) /\ Blocks0
    /\ MatchesDecomposition /\ AbstractTask.path = path

\* The whole sequence in order, no level yet.
LEMMA WalkStarts ==
    ASSUME WalkInit
    PROVE  WalkInv
<1>1. Scheme /\ n \in Nat
  BY PathAssumption DEF WalkInit, Scheme
<1>2. /\ path = <<>> /\ labels = <<>> /\ token_ids = [i \in 1 .. n |-> i - 1]
      /\ Len(path) = 0 /\ Len(labels) = 0 /\ path \in Seq(Chunk) /\ labels \in Seq(Seq(Chunk))
  BY DEF WalkInit
<1>3. /\ token_ids \in Seq(0 .. n - 1) /\ Len(token_ids) = n /\ DOMAIN token_ids = 1 .. n
      /\ \A i \in 1 .. n : token_ids[i] = i - 1
  BY <1>1, <1>2
<1>4. Ordered(token_ids, Different) /\ Ordered(token_ids, Less)
  <2>1. \A i, j \in 1 .. n : i < j => /\ token_ids[i] \in Int /\ token_ids[j] \in Int
                                     /\ token_ids[i] < token_ids[j] /\ token_ids[i] # token_ids[j]
    BY <1>1, <1>3
  <2>2. QED
    BY <1>3, <2>1 DEF Ordered, Different, Less
<1>5. Blocks0
  BY <1>1, <1>3 DEF Blocks0
<1>6. Range(token_ids) = 0 .. n - 1
  <2>1. \A u \in 0 .. n - 1 : u + 1 \in 1 .. n /\ token_ids[u + 1] = u
    BY <1>1, <1>3
  <2>2. \A i \in 1 .. n : token_ids[i] \in 0 .. n - 1
    BY <1>1, <1>3
  <2>3. QED
    BY <1>3, <2>1, <2>2 DEF Range
<1>7. AbstractTask = Whole
  <2>1. AbstractTask = TaskAt(path)
    BY DEF AbstractTask, TaskAt
  <2>2. QED
    BY <1>2, <2>1, TaskAtIs
<1>8. \A i : Bits(labels, path, i) = {}
  BY <1>2 DEF Bits
<1>9. MatchesDecomposition /\ AbstractTask.path = path
  <2>1. \A i \in DOMAIN token_ids : token_ids[i] \in 0 .. n - 1
    BY <1>3
  <2>2. QED
    BY <1>2, <1>6, <1>7, <1>8, <2>1 DEF MatchesDecomposition, Whole
<1>10. QED
  BY <1>1, <1>2, <1>3, <1>4, <1>5, <1>9 DEF WalkInv

\* A sequence is a function on its places.
LEMMA SeqIs ==
    ASSUME NEW X, NEW s \in Seq(X)
    PROVE  Len(s) \in Nat /\ DOMAIN s = 1 .. Len(s) /\ \A i \in 1 .. Len(s) : s[i] \in X
  OBVIOUS

\* A list read through another.
LEMMA ReindexIs ==
    ASSUME NEW X, NEW s \in Seq(X), NEW m, m = Len(s), NEW idx \in Seq(1 .. m)
    PROVE  /\ Reindex(s, idx) \in Seq(X) /\ Len(Reindex(s, idx)) = Len(idx)
           /\ DOMAIN Reindex(s, idx) = 1 .. Len(idx)
           /\ \A i \in 1 .. Len(idx) : /\ Reindex(s, idx)[i] = s[idx[i]]
                                       /\ idx[i] \in 1 .. m
<1>1. /\ m \in Nat /\ \A i \in 1 .. m : s[i] \in X
      /\ Len(idx) \in Nat /\ DOMAIN idx = 1 .. Len(idx) /\ \A i \in 1 .. Len(idx) : idx[i] \in 1 .. m
  OBVIOUS
<1>2. Reindex(s, idx) = [i \in 1 .. Len(idx) |-> s[idx[i]]]
  BY <1>1 DEF Reindex
<1>3. QED
  BY <1>1, <1>2

\* The groups of a row after one more level: those it had, and the chunk it was gathered
\* from unless that is the owner's.
LEMMA BitsBelow ==
    ASSUME WalkInv, NEW o \in Chunk
    PROVE  LET idx == GatherIdx(o)
               lab == Append([l \in DOMAIN labels |-> Reindex(labels[l], idx)],
                             Reindex(CurrentLabels, idx))
           IN  /\ lab \in Seq(Seq(Chunk)) /\ Len(lab) = Len(path) + 1
               /\ \A l \in 1 .. Len(lab) : Len(lab[l]) = Len(idx)
               /\ \A i \in 1 .. Len(idx) :
                     Bits(lab, Append(path, o), i) =
                        Bits(labels, path, idx[i])
                        \cup ({<<Len(path) + 1, CurrentLabels[idx[i]]>>} \ {<<Len(path) + 1, o>>})
<1> DEFINE idx == GatherIdx(o)
           old == [l \in DOMAIN labels |-> Reindex(labels[l], idx)]
           new == Reindex(CurrentLabels, idx)
           lab == Append(old, new)
           own == Append(path, o)
           d == Len(path)
           L == Len(token_ids)
<1>1. Scheme /\ token_ids \in Seq(0 .. n - 1) /\ L \in Nat
  BY DEF WalkInv
<1>2. idx \in Seq(1 .. L)
  BY <1>1, GatherIs
<1>3. CurrentLabels \in Seq(Chunk) /\ Len(CurrentLabels) = L
  BY <1>1, LabelsAre
<1>4. /\ d \in Nat /\ Len(labels) = d /\ DOMAIN labels = 1 .. d /\ DOMAIN path = 1 .. d
      /\ \A l \in 1 .. d : labels[l] \in Seq(Chunk) /\ Len(labels[l]) = L
      /\ path \in Seq(Chunk)
  BY DEF WalkInv
<1> HIDE DEF idx, d, L
<1>5. /\ new \in Seq(Chunk) /\ Len(new) = Len(idx)
      /\ \A i \in 1 .. Len(idx) : new[i] = CurrentLabels[idx[i]]
  BY <1>2, <1>3, ReindexIs
<1>6. \A l \in 1 .. d : /\ old[l] \in Seq(Chunk) /\ Len(old[l]) = Len(idx)
                        /\ \A i \in 1 .. Len(idx) : old[l][i] = labels[l][idx[i]]
  <2> TAKE l \in 1 .. d
  <2>1. old[l] = Reindex(labels[l], idx)
    BY <1>4
  <2>2. QED
    BY <1>2, <1>4, <2>1, ReindexIs
<1>7. old \in Seq(Seq(Chunk)) /\ Len(old) = d
  <2>1. DOMAIN old = 1 .. d /\ old = [l \in DOMAIN old |-> old[l]]
    BY <1>4
  <2> HIDE DEF old
  <2>2. QED
    BY <1>4, <1>6, <2>1
<1> HIDE DEF old, new
<1>8. /\ lab \in Seq(Seq(Chunk)) /\ Len(lab) = d + 1 /\ lab[d + 1] = new
      /\ \A l \in 1 .. d : lab[l] = old[l]
  BY <1>5, <1>7
<1>9. /\ DOMAIN own = 1 .. d + 1 /\ own[d + 1] = o /\ \A l \in 1 .. d : own[l] = path[l]
  BY <1>4 DEF d
<1>10. 1 .. d + 1 = (1 .. d) \cup {d + 1}
  BY <1>4
<1> HIDE DEF lab, own
<1>11. \A l \in 1 .. Len(lab) : Len(lab[l]) = Len(idx)
  BY <1>4, <1>5, <1>6, <1>8, <1>10
<1>12. ASSUME NEW i \in 1 .. Len(idx)
       PROVE  Bits(lab, own, i) = Bits(labels, path, idx[i])
                  \cup ({<<d + 1, CurrentLabels[idx[i]]>>} \ {<<d + 1, o>>})
  <2>1. \A x : x \in Bits(lab, own, i) <=>
           \E l \in 1 .. d + 1 : lab[l][i] # own[l] /\ x = <<l, lab[l][i]>>
    BY <1>9 DEF Bits
  <2>2. \A x : x \in Bits(labels, path, idx[i]) <=>
           \E l \in 1 .. d : labels[l][idx[i]] # path[l] /\ x = <<l, labels[l][idx[i]]>>
    BY <1>4 DEF Bits
  <2>3. \A l \in 1 .. d : lab[l][i] = labels[l][idx[i]] /\ own[l] = path[l]
    BY <1>6, <1>8, <1>9
  <2>4. lab[d + 1][i] = CurrentLabels[idx[i]] /\ own[d + 1] = o
    BY <1>5, <1>8, <1>9
  <2> DEFINE c == CurrentLabels[idx[i]]
  <2>5. \A x : x \in {<<d + 1, c>>} \ {<<d + 1, o>>} <=> c # o /\ x = <<d + 1, c>>
    OBVIOUS
  <2>6. \A x : x \in Bits(lab, own, i) <=>
           \/ \E l \in 1 .. d : labels[l][idx[i]] # path[l] /\ x = <<l, labels[l][idx[i]]>>
           \/ c # o /\ x = <<d + 1, c>>
    BY <1>10, <2>1, <2>3, <2>4
  <2> HIDE DEF c
  <2>7. \A x : x \in Bits(lab, own, i) <=>
           x \in Bits(labels, path, idx[i]) \cup ({<<d + 1, c>>} \ {<<d + 1, o>>})
    BY <2>2, <2>5, <2>6
  <2>8. QED
    BY <2>7 DEF c
<1>13. QED
  BY <1>8, <1>11, <1>12 DEF lab, own, d, idx, old, new

\* The operators of a level depend on the call alone.
LEMMA SameWalk ==
    ASSUME decomposition' = decomposition, n' = n, sorted' = sorted
    PROVE  /\ C' = C /\ Align' = Align /\ InterestSeq' = InterestSeq /\ Chunk' = Chunk
           /\ Scheme => Scheme'
           /\ AbstractTask' = TaskAt(path')
<1>1. C' = C /\ Align' = Align /\ InterestSeq' = InterestSeq
  BY DEF C, Align, InterestSeq
<1>2. Chunk' = Chunk
  BY <1>1 DEF Chunk
<1>3. \A L, k : D!ChunkStart(L, k)' = D!ChunkStart(L, k)
  BY <1>1 DEF D!ChunkStart
<1>4. \A L, k : D!ChunkEnd(L, k)' = D!ChunkEnd(L, k)
  BY <1>1, <1>3 DEF D!ChunkEnd
<1>5. D!Chunk' = D!Chunk
  BY <1>1 DEF D!Chunk
<1>6. \A L, p : D!ChunkAt(L, p)' = D!ChunkAt(L, p)
  BY <1>3, <1>4, <1>5, Zenon DEF D!ChunkAt
<1>7. \A j : D!QuorumChunks(j)' = D!QuorumChunks(j)
  BY <1>1 DEF D!QuorumChunks
<1>8. \A t, u : D!Label(t, u)' = D!Label(t, u)
  BY <1>6 DEF D!Label, D!Rank
<1>9. \A t, j : D!Child(t, j)' = D!Child(t, j)
  BY <1>7, <1>8 DEF D!Child
<1>10. AbstractTask' = TaskAt(path')
  BY <1>9 DEF AbstractTask, TaskAt
<1>11. Scheme => Scheme'
  <2>1. CheckQuorumSet => CheckQuorumSet'
    BY <1>1 DEF CheckQuorumSet
  <2>2. QED
    BY <1>1, <2>1 DEF Scheme
<1>12. QED
  BY <1>1, <1>2, <1>10, <1>11

\* One level down is a subproblem again.
LEMMA WalkStays ==
    ASSUME WalkInv, WalkNext \/ UNCHANGED walkVars
    PROVE  WalkInv'
<1>1. CASE UNCHANGED walkVars
  <2>1. /\ decomposition' = decomposition /\ n' = n /\ sorted' = sorted /\ path' = path
        /\ token_ids' = token_ids /\ labels' = labels
    BY <1>1 DEF walkVars
  <2>2. /\ Align' = Align /\ Chunk' = Chunk /\ Scheme' /\ AbstractTask' = TaskAt(path)
        /\ AbstractTask = TaskAt(path)
    <3>1. AbstractTask = TaskAt(path)
      BY DEF AbstractTask, TaskAt
    <3>2. QED
      BY <2>1, <3>1, SameWalk DEF WalkInv
  <2>3. Blocks0 => Blocks0'
    BY <2>1, <2>2 DEF Blocks0
  <2>4. MatchesDecomposition'
    BY <2>1, <2>2 DEF MatchesDecomposition, WalkInv, Bits
  <2>5. QED
    BY <2>1, <2>2, <2>3, <2>4 DEF WalkInv
<1>2. ASSUME NEW o \in Chunk, Descend(o) PROVE WalkInv'
  <2> DEFINE idx == GatherIdx(o)
             M == Len(idx)
             L == Len(token_ids)
             lab == Append([l \in DOMAIN labels |-> Reindex(labels[l], idx)],
                           Reindex(CurrentLabels, idx))
             d == Len(path)
             ids == Reindex(token_ids, idx)
             own == Append(path, o)
  <2>1. /\ decomposition' = decomposition /\ n' = n /\ sorted' = sorted
        /\ path' = own /\ token_ids' = ids /\ labels' = lab
    BY <1>2 DEF Descend
  <2>2. Scheme /\ token_ids \in Seq(0 .. n - 1) /\ L \in Nat /\ n \in Nat /\ path \in Seq(Chunk)
    BY DEF WalkInv
  <2>3. /\ idx \in Seq(1 .. L) /\ M \in Nat /\ \A i \in 1 .. M : idx[i] \in 1 .. L
        /\ Range(idx) = {i \in 1 .. L : CurrentLabels[i] \in D!QuorumChunks(o)}
        /\ Ordered(idx, Different) /\ (sorted => Ordered(idx, Less))
        /\ DOMAIN idx = 1 .. M
    <3>1. /\ idx \in Seq(1 .. L)
          /\ Range(idx) = {i \in 1 .. L : CurrentLabels[i] \in D!QuorumChunks(o)}
          /\ Ordered(idx, Different) /\ (sorted => Ordered(idx, Less))
      BY <2>2, GatherIs
    <3>2. idx \in Seq(1 .. L)
      BY <3>1
    <3> HIDE DEF idx, L
    <3>3. M \in Nat /\ DOMAIN idx = 1 .. M /\ \A i \in 1 .. M : idx[i] \in 1 .. L
      BY <3>2, SeqIs, Zenon
    <3> HIDE DEF M
    <3>4. QED
      BY <3>1, <3>3
  <2>4. /\ lab \in Seq(Seq(Chunk)) /\ Len(lab) = d + 1
        /\ \A l \in 1 .. Len(lab) : Len(lab[l]) = M
        /\ \A i \in 1 .. M :
              Bits(lab, own, i) = Bits(labels, path, idx[i])
                  \cup ({<<d + 1, CurrentLabels[idx[i]]>>} \ {<<d + 1, o>>})
    BY BitsBelow
  <2>5. /\ \A i \in 1 .. L : CurrentLabels[i] = D!ChunkAt(L, i - 1)
        /\ DOMAIN token_ids = 1 .. L /\ \A i \in 1 .. L : token_ids[i] \in 0 .. n - 1
    BY <2>2, LabelsAre
  <2>6. /\ ids \in Seq(0 .. n - 1) /\ Len(ids) = M /\ DOMAIN ids = 1 .. M
        /\ \A i \in 1 .. M : ids[i] = token_ids[idx[i]]
    <3>1. idx \in Seq(1 .. L) /\ token_ids \in Seq(0 .. n - 1) /\ L = Len(token_ids)
      BY <2>2, <2>3
    <3> HIDE DEF idx, L
    <3>2. /\ ids \in Seq(0 .. n - 1) /\ Len(ids) = Len(idx) /\ DOMAIN ids = 1 .. Len(idx)
          /\ \A i \in 1 .. Len(idx) : ids[i] = token_ids[idx[i]]
      BY <3>1, ReindexIs
    <3>3. QED
      BY <3>2
  <2>7. \A r \in 1 .. M - 1 :
           sorted /\ r % Align # 0 => idx[r + 1] = idx[r] + 1 /\ idx[r] % Align # 0
    BY <2>2, BlocksMove
  <2>8. own \in Seq(Chunk) /\ Len(own) = d + 1 /\ d \in Nat
    BY <1>2, <2>2
  <2> HIDE DEF idx, lab, ids, own, L, M, d
  <2>9. Align' = Align /\ Chunk' = Chunk /\ Scheme' /\ AbstractTask' = TaskAt(own)
    BY <2>1, <2>2, SameWalk
  <2>10. Ordered(ids, Different)
    <3> SUFFICES ASSUME NEW i \in 1 .. M, NEW j \in 1 .. M, i < j
                 PROVE  <<ids[i], ids[j]>> \in Different
      BY <2>6 DEF Ordered
    <3> DEFINE a == idx[i]
               b == idx[j]
    <3>1. a \in 1 .. L /\ b \in 1 .. L /\ a # b
      BY <2>3 DEF Ordered, Different
    <3>2. Ordered(token_ids, Different)
      BY DEF WalkInv
    <3> HIDE DEF a, b
    <3>3. a < b \/ b < a
      BY <2>2, <3>1
    <3>4. <<token_ids[a], token_ids[b]>> \in Different
      BY <2>5, <3>1, <3>2, <3>3 DEF Ordered, Different
    <3>5. ids[i] = token_ids[a] /\ ids[j] = token_ids[b]
      BY <2>6 DEF a, b
    <3>6. QED
      BY <3>4, <3>5
  <2>11. ASSUME sorted PROVE Ordered(ids, Less)
    <3> SUFFICES ASSUME NEW i \in 1 .. M, NEW j \in 1 .. M, i < j
                 PROVE  <<ids[i], ids[j]>> \in Less
      BY <2>6 DEF Ordered
    <3>1. idx[i] < idx[j] /\ idx[i] \in 1 .. L /\ idx[j] \in 1 .. L
      BY <2>3, <2>11 DEF Ordered, Less
    <3>2. Ordered(token_ids, Less)
      BY <2>11 DEF WalkInv
    <3>3. QED
      BY <2>5, <2>6, <3>1, <3>2 DEF Ordered
  <2>12. ASSUME sorted, NEW r \in 1 .. M - 1, r % Align # 0 PROVE ids[r + 1] = ids[r] + 1
    <3>1. r \in 1 .. M /\ r + 1 \in 1 .. M
      BY <2>3, <2>12
    <3> DEFINE a == idx[r]
    <3>2. a \in 1 .. L /\ a + 1 \in 1 .. L /\ idx[r + 1] = a + 1 /\ a % Align # 0
      BY <2>3, <2>7, <2>12, <3>1
    <3>3. ids[r] = token_ids[a] /\ ids[r + 1] = token_ids[a + 1]
      BY <2>6, <3>1, <3>2
    <3> HIDE DEF a
    <3>4. a \in 1 .. L - 1
      BY <2>2, <3>2
    <3>5. token_ids[a + 1] = token_ids[a] + 1
      BY <2>12, <3>2, <3>4 DEF WalkInv, Blocks0, L
    <3>6. QED
      BY <3>3, <3>5
  <2>13. /\ sorted => AbstractTask'.tokens = Range(ids)
         /\ sorted => \A i \in 1 .. M : AbstractTask'.bits[ids[i]] = Bits(lab, own, i)
         /\ AbstractTask'.path = own
    <3> DEFINE t == TaskAt(path)
               G == {u \in t.tokens : D!Label(t, u) \in D!QuorumChunks(o)}
               group(u) == {<<Len(t.path) + 1, D!Label(t, u)>>} \ {<<Len(t.path) + 1, o>>}
               k == TaskAt(own)
    <3>1. k = D!Child(t, o)
      BY <1>2, <2>2, TaskAtIs DEF own
    <3>2. AbstractTask = t
      BY DEF AbstractTask, TaskAt
    <3>3. /\ t.path = path
          /\ sorted => t.tokens = Range(token_ids)
          /\ sorted => \A i \in 1 .. L : t.bits[token_ids[i]] = Bits(labels, path, i)
      BY <2>5, <3>2 DEF WalkInv, MatchesDecomposition
    <3> HIDE DEF t
    <3>4. k.path = Append(t.path, o) /\ k.tokens = G
          /\ k.bits = [u \in G |-> t.bits[u] \cup group(u)]
      BY <3>1 DEF D!Child
    <3> HIDE DEF k
    <3>5. k.path = own
      BY <3>3, <3>4 DEF own
    <3>6. ASSUME sorted
          PROVE  /\ k.tokens = Range(ids)
                 /\ \A i \in 1 .. M : k.bits[ids[i]] = Bits(lab, own, i)
      <4>1. \A i \in 1 .. L : D!Label(t, token_ids[i]) = CurrentLabels[i]
        <5>1. token_ids \in Seq(Int) /\ Ordered(token_ids, Less)
          BY <2>2, <3>6 DEF WalkInv
        <5>2. /\ D!Cardinality(Range(token_ids)) = L
              /\ \A i \in 1 .. L : D!Rank(Range(token_ids), token_ids[i]) = i - 1
          BY <5>1, RankIs DEF L
        <5>3. QED
          BY <2>5, <3>3, <3>6, <5>2 DEF D!Label
      <4>2. G = Range(ids)
        <5>1. \A u : u \in G <=> \E i \in 1 .. L : u = token_ids[i]
                                     /\ CurrentLabels[i] \in D!QuorumChunks(o)
          BY <2>5, <3>3, <3>6, <4>1 DEF Range
        <5>2. \A u : u \in Range(ids) <=> \E j \in 1 .. M : u = token_ids[idx[j]]
          BY <2>6 DEF Range
        <5>3. \A i \in 1 .. L : CurrentLabels[i] \in D!QuorumChunks(o) <=> \E j \in 1 .. M : i = idx[j]
          BY <2>3 DEF Range
        <5> HIDE DEF G
        <5>4. \A u : u \in G <=> u \in Range(ids)
          BY <2>3, <5>1, <5>2, <5>3
        <5>5. QED
          BY <5>4
      <4>3. ASSUME NEW i \in 1 .. M PROVE k.bits[ids[i]] = Bits(lab, own, i)
        <5>1. ids[i] \in G
          BY <2>6, <4>2 DEF Range
        <5>2. idx[i] \in 1 .. L /\ ids[i] = token_ids[idx[i]]
          BY <2>3, <2>6
        <5>3. k.bits[ids[i]] = t.bits[ids[i]] \cup group(ids[i])
          BY <3>4, <5>1
        <5>4. /\ t.bits[ids[i]] = Bits(labels, path, idx[i])
              /\ D!Label(t, ids[i]) = CurrentLabels[idx[i]]
          BY <3>3, <3>6, <4>1, <5>2
        <5>5. Len(t.path) = d
          BY <3>3 DEF d
        <5> HIDE DEF G
        <5>6. QED
          BY <2>4, <5>3, <5>4, <5>5
      <4>4. QED
        BY <3>4, <4>2, <4>3
    <3>7. QED
      BY <2>9, <3>5, <3>6 DEF k
  <2>14. sorted => Blocks0'
    BY <2>1, <2>6, <2>9, <2>12 DEF Blocks0
  <2>15. MatchesDecomposition'
    BY <2>1, <2>6, <2>13 DEF MatchesDecomposition
  <2>16. QED
    BY <2>1, <2>2, <2>4, <2>6, <2>8, <2>9, <2>10, <2>11, <2>13, <2>14, <2>15 DEF WalkInv, M
<1>3. QED
  BY <1>1, <1>2 DEF WalkNext

-----------------------------------------------------------------------------
(* The pairs kept one level down.                                            *)

\* A pair of rows that share no group.
Apart(i, j) == Bits(labels, path, i) \cap Bits(labels, path, j) = {}

LEMMA HereIs ==
    ASSUME WalkInv
    PROVE  \A x : x \in KeptPairs(token_ids, labels, path) <=>
              \E i, j \in 1 .. Len(token_ids) : x = <<token_ids[i], token_ids[j]>> /\ Apart(i, j)
<1> DEFINE D2 == 1 .. Len(token_ids)
<1>1. DOMAIN token_ids = D2
  BY DEF WalkInv
<1> HIDE DEF D2
<1>2. \A x : x \in KeptPairs(token_ids, labels, path) <=>
         \E q \in D2 \X D2 : x = <<token_ids[q[1]], token_ids[q[2]]>> /\ Apart(q[1], q[2])
  BY <1>1 DEF KeptPairs, Apart
<1>3. ASSUME NEW x
      PROVE  (\E q \in D2 \X D2 : x = <<token_ids[q[1]], token_ids[q[2]]>> /\ Apart(q[1], q[2]))
             <=> \E i, j \in D2 : x = <<token_ids[i], token_ids[j]>> /\ Apart(i, j)
  <2>1. ASSUME NEW q \in D2 \X D2, x = <<token_ids[q[1]], token_ids[q[2]]>> /\ Apart(q[1], q[2])
        PROVE  \E i, j \in D2 : x = <<token_ids[i], token_ids[j]>> /\ Apart(i, j)
    BY <2>1
  <2>2. ASSUME NEW i \in D2, NEW j \in D2, x = <<token_ids[i], token_ids[j]>> /\ Apart(i, j)
        PROVE  \E q \in D2 \X D2 : x = <<token_ids[q[1]], token_ids[q[2]]>> /\ Apart(q[1], q[2])
    <3> DEFINE q == <<i, j>>
    <3>1. q \in D2 \X D2 /\ q[1] = i /\ q[2] = j
      OBVIOUS
    <3> HIDE DEF q
    <3>2. QED
      BY <2>2, <3>1
  <2>3. QED
    BY <2>1, <2>2
<1>4. QED
  BY <1>2, <1>3 DEF D2

\* An owner keeps the pairs of rows it gathers that are kept here, but those of one chunk
\* that is not its own.
LEMMA BelowIs ==
    ASSUME WalkInv, NEW o \in Chunk
    PROVE  \A x : x \in KeptBelow(o) <=>
              \E i, j \in 1 .. Len(token_ids) :
                 /\ x = <<token_ids[i], token_ids[j]>> /\ Apart(i, j)
                 /\ CurrentLabels[i] \in D!QuorumChunks(o) /\ CurrentLabels[j] \in D!QuorumChunks(o)
                 /\ CurrentLabels[i] = CurrentLabels[j] => CurrentLabels[i] = o
<1> DEFINE idx == GatherIdx(o)
           M == Len(idx)
           L == Len(token_ids)
           lab == Append([l \in DOMAIN labels |-> Reindex(labels[l], idx)],
                         Reindex(CurrentLabels, idx))
           d == Len(path)
           ids == Reindex(token_ids, idx)
           own == Append(path, o)
           In(i) == CurrentLabels[i] \in D!QuorumChunks(o)
           Same(i, j) == CurrentLabels[i] = CurrentLabels[j] => CurrentLabels[i] = o
<1>1. Scheme /\ token_ids \in Seq(0 .. n - 1) /\ L \in Nat
  BY DEF WalkInv
<1>2. idx \in Seq(1 .. L) /\ Range(idx) = {i \in 1 .. L : In(i)}
  BY <1>1, GatherIs
<1>3. /\ ids \in Seq(0 .. n - 1) /\ DOMAIN ids = 1 .. M
      /\ \A a \in 1 .. M : ids[a] = token_ids[idx[a]] /\ idx[a] \in 1 .. L
  <2>1. token_ids \in Seq(0 .. n - 1) /\ L = Len(token_ids)
    BY <1>1
  <2> HIDE DEF idx, L
  <2>2. QED
    BY <1>2, <2>1, ReindexIs
<1>4. \A i \in 1 .. M :
         Bits(lab, own, i) = Bits(labels, path, idx[i])
             \cup ({<<d + 1, CurrentLabels[idx[i]]>>} \ {<<d + 1, o>>})
  BY BitsBelow
<1>5. d \in Nat /\ DOMAIN path = 1 .. d /\ DOMAIN idx = 1 .. M
  BY <1>2 DEF WalkInv
<1>6. KeptBelow(o) = KeptPairs(ids, lab, own)
  BY DEF KeptBelow
<1> HIDE DEF idx, M, L, lab, d, ids, own
<1>7. ASSUME NEW a \in 1 .. M, NEW b \in 1 .. M
      PROVE  Bits(lab, own, a) \cap Bits(lab, own, b) = {}
             <=> Apart(idx[a], idx[b]) /\ Same(idx[a], idx[b])
  <2> DEFINE ga == Bits(labels, path, idx[a])
             gb == Bits(labels, path, idx[b])
             ca == CurrentLabels[idx[a]]
             cb == CurrentLabels[idx[b]]
             e == d + 1
  <2>1. \A c : <<e, c>> \notin ga /\ <<e, c>> \notin gb
    <3>1. e \notin 1 .. d
      BY <1>5
    <3> HIDE DEF e
    <3>2. QED
      BY <1>5, <3>1 DEF Bits
  <2>2. /\ Bits(lab, own, a) = ga \cup ({<<e, ca>>} \ {<<e, o>>})
        /\ Bits(lab, own, b) = gb \cup ({<<e, cb>>} \ {<<e, o>>})
    BY <1>4
  <2> HIDE DEF ga, gb, ca, cb, e
  <2>3. (ga \cup ({<<e, ca>>} \ {<<e, o>>})) \cap (gb \cup ({<<e, cb>>} \ {<<e, o>>})) = {}
        <=> ga \cap gb = {} /\ (ca = cb => ca = o)
    <3>1. <<e, ca>> = <<e, o>> <=> ca = o
      OBVIOUS
    <3>2. <<e, cb>> = <<e, o>> <=> cb = o
      OBVIOUS
    <3>3. <<e, ca>> = <<e, cb>> <=> ca = cb
      OBVIOUS
    <3> DEFINE u == <<e, ca>>
               v == <<e, cb>>
               w == <<e, o>>
    <3>4. u \notin ga /\ u \notin gb /\ v \notin ga /\ v \notin gb
      BY <2>1
    <3> HIDE DEF u, v, w
    <3>5. (ga \cup ({u} \ {w})) \cap (gb \cup ({v} \ {w})) = {} <=> ga \cap gb = {} /\ (u = v => u = w)
      BY <3>4
    <3>6. QED
      BY <3>1, <3>2, <3>3, <3>5 DEF u, v, w
  <2>4. QED
    BY <2>2, <2>3 DEF ga, gb, ca, cb, Apart
<1>8. ASSUME NEW x, x \in KeptPairs(ids, lab, own)
      PROVE  \E i, j \in 1 .. L : /\ x = <<token_ids[i], token_ids[j]>> /\ Apart(i, j)
                                  /\ In(i) /\ In(j) /\ Same(i, j)
  <2>1. PICK q \in (1 .. M) \X (1 .. M) :
           x = <<ids[q[1]], ids[q[2]]>> /\ Bits(lab, own, q[1]) \cap Bits(lab, own, q[2]) = {}
    BY <1>3, <1>8 DEF KeptPairs
  <2> DEFINE a == q[1]
             b == q[2]
  <2>2. a \in 1 .. M /\ b \in 1 .. M
    OBVIOUS
  <2> HIDE DEF a, b
  <2>3. x = <<ids[a], ids[b]>> /\ Bits(lab, own, a) \cap Bits(lab, own, b) = {}
    BY <2>1 DEF a, b
  <2>4. \A c \in 1 .. M : idx[c] \in Range(idx)
    BY <1>5 DEF Range
  <2>5. In(idx[a]) /\ In(idx[b])
    BY <1>2, <2>2, <2>4
  <2>6. Apart(idx[a], idx[b]) /\ Same(idx[a], idx[b])
    BY <1>7, <2>2, <2>3
  <2> HIDE DEF In, Same
  <2>7. QED
    BY <1>3, <2>2, <2>3, <2>5, <2>6
<1>9. ASSUME NEW i \in 1 .. L, NEW j \in 1 .. L, Apart(i, j), In(i), In(j), Same(i, j)
      PROVE  <<token_ids[i], token_ids[j]>> \in KeptPairs(ids, lab, own)
  <2>1. i \in Range(idx) /\ j \in Range(idx)
    BY <1>2, <1>9
  <2>2. PICK a \in 1 .. M, b \in 1 .. M : i = idx[a] /\ j = idx[b]
    BY <1>5, <2>1 DEF Range
  <2>3. ids[a] = token_ids[i] /\ ids[b] = token_ids[j]
    BY <1>3, <2>2
  <2> HIDE DEF Same
  <2>4. Bits(lab, own, a) \cap Bits(lab, own, b) = {}
    BY <1>7, <1>9, <2>2
  <2> DEFINE q == <<a, b>>
  <2>5. q \in (DOMAIN ids) \X (DOMAIN ids) /\ q[1] = a /\ q[2] = b
    BY <1>3
  <2> HIDE DEF q
  <2>6. <<ids[q[1]], ids[q[2]]>> \in KeptPairs(ids, lab, own)
    BY <2>4, <2>5 DEF KeptPairs
  <2>7. QED
    BY <2>3, <2>5, <2>6
<1>10. ASSUME NEW x
       PROVE  x \in KeptBelow(o) <=>
                 \E i, j \in 1 .. L : /\ x = <<token_ids[i], token_ids[j]>> /\ Apart(i, j)
                                      /\ In(i) /\ In(j) /\ Same(i, j)
  <2> HIDE DEF In, Same
  <2>1. QED
    BY <1>6, <1>8, <1>9
<1>11. QED
  BY <1>10 DEF L

\* No token is twice in the local sequence.
LEMMA OnePlace ==
    ASSUME WalkInv, NEW i \in 1 .. Len(token_ids), NEW j \in 1 .. Len(token_ids),
           token_ids[i] = token_ids[j]
    PROVE  i = j
<1>1. /\ DOMAIN token_ids = 1 .. Len(token_ids)
      /\ \A a, b \in 1 .. Len(token_ids) : a < b => token_ids[a] # token_ids[b]
  <2>1. token_ids \in Seq(0 .. n - 1) /\ Ordered(token_ids, Different)
    BY DEF WalkInv
  <2>2. DOMAIN token_ids = 1 .. Len(token_ids)
    BY <2>1
  <2>3. QED
    BY <2>1, <2>2 DEF Ordered, Different
<1>2. i < j \/ j < i \/ i = j
  OBVIOUS
<1>3. QED
  BY <1>1, <1>2

\* The pairs of a subproblem are shared out: two chunks have one owner, a chunk is its
\* own, or has none if 0 is no offset.
LEMMA CoverOnce ==
    ASSUME WalkInv
    PROVE  ChildrenCoverOnce
<1> DEFINE L == Len(token_ids)
           here == KeptPairs(token_ids, labels, path)
           below == [o \in Chunk |-> KeptBelow(o)]
           In(i, o) == CurrentLabels[i] \in D!QuorumChunks(o)
           Same(i, j, o) == CurrentLabels[i] = CurrentLabels[j] => CurrentLabels[i] = o
           HasZero == 0 \in Range(InterestSeq)
           Owned(i, j) == HasZero \/ CurrentLabels[i] # CurrentLabels[j]
           lost == IF HasZero THEN {} ELSE Diagonal
<1>1. Scheme /\ token_ids \in Seq(0 .. n - 1)
  BY DEF WalkInv
<1>2. \A i \in 1 .. L : CurrentLabels[i] \in Chunk
  BY <1>1, LabelsAre
<1>3. \A x : x \in here <=> \E i, j \in 1 .. L : x = <<token_ids[i], token_ids[j]>> /\ Apart(i, j)
  BY HereIs
<1>4. \A o \in Chunk : \A x : x \in KeptBelow(o) <=>
         \E i, j \in 1 .. L : /\ x = <<token_ids[i], token_ids[j]>> /\ Apart(i, j)
                              /\ In(i, o) /\ In(j, o) /\ Same(i, j, o)
  BY BelowIs
<1>5. ASSUME NEW i \in 1 .. L, NEW j \in 1 .. L, Owned(i, j)
      PROVE  \E o \in Chunk :
                /\ In(i, o) /\ In(j, o) /\ Same(i, j, o)
                /\ \A e \in Chunk : In(i, e) /\ In(j, e) /\ Same(i, j, e) => e = o
  <2> DEFINE x == CurrentLabels[i]
             y == CurrentLabels[j]
  <2>1. x \in Chunk /\ y \in Chunk /\ (HasZero \/ x # y)
    BY <1>2, <1>5
  <2> HIDE DEF x, y, HasZero
  <2>2. /\ x # y => \E o \in Chunk :
                       /\ x \in D!QuorumChunks(o) /\ y \in D!QuorumChunks(o)
                       /\ \A e \in Chunk : x \in D!QuorumChunks(e) /\ y \in D!QuorumChunks(e) => e = o
        /\ HasZero => x \in D!QuorumChunks(x)
    BY <1>1, <2>1, OwnerIs DEF HasZero
  <2>3. \E o \in Chunk :
           /\ x \in D!QuorumChunks(o) /\ y \in D!QuorumChunks(o) /\ (x = y => x = o)
           /\ \A e \in Chunk : x \in D!QuorumChunks(e) /\ y \in D!QuorumChunks(e) /\ (x = y => x = e)
                               => e = o
    <3>1. CASE x = y
      BY <2>1, <2>2, <3>1
    <3>2. CASE x # y
      BY <2>2, <3>2
    <3>3. QED
      BY <3>1, <3>2
  <2>4. QED
    BY <2>3 DEF x, y
<1>6. ASSUME NEW i \in 1 .. L, NEW j \in 1 .. L, NEW o \in Chunk, In(i, o), Same(i, j, o)
      PROVE  Owned(i, j)
  <2>1. CurrentLabels[i] \in Chunk
    BY <1>2
  <2>2. HasZero <=> CurrentLabels[i] \in D!QuorumChunks(CurrentLabels[i])
    BY <1>1, <2>1, OwnerIs
  <2> HIDE DEF HasZero
  <2>3. QED
    BY <1>6, <2>2
<1>7. \A x : x \in Diagonal <=>
         \E i, j \in 1 .. L : /\ x = <<token_ids[i], token_ids[j]>>
                              /\ CurrentLabels[i] = CurrentLabels[j]
  <2>1. DOMAIN token_ids = 1 .. L
    BY <1>1
  <2>2. ASSUME NEW x, x \in Diagonal
        PROVE  \E i, j \in 1 .. L : /\ x = <<token_ids[i], token_ids[j]>>
                                    /\ CurrentLabels[i] = CurrentLabels[j]
    <3>1. PICK p \in (1 .. L) \X (1 .. L) :
             /\ x = <<token_ids[p[1]], token_ids[p[2]]>>
             /\ CurrentLabels[p[1]] = CurrentLabels[p[2]]
      BY <2>1, <2>2 DEF Diagonal
    <3>2. p[1] \in 1 .. L /\ p[2] \in 1 .. L
      OBVIOUS
    <3>3. QED
      BY <3>1, <3>2
  <2>3. ASSUME NEW i \in 1 .. L, NEW j \in 1 .. L, CurrentLabels[i] = CurrentLabels[j]
        PROVE  <<token_ids[i], token_ids[j]>> \in Diagonal
    <3> DEFINE p == <<i, j>>
    <3>1. p \in (1 .. L) \X (1 .. L) /\ p[1] = i /\ p[2] = j
      OBVIOUS
    <3> HIDE DEF p
    <3>2. <<token_ids[p[1]], token_ids[p[2]]>> \in Diagonal
      BY <2>1, <2>3, <3>1 DEF Diagonal
    <3>3. QED
      BY <3>1, <3>2
  <2>4. QED
    BY <2>2, <2>3
<1> HIDE DEF here, In, Same, L, HasZero
<1>8. \A x : x \in here \ lost <=>
         \E i, j \in 1 .. L : x = <<token_ids[i], token_ids[j]>> /\ Apart(i, j) /\ Owned(i, j)
  <2>1. ASSUME NEW x, x \in here, x \notin lost
        PROVE  \E i, j \in 1 .. L : x = <<token_ids[i], token_ids[j]>> /\ Apart(i, j) /\ Owned(i, j)
    <3>1. PICK i \in 1 .. L, j \in 1 .. L : x = <<token_ids[i], token_ids[j]>> /\ Apart(i, j)
      BY <1>3, <2>1
    <3>2. HasZero \/ x \notin Diagonal
      BY <2>1
    <3>3. QED
      BY <1>7, <3>1, <3>2
  <2>2. ASSUME NEW i \in 1 .. L, NEW j \in 1 .. L, Apart(i, j), Owned(i, j)
        PROVE  <<token_ids[i], token_ids[j]>> \in here \ lost
    <3>1. <<token_ids[i], token_ids[j]>> \in here
      BY <1>3, <2>2
    <3>2. ASSUME <<token_ids[i], token_ids[j]>> \in Diagonal
          PROVE  CurrentLabels[i] = CurrentLabels[j]
      <4>1. PICK f \in 1 .. L, g \in 1 .. L :
               /\ <<token_ids[i], token_ids[j]>> = <<token_ids[f], token_ids[g]>>
               /\ CurrentLabels[f] = CurrentLabels[g]
        BY <1>7, <3>2
      <4>2. i = f /\ j = g
        BY <4>1, OnePlace DEF L
      <4>3. QED
        BY <4>1, <4>2
    <3>3. QED
      BY <2>2, <3>1, <3>2
  <2> HIDE DEF lost, Owned
  <2>3. QED
    BY <2>1, <2>2
<1> HIDE DEF lost, Owned
<1>9. UNION Range(below) = here \ lost
  <2>1. \A x : x \in UNION Range(below) <=> \E o \in Chunk : x \in KeptBelow(o)
    BY DEF Range
  <2>2. \A x : x \in here \ lost <=> \E o \in Chunk : x \in KeptBelow(o)
    BY <1>4, <1>5, <1>6, <1>8
  <2> HIDE DEF below
  <2>3. \A x : x \in UNION Range(below) <=> x \in here \ lost
    BY <2>1, <2>2
  <2>4. QED
    BY <2>3
<1>10. ASSUME NEW a \in Chunk, NEW b \in Chunk, NEW x, x \in KeptBelow(a), x \in KeptBelow(b)
       PROVE  a = b
  <2>1. PICK i \in 1 .. L, j \in 1 .. L : /\ x = <<token_ids[i], token_ids[j]>>
                                          /\ In(i, a) /\ In(j, a) /\ Same(i, j, a)
    BY <1>4, <1>10
  <2>2. PICK f \in 1 .. L, g \in 1 .. L : /\ x = <<token_ids[f], token_ids[g]>>
                                          /\ In(f, b) /\ In(g, b) /\ Same(f, g, b)
    BY <1>4, <1>10
  <2>3. i = f /\ j = g
    BY <2>1, <2>2, OnePlace DEF L
  <2>4. Owned(i, j)
    BY <1>6, <2>1
  <2>5. QED
    BY <1>5, <2>1, <2>2, <2>3, <2>4
<1>11. QED
  <2>1. \A a, b \in Chunk : a # b => below[a] \cap below[b] = {}
    BY <1>10
  <2> HIDE DEF below
  <2>2. UNION Range(below) = here \ lost /\ \A a, b \in Chunk : a # b => below[a] \cap below[b] = {}
    BY <1>9, <2>1
  <2>3. QED
    BY <2>2 DEF ChildrenCoverOnce, below, here, lost, HasZero

-----------------------------------------------------------------------------
(* The theorems.                                                             *)

\* The walk keeps its invariant.
LEMMA WalkHolds == WalkSpec => []WalkInv
<1>1. WalkInit => WalkInv
  BY WalkStarts
<1>2. WalkInv /\ [WalkNext]_walkVars => WalkInv'
  BY WalkStays
<1>3. QED
  BY <1>1, <1>2, PTL DEF WalkSpec

\* Every kept pair of a subproblem is kept below exactly one owner, at every level and in
\* both gather orders; if 0 is no offset, every pair but those within a chunk, which are
\* kept below none.
THEOREM ChildrenCover == WalkSpec => []ChildrenCoverOnce
<1>1. WalkInv => ChildrenCoverOnce
  BY CoverOnce
<1>2. QED
  BY <1>1, WalkHolds, PTL

\* Under sorted_gather the kernel's triangular mask is the global causal mask.
THEOREM CausalOrder == WalkSpec => []LocalCausalIsGlobal
<1>1. WalkInv => LocalCausalIsGlobal
  <2> SUFFICES ASSUME WalkInv, sorted, NEW i \in DOMAIN token_ids, NEW j \in DOMAIN token_ids
               PROVE  (i <= j) = (token_ids[i] <= token_ids[j])
    BY DEF LocalCausalIsGlobal
  <2>1. /\ token_ids \in Seq(0 .. n - 1) /\ DOMAIN token_ids = 1 .. Len(token_ids)
        /\ \A a, b \in DOMAIN token_ids : a < b => token_ids[a] < token_ids[b]
    <3>1. token_ids \in Seq(0 .. n - 1) /\ Ordered(token_ids, Less)
      BY DEF WalkInv
    <3>2. DOMAIN token_ids = 1 .. Len(token_ids)
      BY <3>1
    <3>3. QED
      BY <3>1, <3>2 DEF Ordered, Less
  <2>2. token_ids[i] \in Int /\ token_ids[j] \in Int /\ i \in Int /\ j \in Int
    <3>1. token_ids[i] \in 0 .. n - 1 /\ token_ids[j] \in 0 .. n - 1
      BY <2>1, SeqIs
    <3>2. QED
      BY <2>1, <3>1
  <2>3. i < j \/ i = j \/ j < i
    BY <2>2
  <2>4. QED
    BY <2>1, <2>2, <2>3
<1>2. QED
  BY <1>1, WalkHolds, PTL

\* The block map addresses every row of a sorted local sequence: no block of Align rows
\* straddles two runs of consecutive tokens.
THEOREM BlocksAddressed == WalkSpec => []BlockMapExact
<1>1. WalkInv => BlockMapExact
  <2> SUFFICES ASSUME WalkInv, sorted, NEW r \in 0 .. Len(token_ids) - 1
               PROVE  token_ids[r + 1] = BlockBase[r \div Align] + (r % Align)
    BY DEF BlockMapExact
  <2> DEFINE L == Len(token_ids)
             q == r \div Align
             e == r % Align
             b == q * Align
             H == {k \in Nat : k <= e => token_ids[b + k + 1] = token_ids[b + 1] + k}
  <2>1. Align \in Nat \ {0} /\ token_ids \in Seq(0 .. n - 1) /\ L \in Nat /\ Blocks0
    BY SchemeIs DEF WalkInv
  <2>2. r \in Nat /\ q \in Nat /\ e \in 0 .. Align - 1 /\ r = Align * q + e
    <3>1. r \in Nat
      BY <2>1
    <3>2. QED
      BY <2>1, <3>1, Divides
  <2> HIDE DEF L, q, e
  <2>3. b \in Nat /\ r = b + e /\ \A k \in 0 .. e : (b + k) % Align = k
    <3>1. b = Align * q
      BY <2>1, <2>2
    <3>2. Align * q \in Nat
      BY <2>1, <2>2
    <3>3. ASSUME NEW k \in 0 .. e PROVE (b + k) % Align = k
      <4>1. k \in 0 .. Align - 1
        BY <2>1, <2>2
      <4>2. (Align * q + k) % Align = k
        <5> DEFINE m == Align * q + k
                   u == m \div Align
                   v == m % Align
        <5>1. m \in Nat /\ u \in Nat /\ v \in 0 .. Align - 1 /\ m = Align * u + v
          <6>1. m \in Nat
            BY <3>2, <4>1
          <6> HIDE DEF m
          <6>2. QED
            BY <2>1, <6>1, Divides
        <5> HIDE DEF u, v
        <5>2. Align * q + k = Align * u + v
          BY <5>1
        <5>3. ASSUME u >= q + 1 PROVE FALSE
          <6>1. Align * u >= Align * (q + 1) /\ Align * (q + 1) = Align * q + Align
            BY <2>1, <2>2, <5>1, <5>3
          <6>2. Align * u \in Int
            BY <2>1, <5>1
          <6>3. QED
            BY <2>1, <3>2, <4>1, <5>1, <5>2, <6>1, <6>2
        <5>4. ASSUME q >= u + 1 PROVE FALSE
          <6>1. Align * q >= Align * (u + 1) /\ Align * (u + 1) = Align * u + Align
            BY <2>1, <2>2, <5>1, <5>4
          <6>2. Align * u \in Int
            BY <2>1, <5>1
          <6>3. QED
            BY <2>1, <3>2, <4>1, <5>1, <5>2, <6>1, <6>2
        <5>5. u = q
          BY <2>2, <5>1, <5>3, <5>4
        <5>6. v = k
          BY <2>1, <3>2, <4>1, <5>1, <5>2, <5>5
        <5>7. QED
          BY <5>6 DEF v
      <4>3. QED
        BY <3>1, <4>2
    <3> HIDE DEF b
    <3>4. QED
      BY <2>2, <3>1, <3>2, <3>3
  <2> HIDE DEF b
  <2>4. r \in 0 .. L - 1 /\ e \in Nat
    BY <2>2 DEF L
  <2>5. \A i \in 1 .. L : token_ids[i] \in Int
    <3>1. \A i \in 1 .. L : token_ids[i] \in 0 .. n - 1
      BY <2>1, SeqIs DEF L
    <3>2. QED
      BY <3>1
  <2>6. 0 \in H
    <3>1. b + 1 \in 1 .. L
      BY <2>1, <2>3, <2>4
    <3>2. QED
      BY <2>3, <2>5, <3>1
  <2>7. ASSUME NEW k \in Nat, k \in H PROVE k + 1 \in H
    <3> SUFFICES ASSUME k + 1 <= e PROVE token_ids[b + (k + 1) + 1] = token_ids[b + 1] + (k + 1)
      OBVIOUS
    <3>1. k <= e /\ token_ids[b + k + 1] = token_ids[b + 1] + k
      BY <2>4, <2>7
    <3> DEFINE p == b + k + 1
    <3>2. p \in 1 .. L - 1 /\ p + 1 = b + (k + 1) + 1 /\ k + 1 \in 0 .. e /\ p = b + (k + 1)
      BY <2>1, <2>3, <2>4
    <3>3. p % Align # 0
      <4>1. p % Align = k + 1
        BY <2>3, <3>2
      <4>2. QED
        BY <4>1
    <3> HIDE DEF p
    <3>4. token_ids[p + 1] = token_ids[p] + 1
      BY <2>1, <3>2, <3>3 DEF Blocks0, L
    <3>5. token_ids[b + 1] \in Int
      <4>1. b + 1 \in 1 .. L
        BY <2>1, <2>3, <2>4
      <4>2. QED
        BY <2>5, <4>1
    <3>6. QED
      BY <3>1, <3>2, <3>4, <3>5 DEF p
  <2>8. token_ids[r + 1] = token_ids[b + 1] + e
    <3> HIDE DEF H
    <3>1. e \in H
      BY <2>4, <2>6, <2>7, Induction
    <3>2. e <= e
      BY <2>4
    <3>3. QED
      BY <2>3, <3>1, <3>2 DEF H
  <2>9. BlockBase[q] = token_ids[b + 1]
    <3> DEFINE w == (L - 1) \div Align
    <3>1. q <= w
      <4> DEFINE y == (L - 1) % Align
      <4>1. w \in Nat /\ y \in 0 .. Align - 1 /\ L - 1 = Align * w + y
        <5>1. L - 1 \in Nat
          BY <2>1, <2>4
        <5>2. QED
          BY <2>1, <5>1, Divides
      <4> HIDE DEF w, y
      <4> SUFFICES ASSUME q >= w + 1 PROVE FALSE
        BY <2>2, <4>1
      <4>2. Align * q >= Align * (w + 1) /\ Align * (w + 1) = Align * w + Align
        BY <2>1, <2>2, <4>1
      <4>3. Align * q \in Int /\ Align * w \in Int
        BY <2>1, <2>2, <4>1
      <4>4. QED
        BY <2>1, <2>2, <2>4, <4>1, <4>2, <4>3
    <3>2. q \in 0 .. w
      BY <2>1, <2>2, <2>4, <3>1
    <3>3. QED
      BY <3>2 DEF BlockBase, L, b
  <2>10. QED
    BY <2>8, <2>9 DEF q, e
<1>2. QED
  BY <1>1, WalkHolds, PTL

\* The set-based subproblem of Decomposition, that the other proofs are about, has the
\* tokens and the groups that the walk of the code computes.
THEOREM WalkMatches == WalkSpec => []MatchesDecomposition
<1>1. WalkInv => MatchesDecomposition
  BY DEF WalkInv
<1>2. QED
  BY <1>1, WalkHolds, PTL

-----------------------------------------------------------------------------
(* The forward kernel.                                                       *)

\* The keys from token lo on that the call keeps for token i, and what the row of i
\* holds once they are summed.
KeysFrom(i, lo) == {j \in Real(call) : Keeps(call, i, j) /\ lo <= j}
Terms(i, lo)    == {<<RowOf(call, i), RowOf(call, j), RowOf(call, j)>> : j \in KeysFrom(i, lo)}

Summed(i, lo) == [seen |-> KeysFrom(i, lo) # {}, sum |-> SetToBag(Terms(i, lo)), nan |-> FALSE]

\* The scores of the row of token i against a tile.
ScoresOf(i, tile) ==
    [q |-> RowOf(call, i),
     k |-> [c \in F!TileCol |->
               IF F!Col(tile, c) \in Real(call) /\ Keeps(call, i, F!Col(tile, c))
               THEN RowOf(call, F!Col(tile, c)) ELSE F!NegInf]]

\* The running CTA has rows of the sequence; the first tile it visits.
Occupied  == m_block * F!kM < call.S
FirstTile == F!NBlockMax - 1

\* What warp w holds of the rows it owns, the real ones.
RowsOf(w)       == {r \in F!Mine(w) : F!Row(r) \in Real(call)}
Folded(w)       == \A r \in RowsOf(w) : acc_o[r] = Summed(F!Row(r), (n_block[w] + 1) * F!kN)
Scored(w, tile) == \A r \in RowsOf(w) : acc_s[r] = ScoresOf(F!Row(r), tile)

\* The tiles a CTA visits: masking step s and column block tile, and what comes next.
Visits(s, tile) ==
    /\ s \in 0 .. F!MaskSteps /\ tile \in Nat /\ tile + s <= FirstTile
    /\ s < F!MaskSteps => tile + s = FirstTile

LastMasked(s, tile) == s + 1 = F!MaskSteps \/ (F!MaskSteps > 1 /\ tile <= 0)
Repeats(s, tile)    == s < F!MaskSteps /\ ~LastMasked(s, tile)
NextStep(s, tile)   == IF Repeats(s, tile) THEN s + 1 ELSE F!MaskSteps
NextTile(s, tile)   == IF Repeats(s, tile) THEN tile - 1 ELSE F!NextLive(tile - 1)

\* The copies of a tile.
KTile(s, tile) == IF s = 0 THEN F!EdgeTile("K", tile, FALSE) ELSE F!FullTile("K", tile)
VTile(s, tile) == IF s = 0 THEN F!EdgeTile("V", tile, TRUE) ELSE F!FullTile("V", tile)

\* The part of warp w holds copy x.  Warp w has issued the copies of X; those that
\* are not in flight have landed.
Holds(w, x)  == f_smem[x.slot][w] = x.src
Coming(w, X) == f_inflight[w] \subseteq X /\ \A x \in X : x \in f_inflight[w] \/ Holds(w, x)

Place(w, s, tile) == step[w] = s /\ n_block[w] = tile

\* Where warp w may be before the first barrier, ...
Starting(w, tile) ==
    \/ /\ f_pc[w] = "prologue" /\ step[w] = 0 /\ f_inflight[w] = {}
       /\ \A r \in F!Mine(w) : acc_o[r] = F!NoRow
    \/ /\ f_pc[w] = "landK" /\ Occupied /\ Place(w, 0, tile)
       /\ Coming(w, {F!QTile, KTile(0, tile)}) /\ Folded(w)
    \/ f_pc[w] = "exit" /\ ~Occupied

\* ... between the barrier after K and the one after V, when sK does not change, ...
Scoring(w, s, tile) ==
    /\ Place(w, s, tile) /\ Holds(w, F!QTile) /\ Holds(w, KTile(s, tile)) /\ Folded(w)
    /\ \/ f_pc[w] = "scores" /\ f_inflight[w] = {}
       \/ f_pc[w] = "landV" /\ Coming(w, {VTile(s, tile)}) /\ Scored(w, tile)

\* ... and after that, when sV does not change and the next K may arrive.
Folding(w, s, tile, next) ==
    /\ Holds(w, F!QTile) /\ Holds(w, VTile(s, tile)) /\ Folded(w)
    /\ \/ f_pc[w] = "values" /\ Place(w, s, tile) /\ f_inflight[w] = {} /\ Scored(w, tile)
       \/ /\ f_pc[w] = "search" /\ s < F!MaskSteps /\ LastMasked(s, tile)
          /\ Place(w, F!MaskSteps, tile - 1)
          /\ Coming(w, IF tile > 0 THEN {F!FullTile("K", tile - 1)} ELSE {})
       \/ /\ f_pc[w] = "landK" /\ next >= 0 /\ Place(w, NextStep(s, tile), next)
          /\ Coming(w, {F!FullTile("K", next)})
       \/ /\ f_pc[w] \in {"epilogue", "exit"} /\ n_block[w] = -1 /\ next = -1
          /\ \A x \in f_inflight[w] : x.slot = "K"

\* The warps of a CTA are in the same stage, at the same tile.
Lockstep ==
    \/ \E tile \in {FirstTile} : \A w \in Warp : Starting(w, tile)
    \/ Occupied /\ \E s, tile \in Nat : Visits(s, tile) /\ \A w \in Warp : Scoring(w, s, tile)
    \/ Occupied /\ \E s, tile \in Nat : Visits(s, tile)
          /\ \E next \in {NextTile(s, tile)} : \A w \in Warp : Folding(w, s, tile, next)

\* A stored row is complete; the rows of the CTAs and warps that are done are stored.
Stored(i) == written[i] = [sum |-> SetToBag(Terms(i, 0)), nan |-> FALSE,
                           lse |-> IF KeysFrom(i, 0) = {} THEN "inf" ELSE "finite"]

RowsStored ==
    \A i \in Real(call) :
        /\ written[i].lse = "none" \/ Stored(i)
        /\ i < m_block * F!kM => Stored(i)
        /\ \A w \in Warp : \A r \in F!Mine(w) : f_pc[w] = "exit" /\ i = F!Row(r) => Stored(i)

FwdShape ==
    /\ call \in Calls /\ m_block \in Nat
    /\ DOMAIN f_pc = Warp /\ DOMAIN step = Warp /\ DOMAIN n_block = Warp /\ DOMAIN f_inflight = Warp
    /\ DOMAIN f_smem = {"Q", "K", "V"} /\ \A slot \in {"Q", "K", "V"} : DOMAIN f_smem[slot] = Warp
    /\ DOMAIN written = 0 .. call.S - 1

FwdInv == FwdShape /\ Lockstep /\ RowsStored

\* The arguments of a forward launch.
LEMMA FwdCall ==
    ASSUME call \in Calls
    PROVE  /\ F!kM \in Nat \ {0} /\ F!kN \in Nat \ {0} /\ SegAlign \in Nat \ {0}
           /\ SegAlign % F!kM = 0 /\ SegAlign % F!kN = 0
           /\ F!kM % F!kN = 0 \/ F!kN % F!kM = 0
           /\ call.L \in Nat \ {0} /\ call.S \in Nat \ {0} /\ call.L <= call.S
           /\ call.grid \in Nat /\ call.S <= call.grid * F!kM
           /\ call.layout # "uniform" => call.S = call.L
           /\ call.layout = "uniform" => call.causal
           /\ call.base \in [0 .. CeilDiv(call.S, SegAlign) - 1 -> Nat]
           /\ \A i, j \in Real(call) : RowOf(call, i) = RowOf(call, j) => i = j
           /\ F!SeqLen = call.S
<1>1. call.fwd.kM \in Nat \ {0} /\ call.fwd.kN \in Nat \ {0}
  BY CallsAssumption
<1>2. SegAlign % call.fwd.kM = 0 /\ SegAlign % call.fwd.kN = 0
  BY CallsAssumption
<1>3. call.fwd.kM % call.fwd.kN = 0 \/ call.fwd.kN % call.fwd.kM = 0
  BY CallsAssumption
<1>4. call.L \in Nat \ {0} /\ call.S \in Nat /\ call.L <= call.S
  BY CallsAssumption
<1>5. /\ call.grid \in Nat /\ call.grid * call.fwd.kM >= call.S
      /\ call.layout # "uniform" => call.S = call.L
      /\ call.layout = "uniform" => call.causal
  BY CallsAssumption
<1>6. call.base \in [0 .. CeilDiv(call.S, SegAlign) - 1 -> Nat]
  BY CallsAssumption
<1>7. \A i, j \in Real(call) : RowOf(call, i) = RowOf(call, j) => i = j
  BY CallsAssumption
<1>8. SegAlign \in Nat \ {0}
  BY SegAlignAssumption
<1>9. call.grid * call.fwd.kM \in Int
  BY <1>1, <1>5
<1>10. call.S <= call.grid * call.fwd.kM /\ call.S \in Nat \ {0}
  BY <1>4, <1>5, <1>9
<1>11. QED
  BY <1>1, <1>2, <1>3, <1>4, <1>5, <1>6, <1>7, <1>8, <1>10 DEF F!kM, F!kN, F!SeqLen

\* A quotient and a remainder are the only ones.
LEMMA OneQuotient ==
    ASSUME NEW b \in Nat \ {0}, NEW q \in Int, NEW r \in 0 .. b - 1
    PROVE  (b * q + r) \div b = q /\ (b * q + r) % b = r
<1> DEFINE a == b * q + r
           u == a \div b
           v == a % b
<1>1. a \in Int /\ b * q \in Int
  OBVIOUS
<1>2. u \in Int /\ v \in 0 .. b - 1 /\ a = b * u + v
  <2> HIDE DEF a
  <2>1. QED
    BY <1>1, Quotient
<1> HIDE DEF u, v
<1>3. ASSUME q + 1 <= u PROVE FALSE
  <2>1. b * (q + 1) <= b * u /\ b * (q + 1) = b * q + b
    BY <1>2, <1>3
  <2>2. b * u \in Int
    BY <1>2
  <2>3. QED
    BY <1>1, <1>2, <2>1, <2>2
<1>4. ASSUME u + 1 <= q PROVE FALSE
  <2>1. b * (u + 1) <= b * q /\ b * (u + 1) = b * u + b
    BY <1>2, <1>4
  <2>2. b * u \in Int
    BY <1>2
  <2>3. QED
    BY <1>1, <1>2, <2>1, <2>2
<1>5. u = q
  BY <1>2, <1>3, <1>4
<1>6. v = r
  BY <1>1, <1>2, <1>5
<1>7. QED
  BY <1>5, <1>6 DEF u, v

\* The tokens of a tile are in one block of the block map.
LEMMA InOneBlock ==
    ASSUME NEW k \in Nat \ {0}, SegAlign \in Nat \ {0}, SegAlign % k = 0,
           NEW t \in Nat, NEW c \in 0 .. k - 1
    PROVE  /\ (t * k + c) \div SegAlign = (t * k) \div SegAlign
           /\ (t * k + c) % SegAlign = ((t * k) % SegAlign) + c
<1> DEFINE a == t * k
           d == a \div SegAlign
           r == a % SegAlign
           q == SegAlign \div k
<1>1. a \in Nat /\ a = k * t
  OBVIOUS
<1>2. d \in Int /\ r \in 0 .. SegAlign - 1 /\ a = SegAlign * d + r
  <2>1. a \in Int
    BY <1>1
  <2> HIDE DEF a
  <2>2. QED
    BY <2>1, Quotient
<1>3. q \in Int /\ SegAlign = k * q
  BY Quotient
<1> HIDE DEF d, r, q, a
<1>4. r = k * (t - q * d) /\ q * d \in Int
  <2>1. SegAlign * d = k * (q * d)
    BY <1>2, <1>3
  <2>2. q * d \in Int
    BY <1>2, <1>3
  <2> DEFINE x == q * d
  <2>3. k * (t - x) = k * t - k * x /\ k * x \in Int /\ k * t \in Int
    <3>1. x \in Int
      BY <2>2
    <3> HIDE DEF x
    <3>2. QED
      BY <3>1
  <2>4. k * t = k * x + r
    BY <1>1, <1>2, <2>1
  <2>5. QED
    BY <1>2, <2>2, <2>3, <2>4
<1>5. r + c \in 0 .. SegAlign - 1
  <2> DEFINE y == t - q * d
  <2>1. y \in Int /\ r = k * y /\ r < k * q
    BY <1>2, <1>3, <1>4
  <2> HIDE DEF y
  <2>2. y < q
    <3> SUFFICES ASSUME q <= y PROVE FALSE
      BY <1>3, <2>1
    <3>1. k * q <= k * y
      BY <1>3, <2>1
    <3>2. QED
      BY <1>2, <1>3, <2>1, <3>1
  <2>3. k * (y + 1) <= k * q /\ k * (y + 1) = k * y + k
    BY <1>3, <2>1, <2>2
  <2>4. k * y \in Int /\ k * q \in Int
    BY <1>3, <2>1
  <2>5. r + k <= SegAlign
    BY <1>3, <2>1, <2>3, <2>4
  <2>6. QED
    BY <1>2, <2>5
<1>6. a + c = SegAlign * d + (r + c)
  <2>1. SegAlign * d \in Int
    BY <1>2
  <2>2. QED
    BY <1>1, <1>2, <2>1
<1>7. (a + c) \div SegAlign = d /\ (a + c) % SegAlign = r + c
  BY <1>2, <1>5, <1>6, OneQuotient
<1>8. QED
  BY <1>7 DEF a, d, r

\* A row of a tile that both warps have loaded is the row of its token.
LEMMA LoadedIs ==
    ASSUME call \in Calls, NEW k \in Nat \ {0}, SegAlign % k = 0, NEW t \in Nat, t * k < call.S,
           NEW x, x.at = t * k + F!cqs_seg_delta(call, t * k), x.lim \in Int,
           NEW part, part[0] = x, part[1] = x,
           NEW c \in 0 .. k - 1
    PROVE  /\ c < x.lim => F!RowIn(part, c) = RowOf(call, t * k + c) /\ F!RowIn(part, c) \in Nat
           /\ x.clr => c < x.lim \/ F!RowIn(part, c) = F!Zero
<1> DEFINE a == t * k
           b == a \div SegAlign
           at == a + F!cqs_seg_delta(call, a)
<1>1. a \in Nat /\ SegAlign \in Nat \ {0} /\ a < call.S /\ call.S \in Nat
  BY FwdCall
<1>2. b \in 0 .. CeilDiv(call.S, SegAlign) - 1 /\ a % SegAlign \in 0 .. SegAlign - 1
  <2> DEFINE n1 == CeilDiv(call.S, SegAlign)
  <2>1. n1 \in Int /\ call.S <= SegAlign * n1
    <3>1. call.S \in Int
      BY <1>1
    <3>2. QED
      BY <1>1, <3>1, RoundsUp
  <2> HIDE DEF a, n1
  <2>2. b \in Int /\ a % SegAlign \in 0 .. SegAlign - 1
    BY <1>1, Quotient
  <2>3. b < n1
    <3>1. a \in Int /\ SegAlign * n1 \in Int
      BY <1>1, <2>1
    <3>2. a < SegAlign * n1
      BY <1>1, <2>1, <3>1
    <3>3. QED
      BY <1>1, <2>1, <3>1, <3>2, Below
  <2>4. 0 <= b
    <3>1. SegAlign * 0 <= a
      BY <1>1
    <3>2. QED
      BY <1>1, <3>1, Below
  <2>5. QED
    BY <2>1, <2>2, <2>3, <2>4 DEF n1
<1>3. call.base[b] \in Nat
  BY <1>2, FwdCall
<1> HIDE DEF a
<1>4. at = call.base[b] + (a % SegAlign)
  <2>1. at = a + (call.base[b] + (a % SegAlign) - a)
    BY DEF F!cqs_seg_delta
  <2> HIDE DEF b, at
  <2>2. QED
    BY <1>1, <1>2, <1>3, <2>1
<1>5. at + c = RowOf(call, a + c)
  <2>1. (a + c) \div SegAlign = b /\ (a + c) % SegAlign = (a % SegAlign) + c
    BY <1>1, InOneBlock DEF a
  <2> HIDE DEF b, at
  <2>2. RowOf(call, a + c) = call.base[b] + ((a % SegAlign) + c)
    BY <2>1 DEF RowOf
  <2>3. QED
    BY <1>1, <1>2, <1>3, <1>4, <2>2
<1>6. at + c \in Nat
  <2> HIDE DEF b, at
  <2>1. QED
    BY <1>1, <1>2, <1>3, <1>4
<1>7. part[c % 2] = x /\ x.at = at
  <2>1. c % 2 = 0 \/ c % 2 = 1
    OBVIOUS
  <2>2. QED
    BY <2>1 DEF at, a
<1> HIDE DEF at
<1>8. F!RowIn(part, c) = IF c < x.lim THEN at + c ELSE IF x.clr THEN F!Zero ELSE F!Junk
  BY <1>7 DEF F!RowIn
<1>9. QED
  BY <1>5, <1>6, <1>8 DEF a

\* The copies of the kernel.
LEMMA CopiesAre ==
    /\ F!QTile.slot = "Q"
    /\ F!QTile.src.at = m_block * F!kM + F!cqs_seg_delta(call, m_block * F!kM)
    /\ F!QTile.src.lim = (IF F!EvenMN THEN F!kM ELSE F!MinOf(F!kM, F!SeqLen - m_block * F!kM))
    /\ \A s, tile :
          LET a == tile * F!kN + F!cqs_seg_delta(call, tile * F!kN)
              lim == IF s # 0 \/ F!EvenMN THEN F!kN ELSE F!MinOf(F!kN, F!SeqLen - tile * F!kN)
          IN  /\ KTile(s, tile).slot = "K" /\ VTile(s, tile).slot = "V"
              /\ KTile(s, tile).src.at = a /\ VTile(s, tile).src.at = a
              /\ KTile(s, tile).src.lim = lim /\ VTile(s, tile).src.lim = lim
              /\ s = 0 => VTile(s, tile).src.clr
    /\ \A x, tile : F!FullTile(x, tile).slot = x
<1>1. /\ F!QTile.slot = "Q"
      /\ F!QTile.src.at = m_block * F!kM + F!cqs_seg_delta(call, m_block * F!kM)
      /\ F!QTile.src.lim = (IF F!EvenMN THEN F!kM ELSE F!MinOf(F!kM, F!SeqLen - m_block * F!kM))
  BY Zenon DEF F!QTile, F!Tile, F!Copy
<1>2. ASSUME NEW x, NEW tile
      PROVE  /\ F!FullTile(x, tile).slot = x /\ F!FullTile(x, tile).src.lim = F!kN
             /\ F!FullTile(x, tile).src.at = tile * F!kN + F!cqs_seg_delta(call, tile * F!kN)
  BY Zenon DEF F!FullTile, F!Tile, F!Copy
<1>3. ASSUME NEW x, NEW tile, NEW clr
      PROVE  /\ F!EdgeTile(x, tile, clr).slot = x /\ F!EdgeTile(x, tile, clr).src.clr = clr
             /\ F!EdgeTile(x, tile, clr).src.lim
                   = (IF F!EvenMN THEN F!kN ELSE F!MinOf(F!kN, F!SeqLen - tile * F!kN))
             /\ F!EdgeTile(x, tile, clr).src.at = tile * F!kN + F!cqs_seg_delta(call, tile * F!kN)
  BY Zenon DEF F!EdgeTile, F!Tile, F!Copy
<1>4. ASSUME NEW s, NEW tile, s = 0
      PROVE  KTile(s, tile) = F!EdgeTile("K", tile, FALSE) /\ VTile(s, tile) = F!EdgeTile("V", tile, TRUE)
  BY <1>4, Zenon DEF KTile, VTile
<1>5. ASSUME NEW s, NEW tile, s # 0
      PROVE  KTile(s, tile) = F!FullTile("K", tile) /\ VTile(s, tile) = F!FullTile("V", tile)
  BY <1>5, Zenon DEF KTile, VTile
<1>6. ASSUME NEW s, NEW tile, s # 0
      PROVE  LET a == tile * F!kN + F!cqs_seg_delta(call, tile * F!kN)
             IN  /\ KTile(s, tile).slot = "K" /\ VTile(s, tile).slot = "V"
                 /\ KTile(s, tile).src.at = a /\ VTile(s, tile).src.at = a
                 /\ KTile(s, tile).src.lim = F!kN /\ VTile(s, tile).src.lim = F!kN
  <2>1. KTile(s, tile) = F!FullTile("K", tile) /\ VTile(s, tile) = F!FullTile("V", tile)
    BY <1>5, <1>6
  <2>2. QED
    BY <1>2, <2>1
<1>7. ASSUME NEW s, NEW tile, s = 0
      PROVE  LET a == tile * F!kN + F!cqs_seg_delta(call, tile * F!kN)
                 lim == IF F!EvenMN THEN F!kN ELSE F!MinOf(F!kN, F!SeqLen - tile * F!kN)
             IN  /\ KTile(s, tile).slot = "K" /\ VTile(s, tile).slot = "V"
                 /\ KTile(s, tile).src.at = a /\ VTile(s, tile).src.at = a
                 /\ KTile(s, tile).src.lim = lim /\ VTile(s, tile).src.lim = lim
                 /\ VTile(s, tile).src.clr
  <2>1. KTile(s, tile) = F!EdgeTile("K", tile, FALSE) /\ VTile(s, tile) = F!EdgeTile("V", tile, TRUE)
    BY <1>4, <1>7
  <2>2. F!EdgeTile("V", tile, TRUE).src.clr
    BY Zenon DEF F!EdgeTile, F!Tile, F!Copy
  <2> DEFINE no == FALSE
             yes == TRUE
  <2>3. KTile(s, tile) = F!EdgeTile("K", tile, no) /\ VTile(s, tile) = F!EdgeTile("V", tile, yes)
    BY <2>1
  <2>4. VTile(s, tile).src.clr
    BY <2>1, <2>2, Zenon
  <2> HIDE DEF no, yes
  <2>5. QED
    BY <1>3, <2>3, <2>4
<1>8. QED
  <2>1. \A s, tile :
          LET a == tile * F!kN + F!cqs_seg_delta(call, tile * F!kN)
              lim == IF s # 0 \/ F!EvenMN THEN F!kN ELSE F!MinOf(F!kN, F!SeqLen - tile * F!kN)
          IN  /\ KTile(s, tile).slot = "K" /\ VTile(s, tile).slot = "V"
              /\ KTile(s, tile).src.at = a /\ VTile(s, tile).src.at = a
              /\ KTile(s, tile).src.lim = lim /\ VTile(s, tile).src.lim = lim
              /\ s = 0 => VTile(s, tile).src.clr
    <3> TAKE s, tile
    <3>1. CASE s = 0
      BY <1>7, <3>1
    <3>2. CASE s # 0
      BY <1>6, <3>2
    <3>3. QED
      BY <3>1, <3>2
  <2>2. \A x, tile : F!FullTile(x, tile).slot = x
    BY <1>2
  <2>3. QED
    BY <1>1, <2>1, <2>2

\* The forward kernel reads its tables with the operators of this module.
LEMMA SameForward ==
    ASSUME NEW t
    PROVE  LET rs == cqs_row_summary(TablesOf(call), m_block * call.fwd.kM, call.fwd.kM, call.S)
               cs == cqs_col_summary(TablesOf(call), t * call.fwd.kN, call.fwd.kN, call.S)
           IN  /\ F!TileMasked(t) <=> call.cqs /\ cqs_tile_masked_c(rs, cs)
               /\ F!Active(t) <=> call.cqs /\ ~cqs_tile_clear_c(rs, cs)
<1>1. F!TablesOf(call) = TablesOf(call)
  BY DEF F!TablesOf, TablesOf, F!Padded, Padded, F!Summaries, Summaries, F!CeilDiv, CeilDiv,
         F!BlockTokens, BlockTokens, F!MinOf, MinOf
<1>2. ASSUME NEW x, NEW start, NEW extent
      PROVE  /\ F!cqs_blk_range_or(x, start, extent) = cqs_blk_range_or(x, start, extent)
             /\ F!cqs_blk_range_and(x, start, extent) = cqs_blk_range_and(x, start, extent)
  <2>1. F!Blocks(x, start, extent) = Blocks(x, start, extent)
    BY DEF F!Blocks, Blocks, F!CeilDiv, CeilDiv, F!MinOf, MinOf
  <2>2. QED
    BY <2>1 DEF F!cqs_blk_range_or, cqs_blk_range_or, F!cqs_blk_range_and, cqs_blk_range_and
<1>3. ASSUME NEW x, NEW base, NEW extent, NEW len
      PROVE  /\ F!cqs_row_summary(x, base, extent, len) = cqs_row_summary(x, base, extent, len)
             /\ F!ColGeneral(x, base, extent, len) = ColGeneral(x, base, extent, len)
  BY <1>2 DEF F!cqs_row_summary, cqs_row_summary, F!ColGeneral, ColGeneral, F!Aligned, Aligned
<1>4. ASSUME NEW x, NEW base, NEW extent, NEW len
      PROVE  F!cqs_col_summary(x, base, extent, len) = cqs_col_summary(x, base, extent, len)
  BY <1>3 DEF F!cqs_col_summary, cqs_col_summary, F!FastPath, FastPath, F!ColFast, ColFast
<1>5. /\ F!RowHalf = cqs_row_summary(TablesOf(call), m_block * call.fwd.kM, call.fwd.kM, call.S)
      /\ F!ColHalf(t) = cqs_col_summary(TablesOf(call), t * call.fwd.kN, call.fwd.kN, call.S)
  BY <1>1, <1>3, <1>4 DEF F!RowHalf, F!ColHalf, F!kM, F!kN, F!SeqLen
<1>6. QED
  BY <1>5 DEF F!TileMasked, F!Active, F!cqs_tile_masked_c, cqs_tile_masked_c,
              F!cqs_tile_clear_c, cqs_tile_clear_c

\* The quotient that rounds up, from both sides.
LEMMA CeilIs ==
    ASSUME NEW a \in Nat \ {0}, NEW b \in Nat \ {0}
    PROVE  /\ F!CeilDiv(a, b) \in Nat \ {0} /\ F!CeilDiv(a, b) = CeilDiv(a, b)
           /\ a <= b * F!CeilDiv(a, b) /\ b * (F!CeilDiv(a, b) - 1) < a
           /\ a % b = 0 => b * F!CeilDiv(a, b) = a
<1> DEFINE x == CeilDiv(a, b)
           e == a + b - 1
<1>1. F!CeilDiv(a, b) = x
  BY DEF F!CeilDiv, CeilDiv
<1>2. x \in Int /\ a <= b * x
  BY RoundsUp
<1>3. e \in Int /\ x = e \div b
  BY DEF CeilDiv
<1>4. b * x <= e
  <2> HIDE DEF e, x
  <2>1. e \div b \in Int /\ e % b \in 0 .. b - 1 /\ e = b * (e \div b) + (e % b)
    BY <1>3, Quotient
  <2>2. QED
    BY <1>2, <1>3, <2>1
<1> HIDE DEF x
<1>5. b * (x - 1) = b * x - b /\ b * x \in Int
  BY <1>2
<1>6. b * (x - 1) < a
  BY <1>3, <1>4, <1>5
<1>7. x > 0
  <2> SUFFICES ASSUME x <= 0 PROVE FALSE
    BY <1>2
  <2>1. b * x <= b * 0
    BY <1>2
  <2>2. QED
    BY <1>2, <1>5, <2>1
<1>8. ASSUME a % b = 0 PROVE b * x = a
  <2> DEFINE y == a \div b
  <2>1. y \in Int /\ a = b * y
    BY <1>8, Quotient
  <2> HIDE DEF y
  <2>2. y <= x
    <3> SUFFICES ASSUME x + 1 <= y PROVE FALSE
      BY <1>2, <2>1
    <3>1. b * (x + 1) <= b * y /\ b * (x + 1) = b * x + b
      BY <1>2, <2>1
    <3>2. QED
      BY <1>2, <1>5, <2>1, <3>1
  <2>3. x <= y
    <3> SUFFICES ASSUME y + 1 <= x PROVE FALSE
      BY <1>2, <2>1
    <3>1. b * (y + 1) <= b * x /\ b * (y + 1) = b * y + b
      BY <1>2, <2>1
    <3>2. b * y \in Int
      BY <2>1
    <3>3. QED
      BY <1>3, <1>4, <1>5, <2>1, <3>1, <3>2
  <2>4. QED
    BY <1>2, <2>1, <2>2, <2>3
<1>9. QED
  BY <1>1, <1>2, <1>6, <1>7, <1>8 DEF x

\* The first tile of a CTA begins inside the sequence, not above the causal diagonal,
\* and no key a row of the CTA keeps lies behind it.
LEMMA FirstIs ==
    ASSUME call \in Calls, m_block \in Nat, Occupied
    PROVE  /\ FirstTile \in Nat /\ FirstTile * F!kN < call.S
           /\ call.causal => FirstTile * F!kN < (m_block + 1) * F!kM
           /\ ~call.causal /\ F!EvenMN => (FirstTile + 1) * F!kN <= call.S
           /\ \A r \in F!TileRow, j \in Real(call) :
                 (call.causal => j <= F!Row(r)) => j < (FirstTile + 1) * F!kN
           /\ F!MaskSteps \in Nat \ {0}
<1> DEFINE kM == F!kM
           kN == F!kN
           e == (m_block + 1) * kM
           all == F!CeilDiv(call.S, kN)
           diag == F!CeilDiv(e, kN)
<1>1. /\ kM \in Nat \ {0} /\ kN \in Nat \ {0} /\ call.S \in Nat \ {0} /\ F!SeqLen = call.S
      /\ call.L \in Nat /\ call.L <= call.S
  BY FwdCall
<1>2. e = m_block * kM + kM /\ m_block * kM \in Nat /\ e \in Nat \ {0}
  <2>1. e = m_block * kM + kM /\ m_block * kM \in Nat
    BY <1>1
  <2>2. QED
    BY <1>1, <2>1
<1> HIDE DEF e
<1>3. /\ all \in Nat \ {0} /\ call.S <= kN * all /\ kN * (all - 1) < call.S
      /\ call.S % kN = 0 => kN * all = call.S
  BY <1>1, CeilIs
<1>4. diag \in Nat \ {0} /\ e <= kN * diag /\ kN * (diag - 1) < e
  BY <1>1, <1>2, CeilIs
<1>5. F!NBlockMax = IF call.causal THEN F!MinOf(all, diag) ELSE all
  BY <1>1 DEF F!NBlockMax, e
<1> HIDE DEF all, diag, kM, kN
<1>6. /\ FirstTile \in Nat /\ FirstTile + 1 <= all /\ (call.causal => FirstTile + 1 <= diag)
      /\ FirstTile + 1 = all \/ (call.causal /\ FirstTile + 1 = diag)
      /\ ~call.causal => FirstTile + 1 = all
  BY <1>3, <1>4, <1>5 DEF FirstTile, F!MinOf
<1> DEFINE f == FirstTile
<1> HIDE DEF f
<1>7. f * kN = kN * f /\ (f + 1) * kN = kN * (f + 1) /\ f \in Nat
  BY <1>1, <1>6 DEF f
<1>8. f * kN < call.S
  <2>1. kN * f <= kN * (all - 1)
    <3>1. f <= all - 1
      BY <1>3, <1>6, <1>7 DEF f
    <3>2. QED
      BY <1>1, <1>3, <1>7, <3>1
  <2>2. kN * f \in Int /\ kN * (all - 1) \in Int
    BY <1>1, <1>3, <1>7
  <2>3. QED
    BY <1>1, <1>3, <1>7, <2>1, <2>2
<1>9. ASSUME call.causal PROVE f * kN < e
  <2>1. kN * f <= kN * (diag - 1)
    <3>1. f <= diag - 1
      BY <1>4, <1>6, <1>7, <1>9 DEF f
    <3>2. QED
      BY <1>1, <1>4, <1>7, <3>1
  <2>2. kN * f \in Int /\ kN * (diag - 1) \in Int
    BY <1>1, <1>4, <1>7
  <2>3. QED
    BY <1>2, <1>4, <1>7, <2>1, <2>2
<1>10. ASSUME ~call.causal, F!EvenMN PROVE (f + 1) * kN <= call.S
  <2>1. call.S % kN = 0
    BY <1>10, <1>1 DEF F!EvenMN, F!Even, F!kN, kN
  <2>2. f + 1 = all
    BY <1>6, <1>10 DEF f
  <2>3. QED
    BY <1>1, <1>3, <1>7, <2>1, <2>2
<1>11. ASSUME NEW r \in F!TileRow, NEW j \in Real(call), call.causal => j <= F!Row(r)
       PROVE  j < (f + 1) * kN
  <2>1. j \in Nat /\ j < call.S
    BY <1>1 DEF Real
  <2>2. call.causal => j < e
    <3>1. r \in 0 .. kM - 1 /\ F!Row(r) = m_block * kM + r
      BY DEF F!TileRow, F!Row, kM
    <3>2. QED
      BY <1>1, <1>2, <1>11, <2>1, <3>1
  <2>3. kN * all \in Int /\ kN * diag \in Int
    BY <1>1, <1>3, <1>4
  <2>4. CASE f + 1 = all
    BY <1>1, <1>3, <1>7, <2>1, <2>3, <2>4
  <2>5. CASE call.causal /\ f + 1 = diag
    BY <1>2, <1>4, <1>7, <2>1, <2>2, <2>3, <2>5
  <2>6. QED
    BY <1>6, <2>4, <2>5 DEF f
<1>12. F!MaskSteps \in Nat \ {0}
  <2>1. F!CeilDiv(F!kM, F!kN) \in Nat \ {0}
    BY <1>1, CeilIs DEF kM, kN
  <2>2. QED
    BY <2>1 DEF F!MaskSteps
<1>13. QED
  BY <1>6, <1>8, <1>9, <1>10, <1>11, <1>12 DEF f, e, kM, kN

\* A tile after the masking steps lies inside the sequence and below the diagonal.
LEMMA BelowDiagonal ==
    ASSUME call \in Calls, m_block \in Nat, Occupied, NEW tile \in Nat,
           Visits(F!MaskSteps, tile)
    PROVE  /\ (tile + 1) * F!kN <= call.S
           /\ call.causal => (tile + 1) * F!kN <= m_block * F!kM
<1> DEFINE kM == F!kM
           kN == F!kN
           f == FirstTile
           s == F!MaskSteps
           d == F!CeilDiv(kM, kN)
           u == tile + 1
           m == m_block
<1>1. kM \in Nat \ {0} /\ kN \in Nat \ {0} /\ call.S \in Nat /\ m \in Nat
  BY FwdCall
<1>2. /\ f \in Nat /\ f * kN < call.S /\ s \in Nat \ {0}
      /\ call.causal => f * kN < (m + 1) * kM
  BY FirstIs
<1>3. u \in Nat /\ u + s <= f + 1
  BY <1>2 DEF Visits
<1>4. d \in Nat \ {0} /\ kM <= kN * d /\ (kM % kN = 0 => kN * d = kM)
  BY <1>1, CeilIs
<1>5. d = 1 \/ kM > kN
  <2>1. ASSUME kM <= kN, d >= 2 PROVE FALSE
    <3>1. kN * (d - 1) < kM
      BY <1>1, CeilIs
    <3> HIDE DEF d, kM, kN
    <3>2. kN * 1 <= kN * (d - 1)
      BY <1>1, <1>4, <2>1
    <3>3. kN * (d - 1) \in Int
      BY <1>1, <1>4
    <3>4. QED
      BY <1>1, <2>1, <3>1, <3>2, <3>3
  <2> HIDE DEF d, kM, kN
  <2>2. QED
    BY <1>1, <1>4, <2>1
<1>6. /\ ~call.causal => s = 1
      /\ call.causal => IF F!EvenMN THEN s = d ELSE s = d + 1
  BY DEF F!MaskSteps
<1>7. kM % kN = 0 \/ kN % kM = 0
  BY FwdCall
<1> HIDE DEF kM, kN, f, s, d, u, m
<1>8. /\ u * kN \in Int /\ f * kN \in Int /\ m * kM \in Int
      /\ (m + 1) * kM = m * kM + kM
  BY <1>1, <1>2, <1>3
<1>9. u * kN <= f * kN
  BY <1>1, <1>2, <1>3
<1>10. u * kN <= call.S
  BY <1>1, <1>2, <1>8, <1>9
<1>11. ASSUME call.causal PROVE u * kN <= m * kM
  <2>1. CASE s = d + 1
    <3>1. (u + d) * kN <= f * kN /\ (u + d) * kN = u * kN + kN * d
      BY <1>1, <1>2, <1>3, <1>4, <2>1
    <3>2. kN * d \in Int
      BY <1>1, <1>4
    <3>3. QED
      BY <1>1, <1>2, <1>4, <1>8, <1>11, <3>1, <3>2
  <2>2. CASE s = d /\ kM % kN = 0
    <3>1. kM = kN * d /\ u + d <= f + 1
      BY <1>3, <1>4, <2>2
    <3>2. m * kM = kN * (m * d) /\ m * d \in Int /\ m * d + d \in Int
      BY <1>1, <1>4, <3>1
    <3>3. (m + 1) * kM = kN * (m * d + d)
      BY <1>1, <1>4, <1>8, <3>1, <3>2
    <3> DEFINE x == m * d
    <3>4. x \in Int /\ m * kM = kN * x /\ (m + 1) * kM = kN * (x + d)
      BY <3>2, <3>3
    <3> HIDE DEF x
    <3>5. f < x + d
      <4> SUFFICES ASSUME x + d <= f PROVE FALSE
        BY <1>2, <1>4, <3>4
      <4>1. kN * (x + d) <= kN * f /\ kN * f = f * kN
        BY <1>1, <1>2, <1>4, <3>4
      <4>2. QED
        BY <1>1, <1>2, <1>8, <1>11, <3>4, <4>1
    <3>6. u <= x
      BY <1>2, <1>3, <1>4, <3>1, <3>4, <3>5
    <3>7. kN * u <= kN * x /\ kN * u = u * kN
      BY <1>1, <1>3, <3>4, <3>6
    <3>8. QED
      BY <3>4, <3>7
  <2>3. CASE s = d /\ kN % kM = 0
    <3>1. kM > kN => kN % kM = kN
      BY <1>1
    <3>2. d = 1 /\ u <= f
      BY <1>1, <1>2, <1>3, <1>5, <2>3, <3>1
    <3> DEFINE q == kN \div kM
    <3>3. q \in Int /\ kN = kM * q
      BY <1>1, <2>3, Quotient
    <3> HIDE DEF q
    <3>4. u * kN = kM * (u * q) /\ u * q \in Int
      BY <1>1, <1>3, <3>3
    <3> DEFINE x == u * q
    <3>5. x \in Int /\ u * kN = kM * x /\ u * kN < m * kM + kM
      BY <1>1, <1>2, <1>8, <1>9, <1>11, <3>4
    <3> HIDE DEF x
    <3>6. x <= m
      <4> SUFFICES ASSUME m + 1 <= x PROVE FALSE
        BY <1>1, <3>5
      <4>1. kM * (m + 1) <= kM * x /\ kM * (m + 1) = m * kM + kM
        BY <1>1, <3>5
      <4>2. kM * x \in Int
        BY <1>1, <3>5
      <4>3. QED
        BY <1>1, <1>8, <3>5, <4>1, <4>2
    <3>7. kM * x <= kM * m /\ kM * m = m * kM
      BY <1>1, <3>5, <3>6
    <3>8. QED
      BY <3>5, <3>7
  <2>4. QED
    BY <1>6, <1>7, <1>11, <2>1, <2>2, <2>3
<1>12. QED
  BY <1>10, <1>11 DEF u, kN, kM, m

\* The tokens of a tile's rows and columns.
LEMMA PlacesAre ==
    ASSUME call \in Calls, m_block \in Nat, NEW tile \in Nat, NEW r \in F!TileRow, NEW c \in F!TileCol
    PROVE  /\ F!Row(r) \in Nat /\ F!Col(tile, c) \in Nat
           /\ m_block * F!kM <= F!Row(r) /\ F!Row(r) < (m_block + 1) * F!kM
           /\ tile * F!kN <= F!Col(tile, c) /\ F!Col(tile, c) < (tile + 1) * F!kN
           /\ F!Row(r) \in TileOf(m_block * call.fwd.kM, call.fwd.kM)
           /\ F!Col(tile, c) \in TileOf(tile * call.fwd.kN, call.fwd.kN)
<1> DEFINE kM == F!kM
           kN == F!kN
<1>1. kM \in Nat \ {0} /\ kN \in Nat \ {0} /\ r \in 0 .. kM - 1 /\ c \in 0 .. kN - 1
  BY FwdCall DEF F!TileRow, F!TileCol
<1>2. F!Row(r) = m_block * kM + r /\ F!Col(tile, c) = tile * kN + c
  BY DEF F!Row, F!Col
<1>3. /\ TileOf(m_block * call.fwd.kM, call.fwd.kM) = m_block * kM .. m_block * kM + kM - 1
      /\ TileOf(tile * call.fwd.kN, call.fwd.kN) = tile * kN .. tile * kN + kN - 1
  BY DEF TileOf, F!kM, F!kN
<1> HIDE DEF kM, kN
<1>4. /\ m_block * kM \in Nat /\ (m_block + 1) * kM = m_block * kM + kM
      /\ tile * kN \in Nat /\ (tile + 1) * kN = tile * kN + kN
  BY <1>1
<1>5. /\ F!Row(r) \in Nat /\ F!Col(tile, c) \in Nat
      /\ m_block * kM <= F!Row(r) /\ F!Row(r) < (m_block + 1) * kM
      /\ tile * kN <= F!Col(tile, c) /\ F!Col(tile, c) < (tile + 1) * kN
  BY <1>1, <1>2, <1>4
<1>6. QED
  BY <1>1, <1>3, <1>4, <1>5 DEF kM, kN

\* The mask of a visited tile keeps the pairs the call keeps.
LEMMA KeptIs ==
    ASSUME call \in Calls, m_block \in Nat, Occupied, NEW s \in Nat, NEW tile \in Nat,
           Visits(s, tile), NEW w \in Warp, step[w] = s, NEW r \in RowsOf(w), NEW c \in F!TileCol
    PROVE  F!Kept(w, tile, r, c)
               <=> F!Col(tile, c) \in Real(call) /\ Keeps(call, F!Row(r), F!Col(tile, c))
<1> DEFINE i == F!Row(r)
           j == F!Col(tile, c)
           masked == call.causal /\ s < F!MaskSteps
           even == F!EvenMN \/ ~(s < F!MaskSteps)
           In == (masked => j < F!MinOf(call.S, i + 1)) /\ (~masked /\ ~even => j < call.S)
           Test == F!Active(tile) /\ i < call.S /\ j < call.S
                       => F!BitsOf(call, i) \cap F!BitsOf(call, j) = {}
<1>1. r \in F!TileRow /\ i \in Real(call)
  BY DEF RowsOf, F!Mine
<1>2. /\ i \in Nat /\ i < call.L /\ call.L <= call.S /\ call.S \in Nat /\ call.L \in Nat
      /\ call.layout # "uniform" => call.S = call.L
      /\ call.layout = "uniform" => call.causal
      /\ F!kN \in Nat \ {0} /\ F!kM \in Nat \ {0}
  BY <1>1, FwdCall DEF Real
<1>3. /\ j \in Nat /\ j < (tile + 1) * F!kN /\ m_block * F!kM <= i
      /\ m_block * F!kM \in Int /\ (tile + 1) * F!kN \in Int
      /\ i \in RealTile(m_block * call.fwd.kM, call.fwd.kM)
      /\ j \in Real(call) => j \in RealTile(tile * call.fwd.kN, call.fwd.kN)
  BY <1>1, <1>2, PlacesAre DEF RealTile
<1>4. F!Kept(w, tile, r, c) <=> In /\ Test
  BY FwdCall DEF F!Kept, F!Unmasked, F!Masking
<1>5. In <=> j \in Real(call) /\ (call.causal => j <= i)
  <2>1. j \in Real(call) <=> j < call.L
    BY <1>2, <1>3 DEF Real
  <2>2. CASE masked
    BY <1>2, <1>3, <2>1, <2>2 DEF F!MinOf
  <2>3. CASE s < F!MaskSteps /\ ~call.causal
    <3>1. call.S = call.L
      BY <1>2, <2>3
    <3>2. F!EvenMN => j < call.S
      <4> SUFFICES ASSUME F!EvenMN PROVE j < call.S
        OBVIOUS
      <4>1. (FirstTile + 1) * F!kN <= call.S /\ FirstTile \in Nat
        BY <2>3, FirstIs
      <4>2. tile + 1 <= FirstTile + 1
        BY <4>1 DEF Visits
      <4>3. (tile + 1) * F!kN <= (FirstTile + 1) * F!kN /\ (FirstTile + 1) * F!kN \in Int
        <5> DEFINE x == tile + 1
                   y == FirstTile + 1
                   k == F!kN
        <5>1. x \in Nat /\ y \in Nat /\ k \in Nat /\ x <= y
          BY <1>2, <4>1, <4>2
        <5> HIDE DEF x, y, k
        <5>2. x * k <= y * k /\ y * k \in Int
          BY <5>1
        <5>3. QED
          BY <5>2 DEF x, y, k
      <4>4. QED
        BY <1>2, <1>3, <4>1, <4>3
    <3>3. QED
      BY <1>2, <1>3, <2>1, <2>3, <3>1, <3>2
  <2>4. CASE ~(s < F!MaskSteps)
    <3>1. s = F!MaskSteps
      BY <2>4, FirstIs DEF Visits
    <3>2. /\ (tile + 1) * F!kN <= call.S
          /\ call.causal => (tile + 1) * F!kN <= m_block * F!kM
      BY <3>1, BelowDiagonal
    <3>3. j < call.S /\ (call.causal => j <= i)
      BY <1>2, <1>3, <3>2
    <3>4. In
      BY <2>4
    <3>5. j \in Real(call)
      BY <1>2, <1>3, <2>1, <3>3
    <3>6. QED
      BY <3>3, <3>4, <3>5
  <2>5. QED
    BY <2>2, <2>3, <2>4
<1>6. ASSUME j \in Real(call)
      PROVE  Test <=> (call.cqs => call.bits[i] \cap call.bits[j] = {})
  <2>1. j < call.L /\ j < call.S /\ i < call.S
    BY <1>2, <1>3, <1>6 DEF Real
  <2>2. F!BitsOf(call, i) = call.bits[i] /\ F!BitsOf(call, j) = call.bits[j]
    BY <1>2, <2>1 DEF F!BitsOf
  <2>3. call.cqs /\ ~F!Active(tile) => call.bits[i] \cap call.bits[j] = {}
    <3>1. FwdVerdicts(m_block, tile)
      BY ForwardSound
    <3>2. QED
      BY <1>3, <1>6, <3>1, SameForward DEF FwdVerdicts, NoneMasked
  <2>4. F!Active(tile) => call.cqs
    BY SameForward
  <2>5. QED
    BY <2>1, <2>2, <2>3, <2>4
<1>7. QED
  BY <1>4, <1>5, <1>6 DEF Keeps

\* What the running CTA computes with is that of its launch and its row block.
LEMMA SameCta ==
    ASSUME call' = call, m_block' = m_block
    PROVE  /\ F!kM' = F!kM /\ F!kN' = F!kN /\ F!TileRow' = F!TileRow /\ F!TileCol' = F!TileCol
           /\ F!EvenMN' = F!EvenMN /\ F!MaskSteps' = F!MaskSteps /\ F!QTile' = F!QTile
           /\ FirstTile' = FirstTile /\ Occupied' = Occupied
           /\ \A r : F!Row(r)' = F!Row(r)
           /\ \A tile, c : F!Col(tile, c)' = F!Col(tile, c)
           /\ \A w : F!Mine(w)' = F!Mine(w) /\ RowsOf(w)' = RowsOf(w)
           /\ \A i, lo : Summed(i, lo)' = Summed(i, lo) /\ KeysFrom(i, lo)' = KeysFrom(i, lo)
           /\ \A i, lo : Terms(i, lo)' = Terms(i, lo)
           /\ \A i, tile : ScoresOf(i, tile)' = ScoresOf(i, tile)
           /\ \A s, tile : KTile(s, tile)' = KTile(s, tile) /\ VTile(s, tile)' = VTile(s, tile)
           /\ \A x, tile : F!FullTile(x, tile)' = F!FullTile(x, tile)
           /\ \A tile : F!TileMasked(tile)' = F!TileMasked(tile)
           /\ \A tile : F!NextLive(tile)' = F!NextLive(tile)
<1>1. F!kM' = F!kM /\ F!kN' = F!kN /\ F!SeqLen' = F!SeqLen
  BY DEF F!kM, F!kN, F!SeqLen
<1>2. F!TileRow' = F!TileRow /\ F!TileCol' = F!TileCol
  BY <1>1 DEF F!TileRow, F!TileCol
<1>3. (\A r : F!Row(r)' = F!Row(r)) /\ (\A tile, c : F!Col(tile, c)' = F!Col(tile, c))
  BY <1>1 DEF F!Row, F!Col
<1>4. F!EvenMN' = F!EvenMN
  BY <1>1 DEF F!EvenMN
<1>5. F!MaskSteps' = F!MaskSteps /\ FirstTile' = FirstTile /\ Occupied' = Occupied
  BY <1>1, <1>4 DEF F!MaskSteps, FirstTile, F!NBlockMax, Occupied
<1>6. \A w : F!Mine(w)' = F!Mine(w) /\ RowsOf(w)' = RowsOf(w)
  BY <1>2, <1>3 DEF F!Mine, RowsOf
<1>7. \A i, lo : KeysFrom(i, lo)' = KeysFrom(i, lo) /\ Terms(i, lo)' = Terms(i, lo)
  BY DEF KeysFrom, Terms
<1>8. \A i, lo : Summed(i, lo)' = Summed(i, lo)
  BY <1>7 DEF Summed
<1>9. \A i, tile : ScoresOf(i, tile)' = ScoresOf(i, tile)
  BY <1>2, <1>3 DEF ScoresOf
<1>10. \A slot, first, lim, clr : F!Tile(slot, first, lim, clr)' = F!Tile(slot, first, lim, clr)
  BY DEF F!Tile
<1>11. F!QTile' = F!QTile
  BY <1>1, <1>4, <1>10 DEF F!QTile
<1>12. \A x, tile : F!FullTile(x, tile)' = F!FullTile(x, tile)
  BY <1>1, <1>10 DEF F!FullTile
<1>13. \A x, tile, clr : F!EdgeTile(x, tile, clr)' = F!EdgeTile(x, tile, clr)
  BY <1>1, <1>4, <1>10 DEF F!EdgeTile
<1>14. \A s, tile : KTile(s, tile)' = KTile(s, tile) /\ VTile(s, tile)' = VTile(s, tile)
  BY <1>12, <1>13 DEF KTile, VTile
<1>15. F!RowHalf' = F!RowHalf /\ \A tile : F!ColHalf(tile)' = F!ColHalf(tile)
  BY <1>1 DEF F!RowHalf, F!ColHalf
<1>16. \A tile : F!TileMasked(tile)' = F!TileMasked(tile)
  BY <1>15 DEF F!TileMasked
<1>17. \A tile : F!NextLive(tile)' = F!NextLive(tile)
  <2> SUFFICES ASSUME NEW tile PROVE F!NextLive(tile)' = F!NextLive(tile)
    OBVIOUS
  <2> DEFINE Pick(T) == IF T = {} THEN -1 ELSE CHOOSE x \in T : \A y \in T : y <= x
             live == {x \in 0 .. tile : ~F!TileMasked(x)}
             live1 == {x \in 0 .. tile : ~F!TileMasked(x)'}
  <2>1. F!NextLive(tile) = Pick(live) /\ F!NextLive(tile)' = Pick(live1)
    BY DEF F!NextLive
  <2>2. live = live1
    BY <1>16
  <2> HIDE DEF live, live1, Pick
  <2>3. QED
    BY <2>1, <2>2
<1>18. QED
  BY <1>1, <1>2, <1>3, <1>4, <1>5, <1>6, <1>7, <1>8, <1>9, <1>11, <1>12, <1>14, <1>16, <1>17

\* The first tiles are inside the sequence.
LEMMA InSequence ==
    ASSUME call \in Calls, m_block \in Nat, Occupied, NEW s \in Nat, NEW tile \in Nat, Visits(s, tile)
    PROVE  tile * F!kN < call.S
<1> DEFINE f == FirstTile
           k == F!kN
<1>1. f \in Nat /\ f * k < call.S /\ k \in Nat \ {0} /\ call.S \in Nat
  BY FirstIs, FwdCall
<1>2. tile <= f
  BY <1>1 DEF Visits
<1> HIDE DEF f, k
<1>3. tile * k <= f * k /\ tile * k \in Int /\ f * k \in Int
  BY <1>1, <1>2
<1>4. QED
  BY <1>1, <1>3 DEF k

\* The tiles that both warps hold.
LEMMA QLoaded ==
    ASSUME call \in Calls, m_block \in Nat, Occupied, \A w \in Warp : Holds(w, F!QTile),
           NEW w \in Warp, NEW r \in RowsOf(w)
    PROVE  F!RowIn(f_smem["Q"], r) = RowOf(call, F!Row(r))
<1> DEFINE k == F!kM
           part == f_smem["Q"]
           x == F!QTile.src
<1>1. /\ k \in Nat \ {0} /\ SegAlign % k = 0 /\ call.S \in Nat /\ call.L \in Nat /\ call.L <= call.S
      /\ F!SeqLen = call.S
  BY FwdCall
<1>2. r \in 0 .. k - 1 /\ F!Row(r) = m_block * k + r /\ F!Row(r) < call.S
  BY <1>1 DEF RowsOf, F!Mine, F!TileRow, F!Row, Real
<1>3. m_block * k \in Nat /\ m_block * k < call.S
  BY <1>1 DEF Occupied
<1>4. x.at = m_block * k + F!cqs_seg_delta(call, m_block * k)
  BY CopiesAre
<1>5. x.lim = IF F!EvenMN THEN k ELSE F!MinOf(k, call.S - m_block * k)
  BY <1>1, CopiesAre
<1>6. part[0] = x /\ part[1] = x
  BY CopiesAre DEF Holds, Warp
<1> HIDE DEF k, part, x
<1>7. x.lim \in Int /\ r < x.lim
  BY <1>1, <1>2, <1>3, <1>5 DEF F!MinOf
<1>8. F!RowIn(part, r) = RowOf(call, m_block * k + r)
  BY <1>1, <1>2, <1>3, <1>4, <1>6, <1>7, LoadedIs
<1>9. QED
  BY <1>2, <1>8 DEF part

\* A column of a tile is the row of its token, or nothing that was left there.
LEMMA ColumnsLoaded ==
    ASSUME call \in Calls, m_block \in Nat, Occupied, NEW s \in Nat, NEW tile \in Nat, Visits(s, tile),
           NEW x, x.at = tile * F!kN + F!cqs_seg_delta(call, tile * F!kN),
           x.lim = (IF s # 0 \/ F!EvenMN THEN F!kN ELSE F!MinOf(F!kN, F!SeqLen - tile * F!kN)),
           NEW part, part[0] = x, part[1] = x, NEW c \in F!TileCol
    PROVE  /\ F!Col(tile, c) \in Real(call) => F!RowIn(part, c) = RowOf(call, F!Col(tile, c))
           /\ s # 0 \/ x.clr => F!RowIn(part, c) # F!Junk
<1> DEFINE k == F!kN
<1>1. /\ k \in Nat \ {0} /\ SegAlign % k = 0 /\ call.S \in Nat /\ call.L \in Nat /\ call.L <= call.S
      /\ F!SeqLen = call.S
  BY FwdCall
<1>2. c \in 0 .. k - 1 /\ F!Col(tile, c) = tile * k + c
  BY DEF F!TileCol, F!Col
<1>3. tile * k \in Nat /\ tile * k < call.S
  BY <1>1, InSequence
<1>4. x.lim = (IF s # 0 \/ F!EvenMN THEN k ELSE F!MinOf(k, call.S - tile * k))
  BY <1>1
<1>5. x.at = tile * k + F!cqs_seg_delta(call, tile * k)
  OBVIOUS
<1> HIDE DEF k
<1>6. x.lim \in Int /\ (s # 0 => c < x.lim) /\ (F!Col(tile, c) \in Real(call) => c < x.lim)
  BY <1>1, <1>2, <1>3, <1>4 DEF F!MinOf, Real
<1>7. /\ c < x.lim => F!RowIn(part, c) = RowOf(call, tile * k + c) /\ F!RowIn(part, c) \in Nat
      /\ x.clr => c < x.lim \/ F!RowIn(part, c) = F!Zero
  BY <1>1, <1>2, <1>3, <1>5, <1>6, LoadedIs
<1>8. F!Junk = -1 /\ F!Zero = -2
  BY DEF F!Junk, F!Zero
<1>9. QED
  BY <1>2, <1>6, <1>7, <1>8

\* The row of a real token is a natural number.
LEMMA RowIsNat ==
    ASSUME call \in Calls, NEW i \in Real(call)
    PROVE  RowOf(call, i) \in Nat
<1> DEFINE b == i \div SegAlign
           n1 == CeilDiv(call.S, SegAlign)
<1>1. i \in Int /\ 0 <= i /\ i < call.S /\ call.S \in Nat /\ SegAlign \in Nat \ {0}
  BY FwdCall DEF Real
<1>2. n1 \in Int /\ call.S <= SegAlign * n1 /\ b \in Int /\ i % SegAlign \in 0 .. SegAlign - 1
  BY <1>1, RoundsUp, Quotient
<1> HIDE DEF n1
<1>3. b < n1 /\ 0 <= b
  <2>1. i < SegAlign * n1 /\ SegAlign * 0 <= i
    <3>1. SegAlign * n1 \in Int
      BY <1>1, <1>2
    <3>2. QED
      BY <1>1, <1>2, <3>1
  <2>2. QED
    BY <1>1, <1>2, <2>1, Below
<1> HIDE DEF b
<1>4. call.base[b] \in Nat
  BY <1>2, <1>3, FwdCall DEF n1
<1>5. RowOf(call, i) = call.base[b] + (i % SegAlign)
  BY DEF RowOf, b
<1>6. QED
  BY <1>1, <1>2, <1>4, <1>5

\* The scores of a warp's rows.
LEMMA ScoresAre ==
    ASSUME call \in Calls, m_block \in Nat, Occupied, NEW s \in Nat, NEW tile \in Nat, Visits(s, tile),
           \A u \in Warp : Holds(u, F!QTile) /\ Holds(u, KTile(s, tile)),
           NEW w \in Warp, step[w] = s, NEW r \in RowsOf(w)
    PROVE  [q |-> F!RowIn(f_smem["Q"], r),
            k |-> [c \in F!TileCol |-> IF F!Kept(w, tile, r, c)
                                       THEN F!RowIn(f_smem["K"], c) ELSE F!NegInf]]
               = ScoresOf(F!Row(r), tile)
<1>1. F!RowIn(f_smem["Q"], r) = RowOf(call, F!Row(r))
  BY QLoaded
<1>2. ASSUME NEW c \in F!TileCol
      PROVE  (IF F!Kept(w, tile, r, c) THEN F!RowIn(f_smem["K"], c) ELSE F!NegInf)
               = (IF F!Col(tile, c) \in Real(call) /\ Keeps(call, F!Row(r), F!Col(tile, c))
                  THEN RowOf(call, F!Col(tile, c)) ELSE F!NegInf)
  <2> DEFINE part == f_smem["K"]
             x == KTile(s, tile).src
  <2>1. /\ x.at = tile * F!kN + F!cqs_seg_delta(call, tile * F!kN)
        /\ x.lim = (IF s # 0 \/ F!EvenMN THEN F!kN ELSE F!MinOf(F!kN, F!SeqLen - tile * F!kN))
    BY CopiesAre
  <2>2. part[0] = x /\ part[1] = x
    BY CopiesAre DEF Holds, Warp
  <2> HIDE DEF part, x
  <2>3. F!Col(tile, c) \in Real(call) => F!RowIn(part, c) = RowOf(call, F!Col(tile, c))
    BY <2>1, <2>2, ColumnsLoaded
  <2>4. F!Col(tile, c) \in Real(call) => F!RowIn(f_smem["K"], c) = RowOf(call, F!Col(tile, c))
    BY <2>3 DEF part
  <2>5. QED
    BY <2>4, KeptIs
<1>3. QED
  BY <1>1, <1>2 DEF ScoresOf

\* The forward kernel uses bags as this module does.
LEMMA SameBags ==
    /\ F!EmptyBag = EmptyBag
    /\ \A P : F!SetToBag(P) = SetToBag(P)
    /\ \A a, b : F!(+)(a, b) = a (+) b
  BY DEF F!EmptyBag, EmptyBag, F!SetToBag, SetToBag, F!(+), (+)

\* Bags of distinct terms.
LEMMA BagsJoin ==
    ASSUME NEW P, NEW Q, P \cap Q = {}
    PROVE  SetToBag(P) (+) SetToBag(Q) = SetToBag(P \cup Q)
  BY DEF SetToBag, (+)

\* The bag of nothing.
LEMMA NoTerms == SetToBag({}) = EmptyBag
  BY DEF SetToBag, EmptyBag

\* The keys of a tile, and the keys behind it.
TileKeys(i, tile) ==
    {F!Col(tile, c) : c \in {d \in F!TileCol : /\ F!Col(tile, d) \in Real(call)
                                               /\ Keeps(call, i, F!Col(tile, d))}}

\* The keys from a tile on are those of the tile and those from the next one on.
LEMMA KeysSplit ==
    ASSUME call \in Calls, NEW i, NEW tile \in Nat
    PROVE  /\ KeysFrom(i, tile * F!kN) = KeysFrom(i, (tile + 1) * F!kN) \cup TileKeys(i, tile)
           /\ \A j \in TileKeys(i, tile) : j \notin KeysFrom(i, (tile + 1) * F!kN)
<1> DEFINE k == F!kN
           lo == tile * k
           hi == (tile + 1) * k
<1>1. k \in Nat \ {0} /\ lo \in Nat /\ hi = lo + k /\ F!TileCol = 0 .. k - 1
  BY FwdCall DEF F!TileCol
<1>2. \A d : F!Col(tile, d) = lo + d
  BY DEF F!Col
<1> HIDE DEF k, lo, hi
<1>3. ASSUME NEW j
      PROVE  j \in TileKeys(i, tile) <=> j \in Real(call) /\ Keeps(call, i, j) /\ lo <= j /\ j < hi
  <2>1. ASSUME j \in Real(call), Keeps(call, i, j), lo <= j, j < hi PROVE j \in TileKeys(i, tile)
    <3>1. j \in Int
      BY <2>1 DEF Real
    <3>2. j - lo \in F!TileCol /\ F!Col(tile, j - lo) = j
      BY <1>1, <1>2, <2>1, <3>1
    <3>3. QED
      BY <2>1, <3>2 DEF TileKeys
  <2>2. ASSUME j \in TileKeys(i, tile)
        PROVE  j \in Real(call) /\ Keeps(call, i, j) /\ lo <= j /\ j < hi
    <3>1. PICK c \in F!TileCol : j = F!Col(tile, c) /\ j \in Real(call) /\ Keeps(call, i, j)
      BY <2>2 DEF TileKeys
    <3>2. QED
      BY <1>1, <1>2, <3>1
  <2>3. QED
    BY <2>1, <2>2
<1>4. \A j : j \in KeysFrom(i, lo) <=> j \in Real(call) /\ Keeps(call, i, j) /\ lo <= j
  BY DEF KeysFrom
<1>5. \A j : j \in KeysFrom(i, hi) <=> j \in Real(call) /\ Keeps(call, i, j) /\ hi <= j
  BY DEF KeysFrom
<1>6. \A j \in Real(call) : j \in Int
  BY DEF Real
<1>7. \A j : j \in KeysFrom(i, lo) <=> j \in KeysFrom(i, hi) \/ j \in TileKeys(i, tile)
  BY <1>1, <1>3, <1>4, <1>5, <1>6
<1>8. \A j \in TileKeys(i, tile) : j \notin KeysFrom(i, hi)
  BY <1>1, <1>3, <1>5, <1>6
<1>9. QED
  BY <1>7, <1>8 DEF k, lo, hi

\* The search returns the next tile below that has a kept pair, or a later one: what it
\* passes over adds nothing.
LEMMA SearchIs ==
    ASSUME call \in Calls, m_block \in Nat, NEW t \in Int, -1 <= t
    PROVE  /\ F!NextLive(t) \in Int /\ -1 <= F!NextLive(t) /\ F!NextLive(t) <= t
           /\ \A w, r : r \in RowsOf(w)
                 => KeysFrom(F!Row(r), (F!NextLive(t) + 1) * F!kN) = KeysFrom(F!Row(r), (t + 1) * F!kN)
<1> DEFINE live == {x \in 0 .. t : ~F!TileMasked(x)}
           e == F!NextLive(t)
           k == F!kN
<1>1. /\ e \in Int /\ -1 <= e /\ e <= t
      /\ \A x \in 0 .. t : x > e => F!TileMasked(x)
  <2>1. CASE live = {}
    <3>1. e = -1
      BY <2>1 DEF F!NextLive
    <3> HIDE DEF e
    <3>2. \A x \in 0 .. t : F!TileMasked(x)
      BY <2>1
    <3>3. QED
      BY <3>1, <3>2
  <2>2. CASE live # {}
    <3> DEFINE T == {t - x : x \in live}
    <3>1. T \subseteq Nat /\ T # {}
      BY <2>2
    <3>2. PICK m \in T : \A y \in T : m <= y
      <4> HIDE DEF T, live, e
      <4>1. QED
        BY <3>1, LeastNatural
    <3>3. PICK x \in live : m = t - x
      BY <3>2
    <3>4. \A y \in live : y <= x
      <4> TAKE y \in live
      <4>1. t - y \in T /\ x \in Int /\ y \in Int
        OBVIOUS
      <4> HIDE DEF T, live, e
      <4>2. m <= t - y
        BY <3>2, <4>1
      <4>3. QED
        BY <3>3, <4>1, <4>2
    <3>5. e = CHOOSE z \in live : \A y \in live : y <= z
      BY <2>2 DEF F!NextLive
    <3> HIDE DEF e
    <3>6. e \in live /\ \A y \in live : y <= e
      BY <3>3, <3>4, <3>5
    <3>7. e \in 0 .. t /\ \A y \in 0 .. t : ~F!TileMasked(y) => y <= e
      BY <3>6
    <3> HIDE DEF live, T
    <3>8. QED
      BY <3>7
  <2>3. QED
    BY <2>1, <2>2
<1> HIDE DEF e, live
<1>2. ASSUME NEW w, NEW r \in RowsOf(w)
      PROVE  KeysFrom(F!Row(r), (e + 1) * k) = KeysFrom(F!Row(r), (t + 1) * k)
  <2> DEFINE i == F!Row(r)
             lo == (e + 1) * k
             hi == (t + 1) * k
  <2>1. k \in Nat \ {0} /\ lo \in Int /\ hi \in Int /\ lo <= hi
    <3>1. k \in Nat \ {0}
      BY FwdCall
    <3> HIDE DEF k
    <3>2. QED
      BY <1>1, <3>1
  <2>2. r \in F!TileRow /\ i \in Real(call)
    BY DEF RowsOf, F!Mine
  <2>3. ASSUME NEW j \in Real(call), Keeps(call, i, j), lo <= j, j < hi PROVE FALSE
    <3> DEFINE b == j \div k
    <3>1. j \in Int
      BY DEF Real
    <3>2. b \in Int /\ j % k \in 0 .. k - 1 /\ j = k * b + (j % k)
      BY <2>1, <3>1, Quotient
    <3>3. e + 1 <= b
      <4>1. k * (e + 1) <= j
        BY <1>1, <2>1, <2>3
      <4>2. QED
        BY <1>1, <2>1, <3>1, <4>1, Below
    <3>4. b < t + 1
      <4>1. j < k * (t + 1)
        BY <2>1, <2>3
      <4>2. QED
        BY <2>1, <3>1, <4>1, Below
    <3> HIDE DEF k, b, lo, hi
    <3>5. b \in 0 .. t /\ b > e /\ b \in Nat
      BY <1>1, <3>2, <3>3, <3>4
    <3>6. F!TileMasked(b)
      BY <1>1, <3>5
    <3>7. call.cqs /\ AllMasked(call.bits, RealTile(m_block * call.fwd.kM, call.fwd.kM),
                                RealTile(b * call.fwd.kN, call.fwd.kN))
      <4>1. FwdVerdicts(m_block, b)
        BY <3>5, ForwardSound
      <4>2. QED
        BY <3>6, <4>1, SameForward DEF FwdVerdicts
    <3>8. j % k \in F!TileCol /\ F!Col(b, j % k) = j
      BY <2>1, <3>2, <3>5 DEF F!TileCol, F!Col, k
    <3>9. i \in TileOf(m_block * call.fwd.kM, call.fwd.kM) /\ j \in TileOf(b * call.fwd.kN, call.fwd.kN)
      BY <2>2, <3>5, <3>8, PlacesAre
    <3>10. call.bits[i] \cap call.bits[j] # {}
      BY <2>2, <3>7, <3>9 DEF AllMasked, RealTile
    <3>11. QED
      BY <2>3, <3>7, <3>10 DEF Keeps
  <2>4. \A j \in Real(call) : j \in Int
    BY DEF Real
  <2> HIDE DEF lo, hi, i
  <2>5. \A j : j \in KeysFrom(i, lo) <=> j \in KeysFrom(i, hi)
    BY <2>1, <2>3, <2>4 DEF KeysFrom
  <2>6. KeysFrom(i, lo) = KeysFrom(i, hi)
    BY <2>5
  <2>7. QED
    BY <2>6 DEF i, lo, hi
<1>3. QED
  BY <1>1, <1>2 DEF e, k

\* Folding a tile into a row.
LEMMA FoldIs ==
    ASSUME call \in Calls, m_block \in Nat, Occupied, NEW s \in Nat, NEW tile \in Nat, Visits(s, tile),
           \A u \in Warp : Holds(u, VTile(s, tile)),
           NEW w \in Warp, step[w] = s, NEW r \in RowsOf(w), acc_s[r] = ScoresOf(F!Row(r), tile),
           acc_o[r] = Summed(F!Row(r), (tile + 1) * F!kN)
    PROVE  F!Fold(w, r) = Summed(F!Row(r), tile * F!kN)
<1> DEFINE i == F!Row(r)
           v == f_smem["V"]
           S0 == acc_s[r]
           live == {c \in F!TileCol : S0.k[c] # F!NegInf}
           lo == tile * F!kN
           hi == (tile + 1) * F!kN
           new == {<<S0.q, S0.k[c], F!RowIn(v, c)>> : c \in live}
           Kept(c) == F!Col(tile, c) \in Real(call) /\ Keeps(call, i, F!Col(tile, c))
           Term(j) == <<RowOf(call, i), RowOf(call, j), RowOf(call, j)>>
<1>1. i \in Real(call)
  BY DEF RowsOf
<1>2. /\ S0.q = RowOf(call, i)
      /\ \A c \in F!TileCol : S0.k[c] = IF Kept(c) THEN RowOf(call, F!Col(tile, c)) ELSE F!NegInf
  BY DEF ScoresOf
<1>3. \A c \in F!TileCol : S0.k[c] # F!NegInf <=> Kept(c)
  <2>1. \A j \in Real(call) : RowOf(call, j) \in Nat
    BY RowIsNat
  <2>2. F!NegInf = -3
    BY DEF F!NegInf
  <2> HIDE DEF S0
  <2>3. QED
    BY <1>2, <2>1, <2>2
<1>4. ASSUME NEW c \in F!TileCol
      PROVE  /\ F!Col(tile, c) \in Real(call) => F!RowIn(v, c) = RowOf(call, F!Col(tile, c))
             /\ F!RowIn(v, c) # F!Junk
  <2> DEFINE x == VTile(s, tile).src
  <2>1. /\ x.at = tile * F!kN + F!cqs_seg_delta(call, tile * F!kN)
        /\ x.lim = (IF s # 0 \/ F!EvenMN THEN F!kN ELSE F!MinOf(F!kN, F!SeqLen - tile * F!kN))
        /\ s = 0 => x.clr
    BY CopiesAre
  <2>2. v[0] = x /\ v[1] = x
    BY CopiesAre DEF Holds, Warp
  <2> HIDE DEF v, x
  <2>3. QED
    BY <2>1, <2>2, ColumnsLoaded
<1> HIDE DEF v, S0
<1>5. \A c : c \in live <=> c \in F!TileCol /\ Kept(c)
  BY <1>3
<1> HIDE DEF live
<1>6. \A c \in live : <<S0.q, S0.k[c], F!RowIn(v, c)>> = Term(F!Col(tile, c))
  BY <1>2, <1>4, <1>5
<1>7. \A x : x \in new <=> \E c \in live : x = Term(F!Col(tile, c))
  BY <1>6
<1>8. \A j : j \in TileKeys(i, tile) <=> \E c \in live : j = F!Col(tile, c)
  BY <1>5 DEF TileKeys
<1>9. /\ KeysFrom(i, lo) = KeysFrom(i, hi) \cup TileKeys(i, tile)
      /\ \A j \in TileKeys(i, tile) : j \notin KeysFrom(i, hi)
  BY KeysSplit
<1> HIDE DEF new, lo, hi
<1>10. \A x : x \in Terms(i, lo) <=> \E j \in KeysFrom(i, lo) : x = Term(j)
  BY DEF Terms
<1>11. \A x : x \in Terms(i, hi) <=> \E j \in KeysFrom(i, hi) : x = Term(j)
  BY DEF Terms
<1> HIDE DEF Kept
<1>12. Terms(i, lo) = Terms(i, hi) \cup new
  <2>1. \A x : x \in Terms(i, lo) <=> x \in Terms(i, hi) \/ x \in new
    BY <1>7, <1>8, <1>9, <1>10, <1>11
  <2> HIDE DEF Term
  <2>2. QED
    BY <2>1
<1>13. Terms(i, hi) \cap new = {}
  <2> SUFFICES ASSUME NEW x, x \in Terms(i, hi), x \in new PROVE FALSE
    OBVIOUS
  <2>1. PICK j \in KeysFrom(i, hi) : x = Term(j)
    BY <1>11
  <2>2. PICK c \in live : x = Term(F!Col(tile, c))
    BY <1>7
  <2>3. j \in Real(call) /\ F!Col(tile, c) \in Real(call)
    BY <1>5, <2>1, <2>2 DEF KeysFrom, Kept
  <2>4. RowOf(call, j) = RowOf(call, F!Col(tile, c))
    BY <2>1, <2>2
  <2>5. j = F!Col(tile, c)
    BY <2>3, <2>4, FwdCall
  <2>6. QED
    BY <1>8, <1>9, <2>1, <2>2, <2>5
<1>14. live # {} <=> TileKeys(i, tile) # {}
  BY <1>8
<1>15. s > 0 /\ ~F!CheckInf(w) => live # {}
  <2> SUFFICES ASSUME s > 0, ~call.cqs, ~(call.causal /\ s < F!MaskSteps) PROVE live # {}
    BY DEF F!CheckInf, F!Masking
  <2>1. F!MaskSteps \in Nat \ {0} /\ s <= F!MaskSteps
    BY FirstIs DEF Visits
  <2>2. s = F!MaskSteps
    <3>1. ~call.causal => F!MaskSteps = 1
      BY DEF F!MaskSteps
    <3>2. QED
      BY <2>1, <3>1
  <2>3. /\ (tile + 1) * F!kN <= call.S
        /\ call.causal => (tile + 1) * F!kN <= m_block * F!kM
    BY <2>2, BelowDiagonal
  <2>4. 0 \in F!TileCol /\ r \in F!TileRow
    BY FwdCall DEF F!TileCol, RowsOf, F!Mine
  <2>5. /\ F!Col(tile, 0) \in Nat /\ F!Col(tile, 0) < (tile + 1) * F!kN
        /\ m_block * F!kM <= i /\ i \in Nat
    BY <2>4, PlacesAre
  <2>6. /\ call.L \in Nat /\ i < call.L /\ call.S \in Nat
        /\ ~call.causal => call.S = call.L
        /\ (tile + 1) * F!kN \in Int /\ m_block * F!kM \in Int
    <3>1. /\ call.L \in Nat /\ call.S \in Nat /\ F!kN \in Nat /\ F!kM \in Nat
          /\ ~call.causal => call.S = call.L
      BY FwdCall
    <3>2. i < call.L
      BY <1>1, <3>1 DEF Real
    <3>3. (tile + 1) * F!kN \in Int /\ m_block * F!kM \in Int
      BY <3>1
    <3>4. QED
      BY <3>1, <3>2, <3>3
  <2>7. F!Col(tile, 0) < call.L /\ (call.causal => F!Col(tile, 0) <= i)
    BY <2>3, <2>5, <2>6
  <2>8. Kept(0)
    BY <2>5, <2>6, <2>7 DEF Kept, Real, Keeps
  <2>9. QED
    BY <1>5, <2>4, <2>8
<1>16. acc_o[r].seen = (KeysFrom(i, hi) # {}) /\ acc_o[r].sum = SetToBag(Terms(i, hi)) /\ acc_o[r].nan = FALSE
  BY DEF Summed, hi
<1>17. F!Fold(w, r) =
         [seen |-> acc_o[r].seen \/ live # {},
          sum  |-> acc_o[r].sum (+) SetToBag(new),
          nan  |-> \/ acc_o[r].nan
                   \/ \E c \in F!TileCol : F!RowIn(v, c) = F!Junk
                   \/ step[w] > 0 /\ ~acc_o[r].seen /\ live = {} /\ ~F!CheckInf(w)]
  <2>1. /\ live = {c \in F!TileCol : acc_s[r].k[c] # F!NegInf}
        /\ new = {<<acc_s[r].q, acc_s[r].k[c], F!RowIn(f_smem["V"], c)>> : c \in live}
    BY DEF live, new, S0, v
  <2>2. acc_o[r].sum (+) SetToBag(new) = F!(+)(acc_o[r].sum, F!SetToBag(new))
    BY SameBags
  <2>3. QED
    BY <2>1, <2>2, Zenon DEF F!Fold, v
<1>18. acc_o[r].sum (+) SetToBag(new) = SetToBag(Terms(i, lo))
  BY <1>12, <1>13, <1>16, BagsJoin
<1>19. (acc_o[r].seen \/ live # {}) = (KeysFrom(i, lo) # {})
  BY <1>9, <1>14, <1>16
<1>20. (\/ acc_o[r].nan
        \/ \E c \in F!TileCol : F!RowIn(v, c) = F!Junk
        \/ step[w] > 0 /\ ~acc_o[r].seen /\ live = {} /\ ~F!CheckInf(w)) = FALSE
  BY <1>4, <1>15, <1>16
<1>21. QED
  BY <1>17, <1>18, <1>19, <1>20, Zenon DEF Summed, lo

\* Nothing that belongs to warp u changes.
Quiet(u) ==
    /\ f_pc'[u] = f_pc[u] /\ step'[u] = step[u] /\ n_block'[u] = n_block[u]
    /\ f_inflight'[u] = f_inflight[u]
    /\ \A x \in {"Q", "K", "V"} : f_smem'[x][u] = f_smem[x][u]
    /\ \A r \in F!Mine(u) : acc_s'[r] = acc_s[r] /\ acc_o'[r] = acc_o[r]

\* What a warp holds after a step of its CTA.
LEMMA FoldedIs ==
    ASSUME call' = call, m_block' = m_block, NEW w
    PROVE  /\ Folded(w)' <=> \A r \in RowsOf(w) : acc_o'[r] = Summed(F!Row(r), (n_block'[w] + 1) * F!kN)
           /\ \A tile : Scored(w, tile)' <=> \A r \in RowsOf(w) : acc_s'[r] = ScoresOf(F!Row(r), tile)
<1>1. /\ RowsOf(w)' = RowsOf(w) /\ F!kN' = F!kN /\ F!TileCol' = F!TileCol
      /\ \A r : F!Row(r)' = F!Row(r)
      /\ \A tile, c : F!Col(tile, c)' = F!Col(tile, c)
  BY SameCta
<1>2. Folded(w)' <=> \A r \in RowsOf(w) : acc_o'[r] = Summed(F!Row(r), (n_block'[w] + 1) * F!kN)
  BY <1>1 DEF Folded, Summed, Terms, KeysFrom
<1>3. \A tile : Scored(w, tile)' <=> \A r \in RowsOf(w) : acc_s'[r] = ScoresOf(F!Row(r), tile)
  BY <1>1 DEF Scored, ScoresOf
<1>4. QED
  BY <1>2, <1>3

\* The copies are in the slots of the CTA.
LEMMA CopiesStay ==
    ASSUME call' = call, m_block' = m_block, NEW u, \A x \in {"Q", "K", "V"} : f_smem'[x][u] = f_smem[x][u]
    PROVE  /\ Holds(u, F!QTile)' <=> Holds(u, F!QTile)
           /\ \A s, tile : (Holds(u, KTile(s, tile))' <=> Holds(u, KTile(s, tile)))
                        /\ (Holds(u, VTile(s, tile))' <=> Holds(u, VTile(s, tile)))
           /\ \A tile : Holds(u, F!FullTile("K", tile))' <=> Holds(u, F!FullTile("K", tile))
<1>1. /\ F!QTile' = F!QTile
      /\ \A s, tile : KTile(s, tile)' = KTile(s, tile) /\ VTile(s, tile)' = VTile(s, tile)
      /\ \A x, tile : F!FullTile(x, tile)' = F!FullTile(x, tile)
  BY SameCta
<1>2. F!QTile.slot = "Q" /\ F!QTile.slot' = "Q"
  BY <1>1, CopiesAre
<1>3. Holds(u, F!QTile)' <=> Holds(u, F!QTile)
  BY <1>1, <1>2 DEF Holds
<1>4. ASSUME NEW s, NEW tile
      PROVE  (Holds(u, KTile(s, tile))' <=> Holds(u, KTile(s, tile)))
             /\ (Holds(u, VTile(s, tile))' <=> Holds(u, VTile(s, tile)))
  <2>1. KTile(s, tile).slot = "K" /\ VTile(s, tile).slot = "V"
    BY CopiesAre
  <2>2. QED
    BY <1>1, <2>1 DEF Holds
<1>5. ASSUME NEW tile
      PROVE  Holds(u, F!FullTile("K", tile))' <=> Holds(u, F!FullTile("K", tile))
  <2>1. F!FullTile("K", tile).slot = "K"
    BY CopiesAre
  <2>2. QED
    BY <1>1, <2>1 DEF Holds
<1>6. QED
  BY <1>3, <1>4, <1>5

\* A quiet warp stays where it is.
LEMMA StaysQuiet ==
    ASSUME call' = call, m_block' = m_block, NEW u \in Warp, Quiet(u)
    PROVE  /\ \A tile : Starting(u, tile) => Starting(u, tile)'
           /\ \A s, tile : Scoring(u, s, tile) => Scoring(u, s, tile)'
           /\ \A s, tile, next : Folding(u, s, tile, next) => Folding(u, s, tile, next)'
<1>1. /\ F!QTile' = F!QTile /\ F!MaskSteps' = F!MaskSteps /\ Occupied' = Occupied
      /\ F!Mine(u)' = F!Mine(u) /\ F!Mine(u) = {r \in F!TileRow : r % 2 = u}
      /\ \A s, tile : KTile(s, tile)' = KTile(s, tile) /\ VTile(s, tile)' = VTile(s, tile)
      /\ \A x, tile : F!FullTile(x, tile)' = F!FullTile(x, tile)
  BY SameCta DEF F!Mine
<1>2. /\ Holds(u, F!QTile)' <=> Holds(u, F!QTile)
      /\ \A s, tile : (Holds(u, KTile(s, tile))' <=> Holds(u, KTile(s, tile)))
                   /\ (Holds(u, VTile(s, tile))' <=> Holds(u, VTile(s, tile)))
      /\ \A tile : Holds(u, F!FullTile("K", tile))' <=> Holds(u, F!FullTile("K", tile))
  BY CopiesStay DEF Quiet
<1>3. RowsOf(u) \subseteq F!Mine(u)
  BY DEF RowsOf
<1>4. (Folded(u) => Folded(u)') /\ \A tile : Scored(u, tile) => Scored(u, tile)'
  <2>1. n_block'[u] = n_block[u] /\ \A r \in RowsOf(u) : acc_s'[r] = acc_s[r] /\ acc_o'[r] = acc_o[r]
    BY <1>3 DEF Quiet
  <2>2. (Folded(u) => Folded(u)')
    BY <2>1, FoldedIs DEF Folded
  <2>3. QED
    BY <2>1, <2>2, FoldedIs DEF Scored
<1>5. ASSUME NEW tile, Starting(u, tile) PROVE Starting(u, tile)'
  <2>1. Coming(u, {F!QTile, KTile(0, tile)}) => Coming(u, {F!QTile, KTile(0, tile)})'
    BY <1>1, <1>2 DEF Coming, Quiet
  <2>2. F!NoRow' = F!NoRow
    BY DEF F!NoRow
  <2>3. QED
    BY <1>1, <1>4, <1>5, <2>1, <2>2 DEF Starting, Place, Quiet
<1>6. ASSUME NEW s, NEW tile, Scoring(u, s, tile) PROVE Scoring(u, s, tile)'
  <2>1. Coming(u, {VTile(s, tile)}) => Coming(u, {VTile(s, tile)})'
    BY <1>1, <1>2 DEF Coming, Quiet
  <2>2. QED
    BY <1>1, <1>2, <1>4, <1>6, <2>1 DEF Scoring, Place, Quiet
<1>7. ASSUME NEW s, NEW tile, NEW next, Folding(u, s, tile, next) PROVE Folding(u, s, tile, next)'
  <2>1. Coming(u, IF tile > 0 THEN {F!FullTile("K", tile - 1)} ELSE {})
           => Coming(u, IF tile > 0 THEN {F!FullTile("K", tile - 1)} ELSE {})'
    BY <1>1, <1>2 DEF Coming, Quiet
  <2>2. Coming(u, {F!FullTile("K", next)}) => Coming(u, {F!FullTile("K", next)})'
    BY <1>1, <1>2 DEF Coming, Quiet
  <2>3. /\ LastMasked(s, tile)' <=> LastMasked(s, tile)
        /\ NextStep(s, tile)' = NextStep(s, tile)
    BY <1>1 DEF LastMasked, NextStep, Repeats
  <2>4. QED
    BY <1>1, <1>2, <1>4, <1>7, <2>1, <2>2, <2>3 DEF Folding, Place, Quiet
<1>8. QED
  BY <1>5, <1>6, <1>7

\* One warp moves, to where the others allow it.
LEMMA OneWarp ==
    ASSUME call' = call, m_block' = m_block, Lockstep, NEW w \in Warp,
           \A u \in Warp \ {w} : Quiet(u),
           \A tile : Starting(w, tile) /\ tile = FirstTile => Starting(w, tile)',
           \A s, tile \in Nat :
              Occupied /\ Visits(s, tile) /\ (\A u \in Warp : Scoring(u, s, tile)) => Scoring(w, s, tile)',
           \A s, tile \in Nat : \A next :
              /\ Occupied /\ Visits(s, tile) /\ next = NextTile(s, tile)
              /\ \A u \in Warp : Folding(u, s, tile, next)
              => Folding(w, s, tile, next)'
    PROVE  Lockstep'
<1>1. /\ FirstTile' = FirstTile /\ Occupied' = Occupied /\ F!MaskSteps' = F!MaskSteps
      /\ \A tile : F!NextLive(tile)' = F!NextLive(tile)
  BY SameCta
<1>2. ASSUME NEW s \in Nat, NEW tile \in Nat
      PROVE  /\ Visits(s, tile)' <=> Visits(s, tile)
             /\ NextTile(s, tile)' = NextTile(s, tile)
  <2>1. Visits(s, tile)' <=> Visits(s, tile)
    BY <1>1 DEF Visits
  <2>2. F!NextLive(tile - 1)' = F!NextLive(tile - 1)
    <3>1. PICK t : t = tile - 1
      OBVIOUS
    <3>2. F!NextLive(t)' = F!NextLive(t)
      BY <1>1
    <3>3. QED
      BY <3>1, <3>2 DEF F!NextLive
  <2>3. NextTile(s, tile)' = NextTile(s, tile)
    BY <1>1, <2>2 DEF NextTile, Repeats, LastMasked
  <2>4. QED
    BY <2>1, <2>3
<1>3. CASE \E tile \in {FirstTile} : \A u \in Warp : Starting(u, tile)
  <2>1. PICK tile \in {FirstTile} : \A u \in Warp : Starting(u, tile)
    BY <1>3
  <2>2. Starting(w, tile)'
    BY <2>1
  <2>3. \A u \in Warp : Starting(u, tile)'
    BY <2>1, <2>2, StaysQuiet
  <2>4. tile = FirstTile'
    BY <1>1, <2>1
  <2>5. QED
    BY <2>3, <2>4 DEF Lockstep
<1>4. CASE Occupied /\ \E s, tile \in Nat : Visits(s, tile) /\ \A u \in Warp : Scoring(u, s, tile)
  <2>1. PICK s \in Nat, tile \in Nat : Visits(s, tile) /\ \A u \in Warp : Scoring(u, s, tile)
    BY <1>4
  <2>2. Scoring(w, s, tile)'
    BY <1>4, <2>1
  <2>3. \A u \in Warp : Scoring(u, s, tile)'
    BY <2>1, <2>2, StaysQuiet
  <2>4. Occupied' /\ Visits(s, tile)'
    BY <1>1, <1>2, <1>4, <2>1
  <2>5. QED
    BY <2>3, <2>4 DEF Lockstep
<1>5. CASE Occupied /\ \E s, tile \in Nat : Visits(s, tile)
             /\ \E next \in {NextTile(s, tile)} : \A u \in Warp : Folding(u, s, tile, next)
  <2>1. PICK s \in Nat, tile \in Nat : Visits(s, tile)
             /\ \E next \in {NextTile(s, tile)} : \A u \in Warp : Folding(u, s, tile, next)
    BY <1>5
  <2>2. PICK next \in {NextTile(s, tile)} : \A u \in Warp : Folding(u, s, tile, next)
    BY <2>1
  <2>3. Folding(w, s, tile, next)'
    BY <1>5, <2>1, <2>2
  <2>4. \A u \in Warp : Folding(u, s, tile, next)'
    BY <2>2, <2>3, StaysQuiet
  <2>5. Occupied' /\ Visits(s, tile)' /\ next \in {NextTile(s, tile)}'
    BY <1>1, <1>2, <1>5, <2>1, <2>2
  <2>6. QED
    BY <2>4, <2>5 DEF Lockstep
<1>6. QED
  BY <1>3, <1>4, <1>5 DEF Lockstep

\* What a landing copy changes.
LEMMA LandIs ==
    ASSUME FwdShape, NEW w \in Warp, NEW x \in f_inflight[w],
           f_smem' = [f_smem EXCEPT ![x.slot][w] = x.src],
           f_inflight' = [f_inflight EXCEPT ![w] = @ \ {x}]
    PROVE  /\ x.slot \in {"Q", "K", "V"} => f_smem'[x.slot][w] = x.src
           /\ \A y \in {"Q", "K", "V"} \ {x.slot} : f_smem'[y][w] = f_smem[y][w]
           /\ \A y \in {"Q", "K", "V"} : \A u \in Warp \ {w} : f_smem'[y][u] = f_smem[y][u]
           /\ f_inflight'[w] = f_inflight[w] \ {x}
           /\ \A u \in Warp \ {w} : f_inflight'[u] = f_inflight[u]
<1> DEFINE slot == x.slot
           src == x.src
<1>1. f_smem' = [f_smem EXCEPT ![slot] = [f_smem[slot] EXCEPT ![w] = src]]
  OBVIOUS
<1>2. DOMAIN f_smem = {"Q", "K", "V"} /\ \A y \in {"Q", "K", "V"} : DOMAIN f_smem[y] = Warp
  BY DEF FwdShape
<1>3. DOMAIN f_inflight = Warp
  BY DEF FwdShape
<1> HIDE DEF slot, src
<1>4. slot \in {"Q", "K", "V"} => f_smem'[slot][w] = src
  BY <1>1, <1>2
<1>5. \A y \in {"Q", "K", "V"} \ {slot} : f_smem'[y] = f_smem[y]
  BY <1>1, <1>2
<1>6. \A y \in {"Q", "K", "V"} : \A u \in Warp \ {w} : f_smem'[y][u] = f_smem[y][u]
  BY <1>1, <1>2
<1>7. f_inflight'[w] = f_inflight[w] \ {x} /\ \A u \in Warp \ {w} : f_inflight'[u] = f_inflight[u]
  BY <1>3
<1>8. QED
  BY <1>4, <1>5, <1>6, <1>7 DEF slot, src

\* Copies into slots of their own land in any order.
LEMMA ComingLands ==
    ASSUME FwdShape, NEW w \in Warp, NEW x \in f_inflight[w],
           f_smem' = [f_smem EXCEPT ![x.slot][w] = x.src],
           f_inflight' = [f_inflight EXCEPT ![w] = @ \ {x}],
           NEW X, Coming(w, X), \A y \in X : y.slot \in {"Q", "K", "V"},
           \A y, z \in X : y.slot = z.slot => y = z
    PROVE  f_inflight'[w] \subseteq X /\ \A y \in X : y \in f_inflight'[w] \/ f_smem'[y.slot][w] = y.src
<1>1. x \in X /\ f_inflight'[w] = f_inflight[w] \ {x}
  BY LandIs DEF Coming
<1>2. ASSUME NEW y \in X, y \notin f_inflight'[w]
      PROVE  f_smem'[y.slot][w] = y.src
  <2>1. CASE y = x
    BY <1>1, <2>1, LandIs
  <2>2. CASE y # x
    <3>1. y \notin f_inflight[w] /\ y.slot # x.slot
      BY <1>1, <1>2, <2>2
    <3>2. f_smem[y.slot][w] = y.src
      BY <3>1 DEF Coming, Holds
    <3>3. f_smem'[y.slot][w] = f_smem[y.slot][w]
      BY <3>1, LandIs
    <3>4. QED
      BY <3>2, <3>3
  <2>3. QED
    BY <2>1, <2>2
<1>3. QED
  BY <1>1, <1>2 DEF Coming

\* A copy lands while its warp is between an issue and a wait.
LEMMA LandStep ==
    ASSUME FwdShape, Lockstep, NEW w \in Warp, F!Land(w)
    PROVE  Lockstep'
<1>1. PICK x \in f_inflight[w] :
         /\ f_smem' = [f_smem EXCEPT ![x.slot][w] = x.src]
         /\ f_inflight' = [f_inflight EXCEPT ![w] = @ \ {x}]
  BY DEF F!Land
<1>2. /\ call' = call /\ m_block' = m_block /\ f_pc' = f_pc /\ step' = step /\ n_block' = n_block
      /\ acc_s' = acc_s /\ acc_o' = acc_o
  BY DEF F!Land
<1>3. /\ x.slot \in {"Q", "K", "V"} => f_smem'[x.slot][w] = x.src
      /\ \A y \in {"Q", "K", "V"} \ {x.slot} : f_smem'[y][w] = f_smem[y][w]
      /\ \A y \in {"Q", "K", "V"} : \A u \in Warp \ {w} : f_smem'[y][u] = f_smem[y][u]
      /\ f_inflight'[w] = f_inflight[w] \ {x}
      /\ \A u \in Warp \ {w} : f_inflight'[u] = f_inflight[u]
  BY <1>1, LandIs
<1>4. \A u \in Warp \ {w} : Quiet(u)
  BY <1>2, <1>3 DEF Quiet
<1>5. /\ F!QTile' = F!QTile /\ F!MaskSteps' = F!MaskSteps /\ Occupied' = Occupied
      /\ \A s, tile : KTile(s, tile)' = KTile(s, tile) /\ VTile(s, tile)' = VTile(s, tile)
      /\ \A slot, tile : F!FullTile(slot, tile)' = F!FullTile(slot, tile)
  BY <1>2, SameCta
<1>6. /\ F!QTile.slot = "Q"
      /\ \A s, tile : KTile(s, tile).slot = "K" /\ VTile(s, tile).slot = "V"
      /\ \A slot, tile : F!FullTile(slot, tile).slot = slot
  BY CopiesAre
<1>7. (Folded(w) => Folded(w)') /\ \A tile : Scored(w, tile) => Scored(w, tile)'
  <2>1. Folded(w) => Folded(w)'
    BY <1>2, FoldedIs DEF Folded
  <2>2. QED
    BY <1>2, <2>1, FoldedIs DEF Scored
<1>8. ASSUME NEW tile, Starting(w, tile) PROVE Starting(w, tile)'
  <2>1. CASE f_pc[w] = "landK" /\ Occupied /\ Place(w, 0, tile)
             /\ Coming(w, {F!QTile, KTile(0, tile)}) /\ Folded(w)
    <3> DEFINE X == {F!QTile, KTile(0, tile)}
    <3>1. f_inflight'[w] \subseteq X /\ \A y \in X : y \in f_inflight'[w] \/ f_smem'[y.slot][w] = y.src
      <4>1. (\A y \in X : y.slot \in {"Q", "K", "V"}) /\ \A y, z \in X : y.slot = z.slot => y = z
        BY <1>6
      <4>2. Coming(w, X)
        BY <2>1
      <4> HIDE DEF X
      <4>3. QED
        BY <1>1, <4>1, <4>2, ComingLands
    <3>2. Coming(w, {F!QTile, KTile(0, tile)})'
      BY <1>5, <3>1 DEF Coming, Holds
    <3>3. QED
      BY <1>2, <1>5, <1>7, <2>1, <3>2 DEF Starting, Place
  <2>2. CASE f_pc[w] = "exit" /\ ~Occupied
    BY <1>2, <1>5, <2>2 DEF Starting
  <2>3. QED
    BY <1>1, <1>8, <2>1, <2>2 DEF Starting
<1>9. ASSUME NEW s, NEW tile, Scoring(w, s, tile) PROVE Scoring(w, s, tile)'
  <2>1. f_pc[w] = "landV" /\ Coming(w, {VTile(s, tile)}) /\ Scored(w, tile)
    BY <1>1, <1>9 DEF Scoring
  <2>2. /\ f_inflight'[w] \subseteq {VTile(s, tile)}
        /\ VTile(s, tile) \in f_inflight'[w] \/ f_smem'["V"][w] = VTile(s, tile).src
        /\ f_smem'["Q"][w] = f_smem["Q"][w] /\ f_smem'["K"][w] = f_smem["K"][w]
    <3>1. x = VTile(s, tile) /\ x.slot = "V"
      BY <1>6, <2>1 DEF Coming
    <3>2. f_inflight'[w] = {} /\ f_inflight[w] \subseteq {x}
      BY <1>3, <2>1, <3>1 DEF Coming
    <3>3. QED
      BY <1>3, <3>1, <3>2
  <2>3. Coming(w, {VTile(s, tile)})'
    BY <1>5, <1>6, <2>2 DEF Coming, Holds
  <2>4. Holds(w, F!QTile)' /\ Holds(w, KTile(s, tile))'
    BY <1>5, <1>6, <1>9, <2>2 DEF Scoring, Holds
  <2>5. QED
    BY <1>2, <1>7, <1>9, <2>1, <2>3, <2>4 DEF Scoring, Place
<1>10. ASSUME NEW s, NEW tile, NEW next, Folding(w, s, tile, next) PROVE Folding(w, s, tile, next)'
  <2>1. x.slot = "K"
    BY <1>1, <1>6, <1>10 DEF Folding, Coming
  <2>2. Holds(w, F!QTile)' /\ Holds(w, VTile(s, tile))'
    BY <1>3, <1>5, <1>6, <1>10, <2>1 DEF Folding, Holds
  <2>3. ASSUME NEW t, Coming(w, {F!FullTile("K", t)}) PROVE Coming(w, {F!FullTile("K", t)})'
    <3>1. /\ f_inflight'[w] \subseteq {F!FullTile("K", t)}
          /\ F!FullTile("K", t) \in f_inflight'[w] \/ f_smem'["K"][w] = F!FullTile("K", t).src
      <4>1. x = F!FullTile("K", t) /\ x.slot = "K"
        BY <1>6, <2>3 DEF Coming
      <4>2. f_inflight'[w] = {}
        BY <1>3, <2>3, <4>1 DEF Coming
      <4>3. QED
        BY <1>3, <4>1, <4>2
    <3>2. QED
      BY <1>5, <1>6, <3>1 DEF Coming, Holds
  <2>4. LastMasked(s, tile)' <=> LastMasked(s, tile)
    BY <1>5 DEF LastMasked
  <2>5. NextStep(s, tile)' = NextStep(s, tile)
    BY <1>5, <2>4 DEF NextStep, Repeats
  <2>6. CASE f_pc[w] = "values" /\ Place(w, s, tile) /\ f_inflight[w] = {} /\ Scored(w, tile)
    BY <1>1, <2>6
  <2>7. CASE /\ f_pc[w] = "search" /\ s < F!MaskSteps /\ LastMasked(s, tile)
             /\ Place(w, F!MaskSteps, tile - 1)
             /\ Coming(w, IF tile > 0 THEN {F!FullTile("K", tile - 1)} ELSE {})
    <3>1. tile > 0
      BY <1>1, <2>7 DEF Coming
    <3>2. Coming(w, {F!FullTile("K", tile - 1)})'
      BY <2>3, <2>7, <3>1
    <3>3. Coming(w, IF tile > 0 THEN {F!FullTile("K", tile - 1)} ELSE {})'
      BY <3>1, <3>2
    <3>4. QED
      BY <1>2, <1>5, <1>7, <1>10, <2>2, <2>4, <2>7, <3>3 DEF Folding, Place
  <2>8. CASE f_pc[w] = "landK" /\ next >= 0 /\ Place(w, NextStep(s, tile), next)
             /\ Coming(w, {F!FullTile("K", next)})
    BY <1>2, <1>5, <1>7, <1>10, <2>2, <2>3, <2>5, <2>8 DEF Folding, Place
  <2>9. CASE f_pc[w] \in {"epilogue", "exit"} /\ n_block[w] = -1 /\ next = -1
             /\ \A y \in f_inflight[w] : y.slot = "K"
    BY <1>2, <1>3, <1>7, <1>10, <2>2, <2>9 DEF Folding
  <2>10. QED
    BY <1>10, <2>6, <2>7, <2>8, <2>9 DEF Folding
<1>11. \A tile : Starting(w, tile) /\ tile = FirstTile => Starting(w, tile)'
  BY <1>8
<1>12. \A s, tile \in Nat :
          Occupied /\ Visits(s, tile) /\ (\A u \in Warp : Scoring(u, s, tile)) => Scoring(w, s, tile)'
  BY <1>9
<1>13. \A s, tile \in Nat : \A next :
          /\ Occupied /\ Visits(s, tile) /\ next = NextTile(s, tile)
          /\ \A u \in Warp : Folding(u, s, tile, next)
          => Folding(w, s, tile, next)'
  BY <1>10
<1>14. QED
  BY <1>2, <1>4, <1>11, <1>12, <1>13, OneWarp

\* Nothing is kept behind the first tile: a row starts empty.
LEMMA StartsEmpty ==
    ASSUME call \in Calls, m_block \in Nat, Occupied, NEW w \in Warp, NEW r \in RowsOf(w)
    PROVE  Summed(F!Row(r), (FirstTile + 1) * F!kN) = F!NoRow
<1> DEFINE hi == (FirstTile + 1) * F!kN
           i == F!Row(r)
<1>1. hi \in Int
  BY FirstIs, FwdCall
<1>2. r \in F!TileRow
  BY DEF RowsOf, F!Mine
<1>3. \A j \in Real(call) : (call.causal => j <= i) => j < hi
  BY <1>2, FirstIs
<1>4. \A j \in Real(call) : j \in Int
  BY DEF Real
<1> HIDE DEF hi, i
<1>5. KeysFrom(i, hi) = {}
  BY <1>1, <1>3, <1>4 DEF KeysFrom, Keeps
<1>6. Terms(i, hi) = {}
  BY <1>5 DEF Terms
<1>7. SetToBag(Terms(i, hi)) = F!EmptyBag
  BY <1>6, NoTerms, SameBags
<1>8. QED
  BY <1>5, <1>7 DEF Summed, F!NoRow, hi, i

\* The prologue of a warp.
LEMMA PrologueStep ==
    ASSUME FwdShape, Lockstep, NEW w \in Warp, F!Prologue(w)
    PROVE  Lockstep'
<1>1. /\ call' = call /\ m_block' = m_block /\ step' = step /\ f_smem' = f_smem
      /\ acc_s' = acc_s /\ acc_o' = acc_o /\ f_pc[w] = "prologue"
  BY DEF F!Prologue
<1>2. /\ DOMAIN f_pc = Warp /\ DOMAIN n_block = Warp /\ DOMAIN f_inflight = Warp
      /\ call \in Calls /\ m_block \in Nat
  BY DEF FwdShape
<1>3. IF Occupied
      THEN /\ f_pc' = [f_pc EXCEPT ![w] = "landK"]
           /\ n_block' = [n_block EXCEPT ![w] = FirstTile]
           /\ f_inflight' = [f_inflight EXCEPT ![w] = @ \cup {F!QTile, KTile(0, FirstTile)}]
      ELSE f_pc' = [f_pc EXCEPT ![w] = "exit"] /\ n_block' = n_block /\ f_inflight' = f_inflight
  <2>1. F!SeqLen = call.S /\ call.S \in Nat /\ m_block * F!kM \in Int
    BY <1>2, FwdCall
  <2>2. Occupied <=> ~(m_block * F!kM >= F!SeqLen)
    BY <2>1 DEF Occupied
  <2>3. KTile(0, FirstTile) = F!EdgeTile("K", F!NBlockMax - 1, FALSE)
    BY Zenon DEF KTile, FirstTile
  <2>4. CASE Occupied
    BY <2>2, <2>3, <2>4, Zenon DEF F!Prologue, F!Goto, F!Issue, FirstTile
  <2>5. CASE ~Occupied
    BY <2>2, <2>5 DEF F!Prologue, F!Goto
  <2>6. QED
    BY <2>4, <2>5
<1>4. \A u \in Warp \ {w} : Quiet(u)
  <2>1. CASE Occupied
    BY <1>1, <1>2, <1>3, <2>1 DEF Quiet
  <2>2. CASE ~Occupied
    BY <1>1, <1>2, <1>3, <2>2 DEF Quiet
  <2>3. QED
    BY <2>1, <2>2
<1>5. Occupied' = Occupied /\ F!QTile' = F!QTile /\ \A tile : KTile(0, tile)' = KTile(0, tile)
  BY <1>1, SameCta
<1>6. ASSUME NEW tile, Starting(w, tile), tile = FirstTile PROVE Starting(w, tile)'
  <2>1. /\ step[w] = 0 /\ f_inflight[w] = {} /\ \A r \in F!Mine(w) : acc_o[r] = F!NoRow
    BY <1>1, <1>6 DEF Starting
  <2>2. CASE ~Occupied
    BY <1>2, <1>3, <1>5, <2>2 DEF Starting
  <2>3. CASE Occupied
    <3>1. /\ f_pc'[w] = "landK" /\ n_block'[w] = tile /\ step'[w] = 0
          /\ f_inflight'[w] = {F!QTile, KTile(0, tile)}
      BY <1>1, <1>2, <1>3, <1>6, <2>1, <2>3
    <3>2. Coming(w, {F!QTile, KTile(0, tile)})'
      BY <1>5, <3>1 DEF Coming
    <3>3. \A r \in RowsOf(w) : acc_o'[r] = Summed(F!Row(r), (tile + 1) * F!kN)
      <4> TAKE r \in RowsOf(w)
      <4>1. acc_o'[r] = F!NoRow
        BY <1>1, <2>1 DEF RowsOf
      <4>2. QED
        BY <1>2, <1>6, <2>3, <4>1, StartsEmpty
    <3>4. Folded(w)'
      BY <1>1, <3>1, <3>3, FoldedIs
    <3>5. QED
      BY <1>5, <2>3, <3>1, <3>2, <3>4 DEF Starting, Place
  <2>4. QED
    BY <2>2, <2>3
<1>7. \A s, tile \in Nat :
         Occupied /\ Visits(s, tile) /\ (\A u \in Warp : Scoring(u, s, tile)) => Scoring(w, s, tile)'
  BY <1>1 DEF Scoring
<1>8. \A s, tile \in Nat : \A next :
         /\ Occupied /\ Visits(s, tile) /\ next = NextTile(s, tile)
         /\ \A u \in Warp : Folding(u, s, tile, next)
         => Folding(w, s, tile, next)'
  BY <1>1 DEF Folding
<1>9. \A tile : Starting(w, tile) /\ tile = FirstTile => Starting(w, tile)'
  BY <1>6
<1>10. QED
  BY <1>1, <1>4, <1>7, <1>8, <1>9, OneWarp

\* The scores of a warp.
LEMMA ScoresStep ==
    ASSUME FwdShape, Lockstep, NEW w \in Warp, F!Scores(w)
    PROVE  Lockstep'
<1>1. /\ call' = call /\ m_block' = m_block /\ step' = step /\ n_block' = n_block
      /\ f_smem' = f_smem /\ acc_o' = acc_o /\ f_pc[w] = "scores"
      /\ f_pc' = [f_pc EXCEPT ![w] = "landV"]
      /\ f_inflight' = [f_inflight EXCEPT ![w] = @ \cup {F!VCopy(w)}]
  BY DEF F!Scores, F!Goto, F!Issue
<1>2. /\ DOMAIN f_pc = Warp /\ DOMAIN n_block = Warp /\ DOMAIN f_inflight = Warp
      /\ call \in Calls /\ m_block \in Nat
  BY DEF FwdShape
<1>3. acc_s' = [r \in F!TileRow |->
                   IF r \notin F!Mine(w) THEN acc_s[r]
                   ELSE [q |-> F!RowIn(f_smem["Q"], r),
                         k |-> [c \in F!TileCol |-> IF F!Kept(w, n_block[w], r, c)
                                   THEN F!RowIn(f_smem["K"], c) ELSE F!NegInf]]]
  BY DEF F!Scores
<1>4. \A u \in Warp \ {w} : Quiet(u)
  <2> SUFFICES ASSUME NEW u \in Warp \ {w} PROVE Quiet(u)
    OBVIOUS
  <2>1. \A r \in F!Mine(u) : r \in F!TileRow /\ r \notin F!Mine(w)
    BY DEF F!Mine
  <2>2. \A r \in F!Mine(u) : acc_s'[r] = acc_s[r]
    BY <1>3, <2>1
  <2>3. QED
    BY <1>1, <1>2, <2>2 DEF Quiet
<1>5. /\ F!QTile' = F!QTile
      /\ \A s, tile : KTile(s, tile)' = KTile(s, tile) /\ VTile(s, tile)' = VTile(s, tile)
  BY <1>1, SameCta
<1>6. \A tile : Starting(w, tile) /\ tile = FirstTile => Starting(w, tile)'
  BY <1>1 DEF Starting
<1>7. ASSUME NEW s \in Nat, NEW tile \in Nat, Occupied, Visits(s, tile), \A u \in Warp : Scoring(u, s, tile)
      PROVE  Scoring(w, s, tile)'
  <2>1. /\ step[w] = s /\ n_block[w] = tile /\ f_inflight[w] = {}
        /\ \A u \in Warp : Holds(u, F!QTile) /\ Holds(u, KTile(s, tile))
    BY <1>1, <1>7 DEF Scoring, Place
  <2>2. F!VCopy(w) = VTile(s, tile)
    BY <2>1, Zenon DEF F!VCopy, VTile
  <2>3. Coming(w, {VTile(s, tile)})'
    <3>1. f_inflight'[w] = {VTile(s, tile)}
      BY <1>1, <1>2, <2>1, <2>2
    <3>2. QED
      BY <1>5, <3>1 DEF Coming
  <2>4. \A r \in RowsOf(w) : acc_s'[r] = ScoresOf(F!Row(r), tile)
    <3> TAKE r \in RowsOf(w)
    <3>1. r \in F!TileRow /\ r \in F!Mine(w)
      BY DEF RowsOf, F!Mine
    <3>2. acc_s'[r] = [q |-> F!RowIn(f_smem["Q"], r),
                       k |-> [c \in F!TileCol |-> IF F!Kept(w, tile, r, c)
                                 THEN F!RowIn(f_smem["K"], c) ELSE F!NegInf]]
      BY <1>3, <2>1, <3>1
    <3>3. QED
      BY <1>2, <1>7, <2>1, <3>2, ScoresAre
  <2>5. Scored(w, tile)' /\ Folded(w)'
    <3>1. Scored(w, tile)'
      BY <1>1, <2>4, FoldedIs
    <3>2. QED
      BY <1>1, <1>7, <3>1, FoldedIs DEF Folded, Scoring
  <2>6. Holds(w, F!QTile)' /\ Holds(w, KTile(s, tile))'
    BY <1>1, <1>5, <2>1 DEF Holds
  <2>7. QED
    BY <1>1, <1>2, <2>1, <2>3, <2>5, <2>6 DEF Scoring, Place
<1>8. \A s, tile \in Nat :
         Occupied /\ Visits(s, tile) /\ (\A u \in Warp : Scoring(u, s, tile)) => Scoring(w, s, tile)'
  BY <1>7
<1>9. \A s, tile \in Nat : \A next :
         /\ Occupied /\ Visits(s, tile) /\ next = NextTile(s, tile)
         /\ \A u \in Warp : Folding(u, s, tile, next)
         => Folding(w, s, tile, next)'
  BY <1>1 DEF Folding
<1>10. QED
  BY <1>1, <1>4, <1>6, <1>8, <1>9, OneWarp

\* The rows of the other warp are not folded.
LEMMA FoldsOwn ==
    ASSUME NEW w \in Warp, F!FoldRows(w)
    PROVE  /\ \A u \in Warp \ {w} : \A r \in F!Mine(u) : acc_o'[r] = acc_o[r]
           /\ \A r \in F!Mine(w) : acc_o'[r] = F!Fold(w, r)
<1>1. acc_o' = [r \in F!TileRow |-> IF r \in F!Mine(w) THEN F!Fold(w, r) ELSE acc_o[r]]
  BY DEF F!FoldRows
<1>2. \A u \in Warp \ {w} : \A r \in F!Mine(u) : r \in F!TileRow /\ r \notin F!Mine(w)
  BY DEF F!Mine
<1>3. \A r \in F!Mine(w) : r \in F!TileRow
  BY DEF F!Mine
<1>4. QED
  BY <1>1, <1>2, <1>3

\* What a warp has folded after its part of P V.
LEMMA RowsFolded ==
    ASSUME call \in Calls, m_block \in Nat, Occupied, NEW s \in Nat, NEW tile \in Nat, Visits(s, tile),
           NEW next, \A u \in Warp : Folding(u, s, tile, next),
           NEW w \in Warp, f_pc[w] = "values", F!FoldRows(w)
    PROVE  /\ step[w] = s /\ n_block[w] = tile /\ f_inflight[w] = {}
           /\ \A r \in RowsOf(w) : acc_o'[r] = Summed(F!Row(r), tile * F!kN)
<1>1. /\ step[w] = s /\ n_block[w] = tile /\ f_inflight[w] = {}
      /\ \A r \in RowsOf(w) : acc_s[r] = ScoresOf(F!Row(r), tile)
      /\ \A r \in RowsOf(w) : acc_o[r] = Summed(F!Row(r), (n_block[w] + 1) * F!kN)
      /\ \A u \in Warp : Holds(u, VTile(s, tile))
  BY DEF Folding, Place, Scored, Folded
<1>2. ASSUME NEW r \in RowsOf(w) PROVE acc_o'[r] = Summed(F!Row(r), tile * F!kN)
  <2>1. r \in F!Mine(w)
    BY DEF RowsOf
  <2>2. acc_s[r] = ScoresOf(F!Row(r), tile) /\ acc_o[r] = Summed(F!Row(r), (tile + 1) * F!kN)
    BY <1>1
  <2>3. F!Fold(w, r) = Summed(F!Row(r), tile * F!kN)
    BY <1>1, <2>2, FoldIs
  <2>4. QED
    BY <2>1, <2>3, FoldsOwn
<1>3. QED
  BY <1>1, <1>2

\* The second half of an iteration of the masking loop.
LEMMA MaskedStep ==
    ASSUME FwdShape, Lockstep, NEW w \in Warp, F!MaskedValues(w)
    PROVE  Lockstep'
<1> DEFINE to == n_block[w]
           last == step[w] + 1 = F!MaskSteps \/ (F!MaskSteps > 1 /\ to <= 0)
<1>1. /\ call' = call /\ m_block' = m_block /\ f_smem' = f_smem /\ acc_s' = acc_s
      /\ f_pc[w] = "values" /\ step[w] < F!MaskSteps /\ F!FoldRows(w)
      /\ n_block' = [n_block EXCEPT ![w] = to - 1]
      /\ step' = [step EXCEPT ![w] = IF last THEN F!MaskSteps ELSE step[w] + 1]
      /\ f_pc' = [f_pc EXCEPT ![w] = IF last THEN "search" ELSE "landK"]
      /\ IF to > 0 THEN f_inflight' = [f_inflight EXCEPT ![w] = @ \cup {F!FullTile("K", to - 1)}]
         ELSE f_inflight' = f_inflight
  BY DEF F!MaskedValues, F!Goto, F!Issue, F!Masking
<1>2. /\ DOMAIN f_pc = Warp /\ DOMAIN n_block = Warp /\ DOMAIN f_inflight = Warp /\ DOMAIN step = Warp
      /\ call \in Calls /\ m_block \in Nat
  BY DEF FwdShape
<1> HIDE DEF to, last
<1>3. \A u \in Warp \ {w} : Quiet(u)
  <2>1. \A u \in Warp \ {w} : f_inflight'[u] = f_inflight[u]
    BY <1>1, <1>2
  <2>2. \A u \in Warp \ {w} : \A r \in F!Mine(u) : acc_o'[r] = acc_o[r]
    BY <1>1, FoldsOwn
  <2>3. QED
    BY <1>1, <1>2, <2>1, <2>2 DEF Quiet
<1>4. /\ F!QTile' = F!QTile /\ F!MaskSteps' = F!MaskSteps
      /\ \A s, tile : KTile(s, tile)' = KTile(s, tile) /\ VTile(s, tile)' = VTile(s, tile)
      /\ \A x, tile : F!FullTile(x, tile)' = F!FullTile(x, tile)
  BY <1>1, SameCta
<1>5. ASSUME NEW s \in Nat, NEW tile \in Nat, NEW next, Occupied, Visits(s, tile),
             next = NextTile(s, tile), \A u \in Warp : Folding(u, s, tile, next)
      PROVE  Folding(w, s, tile, next)'
  <2>1. /\ step[w] = s /\ n_block[w] = tile /\ f_inflight[w] = {}
        /\ \A r \in RowsOf(w) : acc_o'[r] = Summed(F!Row(r), tile * F!kN)
    BY <1>1, <1>2, <1>5, RowsFolded
  <2>2. to = tile /\ (last <=> LastMasked(s, tile)) /\ s < F!MaskSteps
    BY <1>1, <2>1 DEF to, last, LastMasked
  <2>3. /\ n_block'[w] = tile - 1
        /\ step'[w] = (IF last THEN F!MaskSteps ELSE s + 1)
        /\ f_pc'[w] = (IF last THEN "search" ELSE "landK")
        /\ f_inflight'[w] = (IF tile > 0 THEN {F!FullTile("K", tile - 1)} ELSE {})
    BY <1>1, <1>2, <2>1, <2>2
  <2>4. Folded(w)'
    <3>1. (tile - 1) + 1 = tile
      OBVIOUS
    <3>2. \A r \in RowsOf(w) : acc_o'[r] = Summed(F!Row(r), (n_block'[w] + 1) * F!kN)
      BY <2>1, <2>3, <3>1
    <3>3. QED
      BY <1>1, <3>2, FoldedIs
  <2>5. Holds(w, F!QTile)' /\ Holds(w, VTile(s, tile))'
    BY <1>1, <1>4, <1>5 DEF Folding, Holds
  <2>6. /\ LastMasked(s, tile)' <=> LastMasked(s, tile)
        /\ NextStep(s, tile)' = NextStep(s, tile)
    BY <1>4 DEF LastMasked, NextStep, Repeats
  <2>7. CASE last
    <3>1. Coming(w, IF tile > 0 THEN {F!FullTile("K", tile - 1)} ELSE {})'
      BY <1>4, <2>3 DEF Coming
    <3>2. QED
      BY <1>4, <2>2, <2>3, <2>4, <2>5, <2>6, <2>7, <3>1 DEF Folding, Place
  <2>8. CASE ~last
    <3>1. Repeats(s, tile) /\ NextStep(s, tile) = s + 1 /\ next = tile - 1
      BY <1>5, <2>2, <2>8 DEF Repeats, NextStep, NextTile
    <3>2. F!MaskSteps \in Nat \ {0}
      BY <1>2, <1>5, FirstIs
    <3>3. tile > 0
      BY <2>2, <2>8, <3>2 DEF LastMasked
    <3>4. f_inflight'[w] = {F!FullTile("K", next)}
      BY <2>3, <3>1, <3>3
    <3>5. Coming(w, {F!FullTile("K", next)})'
      BY <1>4, <3>4 DEF Coming
    <3>6. QED
      BY <2>3, <2>4, <2>5, <2>6, <2>8, <3>1, <3>3, <3>5 DEF Folding, Place
  <2>9. QED
    BY <2>7, <2>8
<1>6. \A tile : Starting(w, tile) /\ tile = FirstTile => Starting(w, tile)'
  BY <1>1 DEF Starting
<1>7. \A s, tile \in Nat :
         Occupied /\ Visits(s, tile) /\ (\A u \in Warp : Scoring(u, s, tile)) => Scoring(w, s, tile)'
  BY <1>1 DEF Scoring
<1>8. \A s, tile \in Nat : \A next :
         /\ Occupied /\ Visits(s, tile) /\ next = NextTile(s, tile)
         /\ \A u \in Warp : Folding(u, s, tile, next)
         => Folding(w, s, tile, next)'
  BY <1>5
<1>9. QED
  BY <1>1, <1>3, <1>6, <1>7, <1>8, OneWarp

\* Rows that are folded down to a tile are folded down to the next live one.
LEMMA FoldedToNext ==
    ASSUME call \in Calls, m_block \in Nat, call' = call, m_block' = m_block, NEW w, NEW t \in Int, -1 <= t,
           \A r \in RowsOf(w) : acc_o'[r] = Summed(F!Row(r), (t + 1) * F!kN),
           n_block'[w] = F!NextLive(t)
    PROVE  Folded(w)'
<1> DEFINE to == F!NextLive(t)
<1>1. ASSUME NEW r \in RowsOf(w) PROVE acc_o'[r] = Summed(F!Row(r), (to + 1) * F!kN)
  <2>1. KeysFrom(F!Row(r), (to + 1) * F!kN) = KeysFrom(F!Row(r), (t + 1) * F!kN)
    BY SearchIs
  <2>2. acc_o'[r] = Summed(F!Row(r), (t + 1) * F!kN)
    OBVIOUS
  <2> HIDE DEF to
  <2>3. QED
    BY <2>1, <2>2 DEF Summed, Terms
<1>2. QED
  BY <1>1, FoldedIs

\* The second half of an iteration of the live loop.
LEMMA LiveStep ==
    ASSUME FwdShape, Lockstep, NEW w \in Warp, F!LiveValues(w)
    PROVE  Lockstep'
<1> DEFINE to == F!NextLive(n_block[w] - 1)
<1>1. /\ call' = call /\ m_block' = m_block /\ f_smem' = f_smem /\ acc_s' = acc_s /\ step' = step
      /\ f_pc[w] = "values" /\ ~(step[w] < F!MaskSteps) /\ F!FoldRows(w)
      /\ n_block' = [n_block EXCEPT ![w] = to]
      /\ f_pc' = [f_pc EXCEPT ![w] = IF to >= 0 THEN "landK" ELSE "epilogue"]
      /\ IF to >= 0 THEN f_inflight' = [f_inflight EXCEPT ![w] = @ \cup {F!FullTile("K", to)}]
         ELSE f_inflight' = f_inflight
  BY DEF F!LiveValues, F!Goto, F!Issue, F!Masking
<1>2. /\ DOMAIN f_pc = Warp /\ DOMAIN n_block = Warp /\ DOMAIN f_inflight = Warp /\ DOMAIN step = Warp
      /\ call \in Calls /\ m_block \in Nat
  BY DEF FwdShape
<1> HIDE DEF to
<1>3. \A u \in Warp \ {w} : Quiet(u)
  <2>1. \A u \in Warp \ {w} : f_inflight'[u] = f_inflight[u]
    BY <1>1, <1>2
  <2>2. \A u \in Warp \ {w} : \A r \in F!Mine(u) : acc_o'[r] = acc_o[r]
    BY <1>1, FoldsOwn
  <2>3. QED
    BY <1>1, <1>2, <2>1, <2>2 DEF Quiet
<1>4. /\ F!QTile' = F!QTile /\ F!MaskSteps' = F!MaskSteps
      /\ \A s, tile : KTile(s, tile)' = KTile(s, tile) /\ VTile(s, tile)' = VTile(s, tile)
      /\ \A x, tile : F!FullTile(x, tile)' = F!FullTile(x, tile)
  BY <1>1, SameCta
<1>5. ASSUME NEW s \in Nat, NEW tile \in Nat, NEW next, Occupied, Visits(s, tile),
             next = NextTile(s, tile), \A u \in Warp : Folding(u, s, tile, next)
      PROVE  Folding(w, s, tile, next)'
  <2>1. /\ step[w] = s /\ n_block[w] = tile /\ f_inflight[w] = {}
        /\ \A r \in RowsOf(w) : acc_o'[r] = Summed(F!Row(r), tile * F!kN)
    BY <1>1, <1>2, <1>5, RowsFolded
  <2>2. F!MaskSteps \in Nat \ {0}
    BY <1>2, <1>5, FirstIs
  <2>3. s = F!MaskSteps /\ NextStep(s, tile) = s
    BY <1>1, <1>5, <2>1, <2>2 DEF Visits, NextStep, Repeats
  <2>4. to = F!NextLive(tile - 1) /\ next = to
    BY <1>5, <2>1, <2>3 DEF to, NextTile, Repeats
  <2>5. to \in Int /\ -1 <= to
    <3>1. PICK t \in Int : t = tile - 1 /\ -1 <= t
      OBVIOUS
    <3>2. QED
      BY <1>2, <2>4, <3>1, SearchIs
  <2>6. Folded(w)'
    <3>1. PICK t \in Int : t = tile - 1 /\ -1 <= t /\ t + 1 = tile
      OBVIOUS
    <3>2. \A r \in RowsOf(w) : acc_o'[r] = Summed(F!Row(r), (t + 1) * F!kN)
      BY <2>1, <3>1
    <3>3. n_block'[w] = F!NextLive(t)
      BY <1>1, <1>2, <2>4, <3>1
    <3>4. QED
      BY <1>1, <1>2, <3>1, <3>2, <3>3, FoldedToNext
  <2>7. Holds(w, F!QTile)' /\ Holds(w, VTile(s, tile))'
    BY <1>1, <1>4, <1>5 DEF Folding, Holds
  <2>8. NextStep(s, tile)' = NextStep(s, tile)
    BY <1>4 DEF LastMasked, NextStep, Repeats
  <2>9. CASE to >= 0
    <3>1. f_inflight'[w] = {F!FullTile("K", next)} /\ f_pc'[w] = "landK"
      BY <1>1, <1>2, <2>1, <2>4, <2>9
    <3>2. Coming(w, {F!FullTile("K", next)})'
      BY <1>4, <3>1 DEF Coming
    <3>3. step'[w] = NextStep(s, tile) /\ n_block'[w] = next
      BY <1>1, <1>2, <2>1, <2>3, <2>4
    <3>4. QED
      BY <2>4, <2>6, <2>7, <2>8, <2>9, <3>1, <3>2, <3>3 DEF Folding, Place
  <2>10. CASE ~(to >= 0)
    <3>1. to = -1 /\ f_inflight'[w] = {} /\ f_pc'[w] = "epilogue" /\ n_block'[w] = -1
      BY <1>1, <1>2, <2>1, <2>5, <2>10
    <3>2. QED
      BY <2>4, <2>6, <2>7, <3>1 DEF Folding
  <2>11. QED
    BY <2>9, <2>10
<1>6. \A tile : Starting(w, tile) /\ tile = FirstTile => Starting(w, tile)'
  BY <1>1 DEF Starting
<1>7. \A s, tile \in Nat :
         Occupied /\ Visits(s, tile) /\ (\A u \in Warp : Scoring(u, s, tile)) => Scoring(w, s, tile)'
  BY <1>1 DEF Scoring
<1>8. \A s, tile \in Nat : \A next :
         /\ Occupied /\ Visits(s, tile) /\ next = NextTile(s, tile)
         /\ \A u \in Warp : Folding(u, s, tile, next)
         => Folding(w, s, tile, next)'
  BY <1>5
<1>9. QED
  BY <1>1, <1>3, <1>6, <1>7, <1>8, OneWarp

\* The search between the loops.
LEMMA SearchStep ==
    ASSUME FwdShape, Lockstep, NEW w \in Warp, F!Search(w)
    PROVE  Lockstep'
<1> DEFINE to == F!NextLive(n_block[w])
<1>1. /\ call' = call /\ m_block' = m_block /\ f_smem' = f_smem /\ acc_s' = acc_s /\ acc_o' = acc_o
      /\ step' = step /\ f_pc[w] = "search"
      /\ n_block' = [n_block EXCEPT ![w] = to]
      /\ f_pc' = [f_pc EXCEPT ![w] = IF to >= 0 THEN "landK" ELSE "epilogue"]
      /\ IF to >= 0 /\ to # n_block[w]
         THEN f_inflight[w] = {} /\ f_inflight' = [f_inflight EXCEPT ![w] = @ \cup {F!FullTile("K", to)}]
         ELSE f_inflight' = f_inflight
  BY DEF F!Search, F!Goto, F!Issue, F!Waited
<1>2. /\ DOMAIN f_pc = Warp /\ DOMAIN n_block = Warp /\ DOMAIN f_inflight = Warp /\ DOMAIN step = Warp
      /\ call \in Calls /\ m_block \in Nat
  BY DEF FwdShape
<1> HIDE DEF to
<1>3. \A u \in Warp \ {w} : Quiet(u)
  <2>1. \A u \in Warp \ {w} : f_inflight'[u] = f_inflight[u]
    BY <1>1, <1>2
  <2>2. QED
    BY <1>1, <1>2, <2>1 DEF Quiet
<1>4. /\ F!QTile' = F!QTile /\ F!MaskSteps' = F!MaskSteps
      /\ \A s, tile : KTile(s, tile)' = KTile(s, tile) /\ VTile(s, tile)' = VTile(s, tile)
      /\ \A x, tile : F!FullTile(x, tile)' = F!FullTile(x, tile)
  BY <1>1, SameCta
<1>5. ASSUME NEW s \in Nat, NEW tile \in Nat, NEW next, Occupied, Visits(s, tile),
             next = NextTile(s, tile), \A u \in Warp : Folding(u, s, tile, next)
      PROVE  Folding(w, s, tile, next)'
  <2>1. /\ s < F!MaskSteps /\ LastMasked(s, tile) /\ step[w] = F!MaskSteps /\ n_block[w] = tile - 1
        /\ Coming(w, IF tile > 0 THEN {F!FullTile("K", tile - 1)} ELSE {})
        /\ Folded(w)
    BY <1>1, <1>5 DEF Folding, Place
  <2>2. NextStep(s, tile) = F!MaskSteps /\ next = to
    BY <1>5, <2>1 DEF NextStep, Repeats, NextTile, to
  <2>3. PICK t \in Int : t = tile - 1 /\ -1 <= t /\ t + 1 = tile
    OBVIOUS
  <2>4. to = F!NextLive(t) /\ to \in Int /\ -1 <= to /\ to <= t
    BY <1>2, <2>1, <2>3, SearchIs DEF to
  <2>5. Folded(w)'
    <3>1. \A r \in RowsOf(w) : acc_o'[r] = Summed(F!Row(r), (t + 1) * F!kN)
      BY <1>1, <2>1, <2>3 DEF Folded
    <3>2. n_block'[w] = F!NextLive(t)
      BY <1>1, <1>2, <2>4
    <3>3. QED
      BY <1>1, <1>2, <2>3, <3>1, <3>2, FoldedToNext
  <2>6. Holds(w, F!QTile)' /\ Holds(w, VTile(s, tile))'
    BY <1>1, <1>4, <1>5 DEF Folding, Holds
  <2>7. NextStep(s, tile)' = NextStep(s, tile)
    BY <1>4 DEF LastMasked, NextStep, Repeats
  <2>8. CASE to >= 0
    <3>1. Coming(w, {F!FullTile("K", next)})'
      <4>1. CASE to # n_block[w]
        <5>1. f_inflight'[w] = {F!FullTile("K", next)}
          BY <1>1, <1>2, <2>2, <2>8, <4>1
        <5>2. QED
          BY <1>4, <5>1 DEF Coming
      <4>2. CASE to = n_block[w]
        <5>1. f_inflight' = f_inflight /\ tile > 0 /\ tile - 1 = next
          BY <1>1, <2>1, <2>2, <2>8, <4>2
        <5>2. Coming(w, {F!FullTile("K", next)})
          BY <2>1, <5>1
        <5>3. Holds(w, F!FullTile("K", next))' <=> Holds(w, F!FullTile("K", next))
          BY <1>1, <1>4 DEF Holds
        <5>4. QED
          BY <1>4, <5>1, <5>2, <5>3 DEF Coming
      <4>3. QED
        BY <4>1, <4>2
    <3>2. step'[w] = NextStep(s, tile) /\ n_block'[w] = next /\ f_pc'[w] = "landK"
      BY <1>1, <1>2, <2>1, <2>2, <2>8
    <3>3. QED
      BY <2>2, <2>5, <2>6, <2>7, <2>8, <3>1, <3>2 DEF Folding, Place
  <2>9. CASE ~(to >= 0)
    <3>1. to = -1 /\ f_inflight'[w] = f_inflight[w] /\ f_pc'[w] = "epilogue" /\ n_block'[w] = -1
      BY <1>1, <1>2, <2>4, <2>9
    <3>2. \A x \in f_inflight[w] : x.slot = "K"
      BY <2>1, CopiesAre DEF Coming
    <3>3. QED
      BY <2>2, <2>5, <2>6, <3>1, <3>2 DEF Folding
  <2>10. QED
    BY <2>8, <2>9
<1>6. \A tile : Starting(w, tile) /\ tile = FirstTile => Starting(w, tile)'
  BY <1>1 DEF Starting
<1>7. \A s, tile \in Nat :
         Occupied /\ Visits(s, tile) /\ (\A u \in Warp : Scoring(u, s, tile)) => Scoring(w, s, tile)'
  BY <1>1 DEF Scoring
<1>8. \A s, tile \in Nat : \A next :
         /\ Occupied /\ Visits(s, tile) /\ next = NextTile(s, tile)
         /\ \A u \in Warp : Folding(u, s, tile, next)
         => Folding(w, s, tile, next)'
  BY <1>5
<1>9. QED
  BY <1>1, <1>3, <1>6, <1>7, <1>8, OneWarp

\* The epilogue of a warp.
LEMMA EpilogueStep ==
    ASSUME FwdShape, Lockstep, NEW w \in Warp, F!Epilogue(w)
    PROVE  Lockstep'
<1>1. /\ call' = call /\ m_block' = m_block /\ f_smem' = f_smem /\ acc_s' = acc_s /\ acc_o' = acc_o
      /\ step' = step /\ n_block' = n_block /\ f_inflight' = f_inflight /\ f_pc[w] = "epilogue"
      /\ f_pc' = [f_pc EXCEPT ![w] = "exit"]
  BY DEF F!Epilogue, F!Goto
<1>2. DOMAIN f_pc = Warp
  BY DEF FwdShape
<1>3. \A u \in Warp \ {w} : Quiet(u)
  BY <1>1, <1>2 DEF Quiet
<1>4. /\ F!QTile' = F!QTile
      /\ \A s, tile : KTile(s, tile)' = KTile(s, tile) /\ VTile(s, tile)' = VTile(s, tile)
  BY <1>1, SameCta
<1>5. ASSUME NEW s, NEW tile, NEW next, Folding(w, s, tile, next)
      PROVE  Folding(w, s, tile, next)'
  <2>1. Folded(w)'
    BY <1>1, <1>5, FoldedIs DEF Folding, Folded
  <2>2. Holds(w, F!QTile)' /\ Holds(w, VTile(s, tile))'
    BY <1>1, <1>4, <1>5 DEF Folding, Holds
  <2>3. QED
    BY <1>1, <1>2, <1>5, <2>1, <2>2 DEF Folding
<1>6. \A tile : Starting(w, tile) /\ tile = FirstTile => Starting(w, tile)'
  BY <1>1 DEF Starting
<1>7. \A s, tile \in Nat :
         Occupied /\ Visits(s, tile) /\ (\A u \in Warp : Scoring(u, s, tile)) => Scoring(w, s, tile)'
  BY <1>1 DEF Scoring
<1>8. \A s, tile \in Nat : \A next :
         /\ Occupied /\ Visits(s, tile) /\ next = NextTile(s, tile)
         /\ \A u \in Warp : Folding(u, s, tile, next)
         => Folding(w, s, tile, next)'
  BY <1>5
<1>9. QED
  BY <1>1, <1>3, <1>6, <1>7, <1>8, OneWarp

\* The tile after a visited one is visited.
LEMMA VisitsNext ==
    ASSUME call \in Calls, m_block \in Nat, Occupied, NEW s \in Nat, NEW tile \in Nat, Visits(s, tile),
           NextTile(s, tile) >= 0
    PROVE  NextStep(s, tile) \in Nat \ {0} /\ NextTile(s, tile) \in Nat /\ Visits(NextStep(s, tile), NextTile(s, tile))
<1>1. F!MaskSteps \in Nat \ {0} /\ FirstTile \in Nat
  BY FirstIs
<1>2. CASE Repeats(s, tile)
  <2>1. NextStep(s, tile) = s + 1 /\ NextTile(s, tile) = tile - 1 /\ s < F!MaskSteps /\ s + 1 # F!MaskSteps
    BY <1>2 DEF NextStep, NextTile, Repeats, LastMasked
  <2>2. QED
    BY <1>1, <2>1 DEF Visits
<1>3. CASE ~Repeats(s, tile)
  <2>1. PICK t \in Int : t = tile - 1 /\ -1 <= t
    OBVIOUS
  <2>2. NextStep(s, tile) = F!MaskSteps /\ NextTile(s, tile) = F!NextLive(t)
    BY <1>3, <2>1 DEF NextStep, NextTile
  <2>3. F!NextLive(t) \in Int /\ F!NextLive(t) <= t
    BY <2>1, SearchIs
  <2>4. s \in Nat /\ s <= F!MaskSteps /\ tile + s <= FirstTile
    BY <1>1 DEF Visits
  <2>5. s < F!MaskSteps => s + 1 = F!MaskSteps
    <3>1. SUFFICES ASSUME s < F!MaskSteps, s + 1 # F!MaskSteps PROVE FALSE
      OBVIOUS
    <3>2. tile <= 0
      BY <1>3, <3>1 DEF Repeats, LastMasked
    <3>3. QED
      BY <2>1, <2>2, <2>3, <3>2
  <2>6. QED
    BY <1>1, <2>1, <2>2, <2>3, <2>4, <2>5 DEF Visits
<1>4. QED
  BY <1>2, <1>3

\* The barrier.
LEMMA SyncStep ==
    ASSUME FwdShape, Lockstep, F!Sync
    PROVE  Lockstep'
<1>1. /\ call' = call /\ m_block' = m_block /\ f_smem' = f_smem /\ acc_s' = acc_s /\ acc_o' = acc_o
      /\ step' = step /\ n_block' = n_block /\ f_inflight' = f_inflight
      /\ \A w \in Warp : f_pc[w] \in {"landK", "landV"} /\ f_inflight[w] = {}
      /\ \A w \in Warp : f_pc'[w] = IF f_pc[w] = "landK" THEN "scores" ELSE "values"
  <2>1. /\ \A w \in Warp : f_pc[w] \in {"landK", "landV"} /\ F!Waited(w)
        /\ f_pc' = [w \in Warp |-> IF f_pc[w] = "landK" THEN "scores" ELSE "values"]
        /\ UNCHANGED <<call, m_block, step, n_block, f_smem, f_inflight, acc_s, acc_o, written>>
    BY DEF F!Sync, F!Warp, Warp
  <2>2. \A w \in Warp : f_inflight[w] = {}
    BY <2>1 DEF F!Waited
  <2>3. QED
    BY <2>1, <2>2
<1>2. call \in Calls /\ m_block \in Nat
  BY DEF FwdShape
<1>3. /\ F!QTile' = F!QTile /\ F!MaskSteps' = F!MaskSteps /\ Occupied' = Occupied /\ FirstTile' = FirstTile
      /\ \A s, tile : KTile(s, tile)' = KTile(s, tile) /\ VTile(s, tile)' = VTile(s, tile)
      /\ \A x, tile : F!FullTile(x, tile)' = F!FullTile(x, tile)
      /\ \A tile : F!NextLive(tile)' = F!NextLive(tile)
  BY <1>1, SameCta
<1>4. \A w : (Folded(w) => Folded(w)') /\ \A tile : Scored(w, tile) => Scored(w, tile)'
  <2> TAKE w
  <2>1. Folded(w) => Folded(w)'
    BY <1>1, FoldedIs DEF Folded
  <2>2. QED
    BY <1>1, <2>1, FoldedIs DEF Scored
<1>5. /\ \A w : Holds(w, F!QTile) => Holds(w, F!QTile)'
      /\ \A w, s, tile : /\ Holds(w, KTile(s, tile)) => Holds(w, KTile(s, tile))'
                         /\ Holds(w, VTile(s, tile)) => Holds(w, VTile(s, tile))'
  BY <1>1, <1>3 DEF Holds
<1>6. \A s, tile : Visits(s, tile)' <=> Visits(s, tile)
  BY <1>3 DEF Visits
<1>7. ASSUME NEW s \in Nat, NEW tile \in Nat, Occupied, Visits(s, tile),
             \A w \in Warp : /\ Place(w, s, tile) /\ Folded(w) /\ f_pc[w] = "landK"
                             /\ Holds(w, F!QTile) /\ Holds(w, KTile(s, tile))
      PROVE  Lockstep'
  <2>1. \A w \in Warp : Scoring(w, s, tile)'
    BY <1>1, <1>4, <1>5, <1>7 DEF Scoring, Place
  <2>2. QED
    BY <1>3, <1>6, <1>7, <2>1 DEF Lockstep
<1>8. CASE \E tile \in {FirstTile} : \A w \in Warp : Starting(w, tile)
  <2> DEFINE tile == FirstTile
  <2>1. \A w \in Warp : /\ f_pc[w] = "landK" /\ Occupied /\ Place(w, 0, tile)
                        /\ Coming(w, {F!QTile, KTile(0, tile)}) /\ Folded(w)
    BY <1>1, <1>8 DEF Starting
  <2>2. \A w \in Warp : Holds(w, F!QTile) /\ Holds(w, KTile(0, tile))
    BY <1>1, <2>1 DEF Coming
  <2>3. Occupied
    BY <2>1 DEF Warp
  <2>4. FirstTile \in Nat /\ F!MaskSteps \in Nat \ {0}
    BY <1>2, <2>3, FirstIs
  <2>5. Visits(0, tile)
    BY <2>4 DEF Visits
  <2> HIDE DEF tile
  <2>6. tile \in Nat
    BY <2>4 DEF tile
  <2>7. PICK s \in Nat : s = 0
    OBVIOUS
  <2>8. QED
    BY <1>7, <2>1, <2>2, <2>3, <2>5, <2>6, <2>7
<1>9. CASE Occupied /\ \E s, tile \in Nat : Visits(s, tile) /\ \A w \in Warp : Scoring(w, s, tile)
  <2>1. PICK s \in Nat, tile \in Nat : Visits(s, tile) /\ \A w \in Warp : Scoring(w, s, tile)
    BY <1>9
  <2>2. \A w \in Warp : f_pc[w] = "landV" /\ Coming(w, {VTile(s, tile)}) /\ Scored(w, tile)
    BY <1>1, <2>1 DEF Scoring
  <2>3. \A w \in Warp : Holds(w, VTile(s, tile))
    BY <1>1, <2>2 DEF Coming
  <2>4. ASSUME NEW w \in Warp, NEW next PROVE Folding(w, s, tile, next)'
    <3>1. f_pc'[w] = "values" /\ f_inflight'[w] = {} /\ step'[w] = s /\ n_block'[w] = tile
      BY <1>1, <2>1, <2>2 DEF Scoring, Place
    <3>2. Folded(w)' /\ Scored(w, tile)' /\ Holds(w, F!QTile)' /\ Holds(w, VTile(s, tile))'
      BY <1>4, <1>5, <2>1, <2>2, <2>3 DEF Scoring
    <3>3. QED
      BY <3>1, <3>2 DEF Folding, Place
  <2>5. Visits(s, tile)'
    BY <1>6, <2>1
  <2>6. \E next \in {NextTile(s, tile)'} : \A w \in Warp : Folding(w, s, tile, next)'
    BY <2>4
  <2>7. QED
    BY <1>3, <1>9, <2>1, <2>5, <2>6 DEF Lockstep
<1>10. CASE Occupied /\ \E s, tile \in Nat : Visits(s, tile)
             /\ \E next \in {NextTile(s, tile)} : \A w \in Warp : Folding(w, s, tile, next)
  <2>1. PICK s \in Nat, tile \in Nat : Visits(s, tile)
             /\ \E next \in {NextTile(s, tile)} : \A w \in Warp : Folding(w, s, tile, next)
    BY <1>10
  <2>2. PICK next \in {NextTile(s, tile)} : \A w \in Warp : Folding(w, s, tile, next)
    BY <2>1
  <2>3. \A w \in Warp : /\ f_pc[w] = "landK" /\ next >= 0 /\ Place(w, NextStep(s, tile), next)
                        /\ Coming(w, {F!FullTile("K", next)}) /\ Holds(w, F!QTile) /\ Folded(w)
    BY <1>1, <2>2 DEF Folding
  <2>4. next >= 0 /\ next = NextTile(s, tile)
    BY <2>2, <2>3 DEF Warp
  <2>5. NextStep(s, tile) \in Nat \ {0} /\ next \in Nat /\ Visits(NextStep(s, tile), next)
    BY <1>2, <1>10, <2>1, <2>4, VisitsNext
  <2>6. PICK t \in Nat : t = NextStep(s, tile) /\ t # 0
    BY <2>5
  <2>7. KTile(t, next) = F!FullTile("K", next)
    BY <2>6, Zenon DEF KTile
  <2>8. \A w \in Warp : Holds(w, F!FullTile("K", next))
    BY <1>1, <2>3 DEF Coming
  <2>9. \A w \in Warp : /\ Place(w, t, next) /\ Folded(w) /\ f_pc[w] = "landK"
                        /\ Holds(w, F!QTile) /\ Holds(w, KTile(t, next))
    BY <2>3, <2>6, <2>7, <2>8
  <2>10. next \in Nat /\ Visits(t, next)
    BY <2>5, <2>6
  <2>11. QED
    BY <1>7, <1>10, <2>6, <2>9, <2>10
<1>11. QED
  BY <1>8, <1>9, <1>10 DEF Lockstep

\* The next CTA starts.
LEMMA NextCtaStep ==
    ASSUME FwdShape, F!NextCta
    PROVE  Lockstep'
<1>1. /\ \A w \in Warp : f_pc'[w] = "prologue" /\ step'[w] = 0 /\ f_inflight'[w] = {}
      /\ acc_o' = [r \in F!TileRow |-> F!NoRow] /\ call' = call
  BY DEF F!NextCta, F!Warp, Warp
<1>2. \A w \in Warp : \A r \in F!Mine(w)' : acc_o'[r] = F!NoRow'
  <2>1. F!TileRow' = F!TileRow /\ F!NoRow' = F!NoRow
    BY <1>1 DEF F!TileRow, F!kM, F!NoRow
  <2>2. QED
    BY <1>1, <2>1 DEF F!Mine
<1>3. \A tile, w : w \in Warp => Starting(w, tile)'
  BY <1>1, <1>2 DEF Starting
<1>4. QED
  BY <1>3 DEF Lockstep

\* The stored rows stay stored.
LEMMA StoredSame ==
    ASSUME call' = call, NEW i, written'[i] = written[i]
    PROVE  Stored(i)' <=> Stored(i)
  BY DEF Stored, Terms, KeysFrom

\* A step that stores nothing and ends no warp of a CTA inside the sequence.
LEMMA StoredStays ==
    ASSUME FwdShape, RowsStored, call' = call, m_block' = m_block, written' = written,
           \A w \in Warp : f_pc'[w] = "exit" => f_pc[w] = "exit" \/ ~Occupied
    PROVE  RowsStored'
<1>1. ASSUME NEW i \in Real(call)
      PROVE  (written'[i].lse = "none" \/ Stored(i)') /\ (i < m_block' * F!kM' => Stored(i)')
  <2>1. F!kM' = F!kM
    BY SameCta
  <2>2. QED
    BY <2>1, StoredSame DEF RowsStored
<1>2. ASSUME NEW i \in Real(call), NEW w \in Warp, NEW r \in F!Mine(w), f_pc'[w] = "exit", i = F!Row(r)
      PROVE  Stored(i)'
  <2>1. CASE f_pc[w] = "exit"
    BY <1>2, <2>1, StoredSame DEF RowsStored
  <2>2. CASE ~Occupied
    <3>1. F!kM \in Nat \ {0} /\ call.S \in Nat \ {0} /\ call.L \in Nat \ {0} /\ call.L <= call.S
      BY FwdCall DEF FwdShape
    <3>2. i \in Int /\ i < call.L /\ i = m_block * F!kM + r /\ r \in 0 .. F!kM - 1 /\ m_block \in Nat
      BY <1>2, <3>1 DEF Real, F!Row, F!Mine, F!TileRow, FwdShape
    <3>3. m_block * F!kM \in Int
      BY <3>1, <3>2
    <3>4. QED
      BY <2>2, <3>1, <3>2, <3>3 DEF Occupied
  <2>3. QED
    BY <1>2, <2>1, <2>2
<1>3. (\A r : F!Row(r)' = F!Row(r)) /\ \A w : F!Mine(w)' = F!Mine(w)
  BY SameCta
<1>4. Real(call)' = Real(call)
  BY DEF Real
<1>5. ASSUME NEW i \in Real(call), NEW w \in Warp, NEW r \in F!Mine(w)
      PROVE  f_pc'[w] = "exit" /\ i = F!Row(r)' => Stored(i)'
  BY <1>2, <1>3, <1>5
<1>6. QED
  BY <1>1, <1>3, <1>4, <1>5 DEF RowsStored

\* The epilogue stores the rows of its warp.
LEMMA EpilogueStores ==
    ASSUME FwdShape, Lockstep, RowsStored, NEW w \in Warp, F!Epilogue(w)
    PROVE  RowsStored'
<1>1. /\ call' = call /\ m_block' = m_block /\ f_pc[w] = "epilogue"
      /\ f_pc' = [f_pc EXCEPT ![w] = "exit"]
      /\ written' = [i \in DOMAIN written |->
            IF i - m_block * F!kM \in F!Mine(w)
            THEN [sum |-> acc_o[i - m_block * F!kM].sum, nan |-> acc_o[i - m_block * F!kM].nan,
                  lse |-> IF acc_o[i - m_block * F!kM].seen /\ ~acc_o[i - m_block * F!kM].nan
                          THEN "finite" ELSE "inf"]
            ELSE written[i]]
  BY DEF F!Epilogue, F!Goto
<1>2. /\ DOMAIN f_pc = Warp /\ call \in Calls /\ m_block \in Nat /\ DOMAIN written = 0 .. call.S - 1
  BY DEF FwdShape
<1>3. F!kM \in Nat \ {0} /\ call.S \in Nat \ {0} /\ call.L \in Nat \ {0} /\ call.L <= call.S
  BY <1>2, FwdCall
<1>4. Folded(w) /\ n_block[w] = -1
  BY <1>1 DEF Lockstep, Starting, Scoring, Folding
<1>5. \A r \in RowsOf(w) : acc_o[r] = Summed(F!Row(r), 0)
  <2>1. ((-1) + 1) * F!kN = 0
    <3>1. F!kN \in Nat
      BY <1>2, FwdCall
    <3>2. QED
      BY <3>1
  <2>2. \A r \in RowsOf(w) : acc_o[r] = Summed(F!Row(r), ((-1) + 1) * F!kN)
    BY <1>4 DEF Folded
  <2>3. QED
    BY <2>1, <2>2
<1>6. \A i \in Real(call) : i \in DOMAIN written /\ i \in Int /\ 0 <= i
  BY <1>2, <1>3 DEF Real
<1>7. ASSUME NEW i \in Real(call), i - m_block * F!kM \in F!Mine(w) PROVE Stored(i)'
  <2> DEFINE r == i - m_block * F!kM
  <2>1. m_block * F!kM \in Int
    BY <1>2, <1>3
  <2>2. F!Row(r) = i
    BY <1>6, <2>1 DEF F!Row
  <2>3. r \in RowsOf(w)
    BY <1>7, <2>2 DEF RowsOf
  <2>4. acc_o[r] = Summed(i, 0)
    BY <1>5, <2>2, <2>3
  <2>5. written'[i] = [sum |-> acc_o[r].sum, nan |-> acc_o[r].nan,
                       lse |-> IF acc_o[r].seen /\ ~acc_o[r].nan THEN "finite" ELSE "inf"]
    BY <1>1, <1>6, <1>7
  <2> HIDE DEF r
  <2>6. acc_o[r].sum = SetToBag(Terms(i, 0)) /\ acc_o[r].nan = FALSE /\ acc_o[r].seen = (KeysFrom(i, 0) # {})
    <3> DEFINE sum == SetToBag(Terms(i, 0))
               some == KeysFrom(i, 0) # {}
    <3>1. acc_o[r] = [seen |-> some, sum |-> sum, nan |-> FALSE]
      BY <2>4 DEF Summed
    <3> HIDE DEF sum, some
    <3>2. acc_o[r].sum = sum
      BY <3>1
    <3>3. acc_o[r].nan = FALSE
      BY <3>1
    <3>4. acc_o[r].seen = some
      BY <3>1
    <3>5. QED
      BY <3>2, <3>3, <3>4 DEF sum, some
  <2>7. written'[i] = [sum |-> SetToBag(Terms(i, 0)), nan |-> FALSE,
                       lse |-> IF KeysFrom(i, 0) = {} THEN "inf" ELSE "finite"]
    BY <2>5, <2>6
  <2>8. KeysFrom(i, 0)' = KeysFrom(i, 0) /\ Terms(i, 0)' = Terms(i, 0)
    BY <1>1 DEF KeysFrom, Terms
  <2>9. QED
    BY <2>7, <2>8 DEF Stored
<1>8. ASSUME NEW i \in Real(call), i - m_block * F!kM \notin F!Mine(w) PROVE Stored(i)' <=> Stored(i)
  <2>1. written'[i] = written[i]
    BY <1>1, <1>6, <1>8
  <2>2. QED
    BY <1>1, <2>1, StoredSame
<1>9. ASSUME NEW i \in Real(call)
      PROVE  (written'[i].lse = "none" \/ Stored(i)') /\ (i < m_block' * F!kM' => Stored(i)')
  <2>1. F!kM' = F!kM
    BY <1>1, SameCta
  <2>2. CASE i - m_block * F!kM \in F!Mine(w)
    BY <1>7, <2>2
  <2>3. CASE i - m_block * F!kM \notin F!Mine(w)
    <3>1. written'[i] = written[i]
      BY <1>1, <1>6, <2>3
    <3>2. QED
      BY <1>1, <1>8, <2>1, <2>3, <3>1 DEF RowsStored
  <2>4. QED
    BY <2>2, <2>3
<1>10. (\A r : F!Row(r)' = F!Row(r)) /\ \A u : F!Mine(u)' = F!Mine(u)
  BY <1>1, SameCta
<1>11. ASSUME NEW i \in Real(call), NEW u \in Warp, NEW r \in F!Mine(u), f_pc'[u] = "exit", i = F!Row(r)
       PROVE  Stored(i)'
  <2>1. i - m_block * F!kM = r
    <3>1. m_block * F!kM \in Int /\ r \in Int
      BY <1>2, <1>3 DEF F!Mine, F!TileRow
    <3>2. QED
      BY <1>11, <3>1 DEF F!Row
  <2>2. CASE u = w
    BY <1>7, <1>11, <2>1, <2>2
  <2>3. CASE u # w
    <3>1. f_pc[u] = "exit"
      BY <1>1, <1>2, <1>11, <2>3
    <3>2. r \notin F!Mine(w)
      BY <2>3 DEF F!Mine
    <3>3. QED
      BY <1>8, <1>11, <2>1, <3>1, <3>2 DEF RowsStored
  <2>4. QED
    BY <2>2, <2>3
<1>12. Real(call)' = Real(call)
  BY <1>1 DEF Real
<1>13. ASSUME NEW i \in Real(call), NEW u \in Warp, NEW r \in F!Mine(u)
       PROVE  f_pc'[u] = "exit" /\ i = F!Row(r)' => Stored(i)'
  BY <1>10, <1>11, <1>13
<1>14. QED
  BY <1>9, <1>10, <1>12, <1>13 DEF RowsStored

\* The rows of a CTA that is done.
LEMMA BlockStored ==
    ASSUME FwdShape, RowsStored, \A w \in Warp : f_pc[w] = "exit",
           NEW i \in Real(call), i < (m_block + 1) * F!kM
    PROVE  Stored(i)
<1> DEFINE a == m_block * F!kM
           r == i - a
<1>1. F!kM \in Nat \ {0} /\ m_block \in Nat /\ i \in Int
  BY FwdCall DEF FwdShape, Real
<1>2. a \in Int /\ (m_block + 1) * F!kM = a + F!kM
  BY <1>1
<1> HIDE DEF a
<1>3. CASE i < a
  BY <1>3 DEF RowsStored, a
<1>4. CASE ~(i < a)
  <2>1. r \in F!TileRow /\ i = a + r
    BY <1>1, <1>2, <1>4 DEF F!TileRow
  <2>2. r % 2 \in Warp
    BY <2>1 DEF F!TileRow, Warp
  <2>3. i = F!Row(r)
    BY <2>1 DEF F!Row, a
  <2>4. PICK w \in Warp : r \in F!Mine(w)
    BY <2>1, <2>2 DEF F!Mine
  <2>5. QED
    BY <2>3, <2>4 DEF RowsStored
<1>5. QED
  BY <1>3, <1>4

\* The next CTA leaves the rows of the earlier ones stored.
LEMMA NextCtaStores ==
    ASSUME FwdShape, RowsStored, F!NextCta
    PROVE  RowsStored'
<1>1. /\ \A w \in Warp : f_pc[w] = "exit" /\ f_pc'[w] = "prologue"
      /\ m_block' = m_block + 1 /\ call' = call /\ written' = written
  BY DEF F!NextCta, F!Warp, Warp
<1>2. F!kM' = F!kM /\ Real(call)' = Real(call)
  BY <1>1 DEF F!kM, Real
<1>3. ASSUME NEW i \in Real(call)
      PROVE  (written'[i].lse = "none" \/ Stored(i)') /\ (i < m_block' * F!kM' => Stored(i)')
  <2>1. Stored(i)' <=> Stored(i)
    BY <1>1, StoredSame
  <2>2. i < (m_block + 1) * F!kM => Stored(i)
    BY <1>1, BlockStored
  <2>3. QED
    BY <1>1, <1>2, <2>1, <2>2 DEF RowsStored
<1>4. QED
  BY <1>1, <1>2, <1>3 DEF RowsStored

\* The shape of the forward's state.
LEMMA ShapeStays ==
    ASSUME FwdShape, F!FwdNext
    PROVE  FwdShape'
<1> USE DEF F!Warp, Warp
<1>1. ASSUME call' = call, m_block' = m_block, DOMAIN f_pc' = Warp, DOMAIN step' = Warp,
             DOMAIN n_block' = Warp, DOMAIN f_inflight' = Warp,
             DOMAIN f_smem' = {"Q", "K", "V"}, \A slot \in {"Q", "K", "V"} : DOMAIN f_smem'[slot] = Warp,
             DOMAIN written' = DOMAIN written
      PROVE  FwdShape'
  BY <1>1 DEF FwdShape
<1>2. /\ DOMAIN f_pc = Warp /\ DOMAIN step = Warp /\ DOMAIN n_block = Warp /\ DOMAIN f_inflight = Warp
      /\ DOMAIN f_smem = {"Q", "K", "V"} /\ \A slot \in {"Q", "K", "V"} : DOMAIN f_smem[slot] = Warp
  BY DEF FwdShape
<1>3. CASE F!Sync
  <2>1. DOMAIN f_pc' = Warp
    BY <1>3 DEF F!Sync
  <2>2. QED
    BY <1>1, <1>2, <1>3, <2>1 DEF F!Sync
<1>4. CASE F!NextCta
  BY <1>4 DEF F!NextCta, FwdShape
<1>5. ASSUME NEW w \in Warp, F!Land(w) PROVE FwdShape'
  <2>1. PICK x \in f_inflight[w] :
           /\ f_smem' = [f_smem EXCEPT ![x.slot][w] = x.src]
           /\ f_inflight' = [f_inflight EXCEPT ![w] = @ \ {x}]
    BY <1>5 DEF F!Land
  <2>2. UNCHANGED <<call, m_block, f_pc, step, n_block, acc_s, acc_o, written>>
    BY <1>5 DEF F!Land
  <2> DEFINE slot == x.slot
             src == x.src
  <2>3. f_smem' = [f_smem EXCEPT ![slot] = [f_smem[slot] EXCEPT ![w] = src]]
    BY <2>1
  <2> HIDE DEF slot, src
  <2>4. DOMAIN f_smem' = {"Q", "K", "V"} /\ \A y \in {"Q", "K", "V"} : DOMAIN f_smem'[y] = Warp
    BY <1>2, <2>3
  <2>5. DOMAIN f_inflight' = Warp
    BY <1>2, <2>1
  <2>6. QED
    BY <1>1, <1>2, <2>2, <2>4, <2>5
<1>6. ASSUME NEW w \in Warp, F!Prologue(w) PROVE FwdShape'
  <2>1. /\ UNCHANGED <<call, m_block, step, f_smem, acc_s, acc_o, written>>
        /\ DOMAIN f_pc' = Warp /\ DOMAIN n_block' = Warp /\ DOMAIN f_inflight' = Warp
    BY <1>2, <1>6 DEF F!Prologue, F!Goto, F!Issue
  <2>2. QED
    BY <1>1, <1>2, <2>1
<1>7. ASSUME NEW w \in Warp, F!Scores(w) PROVE FwdShape'
  <2>1. /\ UNCHANGED <<call, m_block, step, n_block, f_smem, acc_o, written>>
        /\ DOMAIN f_pc' = Warp /\ DOMAIN f_inflight' = Warp
    BY <1>2, <1>7 DEF F!Scores, F!Goto, F!Issue
  <2>2. QED
    BY <1>1, <1>2, <2>1
<1>8. ASSUME NEW w \in Warp, F!MaskedValues(w) PROVE FwdShape'
  <2>1. /\ UNCHANGED <<call, m_block, f_smem, acc_s, written>>
        /\ DOMAIN f_pc' = Warp /\ DOMAIN f_inflight' = Warp
        /\ DOMAIN n_block' = Warp /\ DOMAIN step' = Warp
    BY <1>2, <1>8 DEF F!MaskedValues, F!Goto, F!Issue
  <2>2. QED
    BY <1>1, <1>2, <2>1
<1>9. ASSUME NEW w \in Warp, F!Search(w) PROVE FwdShape'
  <2>1. /\ UNCHANGED <<call, m_block, step, f_smem, acc_s, acc_o, written>>
        /\ DOMAIN f_pc' = Warp /\ DOMAIN f_inflight' = Warp /\ DOMAIN n_block' = Warp
    BY <1>2, <1>9 DEF F!Search, F!Goto, F!Issue
  <2>2. QED
    BY <1>1, <1>2, <2>1
<1>10. ASSUME NEW w \in Warp, F!LiveValues(w) PROVE FwdShape'
  <2>1. /\ UNCHANGED <<call, m_block, step, f_smem, acc_s, written>>
        /\ DOMAIN f_pc' = Warp /\ DOMAIN f_inflight' = Warp /\ DOMAIN n_block' = Warp
    BY <1>2, <1>10 DEF F!LiveValues, F!Goto, F!Issue
  <2>2. QED
    BY <1>1, <1>2, <2>1
<1>11. ASSUME NEW w \in Warp, F!Epilogue(w) PROVE FwdShape'
  <2>1. /\ UNCHANGED <<call, m_block, step, n_block, f_smem, f_inflight, acc_s, acc_o>>
        /\ DOMAIN f_pc' = Warp /\ DOMAIN written' = DOMAIN written
    BY <1>2, <1>11 DEF F!Epilogue, F!Goto
  <2>2. QED
    BY <1>1, <1>2, <2>1
<1>12. QED
  BY <1>3, <1>4, <1>5, <1>6, <1>7, <1>8, <1>9, <1>10, <1>11 DEF F!FwdNext

\* A step of the forward keeps the rows stored.
LEMMA StoresStep ==
    ASSUME FwdInv, F!FwdNext
    PROVE  RowsStored'
<1>1. FwdShape /\ Lockstep /\ RowsStored /\ DOMAIN f_pc = Warp
  BY DEF FwdInv, FwdShape
<1>2. CASE F!NextCta
  BY <1>1, <1>2, NextCtaStores
<1>3. ASSUME NEW w \in Warp, F!Epilogue(w) PROVE RowsStored'
  BY <1>1, <1>3, EpilogueStores
<1>4. CASE F!Sync
  <2>1. call' = call /\ m_block' = m_block /\ written' = written /\ \A w \in Warp : f_pc'[w] # "exit"
    BY <1>4 DEF F!Sync, F!Warp, Warp
  <2>2. QED
    BY <1>1, <2>1, StoredStays
<1>5. ASSUME NEW w \in Warp, F!Prologue(w) PROVE RowsStored'
  <2>1. call' = call /\ m_block' = m_block /\ written' = written
    BY <1>5 DEF F!Prologue
  <2>2. CASE m_block * F!kM >= F!SeqLen
    <3>1. ~Occupied
      <4>1. F!SeqLen = call.S /\ call.S \in Nat /\ m_block * F!kM \in Int
        BY <1>1, FwdCall DEF FwdShape
      <4>2. QED
        BY <2>2, <4>1 DEF Occupied
    <3>2. QED
      BY <1>1, <2>1, <3>1, StoredStays
  <2>3. CASE ~(m_block * F!kM >= F!SeqLen)
    <3>1. f_pc' = [f_pc EXCEPT ![w] = "landK"]
      BY <1>5, <2>3 DEF F!Prologue, F!Goto
    <3>2. \A u \in Warp : f_pc'[u] = "exit" => f_pc[u] = "exit"
      BY <1>1, <3>1
    <3>3. QED
      BY <1>1, <2>1, <3>2, StoredStays
  <2>4. QED
    BY <2>2, <2>3
<1>6. ASSUME NEW w \in Warp, F!Land(w) \/ F!Scores(w) \/ F!MaskedValues(w) \/ F!Search(w) \/ F!LiveValues(w)
      PROVE  RowsStored'
  <2>1. call' = call /\ m_block' = m_block /\ written' = written
    BY <1>6 DEF F!Land, F!Scores, F!MaskedValues, F!Search, F!LiveValues
  <2>2. \A u \in Warp : f_pc'[u] = "exit" => f_pc[u] = "exit"
    <3>1. CASE F!Land(w)
      BY <3>1 DEF F!Land
    <3>2. CASE F!Scores(w)
      BY <1>1, <3>2 DEF F!Scores, F!Goto
    <3>3. CASE F!MaskedValues(w)
      BY <1>1, <3>3 DEF F!MaskedValues, F!Goto
    <3>4. CASE F!Search(w)
      BY <1>1, <3>4 DEF F!Search, F!Goto
    <3>5. CASE F!LiveValues(w)
      BY <1>1, <3>5 DEF F!LiveValues, F!Goto
    <3>6. QED
      BY <1>6, <3>1, <3>2, <3>3, <3>4, <3>5
  <2>3. QED
    BY <1>1, <2>1, <2>2, StoredStays
<1>7. QED
  BY <1>2, <1>3, <1>4, <1>5, <1>6 DEF F!FwdNext, F!Warp, Warp

\* A step of the forward keeps its warps together.
LEMMA LockstepStep ==
    ASSUME FwdInv, F!FwdNext
    PROVE  Lockstep'
<1>1. FwdShape /\ Lockstep
  BY DEF FwdInv
<1>2. CASE F!Sync
  BY <1>1, <1>2, SyncStep
<1>3. CASE F!NextCta
  BY <1>1, <1>3, NextCtaStep
<1>4. ASSUME NEW w \in Warp, F!Land(w) PROVE Lockstep'
  BY <1>1, <1>4, LandStep
<1>5. ASSUME NEW w \in Warp, F!Prologue(w) PROVE Lockstep'
  BY <1>1, <1>5, PrologueStep
<1>6. ASSUME NEW w \in Warp, F!Scores(w) PROVE Lockstep'
  BY <1>1, <1>6, ScoresStep
<1>7. ASSUME NEW w \in Warp, F!MaskedValues(w) PROVE Lockstep'
  BY <1>1, <1>7, MaskedStep
<1>8. ASSUME NEW w \in Warp, F!Search(w) PROVE Lockstep'
  BY <1>1, <1>8, SearchStep
<1>9. ASSUME NEW w \in Warp, F!LiveValues(w) PROVE Lockstep'
  BY <1>1, <1>9, LiveStep
<1>10. ASSUME NEW w \in Warp, F!Epilogue(w) PROVE Lockstep'
  BY <1>1, <1>10, EpilogueStep
<1>11. QED
  BY <1>2, <1>3, <1>4, <1>5, <1>6, <1>7, <1>8, <1>9, <1>10 DEF F!FwdNext, F!Warp, Warp

\* The forward starts with its first CTA.
LEMMA FwdStarts ==
    ASSUME call \in Calls, F!FwdInit
    PROVE  FwdInv
<1>1. FwdShape
  BY DEF F!FwdInit, FwdShape, F!Warp, Warp
<1>2. \A w \in Warp : f_pc[w] = "prologue" /\ step[w] = 0 /\ f_inflight[w] = {}
  BY DEF F!FwdInit, F!Warp, Warp
<1>3. \A w, r : r \in F!Mine(w) => acc_o[r] = F!NoRow
  BY DEF F!FwdInit, F!Mine
<1>4. Lockstep
  BY <1>2, <1>3 DEF Lockstep, Starting
<1>5. RowsStored
  <2>1. F!kM \in Nat /\ m_block = 0 /\ call.S \in Nat /\ call.L \in Nat /\ call.L <= call.S
    BY FwdCall DEF F!FwdInit
  <2>2. m_block * F!kM = 0
    BY <2>1
  <2>3. \A i \in Real(call) : i \in 0 .. call.S - 1
    BY <2>1 DEF Real
  <2>4. \A i \in 0 .. call.S - 1 : written[i].lse = "none"
    BY DEF F!FwdInit
  <2>5. QED
    BY <1>2, <2>2, <2>3, <2>4 DEF RowsStored, Real
<1>6. QED
  BY <1>1, <1>4, <1>5 DEF FwdInv

\* What the other phases leave alone.
LEMMA FwdStays ==
    ASSUME FwdInv, call' = call, UNCHANGED fwdVars
    PROVE  FwdInv'
<1>1. /\ m_block' = m_block /\ f_pc' = f_pc /\ step' = step /\ n_block' = n_block
      /\ f_smem' = f_smem /\ f_inflight' = f_inflight /\ acc_s' = acc_s /\ acc_o' = acc_o
      /\ written' = written
  BY DEF fwdVars
<1>2. FwdShape /\ Lockstep /\ RowsStored
  BY DEF FwdInv
<1>3. FwdShape'
  BY <1>1, <1>2 DEF FwdShape
<1>4. \A u \in Warp : Quiet(u)
  BY <1>1 DEF Quiet
<1>5. Lockstep'
  <2>1. PICK w : w \in Warp
    BY DEF Warp
  <2>2. \A tile : Starting(w, tile) /\ tile = FirstTile => Starting(w, tile)'
    BY <1>1, <1>4, <2>1, StaysQuiet
  <2>3. \A s, tile \in Nat :
           Occupied /\ Visits(s, tile) /\ (\A u \in Warp : Scoring(u, s, tile)) => Scoring(w, s, tile)'
    BY <1>1, <1>4, <2>1, StaysQuiet
  <2>4. \A s, tile \in Nat : \A next :
           /\ Occupied /\ Visits(s, tile) /\ next = NextTile(s, tile)
           /\ \A u \in Warp : Folding(u, s, tile, next)
           => Folding(w, s, tile, next)'
    BY <1>1, <1>4, <2>1, StaysQuiet
  <2>5. QED
    BY <1>1, <1>2, <1>4, <2>1, <2>2, <2>3, <2>4, OneWarp
<1>6. RowsStored'
  BY <1>1, <1>2, StoredStays
<1>7. QED
  BY <1>3, <1>5, <1>6 DEF FwdInv

\* Every step keeps the invariant of the forward.
LEMMA FwdKept == FwdInv /\ [Next]_vars => FwdInv'
<1> SUFFICES ASSUME FwdInv, [Next]_vars PROVE FwdInv'
  OBVIOUS
<1>1. call' = call
  BY SameCall
<1>2. CASE Forward
  <2>1. F!FwdNext
    BY <1>2 DEF Forward
  <2>2. QED
    BY <2>1, ShapeStays, LockstepStep, StoresStep DEF FwdInv
<1>3. CASE Merge \/ Backward \/ Complete \/ UNCHANGED vars
  <2>1. UNCHANGED fwdVars
    BY <1>3 DEF Merge, Backward, Complete, vars
  <2>2. QED
    BY <1>1, <2>1, FwdStays
<1>4. QED
  BY <1>2, <1>3 DEF Next

\* The invariant of the forward kernel.
LEMMA FwdHolds == Spec => []FwdInv
<1>1. Init => FwdInv
  BY FwdStarts DEF Init
<1>2. QED
  BY <1>1, FwdKept, PTL DEF Spec

\* The invariant of the forward implies that what it stores is right.
LEMMA RowsRight == FwdInv => RowsExact
<1> SUFFICES ASSUME FwdInv, NEW i \in Real(call)
             PROVE  LET keys == {j \in Real(call) : Keeps(call, i, j)}
                        w    == written[i]
                    IN  IF w.lse = "none" THEN ~F!FwdDone
                        ELSE /\ ~w.nan
                             /\ w.lse = IF keys = {} THEN "inf" ELSE "finite"
                             /\ w.sum = SetToBag({<<RowOf(call, i), RowOf(call, j), RowOf(call, j)>> : j \in keys})
  BY DEF RowsExact
<1> DEFINE keys == {j \in Real(call) : Keeps(call, i, j)}
<1>1. FwdShape /\ RowsStored
  BY DEF FwdInv
<1>2. KeysFrom(i, 0) = keys
  BY DEF KeysFrom, Real
<1>3. Terms(i, 0) = {<<RowOf(call, i), RowOf(call, j), RowOf(call, j)>> : j \in keys}
  BY <1>2 DEF Terms
<1>4. ASSUME Stored(i)
      PROVE  /\ written[i].lse # "none" /\ ~written[i].nan
             /\ written[i].lse = IF keys = {} THEN "inf" ELSE "finite"
             /\ written[i].sum = SetToBag({<<RowOf(call, i), RowOf(call, j), RowOf(call, j)>> : j \in keys})
  <2> DEFINE end == IF keys = {} THEN "inf" ELSE "finite"
             sum == SetToBag({<<RowOf(call, i), RowOf(call, j), RowOf(call, j)>> : j \in keys})
  <2>1. written[i] = [sum |-> sum, nan |-> FALSE, lse |-> end]
    BY <1>2, <1>3, <1>4 DEF Stored
  <2>2. end # "none"
    OBVIOUS
  <2> HIDE DEF end, sum
  <2>3. written[i].lse = end /\ written[i].sum = sum /\ ~written[i].nan
    BY <2>1
  <2>4. QED
    BY <2>2, <2>3 DEF end, sum
<1>5. CASE Stored(i)
  BY <1>4, <1>5
<1>6. CASE ~Stored(i)
  <2>1. written[i].lse = "none"
    BY <1>1, <1>6 DEF RowsStored
  <2>2. ASSUME F!FwdDone PROVE FALSE
    <3>1. m_block + 1 = call.grid /\ \A w \in Warp : f_pc[w] = "exit"
      BY <2>2 DEF F!FwdDone, F!Warp, Warp
    <3>2. i < (m_block + 1) * F!kM
      <4>1. call.S <= call.grid * F!kM /\ call.L <= call.S /\ call.L \in Nat /\ call.S \in Nat
            /\ call.grid \in Nat /\ F!kM \in Nat
        BY <1>1, FwdCall DEF FwdShape
      <4>2. call.grid * F!kM \in Int /\ i \in Int /\ i < call.L
        BY <4>1 DEF Real
      <4>3. i < call.grid * F!kM
        BY <4>1, <4>2
      <4>4. QED
        BY <3>1, <4>3
    <3>3. QED
      BY <1>1, <1>6, <3>1, <3>2, BlockStored
  <2>3. QED
    BY <2>1, <2>2
<1>7. QED
  BY <1>5, <1>6

\* Every row the forward stores is the sum over exactly the keys that the call keeps for
\* its token, and when the last CTA is done every row is stored.
THEOREM RowsAreExact == Spec => []RowsExact
  BY RowsRight, FwdHolds, PTL

-----------------------------------------------------------------------------
(* The backward kernel.                                                      *)

\* The queries from token lo on that keep token x and the keys below token hi that
\* token i keeps; what the gradients of x and i are once those are summed.
QueriesFrom(x, lo) == {i \in Real(call) : Keeps(call, i, x) /\ lo <= i}
KeysBelow(i, hi)   == {j \in Real(call) : Keeps(call, i, j) /\ j < hi}

KeyGrad(x, lo)   == SetToBag({<<i, x, i, x, i>> : i \in QueriesFrom(x, lo)})
ValueGrad(x, lo) == SetToBag({<<i, x, i>> : i \in QueriesFrom(x, lo)})
QueryGrad(i, hi) == SetToBag({<<i, j, i, j, j>> : j \in KeysBelow(i, hi)})

\* The rows whose dQ warp w adds and the columns whose dK and dV it stores.
OwnsRow(w, i) == (i % B!kM) % 2 = w
OwnsCol(w, j) == j % B!kN \in B!SpanOf(w)

\* What warp w has summed at column block nb once it is through the rows from lo on;
\* what it has staged; which columns it has stored.
QueriesSummed(w, nb, lo) ==
    \A i \in Real(call) : OwnsRow(w, i) =>
        dq[i] = QueryGrad(i, IF lo <= i THEN (nb + 1) * B!kN ELSE nb * B!kN)
KeysSummed(w, nb, lo) ==
    \A c \in B!Mine(w, B!TileCol) : nb * B!kN + c \in Real(call) =>
        acc_dk[w][c] = KeyGrad(nb * B!kN + c, lo)
ValuesSummed(w, nb, lo) ==
    \A c \in B!Mine(w, B!TileCol) : nb * B!kN + c \in Real(call) =>
        acc_dv[w][c] = ValueGrad(nb * B!kN + c, lo)
ColumnsStaged(w, nb) ==
    \A c \in B!Mine(w, B!TileCol) : nb * B!kN + c \in Real(call) =>
        /\ sdKV[c].k = KeyGrad(nb * B!kN + c, 0)
        /\ sdKV[c].v = ValueGrad(nb * B!kN + c, 0)
ColumnsStored(w, hi) ==
    \A j \in Real(call) : OwnsCol(w, j) /\ j < hi =>
        dk[j] = KeyGrad(j, 0) /\ dv[j] = ValueGrad(j, 0)

\* The entries of P and dS of warp w for the tile of row block m and column block nb.
Live(i, j)  == i \in Real(call) /\ j \in Real(call) /\ Keeps(call, i, j)
PEntry(i, j) == IF Live(i, j) THEN <<i, j>> ELSE <<>>
SEntry(i, j) == IF Live(i, j) THEN <<i, j, i, j>> ELSE <<>>

Shared(w, nb, m) ==
    \A r \in B!TileRow, c \in B!SpanOf(w) :
        /\ sP[r][c] = PEntry(m * B!kM + r, nb * B!kN + c)
        /\ sdS[r][c] = SEntry(m * B!kM + r, nb * B!kN + c)

\* The copies of a row block and of a column block; that of Q made ahead.
RowTile(slot, m) == IF m = B!LastRowBlock THEN B!EdgeTile(slot, m, B!kM) ELSE B!FullTile(slot, m, B!kM)
QOf(m)  == RowTile(B!QBuffer(m), m)
OOf(m)  == RowTile("dO", m)
KOf(nb) == B!EdgeTile("K", nb, B!kN)
VOf(nb) == B!EdgeTile("V", nb, B!kN)

More(nb, m)  == B!RowBlockMin(nb) < m
Ahead(nb, m) == IF call.doubleBuffer /\ More(nb, m) THEN {QOf(m - 1)} ELSE {}

InSlot(w, x)  == b_smem[x.slot][w] = x.src
Issued(w, X)  == b_inflight[w] \subseteq X /\ \A x \in X : x \in b_inflight[w] \/ InSlot(w, x)
ColInSlots(w, nb) == InSlot(w, KOf(nb)) /\ InSlot(w, VOf(nb))

\* The stages of column block nb, and of row block m in it.  The first barrier of a
\* block is behind the copies of the prologue, ...
Loading(w, nb) ==
    /\ col[w] = nb /\ QueriesSummed(w, nb, (B!LastRowBlock + 1) * B!kM) /\ ColumnsStored(w, nb * B!kN)
    /\ \/ b_pc[w] \in {"enter", "load"} /\ b_inflight[w] = {}
          /\ (b_pc[w] = "enter" => ~call.deterministic)
       \/ /\ b_pc[w] = "landed" /\ row[w] = B!LastRowBlock
          /\ Issued(w, {OOf(B!LastRowBlock), QOf(B!LastRowBlock), KOf(nb), VOf(nb)})
          /\ acc_dk[w] = B!NoGrad /\ acc_dv[w] = B!NoGrad
          /\ lse[w] = B!FiniteRows(B!LastRowBlock)

\* ... then P and dS are computed, behind that barrier, ...
Probing(w, nb, m) ==
    /\ col[w] = nb /\ row[w] = m /\ ColumnsStored(w, nb * B!kN)
    /\ QueriesSummed(w, nb, (m + 1) * B!kM) /\ KeysSummed(w, nb, (m + 1) * B!kM)
    /\ ValuesSummed(w, nb, (m + 1) * B!kM)
    /\ InSlot(w, QOf(m)) /\ InSlot(w, OOf(m)) /\ ColInSlots(w, nb)
    /\ \/ b_pc[w] = "scores" /\ b_inflight[w] = {} /\ lse[w] = B!FiniteRows(m)
       \/ b_pc[w] = "shared" /\ Issued(w, Ahead(nb, m)) /\ Shared(w, nb, m)

\* ... dV is summed, ...
Summing(w, nb, m) ==
    /\ col[w] = nb /\ row[w] = m /\ ColumnsStored(w, nb * B!kN)
    /\ QueriesSummed(w, nb, (m + 1) * B!kM) /\ KeysSummed(w, nb, (m + 1) * B!kM)
    /\ InSlot(w, QOf(m)) /\ InSlot(w, OOf(m)) /\ ColInSlots(w, nb)
    /\ Issued(w, Ahead(nb, m)) /\ Shared(w, nb, m)
    /\ \/ b_pc[w] = "values" /\ ValuesSummed(w, nb, (m + 1) * B!kM)
       \/ b_pc[w] = "consumed" /\ ValuesSummed(w, nb, m * B!kM)

\* ... and dQ and dK are, while the next dO arrives.
Passing(w, nb, m) ==
    /\ col[w] = nb /\ ColumnsStored(w, nb * B!kN) /\ ValuesSummed(w, nb, m * B!kM)
    /\ InSlot(w, QOf(m)) /\ ColInSlots(w, nb) /\ Shared(w, nb, m)
    /\ \/ /\ b_pc[w] = "queries" /\ row[w] = m /\ Issued(w, Ahead(nb, m))
          /\ QueriesSummed(w, nb, (m + 1) * B!kM) /\ KeysSummed(w, nb, (m + 1) * B!kM)
       \/ /\ QueriesSummed(w, nb, m * B!kM) /\ KeysSummed(w, nb, m * B!kM)
          /\ \/ /\ b_pc[w] = "landed" /\ call.doubleBuffer /\ More(nb, m) /\ row[w] = m - 1
                /\ Issued(w, {OOf(m - 1), QOf(m - 1)}) /\ lse[w] = B!FiniteRows(m - 1)
             \/ /\ b_pc[w] = "drained" /\ ~call.doubleBuffer /\ More(nb, m) /\ row[w] = m
                /\ Issued(w, {OOf(m - 1)}) /\ lse[w] = B!FiniteRows(m - 1)
             \/ b_pc[w] = "finished" /\ ~More(nb, m) /\ row[w] = m /\ b_inflight[w] = {}

\* Without a double buffer the next Q arrives behind a barrier of its own.
Refilling(w, nb, m) ==
    /\ ~call.doubleBuffer /\ More(nb, m) /\ lse[w] = B!FiniteRows(m - 1)
    /\ col[w] = nb /\ ColumnsStored(w, nb * B!kN) /\ ValuesSummed(w, nb, m * B!kM)
    /\ QueriesSummed(w, nb, m * B!kM) /\ KeysSummed(w, nb, m * B!kM) /\ ColInSlots(w, nb)
    /\ \/ b_pc[w] = "refill" /\ row[w] = m /\ Issued(w, {OOf(m - 1)})
       \/ b_pc[w] = "landed" /\ row[w] = m - 1 /\ Issued(w, {OOf(m - 1), QOf(m - 1)})

\* The epilogue stages dK and dV ...
Staging(w, nb, m) ==
    /\ ~More(nb, m) /\ col[w] = nb /\ b_inflight[w] = {}
    /\ ColumnsStored(w, nb * B!kN) /\ QueriesSummed(w, nb, m * B!kM)
    /\ \/ b_pc[w] = "stage" /\ KeysSummed(w, nb, m * B!kM) /\ ValuesSummed(w, nb, m * B!kM)
       \/ b_pc[w] = "staged" /\ ColumnsStaged(w, nb)

\* ... and stores them; nb is -1 before the first block.
Storing(w, nb) ==
    /\ b_inflight[w] = {} /\ QueriesSummed(w, nb, 0) /\ ColumnsStaged(w, nb)
    /\ \/ b_pc[w] = "store" /\ col[w] = nb /\ ColumnsStored(w, nb * B!kN)
       \/ /\ col[w] = nb + 1 /\ ColumnsStored(w, (nb + 1) * B!kN)
          /\ \/ b_pc[w] = "enter" /\ call.deterministic
             \/ b_pc[w] = "start" /\ call.deterministic /\ nb < B!LastColBlock
             \/ b_pc[w] = "exit" /\ (call.deterministic => B!LastColBlock <= nb)

At(w, stage, nb, m) ==
    \/ stage = "loading"   /\ nb >= 0 /\ Loading(w, nb)
    \/ stage = "probing"   /\ nb >= 0 /\ Probing(w, nb, m)
    \/ stage = "summing"   /\ nb >= 0 /\ Summing(w, nb, m)
    \/ stage = "passing"   /\ nb >= 0 /\ Passing(w, nb, m)
    \/ stage = "refilling" /\ nb >= 0 /\ Refilling(w, nb, m)
    \/ stage = "staging"   /\ nb >= 0 /\ Staging(w, nb, m)
    \/ stage = "storing"   /\ Storing(w, nb)

Stages == {"loading", "probing", "summing", "passing", "refilling", "staging", "storing"}

\* The row blocks that column block nb visits.
Walked(nb, m) ==
    /\ nb \in -1 .. B!LastColBlock /\ m \in 0 .. B!LastRowBlock
    /\ nb >= 0 => B!RowBlockMin(nb) <= m

InStep == \E stage \in Stages, nb, m \in Int : Walked(nb, m) /\ \A w \in Warp : At(w, stage, nb, m)

BwdShape ==
    /\ call \in Calls
    /\ DOMAIN b_pc = Warp /\ DOMAIN col = Warp /\ DOMAIN row = Warp /\ DOMAIN b_inflight = Warp
    /\ DOMAIN lse = Warp /\ DOMAIN acc_dk = Warp /\ DOMAIN acc_dv = Warp
    /\ DOMAIN b_smem = {"Q0", "Q1", "dO", "K", "V"}
    /\ \A slot \in {"Q0", "Q1", "dO", "K", "V"} : DOMAIN b_smem[slot] = Warp
    /\ DOMAIN dq = Real(call) /\ DOMAIN dk = Real(call) /\ DOMAIN dv = Real(call)

\* The global lse of a token that keeps a key is finite.
LseFinite == \A i, j \in Real(call) : Keeps(call, i, j) => i \in finite

BwdInv == BwdShape /\ LseFinite /\ InStep

\* The arguments of a backward launch.
LEMMA BwdCall ==
    ASSUME call \in Calls
    PROVE  /\ B!kM \in Nat \ {0} /\ B!kN \in Nat \ {0} /\ B!kN % 2 = 0
           /\ call.L \in Nat \ {0} /\ B!SeqLen = call.L
           /\ B!LastRowBlock \in Nat /\ B!LastColBlock \in Nat
           /\ B!LastRowBlock * B!kM < call.L /\ call.L <= (B!LastRowBlock + 1) * B!kM
           /\ B!LastColBlock * B!kN < call.L /\ call.L <= (B!LastColBlock + 1) * B!kN
           /\ call.L % B!kM = 0 => (B!LastRowBlock + 1) * B!kM = call.L
           /\ call.L % B!kN = 0 => (B!LastColBlock + 1) * B!kN = call.L
<1>1. /\ B!kM \in Nat \ {0} /\ B!kN \in Nat \ {0} /\ B!kN % 2 = 0 /\ B!SeqLen = call.L
  BY CallIs DEF B!kM, B!kN, B!SeqLen
<1>2. call.L \in Nat \ {0}
  BY FwdCall
<1>3. B!CeilDiv(call.L, B!kM) = CeilDiv(call.L, B!kM) /\ B!CeilDiv(call.L, B!kN) = CeilDiv(call.L, B!kN)
  BY DEF B!CeilDiv, CeilDiv
<1> DEFINE m == CeilDiv(call.L, B!kM)
           k == CeilDiv(call.L, B!kN)
<1>4. B!LastRowBlock = m - 1 /\ B!LastColBlock = k - 1
  BY <1>1, <1>3 DEF B!LastRowBlock, B!LastColBlock
<1>5. /\ m \in Nat \ {0} /\ call.L <= B!kM * m /\ B!kM * (m - 1) < call.L
      /\ call.L % B!kM = 0 => B!kM * m = call.L
  BY <1>1, <1>2, CeilIs
<1>6. /\ k \in Nat \ {0} /\ call.L <= B!kN * k /\ B!kN * (k - 1) < call.L
      /\ call.L % B!kN = 0 => B!kN * k = call.L
  BY <1>1, <1>2, CeilIs
<1> HIDE DEF m, k
<1>7. /\ B!kM * m = m * B!kM /\ B!kM * (m - 1) = (m - 1) * B!kM
      /\ B!kN * k = k * B!kN /\ B!kN * (k - 1) = (k - 1) * B!kN
  BY <1>1, <1>5, <1>6
<1>8. (m - 1) + 1 = m /\ (k - 1) + 1 = k /\ m - 1 \in Nat /\ k - 1 \in Nat
  BY <1>5, <1>6
<1>9. QED
  BY <1>1, <1>2, <1>4, <1>5, <1>6, <1>7, <1>8

\* A product extends the entry it is made from.
LEMMA Appends ==
    ASSUME NEW s \in Seq(Int), NEW t \in Seq(Int), NEW v \in Seq(Int),
           Len(v) = Len(s) + Len(t),
           \A i \in 1 .. Len(s) : v[i] = s[i],
           \A i \in 1 .. Len(t) : v[Len(s) + i] = t[i]
    PROVE  s \o t = v
<1>1. /\ s \o t \in Seq(Int) /\ Len(s \o t) = Len(v)
      /\ \A i \in 1 .. Len(s) + Len(t) : (s \o t)[i] = IF i <= Len(s) THEN s[i] ELSE t[i - Len(s)]
  BY ConcatProperties
<1> DEFINE m == Len(s)
           k == Len(t)
<1>2. m \in Nat /\ k \in Nat
  BY LenProperties
<1> HIDE DEF m, k
<1>3. ASSUME NEW i \in 1 .. m + k PROVE (s \o t)[i] = v[i]
  <2>1. CASE i <= m
    <3>1. v[i] = s[i]
      BY <1>2, <2>1 DEF m
    <3>2. QED
      BY <1>1, <2>1, <3>1 DEF m, k
  <2>2. CASE ~(i <= m)
    <3>1. PICK j \in 1 .. k : i = m + j /\ j = i - m
      BY <1>2, <2>2
    <3>2. v[m + j] = t[j]
      BY <3>1 DEF m, k
    <3>3. QED
      BY <1>1, <2>2, <3>1, <3>2 DEF m, k
  <2>3. QED
    BY <2>1, <2>2
<1>4. QED
  BY <1>1, <1>3, SeqEqual DEF m, k

\* The products of this kernel.
LEMMA Concats ==
    /\ \A a, b, c \in Int : <<a, b>> \o <<c>> = <<a, b, c>>
    /\ \A a, b, c, d \in Int : <<a, b>> \o <<c, d>> = <<a, b, c, d>>
    /\ \A a, b, c, d, e \in Int : <<a, b, c, d>> \o <<e>> = <<a, b, c, d, e>>
<1>1. ASSUME NEW a \in Int, NEW b \in Int, NEW c \in Int PROVE <<a, b>> \o <<c>> = <<a, b, c>>
  <2> DEFINE s == <<a, b>>
             t == <<c>>
             v == <<a, b, c>>
  <2>1. /\ s \in Seq(Int) /\ t \in Seq(Int) /\ v \in Seq(Int) /\ Len(s) = 2 /\ Len(t) = 1 /\ Len(v) = 3
    OBVIOUS
  <2>2. /\ \A i \in 1 .. 2 : v[i] = s[i]
        /\ \A i \in 1 .. 1 : v[2 + i] = t[i]
    OBVIOUS
  <2> HIDE DEF s, t, v
  <2>3. /\ \A i \in 1 .. Len(s) : v[i] = s[i]
        /\ \A i \in 1 .. Len(t) : v[Len(s) + i] = t[i]
        /\ Len(v) = Len(s) + Len(t)
    BY <2>1, <2>2
  <2>4. s \o t = v
    BY <2>1, <2>3, Appends
  <2>5. QED
    BY <2>4 DEF s, t, v
<1>2. ASSUME NEW a \in Int, NEW b \in Int, NEW c \in Int, NEW d \in Int
      PROVE  <<a, b>> \o <<c, d>> = <<a, b, c, d>>
  <2> DEFINE s == <<a, b>>
             t == <<c, d>>
             v == <<a, b, c, d>>
  <2>1. /\ s \in Seq(Int) /\ t \in Seq(Int) /\ v \in Seq(Int) /\ Len(s) = 2 /\ Len(t) = 2 /\ Len(v) = 4
    OBVIOUS
  <2>2. /\ \A i \in 1 .. 2 : v[i] = s[i]
        /\ \A i \in 1 .. 2 : v[2 + i] = t[i]
    OBVIOUS
  <2> HIDE DEF s, t, v
  <2>3. /\ \A i \in 1 .. Len(s) : v[i] = s[i]
        /\ \A i \in 1 .. Len(t) : v[Len(s) + i] = t[i]
        /\ Len(v) = Len(s) + Len(t)
    BY <2>1, <2>2
  <2>4. s \o t = v
    BY <2>1, <2>3, Appends
  <2>5. QED
    BY <2>4 DEF s, t, v
<1>3. ASSUME NEW a \in Int, NEW b \in Int, NEW c \in Int, NEW d \in Int, NEW e \in Int
      PROVE  <<a, b, c, d>> \o <<e>> = <<a, b, c, d, e>>
  <2> DEFINE s == <<a, b, c, d>>
             t == <<e>>
             v == <<a, b, c, d, e>>
  <2>1. /\ s \in Seq(Int) /\ t \in Seq(Int) /\ v \in Seq(Int) /\ Len(s) = 4 /\ Len(t) = 1 /\ Len(v) = 5
    OBVIOUS
  <2>2. /\ \A i \in 1 .. 4 : v[i] = s[i]
        /\ \A i \in 1 .. 1 : v[4 + i] = t[i]
    OBVIOUS
  <2> HIDE DEF s, t, v
  <2>3. /\ \A i \in 1 .. Len(s) : v[i] = s[i]
        /\ \A i \in 1 .. Len(t) : v[Len(s) + i] = t[i]
        /\ Len(v) = Len(s) + Len(t)
    BY <2>1, <2>2
  <2>4. s \o t = v
    BY <2>1, <2>3, Appends
  <2>5. QED
    BY <2>4 DEF s, t, v
<1>4. QED
  BY <1>1, <1>2, <1>3
\* They are neither poison nor zero.
LEMMA NotPoison ==
    /\ \A a, b : <<a, b>> # B!Poison /\ <<a, b>> # <<>>
    /\ \A a, b, c, d : <<a, b, c, d>> # B!Poison /\ <<a, b, c, d>> # <<>>
    /\ <<>> # B!Poison
  BY DEF B!Poison

\* A number is even or odd.
LEMMA ModTwo == \A r \in Nat : r % 2 = 0 \/ r % 2 = 1
  OBVIOUS

\* The backward kernel uses bags as this module does.
LEMMA BwdBags ==
    /\ B!EmptyBag = EmptyBag
    /\ \A P : B!SetToBag(P) = SetToBag(P)
    /\ \A a, b : B!(+)(a, b) = a (+) b
  BY DEF B!EmptyBag, EmptyBag, B!SetToBag, SetToBag, B!(+), (+)

\* What a tile in shared memory holds for token i.
Tok(i) == IF i \in Real(call) THEN i ELSE B!Zero

\* The first token of a block, and the next block.
LEMMA BlockStarts ==
    ASSUME NEW k \in Nat \ {0}, NEW len \in Nat, NEW last \in Nat, last * k < len, NEW t \in 0 .. last
    PROVE  /\ t * k \in Nat /\ t * k < len /\ (t + 1) * k = t * k + k
           /\ t < last => t * k + k < len
<1>1. t * k \in Nat /\ last * k \in Nat /\ (t + 1) * k = t * k + k
  OBVIOUS
<1>2. t * k <= last * k
  OBVIOUS
<1>3. t < last => (t + 1) * k <= last * k
  OBVIOUS
<1>4. QED
  BY <1>1, <1>2, <1>3

\* A row of a tile that both warps have loaded is its token, or zero past the end.
LEMMA TokenLoaded ==
    ASSUME call \in Calls, NEW k \in Nat \ {0}, NEW a \in Nat, a < call.L,
           NEW x, x.at = a, NEW lim \in Int, x.lim = lim,
           NEW part, part[0] = x, part[1] = x, NEW r \in 0 .. k - 1, r < lim <=> a + r < call.L
    PROVE  /\ a + r \in Real(call) => B!RowIn(part, r) = Tok(a + r)
           /\ x.clr => B!RowIn(part, r) = Tok(a + r)
           /\ a + r \in Real(call) <=> r < lim
<1>1. call.L \in Nat
  BY FwdCall
<1>2. part[r % 2] = x
  BY ModTwo
<1>3. B!RowIn(part, r) = IF r < lim THEN a + r ELSE IF x.clr THEN B!Zero ELSE B!Junk
  BY <1>2 DEF B!RowIn
<1>4. r < lim <=> a + r \in Real(call)
  BY <1>1 DEF Real
<1>5. QED
  BY <1>3, <1>4 DEF Tok

\* The copies of the backward.
LEMMA TilesAre ==
    ASSUME NEW slot, NEW block, NEW size
    PROVE  /\ B!EdgeTile(slot, block, size).slot = slot /\ B!FullTile(slot, block, size).slot = slot
           /\ B!EdgeTile(slot, block, size).src.at = block * size
           /\ B!FullTile(slot, block, size).src.at = block * size
           /\ B!EdgeTile(slot, block, size).src.lim
                = (IF B!EvenMN THEN size ELSE B!MinOf(size, B!SeqLen - block * size))
           /\ B!FullTile(slot, block, size).src.lim = size
           /\ B!EdgeTile(slot, block, size).src.clr
<1>1. /\ B!EdgeTile(slot, block, size).slot = slot
      /\ B!EdgeTile(slot, block, size).src.at = block * size
      /\ B!EdgeTile(slot, block, size).src.lim
           = (IF B!EvenMN THEN size ELSE B!MinOf(size, B!SeqLen - block * size))
      /\ B!EdgeTile(slot, block, size).src.clr
  BY Zenon DEF B!EdgeTile, B!Copy
<1>2. /\ B!FullTile(slot, block, size).slot = slot
      /\ B!FullTile(slot, block, size).src.at = block * size
      /\ B!FullTile(slot, block, size).src.lim = size
  BY Zenon DEF B!FullTile, B!Copy
<1>3. QED
  BY <1>1, <1>2

\* The slots of the four tiles of a row block.
LEMMA RowTileIs ==
    ASSUME NEW slot, NEW m
    PROVE  /\ RowTile(slot, m).slot = slot
           /\ KOf(m).slot = "K" /\ VOf(m).slot = "V" /\ OOf(m).slot = "dO" /\ QOf(m).slot = B!QBuffer(m)
<1>1. \A s : RowTile(s, m).slot = s
  BY TilesAre DEF RowTile
<1>2. QED
  BY <1>1, TilesAre DEF KOf, VOf, OOf, QOf

\* The last block of a dimension clears the rows past its end, the others are full.
LEMMA EdgeLoaded ==
    ASSUME call \in Calls, NEW k \in Nat \ {0}, NEW last \in Nat, last * k < call.L,
           call.L % k = 0 => (last + 1) * k = call.L, B!EvenMN => call.L % k = 0,
           NEW slot, NEW t \in 0 .. last, NEW part, NEW x, x = B!EdgeTile(slot, t, k).src,
           part[0] = x, part[1] = x, NEW r \in 0 .. k - 1
    PROVE  B!RowIn(part, r) = Tok(t * k + r)
<1> DEFINE a == t * k
           lim == IF B!EvenMN THEN k ELSE B!MinOf(k, B!SeqLen - a)
<1>1. call.L \in Nat /\ B!SeqLen = call.L
  BY BwdCall
<1>2. /\ a \in Nat /\ a < call.L /\ (t + 1) * k = a + k
      /\ t < last => a + k < call.L
  BY <1>1, BlockStarts
<1>3. x.at = a /\ x.lim = lim /\ x.clr
  BY TilesAre
<1>4. B!EvenMN => a + k <= call.L
  <2>1. CASE t = last
    BY <1>1, <1>2, <2>1
  <2>2. CASE t # last
    BY <1>1, <1>2, <2>2
  <2>3. QED
    BY <2>1, <2>2
<1> HIDE DEF a
<1>5. lim \in Int /\ \A i \in 0 .. k - 1 : i < lim <=> a + i < call.L
  BY <1>1, <1>2, <1>4 DEF B!MinOf
<1> HIDE DEF lim
<1>7. x.at = a /\ x.lim = lim /\ a < call.L /\ part[0] = x /\ part[1] = x
  BY <1>2, <1>3
<1>8. lim \in Int /\ (r < lim <=> a + r < call.L)
  BY <1>5
<1>9. a \in Nat /\ x.clr
  BY <1>2, <1>3
<1>10. B!RowIn(part, r) = Tok(a + r)
  BY <1>7, <1>8, <1>9, TokenLoaded
<1>11. QED
  BY <1>10 DEF a

\* Once both warps have copied their parts of a tile read with full blocks, its rows are
\* the block's tokens.
LEMMA FullLoaded ==
    ASSUME call \in Calls, NEW k \in Nat \ {0}, NEW last \in Nat, last * k < call.L,
           NEW slot, NEW t \in 0 .. last, t < last, NEW part, NEW x, x = B!FullTile(slot, t, k).src,
           part[0] = x, part[1] = x, NEW r \in 0 .. k - 1
    PROVE  B!RowIn(part, r) = Tok(t * k + r)
<1> DEFINE a == t * k
<1>1. call.L \in Nat
  BY BwdCall
<1>2. a \in Nat /\ a < call.L /\ a + k < call.L
  BY <1>1, BlockStarts
<1>3. x.at = a /\ x.lim = k
  BY TilesAre
<1> HIDE DEF a
<1>5. PICK lim \in Int : lim = k
  OBVIOUS
<1>6. x.at = a /\ x.lim = lim /\ a < call.L /\ part[0] = x /\ part[1] = x
  BY <1>2, <1>3, <1>5
<1>7. (r < lim <=> a + r < call.L) /\ a + r \in Real(call)
  <2>1. r < lim /\ a + r < call.L
    BY <1>1, <1>2, <1>5
  <2>2. QED
    BY <1>1, <1>2, <2>1 DEF Real
<1>9. B!RowIn(part, r) = Tok(a + r)
  BY <1>2, <1>5, <1>6, <1>7, TokenLoaded
<1>10. QED
  BY <1>9 DEF a

\* A row tile that both warps have copied holds the tokens of its row block.
LEMMA RowLoaded ==
    ASSUME call \in Calls, NEW slot, NEW m \in 0 .. B!LastRowBlock,
           \A u \in Warp : InSlot(u, RowTile(slot, m)), NEW r \in B!TileRow
    PROVE  B!RowIn(b_smem[slot], r) = Tok(m * B!kM + r)
<1> DEFINE k == B!kM
           last == B!LastRowBlock
           part == b_smem[slot]
           x == RowTile(slot, m).src
<1>1. /\ k \in Nat \ {0} /\ last \in Nat /\ last * k < call.L /\ r \in 0 .. k - 1
      /\ call.L % k = 0 => (last + 1) * k = call.L
      /\ B!EvenMN => call.L % k = 0
  BY BwdCall DEF B!TileRow, B!EvenMN, B!Even, B!kM
<1>2. part[0] = x /\ part[1] = x
  BY RowTileIs DEF InSlot, Warp
<1>3. /\ m = last => x = B!EdgeTile(slot, m, k).src
      /\ m # last => x = B!FullTile(slot, m, k).src
  BY Zenon DEF RowTile
<1> HIDE DEF k, last, part, x
<1>4. CASE m = last
  BY <1>1, <1>2, <1>3, <1>4, EdgeLoaded DEF k, last, part
<1>5. CASE m # last
  <2>1. m < last /\ m \in 0 .. last
    BY <1>1, <1>5 DEF last
  <2>2. QED
    BY <1>1, <1>2, <1>3, <1>5, <2>1, FullLoaded DEF k, part
<1>6. QED
  BY <1>4, <1>5

\* A column tile that both warps have copied holds the tokens of its column block.
LEMMA ColumnLoaded ==
    ASSUME call \in Calls, NEW slot, NEW nb \in 0 .. B!LastColBlock,
           \A u \in Warp : InSlot(u, B!EdgeTile(slot, nb, B!kN)), NEW c \in B!TileCol
    PROVE  B!RowIn(b_smem[slot], c) = Tok(nb * B!kN + c)
<1> DEFINE k == B!kN
           last == B!LastColBlock
           part == b_smem[slot]
           x == B!EdgeTile(slot, nb, k).src
<1>1. /\ k \in Nat \ {0} /\ last \in Nat /\ last * k < call.L /\ c \in 0 .. k - 1
      /\ call.L % k = 0 => (last + 1) * k = call.L
      /\ B!EvenMN => call.L % k = 0
  BY BwdCall DEF B!TileCol, B!EvenMN, B!Even, B!kN
<1>2. part[0] = x /\ part[1] = x
  BY TilesAre DEF InSlot, Warp
<1> HIDE DEF k, last, part
<1>3. B!RowIn(part, c) = Tok(nb * k + c)
  BY <1>1, <1>2, EdgeLoaded DEF last
<1>4. QED
  BY <1>3 DEF k, part

\* A token's value is never junk, and a real token's is itself.
LEMMA TokIs ==
    /\ \A i : Tok(i) \in Int /\ Tok(i) # B!Junk
    /\ \A i \in Real(call) : Tok(i) = i /\ i \in Int
  BY DEF Tok, B!Junk, B!Zero, Real

\* The element test leaves alone the pairs of real tokens that the call keeps; a skipped
\* tile has none.
LEMMA ScoreKept ==
    ASSUME call \in Calls, NEW m \in 0 .. B!LastRowBlock, NEW nb \in 0 .. B!LastColBlock,
           NEW w \in Warp, NEW r \in B!TileRow, NEW c \in B!SpanOf(w),
           NEW i, i = m * B!kM + r, NEW j, j = nb * B!kN + c,
           NEW kept, kept = B!Unmasked(call, call.causal, B!EvenMN, B!ActiveIn(w, m, nb), B!SeqLen, i, j)
    PROVE  /\ Live(i, j) => kept
           /\ kept /\ i \in Real(call) => Live(i, j)
           /\ B!Skip(m, nb) => ~Live(i, j)
<1> DEFINE active == B!ActiveIn(w, m, nb)
<1>1. /\ call.L \in Nat /\ B!SeqLen = call.L /\ B!kM \in Nat \ {0} /\ B!kN \in Nat \ {0}
      /\ B!LastRowBlock \in Nat /\ B!LastColBlock \in Nat
  BY BwdCall
<1>2. i \in Nat /\ j \in Nat /\ m \in Nat /\ nb \in Nat /\ c \in B!TileCol
  <2>1. r \in Nat /\ c \in Nat /\ m * B!kM \in Nat /\ nb * B!kN \in Nat /\ c \in B!TileCol
    BY <1>1 DEF B!TileRow, B!TileCol, B!SpanOf
  <2>2. QED
    BY <1>1, <2>1
<1>3. B!EvenMN => j < call.L
  <2> SUFFICES ASSUME B!EvenMN PROVE j < call.L
    OBVIOUS
  <2>1. (B!LastColBlock + 1) * B!kN = call.L
    BY BwdCall DEF B!EvenMN, B!Even, B!kN
  <2> DEFINE k == B!kN
             last == B!LastColBlock
             a == nb * k
  <2>2. (nb + 1) * k <= (last + 1) * k /\ (nb + 1) * k = a + k /\ a \in Nat
    BY <1>1
  <2>3. c < k
    BY <1>1, <1>2 DEF B!TileCol
  <2>4. j = a + c /\ c \in Nat /\ k \in Nat
    BY <1>1, <1>2 DEF B!TileCol
  <2>5. a + k <= call.L
    BY <2>1, <2>2
  <2> HIDE DEF a, k
  <2>6. QED
    BY <1>1, <2>2, <2>3, <2>4, <2>5
<1>4. ASSUME i \in Real(call), j \in Real(call)
      PROVE  /\ B!BitsOf(call, i) = call.bits[i] /\ B!BitsOf(call, j) = call.bits[j]
             /\ call.cqs /\ ~active => call.bits[i] \cap call.bits[j] = {}
             /\ B!Skip(m, nb) => call.bits[i] \cap call.bits[j] # {}
  <2>1. BwdVerdicts(m, nb)
    BY <1>2, BackwardSound
  <2>2. i \in RealTile(m * call.bwd.kM, call.bwd.kM)
    <3>1. m * B!kM \in Int /\ r \in 0 .. B!kM - 1
      BY <1>1 DEF B!TileRow
    <3>2. i \in TileOf(m * B!kM, B!kM)
      BY <1>1, <3>1 DEF TileOf
    <3>3. QED
      BY <1>4, <3>2 DEF RealTile, B!kM
  <2>3. j \in {nb * call.bwd.kN + d : d \in B!SpanOf(w)} \cap Real(call)
    BY <1>4 DEF B!kN
  <2>4. B!BitsOf(call, i) = call.bits[i] /\ B!BitsOf(call, j) = call.bits[j]
    BY <1>1, <1>4 DEF B!BitsOf, Real
  <2>5. QED
    BY <2>1, <2>2, <2>3, <2>4 DEF BwdVerdicts, AllMasked, NoneMasked
<1>5. B!ActiveIn(w, m, nb) => call.cqs
  BY DEF B!ActiveIn
<1>6. B!Skip(m, nb) => call.cqs
  BY DEF B!Skip
<1>7. \A t : t \in Real(call) <=> t \in Nat /\ t < call.L
  BY <1>1 DEF Real
<1>8. kept <=> /\ call.causal => j < B!MinOf(call.L, i + 1)
               /\ ~call.causal /\ ~B!EvenMN => j < call.L
               /\ active /\ i < call.L /\ j < call.L => B!BitsOf(call, i) \cap B!BitsOf(call, j) = {}
  BY <1>1 DEF B!Unmasked
<1>9. j < B!MinOf(call.L, i + 1) <=> j < call.L /\ j <= i
  BY <1>1, <1>2 DEF B!MinOf
<1> HIDE DEF active
<1>10. Live(i, j) => kept
  BY <1>2, <1>4, <1>5, <1>7, <1>8, <1>9 DEF Live, Keeps, active
<1>11. kept /\ i \in Real(call) => Live(i, j)
  <2> SUFFICES ASSUME kept, i \in Real(call) PROVE Live(i, j)
    OBVIOUS
  <2>1. j < call.L /\ (call.causal => j <= i)
    BY <1>3, <1>8, <1>9
  <2>2. j \in Real(call) /\ i < call.L
    BY <1>2, <1>7, <2>1
  <2>3. call.cqs => call.bits[i] \cap call.bits[j] = {}
    BY <1>4, <1>8, <2>1, <2>2
  <2>4. QED
    BY <2>1, <2>2, <2>3 DEF Live, Keeps
<1>12. B!Skip(m, nb) => ~Live(i, j)
  BY <1>4, <1>6 DEF Live, Keeps
<1>13. QED
  BY <1>10, <1>11, <1>12

\* What a warp computes for an entry of P and dS.
LEMMA EntryIs ==
    ASSUME call \in Calls, LseFinite, NEW m \in 0 .. B!LastRowBlock, NEW nb \in 0 .. B!LastColBlock,
           \A u \in Warp : InSlot(u, QOf(m)) /\ InSlot(u, OOf(m)) /\ ColInSlots(u, nb),
           NEW w \in Warp, lse[w] = B!FiniteRows(m), NEW r \in B!TileRow, NEW c \in B!SpanOf(w),
           NEW i, i = m * B!kM + r, NEW j, j = nb * B!kN + c
    PROVE  /\ ~B!Skip(m, nb) => B!Prob(w, m, nb, r, c) = PEntry(i, j)
           /\ B!Grad(PEntry(i, j), r, c) = SEntry(i, j)
           /\ B!Skip(m, nb) => PEntry(i, j) = <<>> /\ SEntry(i, j) = <<>>
<1> DEFINE q == B!RowIn(b_smem[B!QBuffer(m)], r)
           o == B!RowIn(b_smem["dO"], r)
           k == B!RowIn(b_smem["K"], c)
           v == B!RowIn(b_smem["V"], c)
           kept == B!Unmasked(call, call.causal, B!EvenMN, B!ActiveIn(w, m, nb), B!SeqLen, i, j)
<1>1. q = Tok(i)
  BY RowLoaded DEF QOf
<1>2. o = Tok(i)
  BY RowLoaded DEF OOf
<1>3. c \in B!TileCol
  BY DEF B!SpanOf
<1>4. k = Tok(j)
  BY <1>3, ColumnLoaded DEF ColInSlots, KOf
<1>5. v = Tok(j)
  BY <1>3, ColumnLoaded DEF ColInSlots, VOf
<1>6. r \in lse[w] <=> i \in finite /\ i \in Real(call)
  <2>1. i \in Nat /\ call.L \in Nat /\ B!SeqLen = call.L
    <3>1. m * B!kM \in Nat /\ r \in Nat /\ call.L \in Nat /\ B!SeqLen = call.L
      BY BwdCall DEF B!TileRow
    <3>2. QED
      BY <3>1
  <2>2. QED
    BY <2>1 DEF B!FiniteRows, Real
<1>7. /\ Live(i, j) => kept
      /\ kept /\ i \in Real(call) => Live(i, j)
      /\ B!Skip(m, nb) => ~Live(i, j)
  BY ScoreKept
<1>8. Live(i, j) => i \in finite /\ i \in Real(call) /\ j \in Real(call)
  BY DEF Live, LseFinite
<1>9. B!Prob(w, m, nb, r, c) = IF ~kept THEN <<>> ELSE IF B!Junk \in {q, k} THEN B!Poison
                               ELSE IF r \in lse[w] THEN <<q, k>> ELSE <<>>
  BY DEF B!Prob
<1> HIDE DEF q, o, k, v, kept
<1>10. B!Prob(w, m, nb, r, c) = PEntry(i, j)
  <2>1. B!Junk \notin {q, k}
    BY <1>1, <1>4, TokIs
  <2>2. CASE Live(i, j)
    <3>1. q = i /\ k = j
      BY <1>1, <1>4, <1>8, <2>2, TokIs
    <3>2. QED
      BY <1>6, <1>7, <1>8, <1>9, <2>1, <2>2, <3>1 DEF PEntry
  <2>3. CASE ~Live(i, j)
    BY <1>6, <1>7, <1>9, <2>1, <2>3 DEF PEntry
  <2>4. QED
    BY <2>2, <2>3
<1>11. B!Grad(PEntry(i, j), r, c) = SEntry(i, j)
  <2>1. B!Junk \notin {o, v} /\ PEntry(i, j) # B!Poison
    BY <1>2, <1>5, TokIs, NotPoison DEF PEntry
  <2>2. B!Grad(PEntry(i, j), r, c) = IF PEntry(i, j) = <<>> THEN <<>> ELSE PEntry(i, j) \o <<o, v>>
    BY <2>1 DEF B!Grad, o, v
  <2>3. CASE Live(i, j)
    <3>1. o = i /\ v = j /\ i \in Int /\ j \in Int
      BY <1>2, <1>5, <1>8, <2>3, TokIs
    <3>2. PEntry(i, j) = <<i, j>> /\ PEntry(i, j) # <<>>
      BY <2>3, NotPoison DEF PEntry
    <3>3. <<i, j>> \o <<i, j>> = <<i, j, i, j>>
      BY <3>1, Concats
    <3>4. QED
      BY <2>2, <2>3, <3>1, <3>2, <3>3 DEF SEntry
  <2>4. CASE ~Live(i, j)
    BY <2>2, <2>4 DEF PEntry, SEntry
  <2>5. QED
    BY <2>3, <2>4
<1>12. QED
  BY <1>7, <1>10, <1>11 DEF PEntry, SEntry

\* The products of the entries.
LEMMA ProductsAre ==
    ASSUME NEW i, NEW j
    PROVE  /\ B!Product(PEntry(i, j), Tok(i)) = IF Live(i, j) THEN {<<i, j, i>>} ELSE {}
           /\ B!Product(SEntry(i, j), Tok(i)) = IF Live(i, j) THEN {<<i, j, i, j, i>>} ELSE {}
           /\ B!Product(SEntry(i, j), Tok(j)) = IF Live(i, j) THEN {<<i, j, i, j, j>>} ELSE {}
<1>1. PEntry(i, j) # B!Poison /\ SEntry(i, j) # B!Poison
  BY NotPoison DEF PEntry, SEntry
<1>2. Tok(i) # B!Junk /\ Tok(j) # B!Junk
  BY TokIs
<1>3. CASE Live(i, j)
  <2>1. i \in Int /\ j \in Int /\ Tok(i) = i /\ Tok(j) = j
    BY <1>3, TokIs DEF Live
  <2>2. PEntry(i, j) = <<i, j>> /\ SEntry(i, j) = <<i, j, i, j>>
    BY <1>3 DEF PEntry, SEntry
  <2>3. <<i, j>> # <<>> /\ <<i, j, i, j>> # <<>>
    BY NotPoison
  <2>4. /\ <<i, j>> \o <<i>> = <<i, j, i>>
        /\ <<i, j, i, j>> \o <<i>> = <<i, j, i, j, i>>
        /\ <<i, j, i, j>> \o <<j>> = <<i, j, i, j, j>>
    BY <2>1, Concats
  <2>5. /\ B!Product(PEntry(i, j), Tok(i)) = {<<i, j>> \o <<i>>}
        /\ B!Product(SEntry(i, j), Tok(i)) = {<<i, j, i, j>> \o <<i>>}
        /\ B!Product(SEntry(i, j), Tok(j)) = {<<i, j, i, j>> \o <<j>>}
    BY <1>1, <1>2, <2>1, <2>2, <2>3 DEF B!Product
  <2>6. QED
    BY <1>3, <2>4, <2>5
<1>4. CASE ~Live(i, j)
  <2>1. PEntry(i, j) = <<>> /\ SEntry(i, j) = <<>>
    BY <1>4 DEF PEntry, SEntry
  <2>2. QED
    BY <1>1, <1>2, <1>4, <2>1 DEF B!Product
<1>5. QED
  BY <1>3, <1>4

\* The two halves of a tile's columns.
LEMMA SpansSplit ==
    ASSUME call \in Calls, NEW c \in B!TileCol
    PROVE  /\ \E w \in Warp : c \in B!SpanOf(w)
           /\ \A u, w \in Warp : c \in B!SpanOf(u) /\ c \in B!SpanOf(w) => u = w
<1> DEFINE a == 2 * c
           k == B!kN
<1>1. k \in Nat \ {0} /\ a \in Nat /\ a < k * 2
  BY BwdCall DEF B!TileCol
<1> HIDE DEF a, k
<1>2. a \div k < 2 /\ a \div k \in Int
  BY <1>1, Below, Quotient
<1>3. ~(a \div k < 0)
  <2>1. k * 0 <= a
    BY <1>1
  <2>2. 0 <= a \div k
    BY <1>1, <2>1, Below
  <2>3. QED
    BY <1>2, <2>2
<1>4. a \div k \in Warp
  BY <1>2, <1>3 DEF Warp
<1>5. \A w \in Warp : c \in B!SpanOf(w) <=> a \div k = w
  BY DEF B!SpanOf, a, k
<1>6. QED
  BY <1>4, <1>5

\* The entries that both warps share.
LEMMA SharedIs ==
    ASSUME call \in Calls, NEW m, NEW nb, \A u \in Warp : Shared(u, nb, m),
           NEW r \in B!TileRow, NEW c \in B!TileCol
    PROVE  /\ sP[r][c] = PEntry(m * B!kM + r, nb * B!kN + c)
           /\ sdS[r][c] = SEntry(m * B!kM + r, nb * B!kN + c)
  BY SpansSplit DEF Shared

\* The numbers of a block.
LEMMA InBlock ==
    ASSUME NEW k \in Nat \ {0}, NEW t \in Int, NEW i \in Int
    PROVE  (\E r \in 0 .. k - 1 : i = t * k + r) <=> t * k <= i /\ i < (t + 1) * k
<1>1. t * k \in Int /\ (t + 1) * k = t * k + k
  OBVIOUS
<1> DEFINE a == t * k
<1>2. (\E r \in 0 .. k - 1 : i = a + r) <=> a <= i /\ i < a + k
  <2>1. a \in Int
    BY <1>1
  <2> HIDE DEF a
  <2>2. ASSUME a <= i, i < a + k PROVE \E r \in 0 .. k - 1 : i = a + r
    <3>1. i - a \in 0 .. k - 1 /\ i = a + (i - a)
      BY <2>1, <2>2
    <3>2. QED
      BY <3>1
  <2>3. QED
    BY <2>1, <2>2
<1>3. QED
  BY <1>1, <1>2

\* The products that a GEMM sums: for a column of dV and of dK, and for a row of dQ.
ValueTerms(U, c, slot) ==
    \A y : y \in U <=> \E r \in B!TileRow : y \in B!Product(sP[r][c], B!RowIn(b_smem[slot], r))
KeyTerms(U, c, slot) ==
    \A y : y \in U <=> \E r \in B!TileRow : y \in B!Product(sdS[r][c], B!RowIn(b_smem[slot], r))
QueryTerms(U, r) ==
    \A y : y \in U <=> \E c \in B!TileCol : y \in B!Product(sdS[r][c], B!RowIn(b_smem["K"], c))

\* What the GEMMs of a row block add to dV and dK of a column.
LEMMA RowTermsAre ==
    ASSUME call \in Calls, NEW m \in 0 .. B!LastRowBlock, NEW nb \in 0 .. B!LastColBlock,
           \A u \in Warp : Shared(u, nb, m), NEW c \in B!TileCol,
           NEW x, x = nb * B!kN + c, x \in Real(call),
           NEW slot, \A u \in Warp : InSlot(u, RowTile(slot, m)),
           NEW UP, ValueTerms(UP, c, slot), NEW US, KeyTerms(US, c, slot)
    PROVE  /\ ValueGrad(x, (m + 1) * B!kM) (+) SetToBag(UP) = ValueGrad(x, m * B!kM)
           /\ KeyGrad(x, (m + 1) * B!kM) (+) SetToBag(US) = KeyGrad(x, m * B!kM)
<1> DEFINE lo == m * B!kM
           hi == (m + 1) * B!kM
           Here == {i \in Real(call) : lo <= i /\ i < hi /\ Live(i, x)}
           V(S) == {<<i, x, i>> : i \in S}
           K(S) == {<<i, x, i, x, i>> : i \in S}
<1>1. B!kM \in Nat \ {0} /\ m \in Nat /\ lo \in Nat /\ hi \in Nat /\ B!TileRow = 0 .. B!kM - 1
  BY BwdCall DEF B!TileRow
<1>2. \A i \in Int : (\E r \in B!TileRow : i = lo + r) <=> lo <= i /\ i < hi
  BY <1>1, InBlock
<1>3. ASSUME NEW r \in B!TileRow
      PROVE  /\ B!Product(sP[r][c], B!RowIn(b_smem[slot], r))
                  = IF Live(lo + r, x) THEN {<<lo + r, x, lo + r>>} ELSE {}
             /\ B!Product(sdS[r][c], B!RowIn(b_smem[slot], r))
                  = IF Live(lo + r, x) THEN {<<lo + r, x, lo + r, x, lo + r>>} ELSE {}
  <2>1. B!RowIn(b_smem[slot], r) = Tok(lo + r)
    BY RowLoaded
  <2>2. sP[r][c] = PEntry(lo + r, x) /\ sdS[r][c] = SEntry(lo + r, x)
    BY SharedIs
  <2> HIDE DEF lo
  <2>3. QED
    BY <2>1, <2>2, ProductsAre
<1>4. \A i \in Real(call) : i \in Int
  BY DEF Real
<1>5. \A i : Live(i, x) => i \in Real(call)
  BY DEF Live
<1> HIDE DEF lo, hi
<1>6. \A i : i \in Here <=> \E r \in B!TileRow : i = lo + r /\ Live(lo + r, x)
  BY <1>2, <1>4, <1>5
<1>7. UP = V(Here)
  <2>1. \A y : y \in UP <=> \E r \in B!TileRow : y \in B!Product(sP[r][c], B!RowIn(b_smem[slot], r))
    BY DEF ValueTerms
  <2>2. \A y : y \in UP <=> \E r \in B!TileRow : Live(lo + r, x) /\ y = <<lo + r, x, lo + r>>
    <3>1. ASSUME NEW r \in B!TileRow, NEW y
          PROVE  y \in B!Product(sP[r][c], B!RowIn(b_smem[slot], r))
                   <=> Live(lo + r, x) /\ y = <<lo + r, x, lo + r>>
      <4>1. B!Product(sP[r][c], B!RowIn(b_smem[slot], r))
              = IF Live(lo + r, x) THEN {<<lo + r, x, lo + r>>} ELSE {}
        BY <1>3
      <4>2. QED
        BY <4>1
    <3>2. QED
      BY <2>1, <3>1
  <2> HIDE DEF Here
  <2>3. \A y : y \in UP <=> \E i \in Here : y = <<i, x, i>>
    BY <1>6, <2>2
  <2>4. QED
    BY <2>3
<1>8. US = K(Here)
  <2>1. \A y : y \in US <=> \E r \in B!TileRow : y \in B!Product(sdS[r][c], B!RowIn(b_smem[slot], r))
    BY DEF KeyTerms
  <2>2. \A y : y \in US <=> \E r \in B!TileRow : Live(lo + r, x) /\ y = <<lo + r, x, lo + r, x, lo + r>>
    <3>1. ASSUME NEW r \in B!TileRow, NEW y
          PROVE  y \in B!Product(sdS[r][c], B!RowIn(b_smem[slot], r))
                   <=> Live(lo + r, x) /\ y = <<lo + r, x, lo + r, x, lo + r>>
      <4>1. B!Product(sdS[r][c], B!RowIn(b_smem[slot], r))
              = IF Live(lo + r, x) THEN {<<lo + r, x, lo + r, x, lo + r>>} ELSE {}
        BY <1>3
      <4>2. QED
        BY <4>1
    <3>2. QED
      BY <2>1, <3>1
  <2> HIDE DEF Here
  <2>3. \A y : y \in US <=> \E i \in Here : y = <<i, x, i, x, i>>
    BY <1>6, <2>2
  <2>4. QED
    BY <2>3
<1>9. \A i : /\ i \in QueriesFrom(x, lo) <=> i \in QueriesFrom(x, hi) \/ i \in Here
             /\ ~(i \in QueriesFrom(x, hi) /\ i \in Here)
  <2>1. lo <= hi
    <3>1. hi = lo + B!kM
      BY <1>1 DEF lo, hi
    <3>2. QED
      BY <1>1, <3>1
  <2>2. \A i : i \in Here <=> i \in Real(call) /\ lo <= i /\ i < hi /\ Keeps(call, i, x)
    BY DEF Live
  <2>3. \A i : /\ i \in QueriesFrom(x, lo) <=> i \in Real(call) /\ lo <= i /\ Keeps(call, i, x)
               /\ i \in QueriesFrom(x, hi) <=> i \in Real(call) /\ hi <= i /\ Keeps(call, i, x)
    BY DEF QueriesFrom
  <2> HIDE DEF Here
  <2>4. ASSUME NEW i \in Real(call)
        PROVE  (lo <= i <=> hi <= i \/ (lo <= i /\ i < hi)) /\ ~(hi <= i /\ lo <= i /\ i < hi)
    BY <1>1, <1>4, <2>1
  <2>5. QED
    BY <2>2, <2>3, <2>4
<1> HIDE DEF Here
<1>10. V(QueriesFrom(x, lo)) = V(QueriesFrom(x, hi)) \cup V(Here) /\ V(QueriesFrom(x, hi)) \cap V(Here) = {}
  BY <1>9
<1>11. K(QueriesFrom(x, lo)) = K(QueriesFrom(x, hi)) \cup K(Here) /\ K(QueriesFrom(x, hi)) \cap K(Here) = {}
  BY <1>9
<1>12. SetToBag(V(QueriesFrom(x, hi))) (+) SetToBag(UP) = SetToBag(V(QueriesFrom(x, lo)))
  <2> HIDE DEF V
  <2>1. QED
    BY <1>7, <1>10, BagsJoin
<1>13. SetToBag(K(QueriesFrom(x, hi))) (+) SetToBag(US) = SetToBag(K(QueriesFrom(x, lo)))
  <2> HIDE DEF K
  <2>1. QED
    BY <1>8, <1>11, BagsJoin
<1>14. QED
  BY <1>12, <1>13 DEF ValueGrad, KeyGrad, lo, hi

\* What the GEMM of a column block adds to dQ of a row.
LEMMA ColumnTermsAre ==
    ASSUME call \in Calls, NEW m \in 0 .. B!LastRowBlock, NEW nb \in 0 .. B!LastColBlock,
           \A u \in Warp : Shared(u, nb, m) /\ InSlot(u, KOf(nb)), NEW r \in B!TileRow,
           NEW i, i = m * B!kM + r, i \in Real(call),
           NEW U, QueryTerms(U, r)
    PROVE  QueryGrad(i, nb * B!kN) (+) SetToBag(U) = QueryGrad(i, (nb + 1) * B!kN)
<1> DEFINE lo == nb * B!kN
           hi == (nb + 1) * B!kN
           Here == {j \in Real(call) : lo <= j /\ j < hi /\ Live(i, j)}
           Q(S) == {<<i, j, i, j, j>> : j \in S}
<1>1. B!kN \in Nat \ {0} /\ nb \in Nat /\ lo \in Nat /\ hi \in Nat /\ B!TileCol = 0 .. B!kN - 1
  BY BwdCall DEF B!TileCol
<1>2. \A j \in Int : (\E c \in B!TileCol : j = lo + c) <=> lo <= j /\ j < hi
  BY <1>1, InBlock
<1>3. ASSUME NEW c \in B!TileCol
      PROVE  B!Product(sdS[r][c], B!RowIn(b_smem["K"], c))
               = IF Live(i, lo + c) THEN {<<i, lo + c, i, lo + c, lo + c>>} ELSE {}
  <2>1. B!RowIn(b_smem["K"], c) = Tok(lo + c)
    BY ColumnLoaded DEF KOf
  <2>2. sdS[r][c] = SEntry(i, lo + c)
    BY SharedIs
  <2> HIDE DEF lo
  <2>3. QED
    BY <2>1, <2>2, ProductsAre
<1>4. \A j \in Real(call) : j \in Int
  BY DEF Real
<1>5. \A j : Live(i, j) => j \in Real(call)
  BY DEF Live
<1> HIDE DEF lo, hi
<1>6. \A j : j \in Here <=> \E c \in B!TileCol : j = lo + c /\ Live(i, lo + c)
  BY <1>2, <1>4, <1>5
<1>7. U = Q(Here)
  <2>1. \A y : y \in U <=> \E c \in B!TileCol : y \in B!Product(sdS[r][c], B!RowIn(b_smem["K"], c))
    BY DEF QueryTerms
  <2>2. \A y : y \in U <=> \E c \in B!TileCol : Live(i, lo + c) /\ y = <<i, lo + c, i, lo + c, lo + c>>
    <3>1. ASSUME NEW c \in B!TileCol, NEW y
          PROVE  y \in B!Product(sdS[r][c], B!RowIn(b_smem["K"], c))
                   <=> Live(i, lo + c) /\ y = <<i, lo + c, i, lo + c, lo + c>>
      <4>1. B!Product(sdS[r][c], B!RowIn(b_smem["K"], c))
              = IF Live(i, lo + c) THEN {<<i, lo + c, i, lo + c, lo + c>>} ELSE {}
        BY <1>3
      <4>2. QED
        BY <4>1
    <3>2. QED
      BY <2>1, <3>1
  <2> HIDE DEF Here
  <2>3. \A y : y \in U <=> \E j \in Here : y = <<i, j, i, j, j>>
    BY <1>6, <2>2
  <2>4. QED
    BY <2>3
<1>8. \A j : /\ j \in KeysBelow(i, hi) <=> j \in KeysBelow(i, lo) \/ j \in Here
             /\ ~(j \in KeysBelow(i, lo) /\ j \in Here)
  <2>1. lo <= hi
    <3>1. hi = lo + B!kN
      BY <1>1 DEF lo, hi
    <3>2. QED
      BY <1>1, <3>1
  <2>2. \A j : j \in Here <=> j \in Real(call) /\ lo <= j /\ j < hi /\ Keeps(call, i, j)
    BY DEF Live
  <2>3. \A j : /\ j \in KeysBelow(i, lo) <=> j \in Real(call) /\ j < lo /\ Keeps(call, i, j)
               /\ j \in KeysBelow(i, hi) <=> j \in Real(call) /\ j < hi /\ Keeps(call, i, j)
    BY DEF KeysBelow
  <2> HIDE DEF Here
  <2>4. ASSUME NEW j \in Real(call)
        PROVE  (j < hi <=> j < lo \/ (lo <= j /\ j < hi)) /\ ~(j < lo /\ lo <= j /\ j < hi)
    BY <1>1, <1>4, <2>1
  <2>5. QED
    BY <2>2, <2>3, <2>4
<1> HIDE DEF Here
<1>9. Q(KeysBelow(i, hi)) = Q(KeysBelow(i, lo)) \cup Q(Here) /\ Q(KeysBelow(i, lo)) \cap Q(Here) = {}
  BY <1>8
<1>10. SetToBag(Q(KeysBelow(i, lo))) (+) SetToBag(U) = SetToBag(Q(KeysBelow(i, hi)))
  <2> HIDE DEF Q
  <2>1. QED
    BY <1>7, <1>9, BagsJoin
<1>11. QED
  BY <1>10 DEF QueryGrad, lo, hi

\* A tile without a kept pair adds nothing.
LEMMA SkippedIs ==
    ASSUME call \in Calls, NEW m \in 0 .. B!LastRowBlock, NEW nb \in 0 .. B!LastColBlock, B!Skip(m, nb)
    PROVE  /\ \A c \in B!TileCol : nb * B!kN + c \in Real(call)
                 => /\ ValueGrad(nb * B!kN + c, (m + 1) * B!kM) = ValueGrad(nb * B!kN + c, m * B!kM)
                    /\ KeyGrad(nb * B!kN + c, (m + 1) * B!kM) = KeyGrad(nb * B!kN + c, m * B!kM)
           /\ \A r \in B!TileRow : m * B!kM + r \in Real(call)
                 => QueryGrad(m * B!kM + r, (nb + 1) * B!kN) = QueryGrad(m * B!kM + r, nb * B!kN)
<1>1. /\ B!kM \in Nat \ {0} /\ m \in Nat /\ B!TileRow = 0 .. B!kM - 1
      /\ B!kN \in Nat \ {0} /\ nb \in Nat /\ B!TileCol = 0 .. B!kN - 1
  BY BwdCall DEF B!TileRow, B!TileCol
<1>2. \A r \in B!TileRow, c \in B!TileCol : ~Live(m * B!kM + r, nb * B!kN + c)
  <2> TAKE r \in B!TileRow, c \in B!TileCol
  <2>1. PICK w \in Warp : c \in B!SpanOf(w)
    BY SpansSplit
  <2>2. QED
    BY <2>1, ScoreKept
<1>3. \A i \in Real(call) : i \in Int
  BY DEF Real
<1>4. \A i \in Int : (\E r \in B!TileRow : i = m * B!kM + r) <=> m * B!kM <= i /\ i < (m + 1) * B!kM
  BY <1>1, InBlock
<1>5. \A j \in Int : (\E c \in B!TileCol : j = nb * B!kN + c) <=> nb * B!kN <= j /\ j < (nb + 1) * B!kN
  BY <1>1, InBlock
<1>6. /\ m * B!kM \in Int /\ (m + 1) * B!kM = m * B!kM + B!kM
      /\ nb * B!kN \in Int /\ (nb + 1) * B!kN = nb * B!kN + B!kN
  BY <1>1
<1>7. ASSUME NEW c \in B!TileCol, nb * B!kN + c \in Real(call)
      PROVE  QueriesFrom(nb * B!kN + c, (m + 1) * B!kM) = QueriesFrom(nb * B!kN + c, m * B!kM)
  <2> DEFINE lo == m * B!kM
             hi == (m + 1) * B!kM
             j == nb * B!kN + c
  <2>1. \A i \in Real(call) : lo <= i /\ i < hi => ~Keeps(call, i, j)
    BY <1>2, <1>3, <1>4, <1>7 DEF Live
  <2>2. lo \in Int /\ hi \in Int /\ lo <= hi
    BY <1>1, <1>6
  <2> HIDE DEF lo, hi, j
  <2>3. QueriesFrom(j, hi) = QueriesFrom(j, lo)
    BY <1>3, <2>1, <2>2 DEF QueriesFrom
  <2>4. QED
    BY <2>3 DEF lo, hi, j
<1>8. ASSUME NEW r \in B!TileRow, m * B!kM + r \in Real(call)
      PROVE  KeysBelow(m * B!kM + r, (nb + 1) * B!kN) = KeysBelow(m * B!kM + r, nb * B!kN)
  <2> DEFINE lo == nb * B!kN
             hi == (nb + 1) * B!kN
             i == m * B!kM + r
  <2>1. \A j \in Real(call) : lo <= j /\ j < hi => ~Keeps(call, i, j)
    BY <1>2, <1>3, <1>5, <1>8 DEF Live
  <2>2. lo \in Int /\ hi \in Int /\ lo <= hi
    BY <1>1, <1>6
  <2> HIDE DEF lo, hi, i
  <2>3. KeysBelow(i, hi) = KeysBelow(i, lo)
    BY <1>3, <2>1, <2>2 DEF KeysBelow
  <2>4. QED
    BY <2>3 DEF lo, hi, i
<1>9. QED
  BY <1>7, <1>8 DEF ValueGrad, KeyGrad, QueryGrad

\* What a launch computes with does not change while it runs.
LEMMA SameLaunch ==
    ASSUME call' = call, finite' = finite
    PROVE  /\ B!kM' = B!kM /\ B!kN' = B!kN /\ B!TileRow' = B!TileRow /\ B!TileCol' = B!TileCol
           /\ B!LastRowBlock' = B!LastRowBlock /\ B!LastColBlock' = B!LastColBlock
           /\ B!NoGrad' = B!NoGrad /\ Real(call)' = Real(call)
           /\ \A w : B!SpanOf(w)' = B!SpanOf(w) /\ B!Mine(w, B!TileCol)' = B!Mine(w, B!TileCol)
           /\ \A m : /\ B!RowBlockMin(m)' = B!RowBlockMin(m) /\ B!FiniteRows(m)' = B!FiniteRows(m)
                     /\ QOf(m)' = QOf(m) /\ OOf(m)' = OOf(m) /\ KOf(m)' = KOf(m) /\ VOf(m)' = VOf(m)
           /\ \A nb, m : (Walked(nb, m)' <=> Walked(nb, m)) /\ (More(nb, m)' <=> More(nb, m))
           /\ \A x, lo : /\ KeyGrad(x, lo)' = KeyGrad(x, lo) /\ ValueGrad(x, lo)' = ValueGrad(x, lo)
                         /\ QueryGrad(x, lo)' = QueryGrad(x, lo)
           /\ \A w, i : (OwnsRow(w, i)' <=> OwnsRow(w, i)) /\ (OwnsCol(w, i)' <=> OwnsCol(w, i))
           /\ \A i, j : PEntry(i, j)' = PEntry(i, j) /\ SEntry(i, j)' = SEntry(i, j)
<1>1. B!kM' = B!kM /\ B!kN' = B!kN /\ B!SeqLen' = B!SeqLen
  BY DEF B!kM, B!kN, B!SeqLen
<1>2. B!TileRow' = B!TileRow /\ B!TileCol' = B!TileCol
  BY <1>1 DEF B!TileRow, B!TileCol
<1>3. B!LastRowBlock' = B!LastRowBlock /\ B!LastColBlock' = B!LastColBlock
  BY <1>1 DEF B!LastRowBlock, B!LastColBlock
<1>4. B!NoGrad' = B!NoGrad /\ Real(call)' = Real(call)
  BY <1>2 DEF B!NoGrad, Real
<1>5. \A w : B!SpanOf(w)' = B!SpanOf(w) /\ B!Mine(w, B!TileCol)' = B!Mine(w, B!TileCol)
  BY <1>1, <1>2 DEF B!SpanOf, B!Mine
<1>6. \A m : B!RowBlockMin(m)' = B!RowBlockMin(m) /\ B!FiniteRows(m)' = B!FiniteRows(m)
  BY <1>1, <1>2 DEF B!RowBlockMin, B!FiniteRows
<1>7. B!EvenMN' = B!EvenMN
  BY <1>1 DEF B!EvenMN
<1>8. /\ \A slot, block, size : B!EdgeTile(slot, block, size)' = B!EdgeTile(slot, block, size)
      /\ \A slot, block, size : B!FullTile(slot, block, size)' = B!FullTile(slot, block, size)
  BY <1>1, <1>7 DEF B!EdgeTile, B!FullTile
<1>9. \A slot, m : RowTile(slot, m)' = RowTile(slot, m)
  BY <1>1, <1>3, <1>8 DEF RowTile
<1>10. \A m : B!QBuffer(m)' = B!QBuffer(m)
  BY DEF B!QBuffer
<1>11. ASSUME NEW m PROVE QOf(m)' = QOf(m)
  <2>1. PICK slot : slot = B!QBuffer(m) /\ slot = B!QBuffer(m)'
    BY <1>10
  <2>2. RowTile(slot, m)' = RowTile(slot, m)
    BY <1>9
  <2>3. QED
    BY <1>1, <1>3, <2>1, <2>2 DEF QOf, RowTile
<1>12. \A m : OOf(m)' = OOf(m) /\ KOf(m)' = KOf(m) /\ VOf(m)' = VOf(m)
  BY <1>1, <1>8, <1>9 DEF OOf, KOf, VOf
<1>13. \A nb, m : (Walked(nb, m)' <=> Walked(nb, m)) /\ (More(nb, m)' <=> More(nb, m))
  BY <1>3, <1>6 DEF Walked, More
<1>14. /\ \A x, lo : KeyGrad(x, lo)' = KeyGrad(x, lo) /\ ValueGrad(x, lo)' = ValueGrad(x, lo)
       /\ \A x, lo : QueryGrad(x, lo)' = QueryGrad(x, lo)
  BY DEF KeyGrad, ValueGrad, QueryGrad, QueriesFrom, KeysBelow
<1>15. \A w, i : (OwnsRow(w, i)' <=> OwnsRow(w, i)) /\ (OwnsCol(w, i)' <=> OwnsCol(w, i))
  BY <1>1, <1>5 DEF OwnsRow, OwnsCol
<1>16. \A i, j : PEntry(i, j)' = PEntry(i, j) /\ SEntry(i, j)' = SEntry(i, j)
  BY DEF PEntry, SEntry, Live
<1>17. QED
  BY <1>1, <1>2, <1>3, <1>4, <1>5, <1>6, <1>11, <1>12, <1>13, <1>14, <1>15, <1>16

\* The copies that are on their way or have landed once the step is taken.
Lands(w, X) == b_inflight'[w] \subseteq X /\ \A x \in X : x \in b_inflight'[w] \/ b_smem'[x.slot][w] = x.src

\* What a warp has summed, staged and stored after a step.
LEMMA SumsAre ==
    ASSUME call' = call, finite' = finite, NEW w
    PROVE  /\ \A nb, lo : QueriesSummed(w, nb, lo)' <=>
                 \A i \in Real(call) : OwnsRow(w, i) =>
                     dq'[i] = QueryGrad(i, IF lo <= i THEN (nb + 1) * B!kN ELSE nb * B!kN)
           /\ \A nb, lo : KeysSummed(w, nb, lo)' <=>
                 \A c \in B!Mine(w, B!TileCol) : nb * B!kN + c \in Real(call) =>
                     acc_dk'[w][c] = KeyGrad(nb * B!kN + c, lo)
           /\ \A nb, lo : ValuesSummed(w, nb, lo)' <=>
                 \A c \in B!Mine(w, B!TileCol) : nb * B!kN + c \in Real(call) =>
                     acc_dv'[w][c] = ValueGrad(nb * B!kN + c, lo)
           /\ \A nb : ColumnsStaged(w, nb)' <=>
                 \A c \in B!Mine(w, B!TileCol) : nb * B!kN + c \in Real(call) =>
                     /\ sdKV'[c].k = KeyGrad(nb * B!kN + c, 0)
                     /\ sdKV'[c].v = ValueGrad(nb * B!kN + c, 0)
           /\ \A hi : ColumnsStored(w, hi)' <=>
                 \A j \in Real(call) : OwnsCol(w, j) /\ j < hi =>
                     dk'[j] = KeyGrad(j, 0) /\ dv'[j] = ValueGrad(j, 0)
<1>1. /\ B!kN' = B!kN /\ Real(call)' = Real(call) /\ B!Mine(w, B!TileCol)' = B!Mine(w, B!TileCol)
      /\ \A x, lo : /\ KeyGrad(x, lo)' = KeyGrad(x, lo) /\ ValueGrad(x, lo)' = ValueGrad(x, lo)
                    /\ QueryGrad(x, lo)' = QueryGrad(x, lo)
      /\ \A i : (OwnsRow(w, i)' <=> OwnsRow(w, i)) /\ (OwnsCol(w, i)' <=> OwnsCol(w, i))
  BY SameLaunch
<1>2. \A nb, lo : QueriesSummed(w, nb, lo)' <=>
         \A i \in Real(call) : OwnsRow(w, i) =>
             dq'[i] = QueryGrad(i, IF lo <= i THEN (nb + 1) * B!kN ELSE nb * B!kN)
  BY <1>1 DEF QueriesSummed, QueryGrad, KeysBelow
<1>3. \A nb, lo : KeysSummed(w, nb, lo)' <=>
         \A c \in B!Mine(w, B!TileCol) : nb * B!kN + c \in Real(call) =>
             acc_dk'[w][c] = KeyGrad(nb * B!kN + c, lo)
  BY <1>1 DEF KeysSummed, KeyGrad, QueriesFrom
<1>4. \A nb, lo : ValuesSummed(w, nb, lo)' <=>
         \A c \in B!Mine(w, B!TileCol) : nb * B!kN + c \in Real(call) =>
             acc_dv'[w][c] = ValueGrad(nb * B!kN + c, lo)
  BY <1>1 DEF ValuesSummed, ValueGrad, QueriesFrom
<1>5. \A nb : ColumnsStaged(w, nb)' <=>
         \A c \in B!Mine(w, B!TileCol) : nb * B!kN + c \in Real(call) =>
             /\ sdKV'[c].k = KeyGrad(nb * B!kN + c, 0)
             /\ sdKV'[c].v = ValueGrad(nb * B!kN + c, 0)
  BY <1>1 DEF ColumnsStaged, KeyGrad, ValueGrad, QueriesFrom
<1>6. \A hi : ColumnsStored(w, hi)' <=>
         \A j \in Real(call) : OwnsCol(w, j) /\ j < hi =>
             dk'[j] = KeyGrad(j, 0) /\ dv'[j] = ValueGrad(j, 0)
  BY <1>1 DEF ColumnsStored
<1>7. QED
  BY <1>2, <1>3, <1>4, <1>5, <1>6

\* What shared memory holds after a step.
LEMMA TilesHeld ==
    ASSUME call' = call, finite' = finite, NEW w
    PROVE  /\ \A nb, m : Shared(w, nb, m)' <=>
                 \A r \in B!TileRow, c \in B!SpanOf(w) :
                     /\ sP'[r][c] = PEntry(m * B!kM + r, nb * B!kN + c)
                     /\ sdS'[r][c] = SEntry(m * B!kM + r, nb * B!kN + c)
           /\ \A m : InSlot(w, QOf(m))' <=> b_smem'[QOf(m).slot][w] = QOf(m).src
           /\ \A m : InSlot(w, OOf(m))' <=> b_smem'["dO"][w] = OOf(m).src
           /\ \A nb : ColInSlots(w, nb)' <=> b_smem'["K"][w] = KOf(nb).src /\ b_smem'["V"][w] = VOf(nb).src
           /\ \A nb, m : Issued(w, Ahead(nb, m))' <=> Lands(w, Ahead(nb, m))
           /\ \A m : Issued(w, {OOf(m)})' <=> Lands(w, {OOf(m)})
           /\ \A m : Issued(w, {OOf(m), QOf(m)})' <=> Lands(w, {OOf(m), QOf(m)})
           /\ \A nb, m : Issued(w, {OOf(m), QOf(m), KOf(nb), VOf(nb)})'
                            <=> Lands(w, {OOf(m), QOf(m), KOf(nb), VOf(nb)})
<1>1. /\ B!kN' = B!kN /\ B!kM' = B!kM /\ B!TileRow' = B!TileRow /\ B!SpanOf(w)' = B!SpanOf(w)
      /\ \A i, j : PEntry(i, j)' = PEntry(i, j) /\ SEntry(i, j)' = SEntry(i, j)
      /\ \A m : QOf(m)' = QOf(m) /\ OOf(m)' = OOf(m) /\ KOf(m)' = KOf(m) /\ VOf(m)' = VOf(m)
      /\ \A nb, m : More(nb, m)' <=> More(nb, m)
  BY SameLaunch
<1>2. \A m : OOf(m).slot = "dO" /\ KOf(m).slot = "K" /\ VOf(m).slot = "V"
  BY RowTileIs
<1>3. \A nb, m : Shared(w, nb, m)' <=>
         \A r \in B!TileRow, c \in B!SpanOf(w) :
             /\ sP'[r][c] = PEntry(m * B!kM + r, nb * B!kN + c)
             /\ sdS'[r][c] = SEntry(m * B!kM + r, nb * B!kN + c)
  BY <1>1 DEF Shared, PEntry, SEntry, Live
<1>4. \A m : InSlot(w, QOf(m))' <=> b_smem'[QOf(m).slot][w] = QOf(m).src
  BY <1>1 DEF InSlot
<1>5. \A m : InSlot(w, OOf(m))' <=> b_smem'["dO"][w] = OOf(m).src
  BY <1>1, <1>2 DEF InSlot
<1>6. \A nb : ColInSlots(w, nb)' <=> b_smem'["K"][w] = KOf(nb).src /\ b_smem'["V"][w] = VOf(nb).src
  BY <1>1, <1>2 DEF InSlot, ColInSlots
<1>7. ASSUME NEW nb, NEW m PROVE Issued(w, Ahead(nb, m))' <=> Lands(w, Ahead(nb, m))
  <2>1. Ahead(nb, m)' = Ahead(nb, m)
    <3>1. PICK t : t = m - 1
      OBVIOUS
    <3>2. QOf(t)' = QOf(t)
      BY <1>1
    <3>3. Ahead(nb, m) = (IF call.doubleBuffer /\ More(nb, m) THEN {QOf(t)} ELSE {})
      BY <3>1, Zenon DEF Ahead
    <3>4. Ahead(nb, m)' = (IF call'.doubleBuffer /\ More(nb, m)' THEN {QOf(t)'} ELSE {})
      BY <3>1, Zenon DEF Ahead
    <3>5. QED
      BY <1>1, <3>2, <3>3, <3>4
  <2>2. QED
    BY <2>1 DEF Issued, InSlot, Lands
<1>8. \A m : Issued(w, {OOf(m)})' <=> Lands(w, {OOf(m)})
  BY <1>1 DEF Issued, InSlot, Lands
<1>9. \A m : Issued(w, {OOf(m), QOf(m)})' <=> Lands(w, {OOf(m), QOf(m)})
  BY <1>1 DEF Issued, InSlot, Lands
<1>10. \A nb, m : Issued(w, {OOf(m), QOf(m), KOf(nb), VOf(nb)})'
                     <=> Lands(w, {OOf(m), QOf(m), KOf(nb), VOf(nb)})
  BY <1>1 DEF Issued, InSlot, Lands
<1>11. QED
  BY <1>3, <1>4, <1>5, <1>6, <1>7, <1>8, <1>9, <1>10

Slots == {"Q0", "Q1", "dO", "K", "V"}

\* Nothing that belongs to warp u changes, but for its parts of the tiles.
Idle(u) ==
    /\ b_pc'[u] = b_pc[u] /\ col'[u] = col[u] /\ row'[u] = row[u] /\ b_inflight'[u] = b_inflight[u]
    /\ lse'[u] = lse[u] /\ acc_dk'[u] = acc_dk[u] /\ acc_dv'[u] = acc_dv[u]
    /\ \A r \in B!TileRow, c \in B!SpanOf(u) : sP'[r][c] = sP[r][c] /\ sdS'[r][c] = sdS[r][c]
    /\ \A c \in B!Mine(u, B!TileCol) : sdKV'[c].k = sdKV[c].k /\ sdKV'[c].v = sdKV[c].v
    /\ \A i \in Real(call) : OwnsRow(u, i) => dq'[i] = dq[i]
    /\ \A j \in Real(call) : OwnsCol(u, j) => dk'[j] = dk[j] /\ dv'[j] = dv[j]

SameTiles(u) == \A slot \in Slots : b_smem'[slot][u] = b_smem[slot][u]

\* Every copy has one of the slots.
LEMMA SlotIs ==
    \A m : /\ QOf(m).slot \in Slots /\ OOf(m).slot \in Slots
           /\ KOf(m).slot \in Slots /\ VOf(m).slot \in Slots
<1>1. \A m : B!QBuffer(m) \in Slots
  BY DEF B!QBuffer, Slots
<1>2. QED
  BY <1>1, RowTileIs DEF Slots

\* A warp's sums stand as long as the rows and columns it sums into do.
LEMMA SumsStay ==
    ASSUME call' = call, finite' = finite, NEW u
    PROVE  /\ (\A i \in Real(call) : OwnsRow(u, i) => dq'[i] = dq[i])
                => \A nb, lo : QueriesSummed(u, nb, lo) => QueriesSummed(u, nb, lo)'
           /\ acc_dk'[u] = acc_dk[u]
                => \A nb, lo : KeysSummed(u, nb, lo) => KeysSummed(u, nb, lo)'
           /\ acc_dv'[u] = acc_dv[u]
                => \A nb, lo : ValuesSummed(u, nb, lo) => ValuesSummed(u, nb, lo)'
           /\ (\A c \in B!Mine(u, B!TileCol) : sdKV'[c].k = sdKV[c].k /\ sdKV'[c].v = sdKV[c].v)
                => \A nb : ColumnsStaged(u, nb) => ColumnsStaged(u, nb)'
           /\ (\A j \in Real(call) : OwnsCol(u, j) => dk'[j] = dk[j] /\ dv'[j] = dv[j])
                => \A hi : ColumnsStored(u, hi) => ColumnsStored(u, hi)'
           /\ (\A r \in B!TileRow, c \in B!SpanOf(u) : sP'[r][c] = sP[r][c] /\ sdS'[r][c] = sdS[r][c])
                => \A nb, m : Shared(u, nb, m) => Shared(u, nb, m)'
<1>1. ASSUME \A i \in Real(call) : OwnsRow(u, i) => dq'[i] = dq[i],
             NEW nb, NEW lo, QueriesSummed(u, nb, lo)
      PROVE  QueriesSummed(u, nb, lo)'
  <2>1. \A i \in Real(call) : OwnsRow(u, i) =>
          dq'[i] = QueryGrad(i, IF lo <= i THEN (nb + 1) * B!kN ELSE nb * B!kN)
    BY <1>1 DEF QueriesSummed
  <2>2. QED
    BY <2>1, SumsAre
<1>2. ASSUME acc_dk'[u] = acc_dk[u], NEW nb, NEW lo, KeysSummed(u, nb, lo)
      PROVE  KeysSummed(u, nb, lo)'
  <2>1. \A c \in B!Mine(u, B!TileCol) : nb * B!kN + c \in Real(call) =>
          acc_dk'[u][c] = KeyGrad(nb * B!kN + c, lo)
    BY <1>2 DEF KeysSummed
  <2>2. QED
    BY <2>1, SumsAre
<1>3. ASSUME acc_dv'[u] = acc_dv[u], NEW nb, NEW lo, ValuesSummed(u, nb, lo)
      PROVE  ValuesSummed(u, nb, lo)'
  <2>1. \A c \in B!Mine(u, B!TileCol) : nb * B!kN + c \in Real(call) =>
          acc_dv'[u][c] = ValueGrad(nb * B!kN + c, lo)
    BY <1>3 DEF ValuesSummed
  <2>2. QED
    BY <2>1, SumsAre
<1>4. ASSUME \A c \in B!Mine(u, B!TileCol) : sdKV'[c].k = sdKV[c].k /\ sdKV'[c].v = sdKV[c].v,
             NEW nb, ColumnsStaged(u, nb) PROVE ColumnsStaged(u, nb)'
  <2>1. \A c \in B!Mine(u, B!TileCol) : nb * B!kN + c \in Real(call) =>
          /\ sdKV'[c].k = KeyGrad(nb * B!kN + c, 0)
          /\ sdKV'[c].v = ValueGrad(nb * B!kN + c, 0)
    BY <1>4 DEF ColumnsStaged
  <2>2. QED
    BY <2>1, SumsAre
<1>5. ASSUME \A j \in Real(call) : OwnsCol(u, j) => dk'[j] = dk[j] /\ dv'[j] = dv[j],
             NEW hi, ColumnsStored(u, hi)
      PROVE  ColumnsStored(u, hi)'
  <2>1. \A j \in Real(call) : OwnsCol(u, j) /\ j < hi =>
          dk'[j] = KeyGrad(j, 0) /\ dv'[j] = ValueGrad(j, 0)
    BY <1>5 DEF ColumnsStored
  <2>2. QED
    BY <2>1, SumsAre
<1>6. ASSUME \A r \in B!TileRow, c \in B!SpanOf(u) : sP'[r][c] = sP[r][c] /\ sdS'[r][c] = sdS[r][c],
             NEW nb, NEW m, Shared(u, nb, m)
      PROVE  Shared(u, nb, m)'
  <2>1. \A r \in B!TileRow, c \in B!SpanOf(u) :
          /\ sP'[r][c] = PEntry(m * B!kM + r, nb * B!kN + c)
          /\ sdS'[r][c] = SEntry(m * B!kM + r, nb * B!kN + c)
    BY <1>6 DEF Shared
  <2>2. QED
    BY <2>1, TilesHeld
<1>7. QED
  BY <1>1, <1>2, <1>3, <1>4, <1>5, <1>6

\* A warp's tiles stand as long as no slot of them is copied over.
LEMMA TilesStay ==
    ASSUME call' = call, finite' = finite, NEW u, SameTiles(u)
    PROVE  /\ \A m : InSlot(u, QOf(m)) => InSlot(u, QOf(m))'
           /\ \A m : InSlot(u, OOf(m)) => InSlot(u, OOf(m))'
           /\ \A nb : ColInSlots(u, nb) => ColInSlots(u, nb)'
           /\ \A X : Issued(u, X) /\ b_inflight'[u] = b_inflight[u] /\ (\A x \in X : x.slot \in Slots)
                     => Lands(u, X)
<1>1. ASSUME NEW m, InSlot(u, QOf(m)) PROVE InSlot(u, QOf(m))'
  <2>1. b_smem'[QOf(m).slot][u] = QOf(m).src
    BY <1>1, SlotIs DEF SameTiles, InSlot
  <2>2. QED
    BY <2>1, TilesHeld
<1>2. \A m : InSlot(u, OOf(m)) => InSlot(u, OOf(m))'
  BY RowTileIs, TilesHeld DEF SameTiles, InSlot, Slots
<1>3. \A nb : ColInSlots(u, nb) => ColInSlots(u, nb)'
  BY RowTileIs, TilesHeld DEF SameTiles, InSlot, Slots, ColInSlots
<1>4. \A X : Issued(u, X) /\ b_inflight'[u] = b_inflight[u] /\ (\A x \in X : x.slot \in Slots) => Lands(u, X)
  BY DEF SameTiles, InSlot, Issued, Lands
<1>5. QED
  BY <1>1, <1>2, <1>3, <1>4

\* A warp that does not move stays in its stage.
LEMMA StaysIdle ==
    ASSUME call' = call, finite' = finite, NEW u, Idle(u), SameTiles(u),
           NEW stage, NEW nb, NEW m, At(u, stage, nb, m)
    PROVE  At(u, stage, nb, m)'
<1> DEFINE hi == B!LastRowBlock
<1>1. /\ \A t : B!FiniteRows(t)' = B!FiniteRows(t) /\ QOf(t)' = QOf(t)
      /\ \A i, t : More(i, t)' <=> More(i, t)
      /\ hi' = hi /\ B!LastColBlock' = B!LastColBlock /\ B!kN' = B!kN /\ B!kM' = B!kM /\ B!NoGrad' = B!NoGrad
  BY SameLaunch
<1>2. /\ \A n1, lo : /\ QueriesSummed(u, n1, lo) => QueriesSummed(u, n1, lo)'
                     /\ KeysSummed(u, n1, lo) => KeysSummed(u, n1, lo)'
                     /\ ValuesSummed(u, n1, lo) => ValuesSummed(u, n1, lo)'
      /\ \A n1 : ColumnsStaged(u, n1) => ColumnsStaged(u, n1)'
      /\ \A to : ColumnsStored(u, to) => ColumnsStored(u, to)'
      /\ \A n1, t : Shared(u, n1, t) => Shared(u, n1, t)'
  BY SumsStay DEF Idle
<1>3. /\ \A t : InSlot(u, QOf(t)) => InSlot(u, QOf(t))'
      /\ \A t : InSlot(u, OOf(t)) => InSlot(u, OOf(t))'
      /\ \A n1 : ColInSlots(u, n1) => ColInSlots(u, n1)'
  BY TilesStay
<1>4. \A X : Issued(u, X) /\ (\A x \in X : x.slot \in Slots) => Lands(u, X)
  BY TilesStay DEF Idle
<1>5. Issued(u, Ahead(nb, m)) => Issued(u, Ahead(nb, m))'
  <2>1. \A x \in Ahead(nb, m) : x.slot \in Slots
    BY SlotIs DEF Ahead
  <2>2. QED
    BY <1>4, <2>1, TilesHeld
<1>6. \A t : Issued(u, {OOf(t)}) => Issued(u, {OOf(t)})'
  <2> TAKE t
  <2>1. \A x \in {OOf(t)} : x.slot \in Slots
    BY SlotIs
  <2>2. QED
    BY <1>4, <2>1, TilesHeld
<1>7. \A t : Issued(u, {OOf(t), QOf(t)}) => Issued(u, {OOf(t), QOf(t)})'
  <2> TAKE t
  <2>1. \A x \in {OOf(t), QOf(t)} : x.slot \in Slots
    BY SlotIs
  <2>2. QED
    BY <1>4, <2>1, TilesHeld
<1>8. ASSUME Issued(u, {OOf(hi), QOf(hi), KOf(nb), VOf(nb)})
      PROVE  Issued(u, {OOf(hi), QOf(hi), KOf(nb), VOf(nb)})'
  <2>1. PICK t : t = hi
    OBVIOUS
  <2> DEFINE X == {OOf(t), QOf(t), KOf(nb), VOf(nb)}
  <2>2. Issued(u, X) /\ \A x \in X : x.slot \in Slots
    BY <1>8, <2>1, SlotIs
  <2>3. Lands(u, X)
    <3> HIDE DEF X
    <3>1. QED
      BY <1>4, <2>2
  <2>4. Issued(u, {OOf(t), QOf(t), KOf(nb), VOf(nb)})'
    BY <2>3, TilesHeld
  <2>5. QED
    BY <1>1, <2>1, <2>4
<1>9. /\ b_pc'[u] = b_pc[u] /\ col'[u] = col[u] /\ row'[u] = row[u] /\ b_inflight'[u] = b_inflight[u]
      /\ lse'[u] = lse[u] /\ acc_dk'[u] = acc_dk[u] /\ acc_dv'[u] = acc_dv[u]
  BY DEF Idle
<1>10. CASE stage = "loading" /\ nb >= 0 /\ Loading(u, nb)
  <2>1. Loading(u, nb)'
    BY <1>1, <1>2, <1>8, <1>9, <1>10 DEF Loading
  <2>2. QED
    BY <1>10, <2>1 DEF At
<1>11. CASE stage = "probing" /\ nb >= 0 /\ Probing(u, nb, m)
  <2>1. Probing(u, nb, m)'
    BY <1>1, <1>2, <1>3, <1>5, <1>9, <1>11 DEF Probing
  <2>2. QED
    BY <1>11, <2>1 DEF At
<1>12. CASE stage = "summing" /\ nb >= 0 /\ Summing(u, nb, m)
  <2>1. Summing(u, nb, m)'
    BY <1>1, <1>2, <1>3, <1>5, <1>9, <1>12 DEF Summing
  <2>2. QED
    BY <1>12, <2>1 DEF At
<1>13. CASE stage = "passing" /\ nb >= 0 /\ Passing(u, nb, m)
  <2>1. Passing(u, nb, m)'
    BY <1>1, <1>2, <1>3, <1>5, <1>6, <1>7, <1>9, <1>13 DEF Passing
  <2>2. QED
    BY <1>13, <2>1 DEF At
<1>14. CASE stage = "refilling" /\ nb >= 0 /\ Refilling(u, nb, m)
  <2>1. Refilling(u, nb, m)'
    BY <1>1, <1>2, <1>3, <1>6, <1>7, <1>9, <1>14 DEF Refilling
  <2>2. QED
    BY <1>14, <2>1 DEF At
<1>15. CASE stage = "staging" /\ nb >= 0 /\ Staging(u, nb, m)
  <2>1. Staging(u, nb, m)'
    BY <1>1, <1>2, <1>9, <1>15 DEF Staging
  <2>2. QED
    BY <1>15, <2>1 DEF At
<1>16. CASE stage = "storing" /\ Storing(u, nb)
  <2>1. Storing(u, nb)'
    BY <1>1, <1>2, <1>9, <1>16 DEF Storing
  <2>2. QED
    BY <1>16, <2>1 DEF At
<1>17. QED
  BY <1>10, <1>11, <1>12, <1>13, <1>14, <1>15, <1>16 DEF At

\* One warp moves within its stage.
LEMMA OneMoves ==
    ASSUME call' = call, finite' = finite, InStep, NEW w \in Warp,
           \A u \in Warp \ {w} : Idle(u) /\ SameTiles(u),
           \A stage, nb, m : Walked(nb, m) /\ (\A u \in Warp : At(u, stage, nb, m)) => At(w, stage, nb, m)'
    PROVE  InStep'
<1>1. PICK stage \in Stages, nb \in Int, m \in Int : Walked(nb, m) /\ \A u \in Warp : At(u, stage, nb, m)
  BY DEF InStep
<1>2. ASSUME NEW u \in Warp PROVE At(u, stage, nb, m)'
  <2>1. CASE u = w
    BY <1>1, <2>1
  <2>2. CASE u # w
    BY <1>1, <2>2, StaysIdle
  <2>3. QED
    BY <2>1, <2>2
<1>3. Walked(nb, m)'
  BY <1>1, SameLaunch
<1>4. QED
  BY <1>1, <1>2, <1>3 DEF InStep

\* The blocks of a stage.
LEMMA WalkIs ==
    ASSUME call \in Calls, NEW nb, NEW m, Walked(nb, m)
    PROVE  /\ m \in Nat /\ m \in 0 .. B!LastRowBlock /\ nb \in Int /\ -1 <= nb /\ nb <= B!LastColBlock
           /\ nb >= 0 => /\ nb \in Nat /\ nb \in 0 .. B!LastColBlock
                         /\ B!RowBlockMin(nb) \in Nat /\ B!RowBlockMin(nb) <= m
                         /\ More(nb, m) => m - 1 \in Nat /\ m - 1 \in 0 .. B!LastRowBlock /\ m - 1 # B!LastRowBlock
                                           /\ B!RowBlockMin(nb) <= m - 1
           /\ B!LastRowBlock \in Nat /\ B!LastColBlock \in Nat
<1>1. /\ B!LastRowBlock \in Nat /\ B!LastColBlock \in Nat /\ B!kM \in Nat \ {0} /\ B!kN \in Nat \ {0}
  BY BwdCall
<1>2. m \in 0 .. B!LastRowBlock /\ nb \in -1 .. B!LastColBlock /\ (nb >= 0 => B!RowBlockMin(nb) <= m)
  BY DEF Walked
<1>3. nb >= 0 => B!RowBlockMin(nb) \in Nat
  <2> SUFFICES ASSUME nb \in Nat PROVE B!RowBlockMin(nb) \in Nat
    BY <1>1, <1>2
  <2> DEFINE a == nb * B!kN
             k == B!kM
  <2>1. a \in Nat /\ k \in Nat \ {0}
    BY <1>1
  <2> HIDE DEF a, k
  <2>2. k * 0 <= a /\ a \in Int
    BY <2>1
  <2>6. a \div k \in Int
    BY <2>1, Quotient
  <2>3. a \div k \in Int /\ 0 <= a \div k
    BY <2>1, <2>2, <2>6, Below
  <2>4. B!RowBlockMin(nb) = IF call.causal THEN a \div k ELSE 0
    BY DEF B!RowBlockMin, a, k
  <2>5. QED
    BY <2>3, <2>4
<1>4. QED
  BY <1>1, <1>2, <1>3 DEF More

\* Two row blocks next to each other have buffers of their own.
LEMMA OtherBuffer ==
    ASSUME NEW m \in Nat, call.doubleBuffer, NEW t, t = m - 1
    PROVE  B!QBuffer(t) # B!QBuffer(m)
<1>1. t % 2 = 1 <=> m % 2 # 1
  OBVIOUS
<1>2. QED
  BY <1>1 DEF B!QBuffer

\* What a landing copy changes.
LEMMA BwdLandIs ==
    ASSUME BwdShape, NEW w \in Warp, NEW x \in b_inflight[w],
           b_smem' = [b_smem EXCEPT ![x.slot][w] = x.src],
           b_inflight' = [b_inflight EXCEPT ![w] = @ \ {x}]
    PROVE  /\ x.slot \in Slots => b_smem'[x.slot][w] = x.src
           /\ \A y \in Slots \ {x.slot} : b_smem'[y][w] = b_smem[y][w]
           /\ \A y \in Slots : \A u \in Warp \ {w} : b_smem'[y][u] = b_smem[y][u]
           /\ b_inflight'[w] = b_inflight[w] \ {x}
           /\ \A u \in Warp \ {w} : b_inflight'[u] = b_inflight[u]
<1> DEFINE slot == x.slot
           src == x.src
<1>1. b_smem' = [b_smem EXCEPT ![slot] = [b_smem[slot] EXCEPT ![w] = src]]
  OBVIOUS
<1>2. DOMAIN b_smem = Slots /\ \A y \in Slots : DOMAIN b_smem[y] = Warp
  BY DEF BwdShape, Slots
<1>3. DOMAIN b_inflight = Warp
  BY DEF BwdShape
<1> HIDE DEF slot, src
<1>4. slot \in Slots => b_smem'[slot][w] = src
  BY <1>1, <1>2
<1>5. \A y \in Slots \ {slot} : b_smem'[y] = b_smem[y]
  BY <1>1, <1>2
<1>6. \A y \in Slots : \A u \in Warp \ {w} : b_smem'[y][u] = b_smem[y][u]
  BY <1>1, <1>2
<1>7. b_inflight'[w] = b_inflight[w] \ {x} /\ \A u \in Warp \ {w} : b_inflight'[u] = b_inflight[u]
  BY <1>3
<1>8. QED
  BY <1>4, <1>5, <1>6, <1>7 DEF slot, src

\* Copies into slots of their own land in any order.
LEMMA LandsNext ==
    ASSUME BwdShape, NEW w \in Warp, NEW x \in b_inflight[w],
           b_smem' = [b_smem EXCEPT ![x.slot][w] = x.src],
           b_inflight' = [b_inflight EXCEPT ![w] = @ \ {x}],
           NEW X, Issued(w, X), \A y \in X : y.slot \in Slots,
           \A y, z \in X : y.slot = z.slot => y = z
    PROVE  x \in X /\ Lands(w, X)
<1>1. x \in X /\ b_inflight'[w] = b_inflight[w] \ {x}
  BY BwdLandIs DEF Issued
<1>2. ASSUME NEW y \in X, y \notin b_inflight'[w]
      PROVE  b_smem'[y.slot][w] = y.src
  <2>1. CASE y = x
    BY <1>1, <2>1, BwdLandIs
  <2>2. CASE y # x
    <3>1. y \notin b_inflight[w] /\ y.slot # x.slot
      BY <1>1, <1>2, <2>2
    <3>2. b_smem[y.slot][w] = y.src
      BY <3>1 DEF Issued, InSlot
    <3>3. b_smem'[y.slot][w] = b_smem[y.slot][w]
      BY <3>1, BwdLandIs
    <3>4. QED
      BY <3>2, <3>3
  <2>3. QED
    BY <2>1, <2>2
<1>3. QED
  BY <1>1, <1>2 DEF Issued, Lands

\* A copy lands while its warp is between an issue and a wait.
LEMMA BwdLand ==
    ASSUME BwdShape, InStep, finite' = finite, NEW w \in Warp, B!Land(w)
    PROVE  InStep'
<1>1. PICK x \in b_inflight[w] :
         /\ b_smem' = [b_smem EXCEPT ![x.slot][w] = x.src]
         /\ b_inflight' = [b_inflight EXCEPT ![w] = @ \ {x}]
         /\ sdKV' = B!Overwritten(x.slot, w)
  BY DEF B!Land
<1>2. /\ call' = call /\ b_pc' = b_pc /\ col' = col /\ row' = row /\ lse' = lse
      /\ acc_dk' = acc_dk /\ acc_dv' = acc_dv /\ sP' = sP /\ sdS' = sdS /\ dq' = dq /\ dk' = dk /\ dv' = dv
  BY DEF B!Land
<1>3. /\ \A y \in Slots \ {x.slot} : b_smem'[y][w] = b_smem[y][w]
      /\ \A y \in Slots : \A u \in Warp \ {w} : b_smem'[y][u] = b_smem[y][u]
      /\ \A u \in Warp \ {w} : b_inflight'[u] = b_inflight[u]
  BY <1>1, BwdLandIs
<1>4. ASSUME NEW u \in Warp \ {w} PROVE Idle(u) /\ SameTiles(u)
  <2>1. ASSUME NEW c \in B!Mine(u, B!TileCol) PROVE sdKV'[c].k = sdKV[c].k /\ sdKV'[c].v = sdKV[c].v
    <3>1. c \in B!TileCol /\ c \notin B!Mine(w, B!TileCol)
      BY DEF B!Mine
    <3>2. sdKV'[c] = [k |-> sdKV[c].k, v |-> sdKV[c].v]
      BY <1>1, <3>1 DEF B!Overwritten
    <3>3. QED
      BY <3>2
  <2>2. Idle(u)
    BY <1>2, <1>3, <2>1 DEF Idle
  <2>3. QED
    BY <1>3, <2>2 DEF SameTiles
<1>5. /\ \A t : B!FiniteRows(t)' = B!FiniteRows(t) /\ QOf(t)' = QOf(t)
      /\ \A i, t : More(i, t)' <=> More(i, t)
      /\ B!LastRowBlock' = B!LastRowBlock /\ B!LastColBlock' = B!LastColBlock
      /\ B!kN' = B!kN /\ B!kM' = B!kM /\ B!NoGrad' = B!NoGrad
  BY <1>2, SameLaunch
<1>6. /\ \A n1, lo : /\ QueriesSummed(w, n1, lo) => QueriesSummed(w, n1, lo)'
                     /\ KeysSummed(w, n1, lo) => KeysSummed(w, n1, lo)'
                     /\ ValuesSummed(w, n1, lo) => ValuesSummed(w, n1, lo)'
      /\ \A to : ColumnsStored(w, to) => ColumnsStored(w, to)'
      /\ \A n1, t : Shared(w, n1, t) => Shared(w, n1, t)'
  BY <1>2, SumsStay
<1>7. \A y : InSlot(w, y) /\ y.slot \in Slots /\ y.slot # x.slot => b_smem'[y.slot][w] = y.src
  BY <1>3 DEF InSlot
<1>8. /\ \A t : QOf(t).slot = B!QBuffer(t) /\ OOf(t).slot = "dO" /\ KOf(t).slot = "K" /\ VOf(t).slot = "V"
      /\ \A t : B!QBuffer(t) \in {"Q0", "Q1"}
  BY RowTileIs DEF B!QBuffer
<1>9. \A t : B!QBuffer(t) \in Slots
  BY <1>8 DEF Slots
<1>10. ASSUME NEW t, B!QBuffer(t) # x.slot, InSlot(w, QOf(t)) PROVE InSlot(w, QOf(t))'
  BY <1>2, <1>7, <1>8, <1>9, <1>10, TilesHeld
<1>11. ASSUME NEW t, "dO" # x.slot, InSlot(w, OOf(t)) PROVE InSlot(w, OOf(t))'
  BY <1>2, <1>7, <1>8, <1>11, TilesHeld DEF Slots
<1>12. ASSUME NEW t, x.slot \in {"Q0", "Q1", "dO"}, ColInSlots(w, t) PROVE ColInSlots(w, t)'
  BY <1>2, <1>7, <1>8, <1>12, TilesHeld DEF Slots, ColInSlots
<1>13. ASSUME NEW nb, NEW m \in Nat, Issued(w, Ahead(nb, m))
       PROVE  /\ Issued(w, Ahead(nb, m))' /\ x.slot \in {"Q0", "Q1"} /\ x.slot # B!QBuffer(m)
              /\ call.doubleBuffer /\ More(nb, m)
  <2>1. x \in Ahead(nb, m) /\ Lands(w, Ahead(nb, m))
    <3>1. /\ \A y \in Ahead(nb, m) : y.slot \in Slots
          /\ \A y, z \in Ahead(nb, m) : y.slot = z.slot => y = z
      BY <1>8, <1>9 DEF Ahead
    <3>2. QED
      BY <1>1, <1>13, <3>1, LandsNext
  <2>2. PICK t : t = m - 1
    OBVIOUS
  <2>3. call.doubleBuffer /\ More(nb, m) /\ x = QOf(t)
    BY <2>1, <2>2 DEF Ahead
  <2>4. QED
    BY <1>2, <1>8, <2>1, <2>2, <2>3, OtherBuffer, TilesHeld
<1>14. ASSUME NEW t, Issued(w, {OOf(t)}) PROVE Issued(w, {OOf(t)})' /\ x.slot = "dO"
  <2> DEFINE X == {OOf(t)}
  <2>1. /\ \A y \in X : y.slot \in Slots
        /\ \A y, z \in X : y.slot = z.slot => y = z
    BY <1>8 DEF Slots
  <2>2. Issued(w, X)
    BY <1>14
  <2> HIDE DEF X
  <2>3. x \in X /\ Lands(w, X)
    BY <1>1, <2>1, <2>2, LandsNext
  <2>4. QED
    BY <1>2, <1>8, <2>3, TilesHeld DEF X
<1>15. ASSUME NEW t, Issued(w, {OOf(t), QOf(t)})
       PROVE  Issued(w, {OOf(t), QOf(t)})' /\ x.slot \in {"dO", B!QBuffer(t)}
  <2> DEFINE X == {OOf(t), QOf(t)}
  <2>1. /\ \A y \in X : y.slot \in Slots
        /\ \A y, z \in X : y.slot = z.slot => y = z
    BY <1>8 DEF Slots
  <2>2. Issued(w, X)
    BY <1>15
  <2> HIDE DEF X
  <2>3. x \in X /\ Lands(w, X)
    BY <1>1, <2>1, <2>2, LandsNext
  <2>4. QED
    BY <1>2, <1>8, <2>3, TilesHeld DEF X
<1>16. ASSUME NEW t, NEW nb, Issued(w, {OOf(t), QOf(t), KOf(nb), VOf(nb)})
       PROVE  Issued(w, {OOf(t), QOf(t), KOf(nb), VOf(nb)})'
  <2> DEFINE X == {OOf(t), QOf(t), KOf(nb), VOf(nb)}
  <2>1. /\ \A y \in X : y.slot \in Slots
        /\ \A y, z \in X : y.slot = z.slot => y = z
    BY <1>8 DEF Slots
  <2>2. Issued(w, X)
    BY <1>16
  <2> HIDE DEF X
  <2>3. x \in X /\ Lands(w, X)
    BY <1>1, <2>1, <2>2, LandsNext
  <2>4. QED
    BY <1>2, <2>3, TilesHeld DEF X
<1>17. b_inflight[w] # {}
  BY <1>1
<1>18. ASSUME NEW stage, NEW nb, NEW m, Walked(nb, m), At(w, stage, nb, m)
       PROVE  At(w, stage, nb, m)'
  <2>1. m \in Nat
    BY <1>18, WalkIs DEF BwdShape
  <2>2. CASE stage = "loading" /\ nb >= 0 /\ Loading(w, nb)
    <3>1. PICK t : t = B!LastRowBlock
      OBVIOUS
    <3>2. Issued(w, {OOf(t), QOf(t), KOf(nb), VOf(nb)})'
      BY <1>16, <1>17, <2>2, <3>1 DEF Loading
    <3>3. Issued(w, {OOf(B!LastRowBlock), QOf(B!LastRowBlock), KOf(nb), VOf(nb)})'
      BY <1>5, <3>1, <3>2
    <3>4. Loading(w, nb)'
      BY <1>2, <1>5, <1>6, <1>17, <2>2, <3>3 DEF Loading
    <3>5. QED
      BY <2>2, <3>4 DEF At
  <2>3. CASE stage = "probing" /\ nb >= 0 /\ Probing(w, nb, m)
    <3>1. Issued(w, Ahead(nb, m))
      BY <1>17, <2>3 DEF Probing
    <3>2. Probing(w, nb, m)'
      BY <1>2, <1>5, <1>6, <1>10, <1>11, <1>12, <1>13, <1>17, <2>1, <2>3, <3>1 DEF Probing
    <3>3. QED
      BY <2>3, <3>2 DEF At
  <2>4. CASE stage = "summing" /\ nb >= 0 /\ Summing(w, nb, m)
    <3>1. Issued(w, Ahead(nb, m))
      BY <2>4 DEF Summing
    <3>2. Summing(w, nb, m)'
      BY <1>2, <1>5, <1>6, <1>10, <1>11, <1>12, <1>13, <2>1, <2>4, <3>1 DEF Summing
    <3>3. QED
      BY <2>4, <3>2 DEF At
  <2>5. CASE stage = "passing" /\ nb >= 0 /\ Passing(w, nb, m)
    <3>1. CASE b_pc[w] = "queries" /\ Issued(w, Ahead(nb, m))
      <4>1. Passing(w, nb, m)'
        BY <1>2, <1>5, <1>6, <1>10, <1>12, <1>13, <2>1, <2>5, <3>1 DEF Passing
      <4>2. QED
        BY <2>5, <4>1 DEF At
    <3>2. PICK t : t = m - 1
      OBVIOUS
    <3>3. CASE b_pc[w] = "landed" /\ call.doubleBuffer /\ Issued(w, {OOf(t), QOf(t)})
      <4>1. B!QBuffer(t) # B!QBuffer(m)
        BY <2>1, <3>2, <3>3, OtherBuffer
      <4>2. Issued(w, {OOf(t), QOf(t)})' /\ x.slot \in {"Q0", "Q1", "dO"} /\ x.slot # B!QBuffer(m)
        BY <1>8, <1>15, <3>3, <4>1
      <4>3. Passing(w, nb, m)'
        BY <1>2, <1>5, <1>6, <1>10, <1>12, <2>1, <2>5, <3>2, <3>3, <4>2 DEF Passing
      <4>4. QED
        BY <2>5, <4>3 DEF At
    <3>4. CASE b_pc[w] = "drained" /\ Issued(w, {OOf(t)})
      <4>1. Issued(w, {OOf(t)})' /\ x.slot \in {"Q0", "Q1", "dO"} /\ x.slot # B!QBuffer(m)
        BY <1>8, <1>14, <3>4
      <4>2. Passing(w, nb, m)'
        BY <1>2, <1>5, <1>6, <1>10, <1>12, <2>1, <2>5, <3>2, <3>4, <4>1 DEF Passing
      <4>3. QED
        BY <2>5, <4>2 DEF At
    <3>5. QED
      BY <1>17, <2>5, <3>1, <3>2, <3>3, <3>4 DEF Passing
  <2>6. CASE stage = "refilling" /\ nb >= 0 /\ Refilling(w, nb, m)
    <3>1. PICK t : t = m - 1
      OBVIOUS
    <3>2. CASE b_pc[w] = "refill" /\ Issued(w, {OOf(t)})
      <4>1. Issued(w, {OOf(t)})' /\ x.slot \in {"Q0", "Q1", "dO"}
        BY <1>14, <3>2
      <4>2. Refilling(w, nb, m)'
        BY <1>2, <1>5, <1>6, <1>12, <2>6, <3>1, <3>2, <4>1 DEF Refilling
      <4>3. QED
        BY <2>6, <4>2 DEF At
    <3>3. CASE b_pc[w] = "landed" /\ Issued(w, {OOf(t), QOf(t)})
      <4>1. Issued(w, {OOf(t), QOf(t)})' /\ x.slot \in {"Q0", "Q1", "dO"}
        BY <1>8, <1>15, <3>3
      <4>2. Refilling(w, nb, m)'
        BY <1>2, <1>5, <1>6, <1>12, <2>6, <3>1, <3>3, <4>1 DEF Refilling
      <4>3. QED
        BY <2>6, <4>2 DEF At
    <3>4. QED
      BY <2>6, <3>1, <3>2, <3>3 DEF Refilling
  <2>7. CASE stage = "staging" /\ Staging(w, nb, m)
    BY <1>17, <2>7 DEF Staging
  <2>8. CASE stage = "storing" /\ Storing(w, nb)
    BY <1>17, <2>8 DEF Storing
  <2>9. QED
    BY <1>18, <2>2, <2>3, <2>4, <2>5, <2>6, <2>7, <2>8 DEF At
<1>19. QED
  BY <1>2, <1>4, <1>18, OneMoves

\* A warp takes up a column block.
LEMMA BwdEnter ==
    ASSUME BwdShape, InStep, finite' = finite, NEW w \in Warp, B!Enter(w)
    PROVE  InStep'
<1>1. /\ b_pc[w] = "enter"
      /\ b_pc' = [b_pc EXCEPT ![w] = IF col[w] <= B!LastColBlock THEN B!Entry(w) ELSE "exit"]
      /\ call' = call /\ col' = col /\ row' = row /\ b_smem' = b_smem /\ b_inflight' = b_inflight
      /\ lse' = lse /\ sP' = sP /\ sdS' = sdS /\ acc_dk' = acc_dk /\ acc_dv' = acc_dv /\ sdKV' = sdKV
      /\ dq' = dq /\ dk' = dk /\ dv' = dv
  BY DEF B!Enter, B!Goto
<1>2. /\ b_pc'[w] = IF col[w] <= B!LastColBlock THEN B!Entry(w) ELSE "exit"
      /\ \A u \in Warp \ {w} : b_pc'[u] = b_pc[u]
  BY <1>1 DEF BwdShape
<1>3. ASSUME NEW u \in Warp \ {w} PROVE Idle(u) /\ SameTiles(u)
  BY <1>1, <1>2 DEF Idle, SameTiles
<1>4. /\ B!LastRowBlock' = B!LastRowBlock /\ B!LastColBlock' = B!LastColBlock
      /\ B!kN' = B!kN /\ B!kM' = B!kM
  BY <1>1, SameLaunch
<1>5. /\ \A n1, lo : QueriesSummed(w, n1, lo) => QueriesSummed(w, n1, lo)'
      /\ \A n1 : ColumnsStaged(w, n1) => ColumnsStaged(w, n1)'
      /\ \A to : ColumnsStored(w, to) => ColumnsStored(w, to)'
  BY <1>1, SumsStay
<1>6. ASSUME NEW stage, NEW nb, NEW m, Walked(nb, m), At(w, stage, nb, m)
      PROVE  At(w, stage, nb, m)'
  <2>1. nb \in Int /\ nb <= B!LastColBlock /\ B!LastColBlock \in Nat
    BY <1>6, WalkIs DEF BwdShape
  <2>2. CASE stage = "loading" /\ nb >= 0 /\ Loading(w, nb)
    <3>1. ~call.deterministic /\ col[w] = nb /\ b_inflight[w] = {}
      BY <1>1, <2>2 DEF Loading
    <3>2. b_pc'[w] = "load"
      BY <1>2, <2>1, <3>1 DEF B!Entry
    <3>3. Loading(w, nb)'
      BY <1>1, <1>4, <1>5, <2>2, <3>1, <3>2 DEF Loading
    <3>4. QED
      BY <2>2, <3>3 DEF At
  <2>3. CASE stage = "storing" /\ Storing(w, nb)
    <3>1. call.deterministic /\ col[w] = nb + 1 /\ ColumnsStored(w, (nb + 1) * B!kN)
      BY <1>1, <2>3 DEF Storing
    <3>2. b_pc'[w] = IF nb < B!LastColBlock THEN "start" ELSE "exit"
      BY <1>2, <2>1, <3>1 DEF B!Entry
    <3>3. Storing(w, nb)'
      BY <1>1, <1>4, <1>5, <2>1, <2>3, <3>1, <3>2 DEF Storing
    <3>4. QED
      BY <2>3, <3>3 DEF At
  <2>4. /\ ~(stage = "probing" /\ Probing(w, nb, m)) /\ ~(stage = "summing" /\ Summing(w, nb, m))
        /\ ~(stage = "passing" /\ Passing(w, nb, m)) /\ ~(stage = "refilling" /\ Refilling(w, nb, m))
        /\ ~(stage = "staging" /\ Staging(w, nb, m))
    BY <1>1 DEF Probing, Summing, Passing, Refilling, Staging
  <2>5. QED
    BY <1>6, <2>2, <2>3, <2>4 DEF At
<1>7. QED
  BY <1>1, <1>3, <1>6, OneMoves

\* The prologue of a column block.
LEMMA BwdLoad ==
    ASSUME BwdShape, InStep, finite' = finite, NEW w \in Warp, B!Load(w)
    PROVE  InStep'
<1>1. PICK hi : hi = B!LastRowBlock
  OBVIOUS
<1>2. /\ b_pc[w] = "load" /\ b_pc' = [b_pc EXCEPT ![w] = "landed"] /\ row' = [row EXCEPT ![w] = hi]
      /\ b_inflight' = [b_inflight EXCEPT ![w] = @ \cup
            {B!EdgeTile("dO", hi, B!kM), B!EdgeTile(B!QBuffer(hi), hi, B!kM),
             B!EdgeTile("K", col[w], B!kN), B!EdgeTile("V", col[w], B!kN)}]
      /\ lse' = [lse EXCEPT ![w] = B!FiniteRows(hi)]
      /\ acc_dk' = [acc_dk EXCEPT ![w] = B!NoGrad] /\ acc_dv' = [acc_dv EXCEPT ![w] = B!NoGrad]
      /\ call' = call /\ col' = col /\ b_smem' = b_smem
      /\ sP' = sP /\ sdS' = sdS /\ sdKV' = sdKV /\ dq' = dq /\ dk' = dk /\ dv' = dv
  BY <1>1 DEF B!Load, B!Goto, B!Issue
<1>3. /\ b_pc'[w] = "landed" /\ row'[w] = hi /\ lse'[w] = B!FiniteRows(hi)
      /\ acc_dk'[w] = B!NoGrad /\ acc_dv'[w] = B!NoGrad
      /\ b_inflight'[w] = b_inflight[w] \cup {OOf(hi), QOf(hi), KOf(col[w]), VOf(col[w])}
  BY <1>1, <1>2 DEF BwdShape, OOf, QOf, KOf, VOf, RowTile
<1>4. ASSUME NEW u \in Warp \ {w} PROVE Idle(u) /\ SameTiles(u)
  <2>1. /\ b_pc'[u] = b_pc[u] /\ row'[u] = row[u] /\ lse'[u] = lse[u] /\ acc_dk'[u] = acc_dk[u]
        /\ acc_dv'[u] = acc_dv[u] /\ b_inflight'[u] = b_inflight[u]
    BY <1>2 DEF BwdShape
  <2>2. QED
    BY <1>2, <2>1 DEF Idle, SameTiles
<1>5. /\ B!LastRowBlock' = hi /\ B!kN' = B!kN /\ B!kM' = B!kM /\ B!NoGrad' = B!NoGrad
      /\ B!FiniteRows(hi)' = B!FiniteRows(hi)
  BY <1>1, <1>2, SameLaunch
<1>6. /\ \A n1, lo : QueriesSummed(w, n1, lo) => QueriesSummed(w, n1, lo)'
      /\ \A to : ColumnsStored(w, to) => ColumnsStored(w, to)'
  BY <1>2, SumsStay
<1>7. ASSUME NEW stage, NEW nb, NEW m, Walked(nb, m), At(w, stage, nb, m)
      PROVE  At(w, stage, nb, m)'
  <2>1. CASE stage = "loading" /\ nb >= 0 /\ Loading(w, nb)
    <3> DEFINE X == {OOf(hi), QOf(hi), KOf(nb), VOf(nb)}
    <3>1. col[w] = nb /\ b_inflight[w] = {}
      BY <1>2, <2>1 DEF Loading
    <3>2. b_inflight'[w] = X
      BY <1>3, <3>1
    <3>3. Lands(w, X)
      <4> HIDE DEF X
      <4>1. QED
        BY <3>2 DEF Lands
    <3>4. Issued(w, {OOf(hi), QOf(hi), KOf(nb), VOf(nb)})'
      BY <1>2, <3>3, TilesHeld
    <3>5. Issued(w, {OOf(B!LastRowBlock), QOf(B!LastRowBlock), KOf(nb), VOf(nb)})'
      BY <1>5, <3>4
    <3>6. lse'[w] = B!FiniteRows(B!LastRowBlock)'
      <4>1. B!FiniteRows(B!LastRowBlock)' = B!FiniteRows(hi)
        BY <1>1, <1>5, <1>2, SameLaunch DEF B!FiniteRows
      <4>2. QED
        BY <1>3, <4>1
    <3>7. Loading(w, nb)'
      BY <1>1, <1>2, <1>3, <1>5, <1>6, <2>1, <3>1, <3>5, <3>6 DEF Loading
    <3>8. QED
      BY <2>1, <3>7 DEF At
  <2>2. /\ ~(stage = "probing" /\ Probing(w, nb, m)) /\ ~(stage = "summing" /\ Summing(w, nb, m))
        /\ ~(stage = "passing" /\ Passing(w, nb, m)) /\ ~(stage = "refilling" /\ Refilling(w, nb, m))
        /\ ~(stage = "staging" /\ Staging(w, nb, m)) /\ ~(stage = "storing" /\ Storing(w, nb))
    BY <1>2 DEF Probing, Summing, Passing, Refilling, Staging, Storing
  <2>3. QED
    BY <1>7, <2>1, <2>2 DEF At
<1>8. QED
  BY <1>2, <1>4, <1>7, OneMoves

\* Without a double buffer the next Q follows behind its barrier.
LEMMA BwdRefill ==
    ASSUME BwdShape, InStep, finite' = finite, NEW w \in Warp, B!Refill(w)
    PROVE  InStep'
<1>1. PICK t : t = row[w] - 1
  OBVIOUS
<1>2. /\ b_pc[w] = "refill" /\ b_pc' = [b_pc EXCEPT ![w] = "landed"] /\ row' = [row EXCEPT ![w] = @ - 1]
      /\ b_inflight' = [b_inflight EXCEPT ![w] = @ \cup {B!FullTile(B!QBuffer(t), t, B!kM)}]
      /\ call' = call /\ col' = col /\ b_smem' = b_smem /\ lse' = lse
      /\ sP' = sP /\ sdS' = sdS /\ acc_dk' = acc_dk /\ acc_dv' = acc_dv /\ sdKV' = sdKV
      /\ dq' = dq /\ dk' = dk /\ dv' = dv
  BY <1>1 DEF B!Refill, B!Goto, B!Issue
<1>3. /\ b_pc'[w] = "landed" /\ row'[w] = t
      /\ b_inflight'[w] = b_inflight[w] \cup {B!FullTile(B!QBuffer(t), t, B!kM)}
  BY <1>1, <1>2 DEF BwdShape
<1>4. ASSUME NEW u \in Warp \ {w} PROVE Idle(u) /\ SameTiles(u)
  <2>1. b_pc'[u] = b_pc[u] /\ row'[u] = row[u] /\ b_inflight'[u] = b_inflight[u]
    BY <1>2 DEF BwdShape
  <2>2. QED
    BY <1>2, <2>1 DEF Idle, SameTiles
<1>5. /\ B!kN' = B!kN /\ B!kM' = B!kM /\ \A i : B!FiniteRows(i)' = B!FiniteRows(i)
      /\ \A i, j : More(i, j)' <=> More(i, j)
  BY <1>2, SameLaunch
<1>6. /\ \A n1, lo : /\ QueriesSummed(w, n1, lo) => QueriesSummed(w, n1, lo)'
                     /\ KeysSummed(w, n1, lo) => KeysSummed(w, n1, lo)'
                     /\ ValuesSummed(w, n1, lo) => ValuesSummed(w, n1, lo)'
      /\ \A to : ColumnsStored(w, to) => ColumnsStored(w, to)'
  BY <1>2, SumsStay
<1>7. \A n1 : ColInSlots(w, n1) => ColInSlots(w, n1)'
  BY <1>2, TilesStay DEF SameTiles
<1>8. ASSUME NEW stage, NEW nb, NEW m, Walked(nb, m), At(w, stage, nb, m)
      PROVE  At(w, stage, nb, m)'
  <2>1. CASE stage = "refilling" /\ nb >= 0 /\ Refilling(w, nb, m)
    <3>1. t = m - 1 /\ More(nb, m)
      BY <1>1, <1>2, <2>1 DEF Refilling
    <3>2. Issued(w, {OOf(t)})
      <4>1. PICK s : s = m - 1
        OBVIOUS
      <4>2. Issued(w, {OOf(s)})
        BY <1>2, <2>1, <4>1 DEF Refilling
      <4>3. QED
        BY <3>1, <4>1, <4>2
    <3>3. m - 1 # B!LastRowBlock
      BY <1>8, <2>1, <3>1, WalkIs DEF BwdShape
    <3>4. B!FullTile(B!QBuffer(t), t, B!kM) = QOf(t)
      BY <3>1, <3>3 DEF QOf, RowTile
    <3>5. Lands(w, {OOf(t), QOf(t)})
      BY <1>2, <1>3, <3>2, <3>4 DEF Lands, Issued, InSlot
    <3>6. Issued(w, {OOf(t), QOf(t)})'
      BY <1>2, <3>5, TilesHeld
    <3>7. Refilling(w, nb, m)'
      BY <1>2, <1>3, <1>5, <1>6, <1>7, <2>1, <3>1, <3>6 DEF Refilling
    <3>8. QED
      BY <2>1, <3>7 DEF At
  <2>2. /\ ~(stage = "probing" /\ Probing(w, nb, m)) /\ ~(stage = "summing" /\ Summing(w, nb, m))
        /\ ~(stage = "passing" /\ Passing(w, nb, m)) /\ ~(stage = "loading" /\ Loading(w, nb))
        /\ ~(stage = "staging" /\ Staging(w, nb, m)) /\ ~(stage = "storing" /\ Storing(w, nb))
    BY <1>2 DEF Probing, Summing, Passing, Loading, Staging, Storing
  <2>3. QED
    BY <1>8, <2>1, <2>2 DEF At
<1>9. QED
  BY <1>2, <1>4, <1>8, OneMoves

\* Under the causal mask a column block has no work above its first row block.
LEMMA NothingEarlier ==
    ASSUME call \in Calls, NEW nb \in Nat, NEW m \in Nat, m = B!RowBlockMin(nb)
    PROVE  /\ \A x \in Real(call) : nb * B!kN <= x =>
                 KeyGrad(x, m * B!kM) = KeyGrad(x, 0) /\ ValueGrad(x, m * B!kM) = ValueGrad(x, 0)
           /\ \A i \in Real(call) : i < m * B!kM => QueryGrad(i, nb * B!kN) = QueryGrad(i, (nb + 1) * B!kN)
<1> DEFINE a == nb * B!kN
           b == m * B!kM
           d == (nb + 1) * B!kN
<1>1. a \in Nat /\ b \in Nat /\ d \in Nat /\ a <= d
  <2> DEFINE k == B!kN
             l == B!kM
  <2>1. k \in Nat /\ l \in Nat
    BY BwdCall
  <2> HIDE DEF k, l
  <2>2. nb * k \in Nat /\ m * l \in Nat /\ (nb + 1) * k = nb * k + k
    BY <2>1
  <2>3. QED
    BY <2>1, <2>2 DEF k, l
<1>2. /\ call.causal => b <= a
      /\ ~call.causal => b = 0
  <2> DEFINE l == B!kM
  <2>1. l \in Nat \ {0}
    BY BwdCall
  <2>2. CASE call.causal
    <3>1. m = a \div l
      BY <2>2 DEF B!RowBlockMin
    <3> HIDE DEF l, a
    <3>2. a % l \in 0 .. l - 1 /\ a = l * (a \div l) + (a % l)
      BY <1>1, <2>1, Quotient
    <3>3. l * m \in Int /\ l * m = m * l
      BY <2>1
    <3>4. m * l <= a
      BY <1>1, <2>1, <3>1, <3>2, <3>3
    <3>5. QED
      BY <2>2, <3>4 DEF l
  <2>3. CASE ~call.causal
    <3>1. m = 0
      BY <2>3 DEF B!RowBlockMin
    <3>2. QED
      BY <2>1, <2>3, <3>1
  <2>4. QED
    BY <2>2, <2>3
<1> HIDE DEF a, b, d
<1>3. Real(call) \subseteq Int /\ \A i \in Real(call) : i >= 0
  BY BwdCall DEF Real
<1>4. ASSUME NEW x \in Real(call), a <= x PROVE QueriesFrom(x, b) = QueriesFrom(x, 0)
  <2>1. ASSUME NEW i \in Real(call), Keeps(call, i, x) PROVE b <= i /\ 0 <= i
    BY <1>1, <1>2, <1>3, <1>4, <2>1 DEF Keeps
  <2>2. QED
    BY <2>1 DEF QueriesFrom
<1>5. ASSUME NEW i \in Real(call), i < b PROVE KeysBelow(i, a) = KeysBelow(i, d)
  <2>1. ASSUME NEW j \in Real(call), Keeps(call, i, j) PROVE j < a /\ j < d
    BY <1>1, <1>2, <1>3, <1>5, <2>1 DEF Keeps
  <2>2. QED
    BY <2>1 DEF KeysBelow
<1>6. \A x \in Real(call) : a <= x => KeyGrad(x, b) = KeyGrad(x, 0) /\ ValueGrad(x, b) = ValueGrad(x, 0)
  BY <1>4 DEF KeyGrad, ValueGrad
<1>7. \A i \in Real(call) : i < b => QueryGrad(i, a) = QueryGrad(i, d)
  BY <1>5 DEF QueryGrad
<1>8. QED
  BY <1>6, <1>7 DEF a, b, d

\* The epilogue stages what a warp has summed.
LEMMA BwdStage ==
    ASSUME BwdShape, InStep, finite' = finite, NEW w \in Warp, B!Stage(w)
    PROVE  InStep'
<1>1. /\ b_pc[w] = "stage" /\ b_pc' = [b_pc EXCEPT ![w] = "staged"]
      /\ sdKV' = [c \in B!TileCol |-> IF c \in B!Mine(w, B!TileCol)
                                      THEN [k |-> acc_dk[w][c], v |-> acc_dv[w][c]] ELSE sdKV[c]]
      /\ call' = call /\ col' = col /\ row' = row /\ b_inflight' = b_inflight /\ lse' = lse
      /\ sP' = sP /\ sdS' = sdS /\ acc_dk' = acc_dk /\ acc_dv' = acc_dv /\ dq' = dq /\ dk' = dk /\ dv' = dv
  BY DEF B!Stage, B!Goto
<1>2. b_pc'[w] = "staged" /\ \A u \in Warp \ {w} : b_pc'[u] = b_pc[u]
  BY <1>1 DEF BwdShape
<1>3. PICK stage \in Stages, nb \in Int, m \in Int : Walked(nb, m) /\ \A u \in Warp : At(u, stage, nb, m)
  BY DEF InStep
<1>4. stage = "staging"
  <2>1. At(w, stage, nb, m)
    BY <1>3
  <2>2. /\ ~Loading(w, nb) /\ ~Probing(w, nb, m) /\ ~Summing(w, nb, m) /\ ~Passing(w, nb, m)
        /\ ~Refilling(w, nb, m) /\ ~Storing(w, nb)
    BY <1>1 DEF Loading, Probing, Summing, Passing, Refilling, Storing
  <2>3. QED
    BY <2>1, <2>2 DEF At
<1>5. nb >= 0 /\ \A u \in Warp : Staging(u, nb, m)
  BY <1>3, <1>4 DEF At
<1>6. /\ nb \in Nat /\ m \in Nat /\ m = B!RowBlockMin(nb)
  <2>1. m \in Nat /\ nb \in Nat /\ B!RowBlockMin(nb) \in Nat /\ B!RowBlockMin(nb) <= m
    BY <1>3, <1>5, WalkIs DEF BwdShape
  <2>2. ~(B!RowBlockMin(nb) < m)
    BY <1>5 DEF Staging, More, Warp
  <2>3. QED
    BY <2>1, <2>2
<1>7. /\ B!kN' = B!kN /\ B!kM' = B!kM /\ \A i, j : More(i, j)' <=> More(i, j)
  BY <1>1, SameLaunch
<1>8. ASSUME NEW u \in Warp
      PROVE  /\ \A n1, lo : /\ QueriesSummed(u, n1, lo) => QueriesSummed(u, n1, lo)'
                            /\ KeysSummed(u, n1, lo) => KeysSummed(u, n1, lo)'
                            /\ ValuesSummed(u, n1, lo) => ValuesSummed(u, n1, lo)'
             /\ \A to : ColumnsStored(u, to) => ColumnsStored(u, to)'
  BY <1>1, SumsStay
<1>9. Staging(w, nb, m)'
  <2>1. KeysSummed(w, nb, m * B!kM) /\ ValuesSummed(w, nb, m * B!kM)
    BY <1>1, <1>5 DEF Staging
  <2>2. ASSUME NEW c \in B!Mine(w, B!TileCol), nb * B!kN + c \in Real(call)
        PROVE  /\ sdKV'[c].k = KeyGrad(nb * B!kN + c, 0)
               /\ sdKV'[c].v = ValueGrad(nb * B!kN + c, 0)
    <3>1. acc_dk[w][c] = KeyGrad(nb * B!kN + c, m * B!kM) /\ acc_dv[w][c] = ValueGrad(nb * B!kN + c, m * B!kM)
      BY <2>1, <2>2 DEF KeysSummed, ValuesSummed
    <3>2. c \in B!TileCol
      BY DEF B!Mine
    <3>3. sdKV'[c] = [k |-> acc_dk[w][c], v |-> acc_dv[w][c]]
      BY <1>1, <3>2
    <3>4. nb * B!kN <= nb * B!kN + c
      <4> DEFINE a == nb * B!kN
      <4>1. a \in Int /\ c \in Nat
        BY <1>6, <3>2, BwdCall DEF B!TileCol, BwdShape
      <4> HIDE DEF a
      <4>2. a <= a + c
        BY <4>1
      <4>3. QED
        BY <4>2 DEF a
    <3>5. /\ KeyGrad(nb * B!kN + c, m * B!kM) = KeyGrad(nb * B!kN + c, 0)
          /\ ValueGrad(nb * B!kN + c, m * B!kM) = ValueGrad(nb * B!kN + c, 0)
      BY <1>6, <2>2, <3>4, NothingEarlier DEF BwdShape
    <3>6. QED
      BY <3>1, <3>3, <3>5
  <2>3. ColumnsStaged(w, nb)'
    BY <1>1, <2>2, SumsAre
  <2>4. QED
    BY <1>1, <1>2, <1>5, <1>7, <1>8, <2>3 DEF Staging
<1>10. ASSUME NEW u \in Warp \ {w} PROVE Staging(u, nb, m)'
  <2>1. ASSUME NEW c \in B!Mine(u, B!TileCol) PROVE sdKV'[c].k = sdKV[c].k /\ sdKV'[c].v = sdKV[c].v
    <3>1. c \in B!TileCol /\ c \notin B!Mine(w, B!TileCol)
      BY DEF B!Mine
    <3>2. QED
      BY <1>1, <3>1
  <2>2. \A n1 : ColumnsStaged(u, n1) => ColumnsStaged(u, n1)'
    BY <1>1, <2>1, SumsStay
  <2>3. QED
    BY <1>1, <1>2, <1>5, <1>7, <1>8, <2>2 DEF Staging
<1>11. \A u \in Warp : At(u, stage, nb, m)'
  BY <1>4, <1>5, <1>9, <1>10 DEF At
<1>12. Walked(nb, m)'
  BY <1>1, <1>3, SameLaunch
<1>13. QED
  BY <1>3, <1>11, <1>12 DEF InStep

\* Where a number lies in a block.
LEMMA PlaceInBlock ==
    ASSUME NEW k \in Nat \ {0}, NEW t \in Int, NEW j \in Int
    PROVE  /\ j - t * k \in 0 .. k - 1 => j % k = j - t * k
           /\ t * k <= j /\ j < (t + 1) * k <=> j - t * k \in 0 .. k - 1
<1> DEFINE a == k * t
           d == (t + 1) * k
<1>1. a \in Int /\ a = t * k /\ d = a + k
  OBVIOUS
<1>2. ASSUME j - a \in 0 .. k - 1 PROVE j % k = j - a
  <2> DEFINE r == j - a
  <2>1. r \in 0 .. k - 1 /\ (k * t + r) % k = r
    BY <1>2, OneQuotient
  <2>2. k * t + r = j
    <3> HIDE DEF a
    <3>1. a + r = j
      BY <1>1, <1>2
    <3>2. QED
      BY <3>1 DEF a
  <2>3. QED
    BY <2>1, <2>2
<1>4. a = t * k /\ d = (t + 1) * k
  BY <1>1
<1> HIDE DEF a, d
<1>3. a <= j /\ j < d <=> j - a \in 0 .. k - 1
  BY <1>1
<1>5. QED
  BY <1>2, <1>3, <1>4, Zenon

\* The columns and the rows of a block.
LEMMA ColumnIs ==
    ASSUME call \in Calls, NEW nb \in Int, NEW j \in Int
    PROVE  /\ j - nb * B!kN \in B!TileCol => j % B!kN = j - nb * B!kN
           /\ nb * B!kN <= j /\ j < (nb + 1) * B!kN <=> j - nb * B!kN \in B!TileCol
  BY BwdCall, PlaceInBlock DEF B!TileCol

\* The row of a row block that a token is.
LEMMA RowIs ==
    ASSUME call \in Calls, NEW m \in Int, NEW i \in Int
    PROVE  /\ i - m * B!kM \in B!TileRow => i % B!kM = i - m * B!kM
           /\ m * B!kM <= i /\ i < (m + 1) * B!kM <=> i - m * B!kM \in B!TileRow
  BY BwdCall, PlaceInBlock DEF B!TileRow

\* A warp stores its half of the columns.
LEMMA BwdStore ==
    ASSUME BwdShape, InStep, finite' = finite, NEW w \in Warp, B!Store(w)
    PROVE  InStep'
<1>1. PICK t : t = col[w]
  OBVIOUS
<1>2. /\ b_pc[w] = "store" /\ b_pc' = [b_pc EXCEPT ![w] = IF call.deterministic THEN "enter" ELSE "exit"]
      /\ col' = [col EXCEPT ![w] = @ + 1]
      /\ dk' = [j \in DOMAIN dk |-> IF j - t * B!kN \in B!SpanOf(w) THEN sdKV[j - t * B!kN].k ELSE dk[j]]
      /\ dv' = [j \in DOMAIN dv |-> IF j - t * B!kN \in B!SpanOf(w) THEN sdKV[j - t * B!kN].v ELSE dv[j]]
      /\ call' = call /\ row' = row /\ b_inflight' = b_inflight /\ lse' = lse /\ b_smem' = b_smem
      /\ sP' = sP /\ sdS' = sdS /\ acc_dk' = acc_dk /\ acc_dv' = acc_dv /\ sdKV' = sdKV /\ dq' = dq
  BY <1>1 DEF B!Store, B!Goto
<1>3. /\ b_pc'[w] = IF call.deterministic THEN "enter" ELSE "exit"
      /\ col'[w] = t + 1
      /\ \A u \in Warp \ {w} : b_pc'[u] = b_pc[u] /\ col'[u] = col[u]
  BY <1>1, <1>2 DEF BwdShape
<1>4. PICK stage \in Stages, nb \in Int, m \in Int : Walked(nb, m) /\ \A u \in Warp : At(u, stage, nb, m)
  BY DEF InStep
<1>5. stage = "storing"
  <2>1. At(w, stage, nb, m)
    BY <1>4
  <2>2. /\ ~Loading(w, nb) /\ ~Probing(w, nb, m) /\ ~Summing(w, nb, m) /\ ~Passing(w, nb, m)
        /\ ~Refilling(w, nb, m) /\ ~Staging(w, nb, m)
    BY <1>2 DEF Loading, Probing, Summing, Passing, Refilling, Staging
  <2>3. QED
    BY <2>1, <2>2 DEF At
<1>6. \A u \in Warp : Storing(u, nb)
  BY <1>4, <1>5 DEF At
<1>7. t = nb /\ call \in Calls
  BY <1>1, <1>2, <1>6 DEF Storing, BwdShape
<1>8. DOMAIN dk = Real(call) /\ DOMAIN dv = Real(call) /\ Real(call) \subseteq Int
  BY BwdCall DEF BwdShape, Real
<1>9. ASSUME NEW u \in Warp \ {w}, NEW j \in Real(call), OwnsCol(u, j)
      PROVE  dk'[j] = dk[j] /\ dv'[j] = dv[j]
  <2> DEFINE c == j - nb * B!kN
  <2>1. ASSUME c \in B!SpanOf(w) PROVE FALSE
    <3>1. c \in B!TileCol
      BY <2>1 DEF B!SpanOf
    <3>2. j % B!kN = c
      BY <1>7, <1>8, <3>1, ColumnIs
    <3>3. c \in B!SpanOf(u)
      BY <1>9, <3>2 DEF OwnsCol
    <3> HIDE DEF c
    <3>4. u = w
      BY <1>7, <2>1, <3>1, <3>3, SpansSplit
    <3>5. QED
      BY <3>4
  <2>2. c = j - t * B!kN
    BY <1>7
  <2> HIDE DEF c
  <2>3. QED
    BY <1>2, <1>8, <2>1, <2>2
<1>10. ASSUME NEW u \in Warp \ {w} PROVE Idle(u) /\ SameTiles(u)
  BY <1>2, <1>3, <1>9 DEF Idle, SameTiles
<1>11. ASSUME NEW j \in Real(call), OwnsCol(w, j), j < (nb + 1) * B!kN
       PROVE  dk'[j] = KeyGrad(j, 0) /\ dv'[j] = ValueGrad(j, 0)
  <2> DEFINE c == j - nb * B!kN
  <2>1. c = j - t * B!kN /\ j \in Int /\ nb * B!kN \in Int
    BY <1>7, <1>8, BwdCall
  <2>2. nb * B!kN + c = j
    <3> DEFINE a == nb * B!kN
    <3> HIDE DEF a
    <3>1. a + (j - a) = j
      BY <2>1 DEF a
    <3>2. QED
      BY <3>1 DEF a
  <2>3. nb * B!kN <= j <=> c \in B!TileCol
    BY <1>7, <1>11, <2>1, ColumnIs
  <2>4. c \in B!TileCol => j % B!kN = c
    BY <1>7, <2>1, ColumnIs
  <2> HIDE DEF c
  <2>5. CASE nb * B!kN <= j
    <3>1. c \in B!TileCol /\ c \in B!SpanOf(w)
      BY <1>11, <2>3, <2>4, <2>5 DEF OwnsCol
    <3>2. dk'[j] = sdKV[c].k /\ dv'[j] = sdKV[c].v
      BY <1>2, <1>8, <2>1, <3>1
    <3>3. PICK u \in Warp : c \in B!Mine(u, B!TileCol)
      <4>1. c % 2 = 0 \/ c % 2 = 1
        BY <3>1, BwdCall, <1>7, ModTwo DEF B!TileCol
      <4>2. QED
        BY <3>1, <4>1 DEF B!Mine, Warp
    <3>4. ColumnsStaged(u, nb)
      BY <1>6 DEF Storing
    <3>5. sdKV[c].k = KeyGrad(j, 0) /\ sdKV[c].v = ValueGrad(j, 0)
      BY <2>2, <3>3, <3>4 DEF ColumnsStaged
    <3>6. QED
      BY <3>2, <3>5
  <2>6. CASE ~(nb * B!kN <= j)
    <3>1. c \notin B!SpanOf(w) /\ j < nb * B!kN
      BY <2>1, <2>3, <2>6 DEF B!SpanOf
    <3>2. dk'[j] = dk[j] /\ dv'[j] = dv[j]
      BY <1>2, <1>8, <2>1, <3>1
    <3>3. ColumnsStored(w, nb * B!kN)
      BY <1>2, <1>6 DEF Storing
    <3>4. QED
      BY <1>11, <3>1, <3>2, <3>3 DEF ColumnsStored
  <2>7. QED
    BY <2>5, <2>6
<1>12. ColumnsStored(w, (nb + 1) * B!kN)'
  <2>1. PICK hi : hi = (nb + 1) * B!kN
    OBVIOUS
  <2>2. \A j \in Real(call) : OwnsCol(w, j) /\ j < hi => dk'[j] = KeyGrad(j, 0) /\ dv'[j] = ValueGrad(j, 0)
    BY <1>11, <2>1
  <2>3. ColumnsStored(w, hi)'
    BY <1>2, <2>2, SumsAre
  <2>4. B!kN' = B!kN
    BY <1>2, SameLaunch
  <2>5. QED
    BY <2>1, <2>3, <2>4
<1>13. /\ QueriesSummed(w, nb, 0)' /\ ColumnsStaged(w, nb)'
  BY <1>2, <1>6, SumsStay DEF Storing
<1>14. B!kN' = B!kN /\ B!LastColBlock' = B!LastColBlock
  BY <1>2, SameLaunch
<1>15. Storing(w, nb)'
  BY <1>2, <1>3, <1>6, <1>7, <1>12, <1>13, <1>14 DEF Storing
<1>16. ASSUME NEW u \in Warp PROVE At(u, stage, nb, m)'
  <2>1. CASE u = w
    BY <1>5, <1>15, <2>1 DEF At
  <2>2. CASE u # w
    BY <1>2, <1>4, <1>10, <2>2, StaysIdle
  <2>3. QED
    BY <2>1, <2>2
<1>17. Walked(nb, m)'
  BY <1>2, <1>4, SameLaunch
<1>18. QED
  BY <1>4, <1>16, <1>17 DEF InStep

\* A warp computes its part of P and dS.
LEMMA BwdScores ==
    ASSUME BwdShape, LseFinite, InStep, finite' = finite, NEW w \in Warp, B!Scores(w)
    PROVE  InStep'
<1>1. PICK m0, n0, t : m0 = row[w] /\ n0 = col[w] /\ t = m0 - 1
  OBVIOUS
<1>2. /\ b_pc[w] = "scores" /\ b_pc' = [b_pc EXCEPT ![w] = "shared"]
      /\ b_inflight' = IF call.doubleBuffer /\ m0 > B!RowBlockMin(n0)
                       THEN [b_inflight EXCEPT ![w] = @ \cup {B!FullTile(B!QBuffer(t), t, B!kM)}] ELSE b_inflight
      /\ call' = call /\ col' = col /\ row' = row /\ b_smem' = b_smem /\ lse' = lse
      /\ acc_dk' = acc_dk /\ acc_dv' = acc_dv /\ sdKV' = sdKV /\ dq' = dq /\ dk' = dk /\ dv' = dv
  BY <1>1 DEF B!Scores, B!Goto, B!Issue
<1>3. /\ sP' = [r \in B!TileRow |-> [c \in B!TileCol |->
                  IF c \in B!SpanOf(w)
                  THEN IF B!Skip(m0, n0) THEN <<>> ELSE B!Prob(w, m0, n0, r, c) ELSE sP[r][c]]]
      /\ sdS' = [r \in B!TileRow |-> [c \in B!TileCol |->
                  IF c \in B!SpanOf(w)
                  THEN IF B!Skip(m0, n0) THEN <<>> ELSE B!Grad(B!Prob(w, m0, n0, r, c), r, c) ELSE sdS[r][c]]]
  <2>1. B!Scores(w)
    OBVIOUS
  <2>2. QED
    BY <1>1, <2>1, Zenon DEF B!Scores
<1>4. b_pc'[w] = "shared" /\ \A u \in Warp \ {w} : b_pc'[u] = b_pc[u] /\ b_inflight'[u] = b_inflight[u]
  BY <1>2 DEF BwdShape
<1>5. PICK stage \in Stages, nb \in Int, m \in Int : Walked(nb, m) /\ \A u \in Warp : At(u, stage, nb, m)
  BY DEF InStep
<1>6. stage = "probing" /\ nb >= 0
  <2>1. At(w, stage, nb, m)
    BY <1>5
  <2>2. /\ ~Loading(w, nb) /\ ~Storing(w, nb) /\ ~Summing(w, nb, m) /\ ~Passing(w, nb, m)
        /\ ~Refilling(w, nb, m) /\ ~Staging(w, nb, m)
    BY <1>2 DEF Loading, Storing, Summing, Passing, Refilling, Staging
  <2>3. QED
    BY <2>1, <2>2 DEF At
<1>7. \A u \in Warp : Probing(u, nb, m)
  BY <1>5, <1>6 DEF At
<1>8. /\ call \in Calls /\ m \in 0 .. B!LastRowBlock /\ nb \in 0 .. B!LastColBlock /\ m \in Nat
      /\ B!RowBlockMin(nb) \in Nat /\ (More(nb, m) => m - 1 # B!LastRowBlock)
  BY <1>5, <1>6, WalkIs DEF BwdShape
<1>9. m0 = m /\ n0 = nb /\ t = m - 1 /\ lse[w] = B!FiniteRows(m) /\ b_inflight[w] = {}
  BY <1>1, <1>2, <1>7 DEF Probing
<1>10. \A u \in Warp : InSlot(u, QOf(m)) /\ InSlot(u, OOf(m)) /\ ColInSlots(u, nb)
  BY <1>7 DEF Probing
<1>11. Shared(w, nb, m)'
  <2>1. ASSUME NEW r \in B!TileRow, NEW c \in B!SpanOf(w)
        PROVE  /\ sP'[r][c] = PEntry(m * B!kM + r, nb * B!kN + c)
               /\ sdS'[r][c] = SEntry(m * B!kM + r, nb * B!kN + c)
    <3>1. PICK i, j : i = m * B!kM + r /\ j = nb * B!kN + c
      OBVIOUS
    <3>2. /\ ~B!Skip(m, nb) => B!Prob(w, m, nb, r, c) = PEntry(i, j)
          /\ B!Grad(PEntry(i, j), r, c) = SEntry(i, j)
          /\ B!Skip(m, nb) => PEntry(i, j) = <<>> /\ SEntry(i, j) = <<>>
      BY <1>8, <1>9, <1>10, <3>1, EntryIs
    <3>3. c \in B!TileCol
      BY DEF B!SpanOf
    <3>4. /\ sP'[r][c] = IF B!Skip(m, nb) THEN <<>> ELSE B!Prob(w, m, nb, r, c)
          /\ sdS'[r][c] = IF B!Skip(m, nb) THEN <<>> ELSE B!Grad(B!Prob(w, m, nb, r, c), r, c)
      BY <1>3, <1>9, <3>3
    <3>5. sP'[r][c] = PEntry(i, j) /\ sdS'[r][c] = SEntry(i, j)
      BY <3>2, <3>4
    <3>6. QED
      BY <3>1, <3>5
  <2>2. QED
    BY <1>2, <2>1, TilesHeld
<1>12. ASSUME NEW u \in Warp \ {w} PROVE Idle(u) /\ SameTiles(u)
  <2>1. ASSUME NEW r \in B!TileRow, NEW c \in B!SpanOf(u) PROVE sP'[r][c] = sP[r][c] /\ sdS'[r][c] = sdS[r][c]
    <3>1. c \in B!TileCol
      BY DEF B!SpanOf
    <3>2. c \notin B!SpanOf(w)
      BY <1>8, <3>1, SpansSplit
    <3>3. QED
      BY <1>3, <3>1, <3>2
  <2>2. QED
    BY <1>2, <1>4, <2>1 DEF Idle, SameTiles
<1>13. Issued(w, Ahead(nb, m))'
  <2>1. b_inflight'[w] = Ahead(nb, m)
    <3>1. CASE call.doubleBuffer /\ More(nb, m)
      <4>1. m0 > B!RowBlockMin(n0)
        BY <1>8, <1>9, <3>1 DEF More
      <4>2. B!FullTile(B!QBuffer(t), t, B!kM) = QOf(t)
        BY <1>8, <1>9, <3>1 DEF QOf, RowTile
      <4>3. b_inflight'[w] = {QOf(t)}
        BY <1>2, <1>9, <3>1, <4>1, <4>2 DEF BwdShape
      <4>4. QED
        BY <1>9, <3>1, <4>3 DEF Ahead
    <3>2. CASE ~(call.doubleBuffer /\ More(nb, m))
      <4>1. ~(call.doubleBuffer /\ m0 > B!RowBlockMin(n0))
        BY <1>8, <1>9, <3>2 DEF More
      <4>2. b_inflight' = b_inflight
        BY <1>2, <4>1
      <4>3. QED
        BY <1>9, <3>2, <4>2 DEF Ahead
    <3>3. QED
      BY <3>1, <3>2
  <2>2. Lands(w, Ahead(nb, m))
    BY <2>1 DEF Lands
  <2>3. QED
    BY <1>2, <2>2, TilesHeld
<1>14. /\ InSlot(w, QOf(m))' /\ InSlot(w, OOf(m))' /\ ColInSlots(w, nb)'
  BY <1>2, <1>10, TilesStay DEF SameTiles
<1>15. PICK lo, hi : lo = (m + 1) * B!kM /\ hi = nb * B!kN
  OBVIOUS
<1>16. QueriesSummed(w, nb, lo)' /\ KeysSummed(w, nb, lo)' /\ ValuesSummed(w, nb, lo)' /\ ColumnsStored(w, hi)'
  BY <1>2, <1>7, <1>15, SumsStay DEF Probing
<1>17. B!kN' = B!kN /\ B!kM' = B!kM
  BY <1>2, SameLaunch
<1>18. Probing(w, nb, m)'
  BY <1>1, <1>2, <1>4, <1>9, <1>11, <1>13, <1>14, <1>15, <1>16, <1>17 DEF Probing
<1>19. ASSUME NEW u \in Warp PROVE At(u, stage, nb, m)'
  <2>1. CASE u = w
    BY <1>6, <1>18, <2>1 DEF At
  <2>2. CASE u # w
    BY <1>2, <1>5, <1>12, <2>2, StaysIdle
  <2>3. QED
    BY <2>1, <2>2
<1>20. Walked(nb, m)'
  BY <1>2, <1>5, SameLaunch
<1>21. QED
  BY <1>5, <1>19, <1>20 DEF InStep

\* A warp adds to dV.
LEMMA BwdValues ==
    ASSUME BwdShape, InStep, finite' = finite, NEW w \in Warp, B!Values(w)
    PROVE  InStep'
<1>1. PICK m0, n0 : m0 = row[w] /\ n0 = col[w]
  OBVIOUS
<1>2. /\ b_pc[w] = "values" /\ b_pc' = [b_pc EXCEPT ![w] = "consumed"]
      /\ call' = call /\ col' = col /\ row' = row /\ b_smem' = b_smem /\ lse' = lse
      /\ b_inflight' = b_inflight /\ sP' = sP /\ sdS' = sdS
      /\ acc_dk' = acc_dk /\ sdKV' = sdKV /\ dq' = dq /\ dk' = dk /\ dv' = dv
  BY <1>1 DEF B!Values, B!Goto
<1>3. acc_dv' = [acc_dv EXCEPT ![w] = [c \in B!TileCol |->
                   IF c \in B!Mine(w, B!TileCol) /\ ~B!Skip(m0, n0)
                   THEN B!(+)(acc_dv[w][c], B!SetToBag(UNION
                          {B!Product(sP[r][c], B!RowIn(b_smem["dO"], r)) : r \in B!TileRow}))
                   ELSE acc_dv[w][c]]]
  BY <1>1 DEF B!Values, B!SumOver
<1>4. /\ b_pc'[w] = "consumed"
      /\ \A u \in Warp \ {w} : b_pc'[u] = b_pc[u] /\ acc_dv'[u] = acc_dv[u]
      /\ acc_dv'[w] = [c \in B!TileCol |->
                   IF c \in B!Mine(w, B!TileCol) /\ ~B!Skip(m0, n0)
                   THEN acc_dv[w][c] (+) SetToBag(UNION
                          {B!Product(sP[r][c], B!RowIn(b_smem["dO"], r)) : r \in B!TileRow})
                   ELSE acc_dv[w][c]]
  BY <1>2, <1>3, BwdBags DEF BwdShape
<1>5. PICK stage \in Stages, nb \in Int, m \in Int : Walked(nb, m) /\ \A u \in Warp : At(u, stage, nb, m)
  BY DEF InStep
<1>6. stage = "summing" /\ nb >= 0
  <2>1. At(w, stage, nb, m)
    BY <1>5
  <2>2. /\ ~Loading(w, nb) /\ ~Storing(w, nb) /\ ~Probing(w, nb, m) /\ ~Passing(w, nb, m)
        /\ ~Refilling(w, nb, m) /\ ~Staging(w, nb, m)
    BY <1>2 DEF Loading, Storing, Probing, Passing, Refilling, Staging
  <2>3. QED
    BY <2>1, <2>2 DEF At
<1>7. \A u \in Warp : Summing(u, nb, m)
  BY <1>5, <1>6 DEF At
<1>8. call \in Calls /\ m \in 0 .. B!LastRowBlock /\ nb \in 0 .. B!LastColBlock
  BY <1>5, <1>6, WalkIs DEF BwdShape
<1>9. m0 = m /\ n0 = nb /\ ValuesSummed(w, nb, (m + 1) * B!kM)
  BY <1>1, <1>2, <1>7 DEF Summing
<1>10. \A u \in Warp : Shared(u, nb, m) /\ InSlot(u, RowTile("dO", m))
  BY <1>7 DEF Summing, OOf
<1>11. ASSUME NEW c \in B!Mine(w, B!TileCol), nb * B!kN + c \in Real(call)
       PROVE  acc_dv'[w][c] = ValueGrad(nb * B!kN + c, m * B!kM)
  <2>1. c \in B!TileCol
    BY DEF B!Mine
  <2>2. PICK x : x = nb * B!kN + c
    OBVIOUS
  <2>3. acc_dv[w][c] = ValueGrad(x, (m + 1) * B!kM)
    BY <1>9, <1>11, <2>2 DEF ValuesSummed
  <2>4. CASE B!Skip(m, nb)
    <3>1. ValueGrad(x, (m + 1) * B!kM) = ValueGrad(x, m * B!kM)
      BY <1>8, <1>11, <2>1, <2>2, <2>4, SkippedIs
    <3>2. acc_dv'[w][c] = acc_dv[w][c]
      BY <1>4, <1>9, <2>1, <2>4
    <3>3. QED
      BY <2>2, <2>3, <3>1, <3>2
  <2>5. CASE ~B!Skip(m, nb)
    <3>1. acc_dv'[w][c] = acc_dv[w][c] (+) SetToBag(UNION
             {B!Product(sP[r][c], B!RowIn(b_smem["dO"], r)) : r \in B!TileRow})
      BY <1>4, <1>9, <2>1, <2>5
    <3>2. x \in Real(call)
      BY <1>11, <2>2
    <3>3. PICK UP, US :
            /\ UP = UNION {B!Product(sP[r][c], B!RowIn(b_smem["dO"], r)) : r \in B!TileRow}
            /\ US = UNION {B!Product(sdS[r][c], B!RowIn(b_smem["dO"], r)) : r \in B!TileRow}
      OBVIOUS
    <3>4. ValueGrad(x, (m + 1) * B!kM) (+) SetToBag(UP) = ValueGrad(x, m * B!kM)
      <4>1. \A u \in Warp : Shared(u, nb, m)
        BY <1>10
      <4>2. \A u \in Warp : InSlot(u, RowTile("dO", m))
        BY <1>10
      <4>3. ValueTerms(UP, c, "dO") /\ KeyTerms(US, c, "dO")
        BY <3>3 DEF ValueTerms, KeyTerms
      <4>4. QED
        BY <1>8, <2>1, <2>2, <3>2, <4>1, <4>2, <4>3, RowTermsAre
    <3>5. acc_dv'[w][c] = acc_dv[w][c] (+) SetToBag(UP)
      BY <3>1, <3>3
    <3>6. QED
      BY <2>2, <2>3, <3>4, <3>5
  <2>6. QED
    BY <2>4, <2>5
<1>12. ASSUME NEW u \in Warp \ {w} PROVE Idle(u) /\ SameTiles(u)
  BY <1>2, <1>4 DEF Idle, SameTiles
<1>13. PICK lo, hi, mid : lo = (m + 1) * B!kM /\ hi = nb * B!kN /\ mid = m * B!kM
  OBVIOUS
<1>14. ValuesSummed(w, nb, mid)'
  <2>1. \A c \in B!Mine(w, B!TileCol) : nb * B!kN + c \in Real(call) =>
          acc_dv'[w][c] = ValueGrad(nb * B!kN + c, mid)
    BY <1>11, <1>13
  <2>2. QED
    BY <1>2, <2>1, SumsAre
<1>15. QueriesSummed(w, nb, lo)' /\ KeysSummed(w, nb, lo)' /\ ColumnsStored(w, hi)' /\ Shared(w, nb, m)'
  BY <1>2, <1>7, <1>13, SumsStay DEF Summing
<1>16. /\ InSlot(w, QOf(m))' /\ InSlot(w, OOf(m))' /\ ColInSlots(w, nb)' /\ Issued(w, Ahead(nb, m))'
  <2>1. SameTiles(w) /\ InSlot(w, QOf(m)) /\ InSlot(w, OOf(m)) /\ ColInSlots(w, nb) /\ Issued(w, Ahead(nb, m))
    BY <1>2, <1>7 DEF SameTiles, Summing
  <2>2. \A x \in Ahead(nb, m) : x.slot \in Slots
    BY SlotIs DEF Ahead
  <2>3. Lands(w, Ahead(nb, m))
    BY <1>2, <2>1, <2>2, TilesStay
  <2>4. QED
    BY <1>2, <2>1, <2>3, TilesStay, TilesHeld
<1>17. B!kN' = B!kN /\ B!kM' = B!kM
  BY <1>2, SameLaunch
<1>18. Summing(w, nb, m)'
  BY <1>1, <1>2, <1>4, <1>9, <1>13, <1>14, <1>15, <1>16, <1>17 DEF Summing
<1>19. ASSUME NEW u \in Warp PROVE At(u, stage, nb, m)'
  <2>1. CASE u = w
    BY <1>6, <1>18, <2>1 DEF At
  <2>2. CASE u # w
    BY <1>2, <1>5, <1>12, <2>2, StaysIdle
  <2>3. QED
    BY <2>1, <2>2
<1>20. Walked(nb, m)'
  BY <1>2, <1>5, SameLaunch
<1>21. QED
  BY <1>5, <1>19, <1>20 DEF InStep

\* A warp adds to dQ and dK and has the next dO copied.
LEMMA BwdQueries ==
    ASSUME BwdShape, InStep, finite' = finite, NEW w \in Warp, B!Queries(w)
    PROVE  InStep'
<1>1. PICK m0, n0, t, slot : m0 = row[w] /\ n0 = col[w] /\ t = m0 - 1 /\ slot = B!QBuffer(m0)
  OBVIOUS
<1>2. /\ b_pc[w] = "queries"
      /\ b_inflight' = IF m0 > B!RowBlockMin(n0)
                       THEN [b_inflight EXCEPT ![w] = @ \cup {B!FullTile("dO", t, B!kM)}] ELSE b_inflight
      /\ lse' = [lse EXCEPT ![w] = IF m0 > B!RowBlockMin(n0) THEN B!FiniteRows(t) ELSE @]
      /\ row' = [row EXCEPT ![w] = IF m0 > B!RowBlockMin(n0) /\ call.doubleBuffer THEN t ELSE m0]
      /\ b_pc' = [b_pc EXCEPT ![w] = IF ~(m0 > B!RowBlockMin(n0)) THEN "finished"
                                     ELSE IF call.doubleBuffer THEN "landed" ELSE "drained"]
      /\ call' = call /\ col' = col /\ b_smem' = b_smem /\ sP' = sP /\ sdS' = sdS
      /\ acc_dv' = acc_dv /\ sdKV' = sdKV /\ dk' = dk /\ dv' = dv
  BY <1>1 DEF B!Queries, B!Goto, B!Issue
<1>3. /\ dq' = [i \in DOMAIN dq |->
             IF ~B!Skip(m0, n0) /\ i - m0 * B!kM \in B!Mine(w, B!TileRow)
             THEN B!(+)(dq[i], B!SetToBag(UNION
                    {B!Product(sdS[i - m0 * B!kM][c], B!RowIn(b_smem["K"], c)) : c \in B!TileCol}))
             ELSE dq[i]]
      /\ acc_dk' = [acc_dk EXCEPT ![w] = [c \in B!TileCol |->
             IF c \in B!Mine(w, B!TileCol) /\ ~B!Skip(m0, n0)
             THEN B!(+)(acc_dk[w][c], B!SetToBag(UNION
                    {B!Product(sdS[r][c], B!RowIn(b_smem[slot], r)) : r \in B!TileRow}))
             ELSE acc_dk[w][c]]]
  BY <1>1 DEF B!Queries, B!SumOver
<1>4. PICK stage \in Stages, nb \in Int, m \in Int : Walked(nb, m) /\ \A u \in Warp : At(u, stage, nb, m)
  BY DEF InStep
<1>5. stage = "passing" /\ nb >= 0
  <2>1. At(w, stage, nb, m)
    BY <1>4
  <2>2. /\ ~Loading(w, nb) /\ ~Storing(w, nb) /\ ~Probing(w, nb, m) /\ ~Summing(w, nb, m)
        /\ ~Refilling(w, nb, m) /\ ~Staging(w, nb, m)
    BY <1>2 DEF Loading, Storing, Probing, Summing, Refilling, Staging
  <2>3. QED
    BY <2>1, <2>2 DEF At
<1>6. \A u \in Warp : Passing(u, nb, m)
  BY <1>4, <1>5 DEF At
<1>7. /\ call \in Calls /\ m \in 0 .. B!LastRowBlock /\ nb \in 0 .. B!LastColBlock /\ m \in Nat
      /\ B!RowBlockMin(nb) \in Nat /\ (More(nb, m) => m - 1 # B!LastRowBlock)
  BY <1>4, <1>5, WalkIs DEF BwdShape
<1>8. /\ m0 = m /\ n0 = nb /\ t = m - 1 /\ slot = B!QBuffer(m)
      /\ m0 > B!RowBlockMin(n0) <=> More(nb, m)
  <2>1. m0 = m /\ n0 = nb
    BY <1>1, <1>2, <1>6 DEF Passing
  <2>2. QED
    BY <1>1, <1>7, <2>1 DEF More
<1>9. /\ \A u \in Warp : Shared(u, nb, m)
      /\ \A u \in Warp : InSlot(u, RowTile(slot, m))
      /\ \A u \in Warp : Shared(u, nb, m) /\ InSlot(u, KOf(nb))
  BY <1>6, <1>8 DEF Passing, QOf, ColInSlots
<1>10. ASSUME NEW c \in B!Mine(w, B!TileCol), nb * B!kN + c \in Real(call)
       PROVE  acc_dk'[w][c] = KeyGrad(nb * B!kN + c, m * B!kM)
  <2>1. c \in B!TileCol
    BY DEF B!Mine
  <2>2. PICK x : x = nb * B!kN + c
    OBVIOUS
  <2>3. acc_dk[w][c] = KeyGrad(x, (m + 1) * B!kM)
    BY <1>2, <1>6, <1>10, <2>2 DEF KeysSummed, Passing
  <2>4. PICK UP, US :
          /\ UP = UNION {B!Product(sP[r][c], B!RowIn(b_smem[slot], r)) : r \in B!TileRow}
          /\ US = UNION {B!Product(sdS[r][c], B!RowIn(b_smem[slot], r)) : r \in B!TileRow}
    OBVIOUS
  <2>5. acc_dk'[w][c] = IF B!Skip(m, nb) THEN acc_dk[w][c] ELSE acc_dk[w][c] (+) SetToBag(US)
    <3>1. acc_dk'[w][c] = IF ~B!Skip(m, nb) THEN B!(+)(acc_dk[w][c], B!SetToBag(UNION
                 {B!Product(sdS[r][c], B!RowIn(b_smem[slot], r)) : r \in B!TileRow})) ELSE acc_dk[w][c]
      BY <1>3, <1>8, <2>1 DEF BwdShape
    <3>2. acc_dk'[w][c] = IF ~B!Skip(m, nb) THEN B!(+)(acc_dk[w][c], B!SetToBag(US)) ELSE acc_dk[w][c]
      BY <2>4, <3>1
    <3>3. QED
      BY <3>2, BwdBags
  <2>6. CASE B!Skip(m, nb)
    <3>1. KeyGrad(x, (m + 1) * B!kM) = KeyGrad(x, m * B!kM)
      BY <1>7, <1>10, <2>1, <2>2, <2>6, SkippedIs
    <3>2. QED
      BY <2>2, <2>3, <2>5, <2>6, <3>1
  <2>7. CASE ~B!Skip(m, nb)
    <3>1. x \in Real(call)
      BY <1>10, <2>2
    <3>2. ValueTerms(UP, c, slot) /\ KeyTerms(US, c, slot)
      BY <2>4 DEF ValueTerms, KeyTerms
    <3>3. KeyGrad(x, (m + 1) * B!kM) (+) SetToBag(US) = KeyGrad(x, m * B!kM)
      BY <1>7, <1>9, <2>1, <2>2, <3>1, <3>2, RowTermsAre
    <3>4. QED
      BY <2>2, <2>3, <2>5, <2>7, <3>3
  <2>8. QED
    BY <2>6, <2>7
<1>11. DOMAIN dq = Real(call) /\ Real(call) \subseteq Int /\ \A i \in Real(call) : i >= 0
  BY BwdCall DEF BwdShape, Real
<1>12. ASSUME NEW u \in Warp \ {w}, NEW i \in Real(call), OwnsRow(u, i) PROVE dq'[i] = dq[i]
  <2> DEFINE r == i - m * B!kM
  <2>1. r \in B!TileRow => i % B!kM = r
    BY <1>7, <1>11, RowIs
  <2>2. r = i - m0 * B!kM
    BY <1>8
  <2> HIDE DEF r
  <2>3. r \notin B!Mine(w, B!TileRow)
    BY <1>12, <2>1 DEF B!Mine, OwnsRow
  <2>4. QED
    BY <1>3, <1>11, <2>2, <2>3
<1>13. ASSUME NEW i \in Real(call), OwnsRow(w, i)
       PROVE  dq'[i] = QueryGrad(i, IF m * B!kM <= i THEN (nb + 1) * B!kN ELSE nb * B!kN)
  <2>1. PICK r : r = i - m * B!kM
    OBVIOUS
  <2>2. /\ r \in B!TileRow => i % B!kM = r
        /\ m * B!kM <= i /\ i < (m + 1) * B!kM <=> r \in B!TileRow
    BY <1>7, <1>11, <2>1, RowIs
  <2>3. dq[i] = QueryGrad(i, IF (m + 1) * B!kM <= i THEN (nb + 1) * B!kN ELSE nb * B!kN)
    BY <1>2, <1>6, <1>13 DEF Passing, QueriesSummed
  <2>4. m * B!kM \in Nat /\ (m + 1) * B!kM \in Nat /\ m * B!kM <= (m + 1) * B!kM
    <3> DEFINE k == B!kM
    <3>1. k \in Nat
      BY <1>7, BwdCall
    <3> HIDE DEF k
    <3>2. m * k \in Nat /\ (m + 1) * k = m * k + k
      BY <1>7, <3>1
    <3>3. QED
      BY <3>1, <3>2 DEF k
  <2>5. CASE r \in B!TileRow
    <3>1. r \in B!Mine(w, B!TileRow)
      BY <1>13, <2>2, <2>5 DEF B!Mine, OwnsRow
    <3>2. PICK U : U = UNION {B!Product(sdS[r][c], B!RowIn(b_smem["K"], c)) : c \in B!TileCol}
      OBVIOUS
    <3>3. i = m * B!kM + r
      <4> DEFINE a == m * B!kM
      <4>1. a \in Int /\ r = i - a
        BY <2>1, <2>4
      <4> HIDE DEF a
      <4>2. i = a + r
        BY <1>11, <4>1
      <4>3. QED
        BY <4>2 DEF a
    <3>4. dq[i] = QueryGrad(i, nb * B!kN) /\ m * B!kM <= i
      BY <1>11, <2>2, <2>3, <2>4, <2>5
    <3>5. dq'[i] = IF B!Skip(m, nb) THEN dq[i] ELSE dq[i] (+) SetToBag(U)
      <4>1. dq'[i] = IF ~B!Skip(m, nb) THEN B!(+)(dq[i], B!SetToBag(UNION
                 {B!Product(sdS[i - m0 * B!kM][c], B!RowIn(b_smem["K"], c)) : c \in B!TileCol})) ELSE dq[i]
        BY <1>3, <1>8, <1>11, <2>1, <3>1
      <4>2. i - m0 * B!kM = r
        BY <1>8, <2>1
      <4>3. dq'[i] = IF ~B!Skip(m, nb) THEN B!(+)(dq[i], B!SetToBag(U)) ELSE dq[i]
        BY <3>2, <4>1, <4>2
      <4>4. QED
        BY <4>3, BwdBags
    <3>6. CASE B!Skip(m, nb)
      <4>1. QueryGrad(i, (nb + 1) * B!kN) = QueryGrad(i, nb * B!kN)
        BY <1>7, <2>5, <3>3, <3>6, SkippedIs
      <4>2. QED
        BY <3>4, <3>5, <3>6, <4>1
    <3>7. CASE ~B!Skip(m, nb)
      <4>1. QueryTerms(U, r)
        BY <3>2 DEF QueryTerms
      <4>2. QueryGrad(i, nb * B!kN) (+) SetToBag(U) = QueryGrad(i, (nb + 1) * B!kN)
        BY <1>7, <1>9, <2>5, <3>3, <4>1, ColumnTermsAre
      <4>3. QED
        BY <3>4, <3>5, <3>7, <4>2
    <3>8. QED
      BY <3>6, <3>7
  <2>6. CASE r \notin B!TileRow
    <3>1. m * B!kM <= i <=> (m + 1) * B!kM <= i
      BY <1>11, <2>2, <2>4, <2>6
    <3>2. r = i - m0 * B!kM /\ r \notin B!Mine(w, B!TileRow)
      BY <1>8, <2>1, <2>6 DEF B!Mine
    <3>3. dq'[i] = dq[i]
      BY <1>3, <1>11, <3>2
    <3>4. QED
      BY <2>3, <3>1, <3>3
  <2>7. QED
    BY <2>5, <2>6
<1>14. /\ \A u \in Warp \ {w} : /\ b_pc'[u] = b_pc[u] /\ row'[u] = row[u] /\ lse'[u] = lse[u]
                                /\ b_inflight'[u] = b_inflight[u] /\ acc_dk'[u] = acc_dk[u]
       /\ row'[w] = IF More(nb, m) /\ call.doubleBuffer THEN t ELSE m
       /\ lse'[w] = IF More(nb, m) THEN B!FiniteRows(t) ELSE lse[w]
       /\ b_pc'[w] = IF ~More(nb, m) THEN "finished" ELSE IF call.doubleBuffer THEN "landed" ELSE "drained"
       /\ b_inflight'[w] = b_inflight[w] \cup IF More(nb, m) THEN {B!FullTile("dO", t, B!kM)} ELSE {}
  <2> DEFINE more == m0 > B!RowBlockMin(n0)
             copy == B!FullTile("dO", t, B!kM)
             rows == B!FiniteRows(t)
  <2>1. more <=> More(nb, m)
    BY <1>8
  <2> HIDE DEF more, copy, rows
  <2>2. /\ b_inflight' = IF more THEN [b_inflight EXCEPT ![w] = @ \cup {copy}] ELSE b_inflight
        /\ lse' = [lse EXCEPT ![w] = IF more THEN rows ELSE @]
        /\ row' = [row EXCEPT ![w] = IF more /\ call.doubleBuffer THEN t ELSE m0]
        /\ b_pc' = [b_pc EXCEPT ![w] = IF ~more THEN "finished"
                                       ELSE IF call.doubleBuffer THEN "landed" ELSE "drained"]
    BY <1>2 DEF more, copy, rows
  <2>3. \A u \in Warp \ {w} : acc_dk'[u] = acc_dk[u]
    BY <1>3 DEF BwdShape
  <2>4. \A u \in Warp \ {w} : /\ b_pc'[u] = b_pc[u] /\ row'[u] = row[u] /\ lse'[u] = lse[u]
                              /\ b_inflight'[u] = b_inflight[u]
    BY <2>2 DEF BwdShape
  <2>5. /\ row'[w] = IF More(nb, m) /\ call.doubleBuffer THEN t ELSE m
        /\ lse'[w] = IF More(nb, m) THEN rows ELSE lse[w]
        /\ b_pc'[w] = IF ~More(nb, m) THEN "finished" ELSE IF call.doubleBuffer THEN "landed" ELSE "drained"
        /\ b_inflight'[w] = b_inflight[w] \cup IF More(nb, m) THEN {copy} ELSE {}
    BY <1>8, <2>1, <2>2 DEF BwdShape
  <2>6. QED
    BY <2>3, <2>4, <2>5 DEF copy, rows
<1>15. ASSUME NEW u \in Warp \ {w} PROVE Idle(u) /\ SameTiles(u)
  BY <1>2, <1>12, <1>14 DEF Idle, SameTiles
<1>16. PICK lo, hi : lo = m * B!kM /\ hi = nb * B!kN
  OBVIOUS
<1>17. QueriesSummed(w, nb, lo)'
  <2>1. \A i \in Real(call) : OwnsRow(w, i) =>
          dq'[i] = QueryGrad(i, IF lo <= i THEN (nb + 1) * B!kN ELSE nb * B!kN)
    BY <1>13, <1>16
  <2>2. QED
    BY <1>2, <2>1, SumsAre
<1>18. KeysSummed(w, nb, lo)'
  <2>1. \A c \in B!Mine(w, B!TileCol) : nb * B!kN + c \in Real(call) =>
          acc_dk'[w][c] = KeyGrad(nb * B!kN + c, lo)
    BY <1>10, <1>16
  <2>2. QED
    BY <1>2, <2>1, SumsAre
<1>19. ValuesSummed(w, nb, lo)' /\ ColumnsStored(w, hi)' /\ Shared(w, nb, m)'
  BY <1>2, <1>6, <1>16, SumsStay DEF Passing
<1>20. InSlot(w, QOf(m))' /\ ColInSlots(w, nb)'
  BY <1>2, <1>6, TilesStay DEF SameTiles, Passing
<1>21. /\ B!kN' = B!kN /\ B!kM' = B!kM /\ (More(nb, m)' <=> More(nb, m))
       /\ B!FiniteRows(t)' = B!FiniteRows(t)
  BY <1>2, SameLaunch
<1>22. Issued(w, Ahead(nb, m)) /\ col[w] = nb
  BY <1>2, <1>6 DEF Passing
<1>23. More(nb, m) => B!FullTile("dO", t, B!kM) = OOf(t)
  BY <1>7, <1>8 DEF OOf, RowTile
<1>24. Passing(w, nb, m)'
  <2>1. CASE More(nb, m) /\ call.doubleBuffer
    <3>1. Ahead(nb, m) = {QOf(t)}
      BY <1>8, <2>1 DEF Ahead
    <3>2. Lands(w, {OOf(t), QOf(t)})
      <4>1. b_inflight'[w] = b_inflight[w] \cup {OOf(t)}
        BY <1>14, <1>23, <2>1
      <4>2. b_smem' = b_smem
        BY <1>2
      <4>3. QED
        BY <1>22, <3>1, <4>1, <4>2 DEF Lands, Issued, InSlot
    <3>3. Issued(w, {OOf(t), QOf(t)})'
      BY <1>2, <3>2, TilesHeld
    <3>4. QED
      BY <1>2, <1>8, <1>14, <1>16, <1>17, <1>18, <1>19, <1>20, <1>21, <1>22, <2>1, <3>3 DEF Passing
  <2>2. CASE More(nb, m) /\ ~call.doubleBuffer
    <3>1. b_inflight[w] = {}
      BY <1>22, <2>2 DEF Ahead, Issued
    <3>2. b_inflight'[w] = {OOf(t)}
      BY <1>14, <1>23, <2>2, <3>1
    <3>3. Issued(w, {OOf(t)})'
      <4>1. Lands(w, {OOf(t)})
        BY <3>2 DEF Lands
      <4>2. QED
        BY <1>2, <4>1, TilesHeld
    <3>4. QED
      BY <1>2, <1>8, <1>14, <1>16, <1>17, <1>18, <1>19, <1>20, <1>21, <1>22, <2>2, <3>3 DEF Passing
  <2>3. CASE ~More(nb, m)
    <3>1. b_inflight[w] = {}
      BY <1>22, <2>3 DEF Ahead, Issued
    <3>2. b_inflight'[w] = {}
      BY <1>14, <2>3, <3>1
    <3>3. QED
      BY <1>2, <1>14, <1>16, <1>17, <1>18, <1>19, <1>20, <1>21, <1>22, <2>3, <3>2 DEF Passing
  <2>4. QED
    BY <2>1, <2>2, <2>3
<1>25. ASSUME NEW u \in Warp PROVE At(u, stage, nb, m)'
  <2>1. CASE u = w
    BY <1>5, <1>24, <2>1 DEF At
  <2>2. CASE u # w
    BY <1>2, <1>4, <1>15, <2>2, StaysIdle
  <2>3. QED
    BY <2>1, <2>2
<1>26. Walked(nb, m)'
  BY <1>2, <1>4, SameLaunch
<1>27. QED
  BY <1>4, <1>25, <1>26 DEF InStep

\* The barriers.
LEMMA AfterIs ==
    /\ B!Barrier = {"start", "landed", "shared", "consumed", "drained", "finished", "staged"}
    /\ B!After["start"] = "load" /\ B!After["landed"] = "scores" /\ B!After["shared"] = "values"
    /\ B!After["consumed"] = "queries" /\ B!After["drained"] = "refill" /\ B!After["finished"] = "stage"
    /\ B!After["staged"] = "store"
  BY DEF B!After, B!Barrier

\* Before the first row block of a column block nothing is summed into dK and dV.
LEMMA NoneSummed ==
    ASSUME call \in Calls, NEW w, NEW nb, acc_dk[w] = B!NoGrad, acc_dv[w] = B!NoGrad
    PROVE  /\ KeysSummed(w, nb, (B!LastRowBlock + 1) * B!kM)
           /\ ValuesSummed(w, nb, (B!LastRowBlock + 1) * B!kM)
<1> DEFINE hi == (B!LastRowBlock + 1) * B!kM
<1>1. \A i \in Real(call) : ~(hi <= i)
  <2>1. call.L \in Nat /\ call.L <= hi /\ Real(call) = 0 .. call.L - 1
    BY BwdCall DEF Real
  <2>2. hi \in Nat
    BY BwdCall
  <2> HIDE DEF hi
  <2>3. QED
    BY <2>1, <2>2
<1> HIDE DEF hi
<1>2. \A x : KeyGrad(x, hi) = SetToBag({}) /\ ValueGrad(x, hi) = SetToBag({})
  <2>1. \A x : QueriesFrom(x, hi) = {}
    BY <1>1 DEF QueriesFrom
  <2>2. \A x : /\ {<<i, x, i, x, i>> : i \in QueriesFrom(x, hi)} = {}
               /\ {<<i, x, i>> : i \in QueriesFrom(x, hi)} = {}
    BY <2>1
  <2>3. QED
    BY <2>2 DEF KeyGrad, ValueGrad
<1>3. SetToBag({}) = EmptyBag
  BY DEF EmptyBag
<1>4. \A c \in B!Mine(w, B!TileCol) : acc_dk[w][c] = EmptyBag /\ acc_dv[w][c] = EmptyBag
  BY BwdBags DEF B!NoGrad, B!Mine
<1>5. KeysSummed(w, nb, hi) /\ ValuesSummed(w, nb, hi)
  BY <1>2, <1>3, <1>4 DEF KeysSummed, ValuesSummed
<1>6. QED
  BY <1>5 DEF hi

\* What is summed through one column block is where the next one starts.
LEMMA NextBlock ==
    ASSUME call \in Calls, NEW w, NEW nb \in Int, NEW n1, n1 = nb + 1, QueriesSummed(w, nb, 0)
    PROVE  QueriesSummed(w, n1, (B!LastRowBlock + 1) * B!kM)
<1> DEFINE hi == (B!LastRowBlock + 1) * B!kM
<1>1. \A i \in Real(call) : ~(hi <= i) /\ 0 <= i
  <2>1. call.L \in Nat /\ call.L <= hi /\ Real(call) = 0 .. call.L - 1
    BY BwdCall DEF Real
  <2>2. hi \in Nat
    BY BwdCall
  <2> HIDE DEF hi
  <2>3. QED
    BY <2>1, <2>2
<1> HIDE DEF hi
<1>2. \A i \in Real(call) : OwnsRow(w, i) => dq[i] = QueryGrad(i, n1 * B!kN)
  BY <1>1 DEF QueriesSummed
<1>3. QueriesSummed(w, n1, hi)
  BY <1>1, <1>2 DEF QueriesSummed
<1>4. QED
  BY <1>3 DEF hi

\* Every column block visits the last row block.
LEMMA LastVisited ==
    ASSUME call \in Calls, NEW nb \in 0 .. B!LastColBlock
    PROVE  Walked(nb, B!LastRowBlock)
<1> DEFINE k == B!kM
           a == nb * B!kN
           hi == B!LastRowBlock
           last == B!LastColBlock
<1>1. k \in Nat \ {0} /\ hi \in Nat /\ last \in Nat /\ nb \in Nat /\ nb <= last
  BY BwdCall
<1>2. a \in Nat /\ a < (hi + 1) * k
  <2> DEFINE l == B!kN
  <2>1. l \in Nat \ {0} /\ last * l < call.L /\ call.L <= (hi + 1) * k /\ call.L \in Nat
    BY BwdCall
  <2>2. a = nb * l
    OBVIOUS
  <2> HIDE DEF l, hi, k, last, a
  <2>3. nb * l \in Nat /\ last * l \in Nat /\ (hi + 1) * k \in Nat
    BY <1>1, <2>1
  <2>4. nb * l <= last * l
    BY <1>1, <2>1
  <2>5. QED
    BY <2>1, <2>2, <2>3, <2>4
<1> HIDE DEF k, a, hi, last
<1>3. a < k * (hi + 1) /\ hi + 1 \in Int
  BY <1>1, <1>2
<1>4. a \div k \in Int
  BY <1>1, <1>2, Quotient
<1>5. a \div k < hi + 1
  BY <1>1, <1>2, <1>3, Below
<1>6. B!RowBlockMin(nb) = IF call.causal THEN a \div k ELSE 0
  BY DEF B!RowBlockMin, a, k
<1>7. B!RowBlockMin(nb) <= hi
  BY <1>1, <1>4, <1>5, <1>6
<1>8. QED
  BY <1>1, <1>7 DEF Walked, hi, last

\* Both warps pass a barrier.
LEMMA BwdSync ==
    ASSUME BwdShape, InStep, finite' = finite, B!Sync
    PROVE  InStep'
<1>1. /\ \A w \in Warp : b_pc[w] \in B!Barrier /\ (b_pc[w] = "landed" => b_inflight[w] = {})
      /\ b_pc' = [w \in Warp |-> B!After[b_pc[w]]]
      /\ call' = call /\ col' = col /\ row' = row /\ b_smem' = b_smem /\ b_inflight' = b_inflight
      /\ lse' = lse /\ sP' = sP /\ sdS' = sdS /\ acc_dk' = acc_dk /\ acc_dv' = acc_dv /\ sdKV' = sdKV
      /\ dq' = dq /\ dk' = dk /\ dv' = dv
  BY DEF B!Sync, B!Warp, Warp
<1>2. \A w \in Warp : b_pc'[w] = B!After[b_pc[w]]
  BY <1>1
<1>3. PICK stage \in Stages, nb \in Int, m \in Int : Walked(nb, m) /\ \A w \in Warp : At(w, stage, nb, m)
  BY DEF InStep
<1>4. /\ call \in Calls /\ m \in Nat /\ m \in 0 .. B!LastRowBlock /\ nb <= B!LastColBlock /\ -1 <= nb
      /\ B!LastRowBlock \in Nat /\ B!LastColBlock \in Nat
  BY <1>3, WalkIs DEF BwdShape
<1>5. nb >= 0 => /\ nb \in Nat /\ nb \in 0 .. B!LastColBlock
                 /\ B!RowBlockMin(nb) \in Nat /\ B!RowBlockMin(nb) <= m
                 /\ More(nb, m) => m - 1 \in Nat /\ m - 1 \in 0 .. B!LastRowBlock
                                   /\ B!RowBlockMin(nb) <= m - 1
  BY <1>3, <1>4, WalkIs
<1>6. /\ B!LastRowBlock' = B!LastRowBlock /\ B!LastColBlock' = B!LastColBlock
      /\ B!kN' = B!kN /\ B!kM' = B!kM /\ B!NoGrad' = B!NoGrad
      /\ \A t : B!FiniteRows(t)' = B!FiniteRows(t)
      /\ \A i, t : (Walked(i, t)' <=> Walked(i, t)) /\ (More(i, t)' <=> More(i, t))
  BY <1>1, SameLaunch
<1>7. ASSUME NEW w \in Warp
      PROVE  /\ \A n1, lo : /\ QueriesSummed(w, n1, lo) => QueriesSummed(w, n1, lo)'
                            /\ KeysSummed(w, n1, lo) => KeysSummed(w, n1, lo)'
                            /\ ValuesSummed(w, n1, lo) => ValuesSummed(w, n1, lo)'
             /\ \A n1 : ColumnsStaged(w, n1) => ColumnsStaged(w, n1)'
             /\ \A to : ColumnsStored(w, to) => ColumnsStored(w, to)'
             /\ \A n1, t : Shared(w, n1, t) => Shared(w, n1, t)'
  BY <1>1, SumsStay
<1>8. ASSUME NEW w \in Warp
      PROVE  /\ SameTiles(w)
             /\ \A t : InSlot(w, QOf(t)) => InSlot(w, QOf(t))'
             /\ \A t : InSlot(w, OOf(t)) => InSlot(w, OOf(t))'
             /\ \A n1 : ColInSlots(w, n1) => ColInSlots(w, n1)'
  <2>1. SameTiles(w)
    BY <1>1 DEF SameTiles
  <2>2. QED
    BY <1>1, <2>1, TilesStay
<1>9. ASSUME NEW w \in Warp, Issued(w, Ahead(nb, m)) PROVE Issued(w, Ahead(nb, m))'
  <2>1. \A x \in Ahead(nb, m) : x.slot \in Slots
    BY SlotIs DEF Ahead
  <2>2. Lands(w, Ahead(nb, m))
    BY <1>1, <1>8, <1>9, <2>1, TilesStay
  <2>3. QED
    BY <1>1, <2>2, TilesHeld
<1>10. PICK hi, t : hi = B!LastRowBlock /\ t = m - 1
  OBVIOUS
<1>11. ASSUME NEW w \in Warp, Issued(w, {OOf(t)}) PROVE Issued(w, {OOf(t)})'
  <2>1. \A x \in {OOf(t)} : x.slot \in Slots
    BY SlotIs
  <2>2. Lands(w, {OOf(t)})
    BY <1>1, <1>8, <1>11, <2>1, TilesStay
  <2>3. QED
    BY <1>1, <2>2, TilesHeld
<1>12. SUFFICES \E st \in Stages, n1, m1 \in Int : Walked(n1, m1) /\ \A w \in Warp : At(w, st, n1, m1)'
  <2>1. ASSUME NEW st \in Stages, NEW n1 \in Int, NEW m1 \in Int, Walked(n1, m1),
               \A w \in Warp : At(w, st, n1, m1)'
        PROVE  InStep'
    BY <1>6, <2>1 DEF InStep
  <2>2. QED
    BY <1>12, <2>1
\* The copies of the prologue have landed.
<1>13. CASE stage = "loading"
  <2>1. ASSUME NEW w \in Warp PROVE At(w, "probing", nb, hi)'
    <3>1. nb >= 0 /\ Loading(w, nb)
      BY <1>3, <1>13 DEF At
    <3>2. b_pc[w] = "landed" /\ b_inflight[w] = {}
      BY <1>1, <3>1, AfterIs DEF Loading
    <3>3. /\ col[w] = nb /\ row[w] = hi /\ lse[w] = B!FiniteRows(hi)
          /\ acc_dk[w] = B!NoGrad /\ acc_dv[w] = B!NoGrad
          /\ QueriesSummed(w, nb, (hi + 1) * B!kM) /\ ColumnsStored(w, nb * B!kN)
          /\ Issued(w, {OOf(hi), QOf(hi), KOf(nb), VOf(nb)})
      BY <1>10, <3>1, <3>2 DEF Loading
    <3>4. InSlot(w, QOf(hi)) /\ InSlot(w, OOf(hi)) /\ ColInSlots(w, nb)
      BY <3>2, <3>3 DEF Issued, ColInSlots
    <3>5. KeysSummed(w, nb, (hi + 1) * B!kM) /\ ValuesSummed(w, nb, (hi + 1) * B!kM)
      BY <1>4, <1>10, <3>3, NoneSummed
    <3>6. b_pc'[w] = "scores"
      BY <1>2, <3>2, AfterIs
    <3>7. Probing(w, nb, hi)'
      BY <1>1, <1>6, <1>7, <1>8, <3>2, <3>3, <3>4, <3>5, <3>6 DEF Probing
    <3>8. QED
      BY <3>1, <3>7 DEF At
  <2>2. Walked(nb, hi) /\ hi \in Int
    <3>1. nb >= 0
      BY <1>3, <1>13 DEF At, Warp
    <3>2. QED
      BY <1>4, <1>5, <1>10, <3>1, LastVisited
  <2>3. QED
    BY <2>1, <2>2 DEF Stages
\* P and dS are in shared memory.
<1>14. CASE stage = "probing"
  <2>1. ASSUME NEW w \in Warp PROVE At(w, "summing", nb, m)'
    <3>1. nb >= 0 /\ Probing(w, nb, m)
      BY <1>3, <1>14 DEF At
    <3>2. b_pc[w] = "shared"
      BY <1>1, <3>1, AfterIs DEF Probing
    <3>3. b_pc'[w] = "values" /\ Issued(w, Ahead(nb, m))'
      BY <1>2, <1>9, <3>1, <3>2, AfterIs DEF Probing
    <3>4. Summing(w, nb, m)'
      BY <1>1, <1>6, <1>7, <1>8, <3>1, <3>2, <3>3 DEF Probing, Summing
    <3>5. QED
      BY <3>1, <3>4 DEF At
  <2>2. QED
    BY <1>3, <2>1 DEF Stages
\* sdO may be overwritten.
<1>15. CASE stage = "summing"
  <2>1. ASSUME NEW w \in Warp PROVE At(w, "passing", nb, m)'
    <3>1. nb >= 0 /\ Summing(w, nb, m)
      BY <1>3, <1>15 DEF At
    <3>2. b_pc[w] = "consumed"
      BY <1>1, <3>1, AfterIs DEF Summing
    <3>3. b_pc'[w] = "queries" /\ Issued(w, Ahead(nb, m))'
      BY <1>2, <1>9, <3>1, <3>2, AfterIs DEF Summing
    <3>4. Passing(w, nb, m)'
      BY <1>1, <1>6, <1>7, <1>8, <3>1, <3>2, <3>3 DEF Summing, Passing
    <3>5. QED
      BY <3>1, <3>4 DEF At
  <2>2. QED
    BY <1>3, <2>1 DEF Stages
\* The row block is done: the next one, its Q or the epilogue.
<1>16. CASE stage = "passing"
  <2>1. ASSUME NEW w \in Warp
        PROVE  /\ nb >= 0 /\ Passing(w, nb, m)
               /\ b_pc[w] = IF ~More(nb, m) THEN "finished" ELSE IF call.doubleBuffer THEN "landed" ELSE "drained"
               /\ QueriesSummed(w, nb, m * B!kM) /\ KeysSummed(w, nb, m * B!kM)
    <3>1. nb >= 0 /\ Passing(w, nb, m)
      BY <1>3, <1>16 DEF At
    <3>2. b_pc[w] # "queries"
      BY <1>1, AfterIs
    <3>3. QED
      BY <3>1, <3>2 DEF Passing
  <2>2. CASE More(nb, m) /\ call.doubleBuffer
    <3>1. m = t + 1
      BY <1>4, <1>10
    <3>2. ASSUME NEW w \in Warp PROVE At(w, "probing", nb, t)'
      <4>1. b_pc[w] = "landed" /\ b_inflight[w] = {} /\ b_pc'[w] = "scores"
        BY <1>1, <1>2, <2>1, <2>2, AfterIs
      <4>2. row[w] = t /\ lse[w] = B!FiniteRows(t) /\ Issued(w, {OOf(t), QOf(t)}) /\ col[w] = nb
        BY <1>10, <2>1, <4>1 DEF Passing
      <4>3. InSlot(w, QOf(t)) /\ InSlot(w, OOf(t)) /\ ColInSlots(w, nb)
        BY <2>1, <4>1, <4>2 DEF Issued, Passing
      <4>4. /\ QueriesSummed(w, nb, (t + 1) * B!kM) /\ KeysSummed(w, nb, (t + 1) * B!kM)
            /\ ValuesSummed(w, nb, (t + 1) * B!kM) /\ ColumnsStored(w, nb * B!kN)
        <5>1. /\ QueriesSummed(w, nb, m * B!kM) /\ KeysSummed(w, nb, m * B!kM)
              /\ ValuesSummed(w, nb, m * B!kM) /\ ColumnsStored(w, nb * B!kN)
          BY <2>1 DEF Passing
        <5>2. QED
          BY <3>1, <5>1
      <4>5. Probing(w, nb, t)'
        BY <1>1, <1>6, <1>7, <1>8, <4>1, <4>2, <4>3, <4>4 DEF Probing
      <4>6. QED
        BY <2>1, <4>5 DEF At
    <3>3. Walked(nb, t) /\ t \in Int
      <4>1. nb >= 0
        BY <2>1 DEF Warp
      <4>2. QED
        BY <1>4, <1>5, <1>10, <2>2, <4>1 DEF Walked
    <3>4. QED
      BY <3>2, <3>3 DEF Stages
  <2>3. CASE More(nb, m) /\ ~call.doubleBuffer
    <3>1. ASSUME NEW w \in Warp PROVE At(w, "refilling", nb, m)'
      <4>1. b_pc[w] = "drained" /\ b_pc'[w] = "refill"
        BY <1>2, <2>1, <2>3, AfterIs
      <4>2. row[w] = m /\ lse[w] = B!FiniteRows(t) /\ Issued(w, {OOf(t)})'
        <5>1. row[w] = m /\ lse[w] = B!FiniteRows(t) /\ Issued(w, {OOf(t)})
          BY <1>10, <2>1, <4>1 DEF Passing
        <5>2. QED
          BY <1>11, <5>1
      <4>3. Refilling(w, nb, m)'
        BY <1>1, <1>6, <1>7, <1>8, <1>10, <2>1, <2>3, <4>1, <4>2 DEF Refilling, Passing
      <4>4. QED
        BY <2>1, <4>3 DEF At
    <3>2. QED
      BY <1>3, <3>1 DEF Stages
  <2>4. CASE ~More(nb, m)
    <3>1. ASSUME NEW w \in Warp PROVE At(w, "staging", nb, m)'
      <4>1. b_pc[w] = "finished" /\ b_pc'[w] = "stage"
        BY <1>2, <2>1, <2>4, AfterIs
      <4>2. b_inflight[w] = {}
        BY <2>1, <4>1 DEF Passing
      <4>3. Staging(w, nb, m)'
        BY <1>1, <1>6, <1>7, <2>1, <2>4, <4>1, <4>2 DEF Staging, Passing
      <4>4. QED
        BY <2>1, <4>3 DEF At
    <3>2. QED
      BY <1>3, <3>1 DEF Stages
  <2>5. QED
    BY <2>2, <2>3, <2>4
\* The next Q has landed.
<1>17. CASE stage = "refilling"
  <2>1. nb >= 0 /\ \A w \in Warp : Refilling(w, nb, m)
    BY <1>3, <1>17 DEF At, Warp
  <2>2. m = t + 1 /\ More(nb, m)
    BY <1>4, <1>10, <2>1 DEF Refilling, Warp
  <2>3. ASSUME NEW w \in Warp PROVE At(w, "probing", nb, t)'
    <3>1. b_pc[w] = "landed" /\ b_inflight[w] = {} /\ b_pc'[w] = "scores"
      BY <1>1, <1>2, <2>1, AfterIs DEF Refilling
    <3>2. row[w] = t /\ lse[w] = B!FiniteRows(t) /\ Issued(w, {OOf(t), QOf(t)}) /\ col[w] = nb
      BY <1>10, <2>1, <3>1 DEF Refilling
    <3>3. InSlot(w, QOf(t)) /\ InSlot(w, OOf(t)) /\ ColInSlots(w, nb)
      BY <2>1, <3>1, <3>2 DEF Issued, Refilling
    <3>4. /\ QueriesSummed(w, nb, (t + 1) * B!kM) /\ KeysSummed(w, nb, (t + 1) * B!kM)
          /\ ValuesSummed(w, nb, (t + 1) * B!kM) /\ ColumnsStored(w, nb * B!kN)
      <4>1. /\ QueriesSummed(w, nb, m * B!kM) /\ KeysSummed(w, nb, m * B!kM)
            /\ ValuesSummed(w, nb, m * B!kM) /\ ColumnsStored(w, nb * B!kN)
        BY <2>1 DEF Refilling
      <4>2. QED
        BY <2>2, <4>1
    <3>5. Probing(w, nb, t)'
      BY <1>1, <1>6, <1>7, <1>8, <3>1, <3>2, <3>3, <3>4 DEF Probing
    <3>6. QED
      BY <2>1, <3>5 DEF At
  <2>4. Walked(nb, t) /\ t \in Int
    BY <1>4, <1>5, <1>10, <2>1, <2>2 DEF Walked
  <2>5. QED
    BY <2>3, <2>4 DEF Stages
\* dK and dV are staged.
<1>18. CASE stage = "staging"
  <2>1. nb >= 0 /\ \A w \in Warp : Staging(w, nb, m)
    BY <1>3, <1>18 DEF At, Warp
  <2>2. nb \in Nat /\ m = B!RowBlockMin(nb)
    BY <1>4, <1>5, <2>1 DEF Staging, More, Warp
  <2>3. ASSUME NEW w \in Warp PROVE At(w, "storing", nb, m)'
    <3>1. b_pc[w] = "staged" /\ b_pc'[w] = "store"
      BY <1>1, <1>2, <2>1, AfterIs DEF Staging
    <3>2. QueriesSummed(w, nb, 0)
      <4>1. QueriesSummed(w, nb, m * B!kM)
        BY <2>1 DEF Staging
      <4>2. \A i \in Real(call) : i < m * B!kM => QueryGrad(i, nb * B!kN) = QueryGrad(i, (nb + 1) * B!kN)
        BY <1>4, <2>2, NothingEarlier
      <4>3. \A i \in Real(call) : i \in Int /\ 0 <= i
        BY BwdCall, <1>4 DEF Real
      <4>4. PICK b : b = m * B!kM
        OBVIOUS
      <4>5. b \in Int
        BY <1>4, <4>4, BwdCall
      <4>6. ASSUME NEW i \in Real(call), OwnsRow(w, i) PROVE dq[i] = QueryGrad(i, (nb + 1) * B!kN)
        <5>1. dq[i] = QueryGrad(i, IF b <= i THEN (nb + 1) * B!kN ELSE nb * B!kN)
          BY <4>1, <4>4, <4>6 DEF QueriesSummed
        <5>2. i < b => QueryGrad(i, nb * B!kN) = QueryGrad(i, (nb + 1) * B!kN)
          BY <4>2, <4>4
        <5>3. i < b \/ b <= i
          BY <4>3, <4>5
        <5>4. CASE b <= i
          BY <5>1, <5>4
        <5>5. CASE ~(b <= i)
          BY <5>1, <5>2, <5>3, <5>5
        <5>6. QED
          BY <5>4, <5>5
      <4>7. QED
        BY <4>3, <4>6 DEF QueriesSummed
    <3>3. Storing(w, nb)'
      BY <1>1, <1>6, <1>7, <2>1, <3>1, <3>2 DEF Storing, Staging
    <3>4. QED
      BY <3>3 DEF At
  <2>4. QED
    BY <1>3, <2>3 DEF Stages
\* Deterministic mode goes on to the next column block.
<1>19. CASE stage = "storing"
  <2>1. \A w \in Warp : Storing(w, nb)
    BY <1>3, <1>19 DEF At
  <2>2. PICK n1 : n1 = nb + 1
    OBVIOUS
  <2>3. \A w \in Warp : b_pc[w] = "start" /\ nb < B!LastColBlock /\ call.deterministic /\ b_pc'[w] = "load"
    BY <1>1, <1>2, <2>1, AfterIs DEF Storing
  <2>4. n1 \in 0 .. B!LastColBlock /\ n1 >= 0 /\ n1 \in Int
    BY <1>4, <2>2, <2>3 DEF Warp
  <2>5. ASSUME NEW w \in Warp PROVE At(w, "loading", n1, hi)'
    <3>1. /\ col[w] = n1 /\ ColumnsStored(w, n1 * B!kN) /\ QueriesSummed(w, nb, 0) /\ b_inflight[w] = {}
      BY <2>1, <2>2, <2>3 DEF Storing
    <3>2. QueriesSummed(w, n1, (B!LastRowBlock + 1) * B!kM)
      BY <1>4, <2>2, <3>1, NextBlock
    <3>3. b_pc'[w] = "load"
      BY <2>3
    <3>4. Loading(w, n1)'
      BY <1>1, <1>6, <1>7, <3>1, <3>2, <3>3 DEF Loading
    <3>5. QED
      BY <2>4, <3>4 DEF At
  <2>6. Walked(n1, hi) /\ hi \in Int
    BY <1>4, <1>10, <2>4, LastVisited
  <2>7. QED
    BY <2>4, <2>5, <2>6 DEF Stages
<1>20. QED
  BY <1>13, <1>14, <1>15, <1>16, <1>17, <1>18, <1>19 DEF Stages

\* Outside deterministic mode the next column block has a CTA of its own.
LEMMA BwdNextCta ==
    ASSUME BwdShape, InStep, finite' = finite, B!NextCta
    PROVE  InStep'
<1>1. /\ \A w \in Warp : b_pc[w] = "exit" /\ col[w] <= B!LastColBlock
      /\ b_pc' = [w \in Warp |-> "enter"]
      /\ call' = call /\ col' = col /\ row' = row /\ b_inflight' = b_inflight
      /\ lse' = lse /\ sP' = sP /\ sdS' = sdS /\ acc_dk' = acc_dk /\ acc_dv' = acc_dv /\ sdKV' = sdKV
      /\ dq' = dq /\ dk' = dk /\ dv' = dv
  BY DEF B!NextCta, B!Warp, Warp
<1>2. \A w \in Warp : b_pc'[w] = "enter"
  BY <1>1
<1>3. PICK stage \in Stages, nb \in Int, m \in Int : Walked(nb, m) /\ \A w \in Warp : At(w, stage, nb, m)
  BY DEF InStep
<1>4. ASSUME NEW w \in Warp PROVE Storing(w, nb)
  <2>1. At(w, stage, nb, m) /\ b_pc[w] = "exit"
    BY <1>1, <1>3
  <2>2. /\ ~Loading(w, nb) /\ ~Probing(w, nb, m) /\ ~Summing(w, nb, m) /\ ~Passing(w, nb, m)
        /\ ~Refilling(w, nb, m) /\ ~Staging(w, nb, m)
    BY <2>1 DEF Loading, Probing, Summing, Passing, Refilling, Staging
  <2>3. QED
    BY <2>1, <2>2 DEF At
<1>5. call \in Calls /\ -1 <= nb /\ B!LastRowBlock \in Nat /\ B!LastColBlock \in Nat
  BY <1>3, WalkIs DEF BwdShape
<1>6. PICK n1, hi : n1 = nb + 1 /\ hi = B!LastRowBlock
  OBVIOUS
<1>7. \A w \in Warp : /\ col[w] = n1 /\ b_inflight[w] = {} /\ ColumnsStored(w, n1 * B!kN)
                      /\ QueriesSummed(w, nb, 0) /\ (call.deterministic => B!LastColBlock <= nb)
  BY <1>1, <1>4, <1>6 DEF Storing
<1>8. n1 \in 0 .. B!LastColBlock /\ n1 >= 0 /\ n1 \in Int /\ ~call.deterministic
  BY <1>1, <1>5, <1>6, <1>7 DEF Warp
<1>9. /\ B!LastRowBlock' = B!LastRowBlock /\ B!LastColBlock' = B!LastColBlock
      /\ B!kN' = B!kN /\ B!kM' = B!kM
      /\ Walked(n1, hi)' <=> Walked(n1, hi)
  BY <1>1, SameLaunch
<1>10. ASSUME NEW w \in Warp PROVE At(w, "loading", n1, hi)'
  <2>1. QueriesSummed(w, n1, (B!LastRowBlock + 1) * B!kM)
    BY <1>5, <1>6, <1>7, NextBlock
  <2>2. /\ \A i, lo : QueriesSummed(w, i, lo) => QueriesSummed(w, i, lo)'
        /\ \A to : ColumnsStored(w, to) => ColumnsStored(w, to)'
    BY <1>1, SumsStay
  <2>3. Loading(w, n1)'
    BY <1>1, <1>2, <1>7, <1>8, <1>9, <2>1, <2>2 DEF Loading
  <2>4. QED
    BY <1>8, <2>3 DEF At
<1>11. Walked(n1, hi)' /\ hi \in Int
  BY <1>5, <1>6, <1>8, <1>9, LastVisited
<1>12. QED
  BY <1>8, <1>10, <1>11 DEF InStep, Stages

\* The shape of the backward's state.
LEMMA BwdShapeStays ==
    ASSUME BwdShape, B!BwdNext
    PROVE  BwdShape'
<1> USE DEF B!Warp, Warp
<1>1. ASSUME call' = call, DOMAIN b_pc' = Warp, DOMAIN col' = Warp, DOMAIN row' = Warp,
             DOMAIN b_inflight' = Warp, DOMAIN lse' = Warp, DOMAIN acc_dk' = Warp, DOMAIN acc_dv' = Warp,
             DOMAIN b_smem' = Slots, \A slot \in Slots : DOMAIN b_smem'[slot] = Warp,
             DOMAIN dq' = DOMAIN dq, DOMAIN dk' = DOMAIN dk, DOMAIN dv' = DOMAIN dv
      PROVE  BwdShape'
  BY <1>1 DEF BwdShape, Slots, Real
<1>2. /\ DOMAIN b_pc = Warp /\ DOMAIN col = Warp /\ DOMAIN row = Warp /\ DOMAIN b_inflight = Warp
      /\ DOMAIN lse = Warp /\ DOMAIN acc_dk = Warp /\ DOMAIN acc_dv = Warp
      /\ DOMAIN b_smem = Slots /\ \A slot \in Slots : DOMAIN b_smem[slot] = Warp
  BY DEF BwdShape, Slots
<1>3. CASE B!Sync
  <2>1. /\ UNCHANGED <<call, col, row, b_smem, b_inflight, lse, acc_dk, acc_dv, dq, dk, dv>>
        /\ DOMAIN b_pc' = Warp
    BY <1>3 DEF B!Sync
  <2>2. QED
    BY <1>1, <1>2, <2>1
<1>4. CASE B!NextCta
  <2>1. /\ UNCHANGED <<call, col, row, b_inflight, lse, acc_dk, acc_dv, dq, dk, dv>>
        /\ DOMAIN b_pc' = Warp /\ DOMAIN b_smem' = DOMAIN b_smem
        /\ \A slot \in DOMAIN b_smem : DOMAIN b_smem'[slot] = Warp
    BY <1>4 DEF B!NextCta
  <2>2. QED
    BY <1>1, <1>2, <2>1
<1>5. ASSUME NEW w \in Warp, B!Land(w) PROVE BwdShape'
  <2>1. PICK x \in b_inflight[w] :
           /\ b_smem' = [b_smem EXCEPT ![x.slot][w] = x.src]
           /\ b_inflight' = [b_inflight EXCEPT ![w] = @ \ {x}]
    BY <1>5 DEF B!Land
  <2>2. UNCHANGED <<call, col, row, b_pc, lse, acc_dk, acc_dv, dq, dk, dv>>
    BY <1>5 DEF B!Land
  <2> DEFINE slot == x.slot
             src == x.src
  <2>3. b_smem' = [b_smem EXCEPT ![slot] = [b_smem[slot] EXCEPT ![w] = src]]
    BY <2>1
  <2> HIDE DEF slot, src
  <2>4. DOMAIN b_smem' = Slots /\ \A y \in Slots : DOMAIN b_smem'[y] = Warp
    BY <1>2, <2>3
  <2>5. DOMAIN b_inflight' = Warp
    BY <1>2, <2>1
  <2>6. QED
    BY <1>1, <1>2, <2>2, <2>4, <2>5
<1>6. ASSUME NEW w \in Warp, B!Enter(w) PROVE BwdShape'
  <2>1. /\ UNCHANGED <<call, col, row, b_smem, b_inflight, lse, acc_dk, acc_dv, dq, dk, dv>>
        /\ DOMAIN b_pc' = Warp
    BY <1>2, <1>6 DEF B!Enter, B!Goto
  <2>2. QED
    BY <1>1, <1>2, <2>1
<1>7. ASSUME NEW w \in Warp, B!Load(w) PROVE BwdShape'
  <2>1. /\ UNCHANGED <<call, col, b_smem, dq, dk, dv>>
        /\ DOMAIN b_pc' = Warp /\ DOMAIN row' = Warp /\ DOMAIN b_inflight' = Warp /\ DOMAIN lse' = Warp
        /\ DOMAIN acc_dk' = Warp /\ DOMAIN acc_dv' = Warp
    BY <1>2, <1>7 DEF B!Load, B!Goto, B!Issue
  <2>2. QED
    BY <1>1, <1>2, <2>1
<1>8. ASSUME NEW w \in Warp, B!Scores(w) PROVE BwdShape'
  <2>1. /\ UNCHANGED <<call, col, row, b_smem, lse, acc_dk, acc_dv, dq, dk, dv>>
        /\ DOMAIN b_pc' = Warp /\ DOMAIN b_inflight' = Warp
    BY <1>2, <1>8 DEF B!Scores, B!Goto, B!Issue
  <2>2. QED
    BY <1>1, <1>2, <2>1
<1>9. ASSUME NEW w \in Warp, B!Values(w) PROVE BwdShape'
  <2>1. /\ UNCHANGED <<call, col, row, b_smem, b_inflight, lse, acc_dk, dq, dk, dv>>
        /\ DOMAIN b_pc' = Warp /\ DOMAIN acc_dv' = Warp
    BY <1>2, <1>9 DEF B!Values, B!Goto
  <2>2. QED
    BY <1>1, <1>2, <2>1
<1>10. ASSUME NEW w \in Warp, B!Queries(w) PROVE BwdShape'
  <2>1. /\ UNCHANGED <<call, col, b_smem, acc_dv, dk, dv>>
        /\ DOMAIN b_pc' = Warp /\ DOMAIN row' = Warp /\ DOMAIN b_inflight' = Warp /\ DOMAIN lse' = Warp
        /\ DOMAIN acc_dk' = Warp /\ DOMAIN dq' = DOMAIN dq
    BY <1>2, <1>10 DEF B!Queries, B!Goto, B!Issue
  <2>2. QED
    BY <1>1, <1>2, <2>1
<1>11. ASSUME NEW w \in Warp, B!Refill(w) PROVE BwdShape'
  <2>1. /\ UNCHANGED <<call, col, b_smem, lse, acc_dk, acc_dv, dq, dk, dv>>
        /\ DOMAIN b_pc' = Warp /\ DOMAIN row' = Warp /\ DOMAIN b_inflight' = Warp
    BY <1>2, <1>11 DEF B!Refill, B!Goto, B!Issue
  <2>2. QED
    BY <1>1, <1>2, <2>1
<1>12. ASSUME NEW w \in Warp, B!Stage(w) PROVE BwdShape'
  <2>1. /\ UNCHANGED <<call, col, row, b_inflight, lse, acc_dk, acc_dv, dq, dk, dv>>
        /\ DOMAIN b_pc' = Warp /\ DOMAIN b_smem' = DOMAIN b_smem
        /\ \A slot \in DOMAIN b_smem : b_smem'[slot] = b_smem[slot] \/ DOMAIN b_smem'[slot] = Warp
    BY <1>2, <1>12 DEF B!Stage, B!Goto
  <2>2. QED
    BY <1>1, <1>2, <2>1
<1>13. ASSUME NEW w \in Warp, B!Store(w) PROVE BwdShape'
  <2>1. /\ UNCHANGED <<call, row, b_smem, b_inflight, lse, acc_dk, acc_dv, dq>>
        /\ DOMAIN b_pc' = Warp /\ DOMAIN col' = Warp /\ DOMAIN dk' = DOMAIN dk /\ DOMAIN dv' = DOMAIN dv
    BY <1>2, <1>13 DEF B!Store, B!Goto
  <2>2. QED
    BY <1>1, <1>2, <2>1
<1>14. QED
  BY <1>3, <1>4, <1>5, <1>6, <1>7, <1>8, <1>9, <1>10, <1>11, <1>12, <1>13 DEF B!BwdNext

\* A step of the backward keeps its invariant.
LEMMA BwdStep ==
    ASSUME BwdInv, B!BwdNext
    PROVE  BwdInv'
<1>1. BwdShape /\ LseFinite /\ InStep
  BY DEF BwdInv
<1>2. call' = call /\ finite' = finite
  BY DEF B!BwdNext, B!Sync, B!NextCta, B!Land, B!Enter, B!Load, B!Scores, B!Values, B!Queries,
         B!Refill, B!Stage, B!Store
<1>3. LseFinite'
  BY <1>1, <1>2 DEF LseFinite
<1>4. ASSUME B!Sync PROVE InStep'
  BY <1>1, <1>2, <1>4, BwdSync
<1>5. ASSUME B!NextCta PROVE InStep'
  BY <1>1, <1>2, <1>5, BwdNextCta
<1>6. ASSUME NEW w \in Warp, B!Land(w) PROVE InStep'
  BY <1>1, <1>2, <1>6, BwdLand
<1>7. ASSUME NEW w \in Warp, B!Enter(w) PROVE InStep'
  BY <1>1, <1>2, <1>7, BwdEnter
<1>8. ASSUME NEW w \in Warp, B!Load(w) PROVE InStep'
  BY <1>1, <1>2, <1>8, BwdLoad
<1>9. ASSUME NEW w \in Warp, B!Scores(w) PROVE InStep'
  BY <1>1, <1>2, <1>9, BwdScores
<1>10. ASSUME NEW w \in Warp, B!Values(w) PROVE InStep'
  BY <1>1, <1>2, <1>10, BwdValues
<1>11. ASSUME NEW w \in Warp, B!Queries(w) PROVE InStep'
  BY <1>1, <1>2, <1>11, BwdQueries
<1>12. ASSUME NEW w \in Warp, B!Refill(w) PROVE InStep'
  BY <1>1, <1>2, <1>12, BwdRefill
<1>13. ASSUME NEW w \in Warp, B!Stage(w) PROVE InStep'
  BY <1>1, <1>2, <1>13, BwdStage
<1>14. ASSUME NEW w \in Warp, B!Store(w) PROVE InStep'
  BY <1>1, <1>2, <1>14, BwdStore
<1>15. InStep'
  BY <1>4, <1>5, <1>6, <1>7, <1>8, <1>9, <1>10, <1>11, <1>12, <1>13, <1>14 DEF B!BwdNext, B!Warp, Warp
<1>16. QED
  BY <1>1, <1>3, <1>15, BwdShapeStays DEF BwdInv

\* What is not a step of the backward leaves its invariant alone.
LEMMA BwdStays ==
    ASSUME BwdInv, call' = call, finite' = finite, UNCHANGED bwdVars
    PROVE  BwdInv'
<1>1. /\ col' = col /\ row' = row /\ b_pc' = b_pc /\ b_smem' = b_smem /\ b_inflight' = b_inflight
      /\ lse' = lse /\ sP' = sP /\ sdS' = sdS /\ acc_dk' = acc_dk /\ acc_dv' = acc_dv /\ sdKV' = sdKV
      /\ dq' = dq /\ dk' = dk /\ dv' = dv
  BY DEF bwdVars
<1>2. BwdShape'
  BY <1>1 DEF BwdInv, BwdShape, Real
<1>3. LseFinite'
  BY DEF BwdInv, LseFinite
<1>4. PICK stage \in Stages, nb \in Int, m \in Int : Walked(nb, m) /\ \A u \in Warp : At(u, stage, nb, m)
  BY DEF BwdInv, InStep
<1>5. \A u \in Warp : Idle(u) /\ SameTiles(u)
  BY <1>1 DEF Idle, SameTiles
<1>6. \A u \in Warp : At(u, stage, nb, m)'
  BY <1>4, <1>5, StaysIdle
<1>7. Walked(nb, m)'
  BY <1>4, SameLaunch
<1>8. InStep'
  BY <1>4, <1>6, <1>7 DEF InStep
<1>9. QED
  BY <1>2, <1>3, <1>8 DEF BwdInv

\* The backward starts with its first column block.
LEMMA BwdStarts == call \in Calls /\ B!BwdInit => BwdShape /\ InStep
<1> SUFFICES ASSUME call \in Calls, B!BwdInit PROVE BwdShape /\ InStep
  OBVIOUS
<1>1. BwdShape
  <2>1. DOMAIN b_smem = {"Q0", "Q1", "dO", "K", "V"}
    BY DEF B!BwdInit, B!Buffer
  <2>2. \A slot \in {"Q0", "Q1", "dO", "K", "V"} : DOMAIN b_smem[slot] = Warp
    BY DEF B!BwdInit, B!Buffer, B!Warp, Warp
  <2>3. DOMAIN dq = Real(call) /\ DOMAIN dk = Real(call) /\ DOMAIN dv = Real(call)
    BY DEF B!BwdInit, B!Real, Real
  <2>4. /\ DOMAIN b_pc = Warp /\ DOMAIN col = Warp /\ DOMAIN row = Warp /\ DOMAIN b_inflight = Warp
        /\ DOMAIN lse = Warp /\ DOMAIN acc_dk = Warp /\ DOMAIN acc_dv = Warp
    BY DEF B!BwdInit, B!Warp, Warp
  <2>5. QED
    BY <2>1, <2>2, <2>3, <2>4 DEF BwdShape
<1>2. PICK hi, n0, n1 : hi = B!LastRowBlock /\ n0 = 0 /\ n1 = -1
  OBVIOUS
<1>3. /\ B!LastRowBlock \in Nat /\ B!LastColBlock \in Nat /\ B!kN \in Nat \ {0} /\ B!kM \in Nat \ {0}
      /\ \A i \in Real(call) : i \in Int /\ 0 <= i
  BY BwdCall DEF Real
<1>4. \A w \in Warp : b_pc[w] = "enter" /\ col[w] = 0 /\ b_inflight[w] = {}
  BY DEF B!BwdInit, B!Warp, Warp
<1>5. \A i \in Real(call) : dq[i] = QueryGrad(i, 0)
  <2>1. \A i : KeysBelow(i, 0) = {}
    BY <1>3 DEF KeysBelow
  <2>2. \A i : {<<i, j, i, j, j>> : j \in KeysBelow(i, 0)} = {}
    BY <2>1
  <2>3. \A i \in Real(call) : dq[i] = EmptyBag
    BY BwdBags DEF B!BwdInit, B!Real, Real
  <2>4. QED
    BY <2>2, <2>3 DEF QueryGrad, EmptyBag
<1>6. 0 * B!kN = 0 /\ (n1 + 1) * B!kN = 0 /\ n1 + 1 = 0 /\ (n0 + 1) * B!kN = B!kN /\ n0 * B!kN = 0
  BY <1>2, <1>3
<1>7. CASE call.deterministic
  <2>1. ASSUME NEW w \in Warp PROVE Storing(w, n1)
    <3>1. QueriesSummed(w, n1, 0)
      BY <1>3, <1>5, <1>6 DEF QueriesSummed
    <3>2. ColumnsStaged(w, n1)
      <4>1. ASSUME NEW c \in B!TileCol PROVE n1 * B!kN + c \notin Real(call)
        BY <1>2, <1>3 DEF B!TileCol
      <4>2. QED
        BY <4>1 DEF ColumnsStaged, B!Mine
    <3>3. ColumnsStored(w, (n1 + 1) * B!kN)
      BY <1>3, <1>6 DEF ColumnsStored
    <3>4. QED
      BY <1>4, <1>6, <1>7, <3>1, <3>2, <3>3 DEF Storing
  <2>2. Walked(n1, hi) /\ n1 \in Int /\ hi \in Int
    BY <1>2, <1>3 DEF Walked
  <2>3. \A w \in Warp : At(w, "storing", n1, hi)
    BY <2>1 DEF At
  <2>4. QED
    BY <1>1, <2>2, <2>3 DEF InStep, Stages
<1>8. CASE ~call.deterministic
  <2>1. ASSUME NEW w \in Warp PROVE Loading(w, n0)
    <3>1. QueriesSummed(w, n0, (B!LastRowBlock + 1) * B!kM)
      <4> DEFINE top == (B!LastRowBlock + 1) * B!kM
      <4>1. call.L \in Nat /\ call.L <= top /\ Real(call) = 0 .. call.L - 1 /\ top \in Int
        BY <1>3, BwdCall DEF Real
      <4> HIDE DEF top
      <4>2. \A i \in Real(call) : ~(top <= i)
        BY <4>1
      <4>3. QueriesSummed(w, n0, top)
        BY <1>5, <1>6, <4>2 DEF QueriesSummed
      <4>4. QED
        BY <4>3 DEF top
    <3>2. ColumnsStored(w, n0 * B!kN)
      BY <1>3, <1>6 DEF ColumnsStored
    <3>3. QED
      BY <1>2, <1>4, <1>8, <3>1, <3>2 DEF Loading
  <2>2. Walked(n0, hi) /\ n0 \in Int /\ hi \in Int
    BY <1>2, <1>3, LastVisited
  <2>3. \A w \in Warp : At(w, "loading", n0, hi)
    BY <1>2, <2>1 DEF At
  <2>4. QED
    BY <1>1, <2>2, <2>3 DEF InStep, Stages
<1>9. QED
  BY <1>7, <1>8

\* A token with a key has a finite global lse once the forward is done.
LEMMA MergeGivesLse ==
    ASSUME FwdInv, Merge
    PROVE  LseFinite'
<1>1. PICK others \in {{}, Real(call)} :
         finite' = others \cup {i \in Real(call) : written[i].lse = "finite"}
  BY DEF Merge
<1>2. call' = call /\ F!FwdDone
  BY DEF Merge
<1>3. ASSUME NEW i \in Real(call), NEW j \in Real(call), Keeps(call, i, j) PROVE i \in finite'
  <2> DEFINE keys == {t \in Real(call) : Keeps(call, i, t)}
             x == written[i]
  <2>1. IF x.lse = "none" THEN ~F!FwdDone
        ELSE /\ ~x.nan
             /\ x.lse = IF keys = {} THEN "inf" ELSE "finite"
             /\ x.sum = SetToBag({<<RowOf(call, i), RowOf(call, t), RowOf(call, t)>> : t \in keys})
    BY RowsRight DEF RowsExact
  <2>2. x.lse = IF keys = {} THEN "inf" ELSE "finite"
    BY <1>2, <2>1
  <2>3. keys # {}
    BY <1>3
  <2>4. QED
    BY <1>1, <2>2, <2>3
<1>4. QED
  BY <1>2, <1>3 DEF LseFinite, Real, Keeps

\* The backward has not started while the forward runs.
KernelInv ==
    /\ FwdInv
    /\ phase = "forward" => B!BwdInit
    /\ phase = "backward" => BwdInv
    /\ phase \in {"forward", "backward"}

\* Every step of the forward and of the backward keeps the joint invariant.
LEMMA KernelKept == KernelInv /\ [Next]_vars => KernelInv'
<1> SUFFICES ASSUME KernelInv, [Next]_vars PROVE KernelInv'
  OBVIOUS
<1>1. FwdInv /\ FwdInv' /\ call' = call /\ call \in Calls
  BY FwdKept, SameCall DEF KernelInv, FwdInv, FwdShape
<1>2. ASSUME UNCHANGED bwdVars, B!BwdInit PROVE B!BwdInit'
  BY <1>1, <1>2 DEF bwdVars, B!BwdInit, B!Zeros, B!NoGrad, B!TileRow, B!TileCol, B!kM, B!kN, B!Real
<1>3. CASE Forward
  BY <1>1, <1>2, <1>3 DEF Forward, KernelInv
<1>4. CASE Merge
  <2>1. phase = "forward" /\ phase' = "backward" /\ UNCHANGED bwdVars
    BY <1>4 DEF Merge
  <2>2. B!BwdInit' /\ call' \in Calls
    BY <1>1, <1>2, <2>1 DEF KernelInv
  <2>3. (call \in Calls /\ B!BwdInit => BwdShape /\ InStep)'
    BY BwdStarts, PTL
  <2>4. BwdShape' /\ InStep'
    BY <2>2, <2>3
  <2>5. LseFinite'
    BY <1>1, <1>4, MergeGivesLse
  <2>6. QED
    BY <1>1, <2>1, <2>4, <2>5 DEF KernelInv, BwdInv
<1>5. CASE Backward
  <2>1. phase = "backward" /\ phase' = phase /\ B!BwdNext
    BY <1>5 DEF Backward
  <2>2. BwdInv'
    BY <2>1, BwdStep DEF KernelInv
  <2>3. QED
    BY <1>1, <2>1, <2>2 DEF KernelInv
<1>6. CASE Complete \/ UNCHANGED vars
  <2>1. phase' = phase /\ finite' = finite /\ UNCHANGED bwdVars
    BY <1>6 DEF Complete, vars
  <2>2. phase = "backward" => BwdInv'
    BY <1>1, <2>1, BwdStays DEF KernelInv
  <2>3. phase = "forward" => B!BwdInit'
    BY <1>2, <2>1 DEF KernelInv
  <2>4. QED
    BY <1>1, <2>1, <2>2, <2>3 DEF KernelInv
<1>7. QED
  BY <1>3, <1>4, <1>5, <1>6 DEF Next

\* When every warp has left the kernel its gradients are complete.
LEMMA GradientsDone ==
    ASSUME BwdInv, B!BwdDone, NEW x \in Real(call)
    PROVE  dq[x] = QueryGrad(x, (B!LastColBlock + 1) * B!kN) /\ dk[x] = KeyGrad(x, 0) /\ dv[x] = ValueGrad(x, 0)
<1>1. PICK stage \in Stages, nb \in Int, m \in Int : Walked(nb, m) /\ \A w \in Warp : At(w, stage, nb, m)
  BY DEF BwdInv, InStep
<1>2. \A w \in Warp : b_pc[w] = "exit" /\ col[w] > B!LastColBlock
  BY DEF B!BwdDone, B!Warp, Warp
<1>3. /\ call \in Calls /\ nb <= B!LastColBlock /\ B!LastColBlock \in Nat /\ B!LastRowBlock \in Nat
      /\ B!kM \in Nat \ {0} /\ B!kN \in Nat \ {0}
  BY <1>1, WalkIs, BwdCall DEF BwdInv, BwdShape
<1>4. ASSUME NEW w \in Warp PROVE Storing(w, nb)
  <2>1. At(w, stage, nb, m) /\ b_pc[w] = "exit"
    BY <1>1, <1>2
  <2>2. /\ ~Loading(w, nb) /\ ~Probing(w, nb, m) /\ ~Summing(w, nb, m) /\ ~Passing(w, nb, m)
        /\ ~Refilling(w, nb, m) /\ ~Staging(w, nb, m)
    BY <2>1 DEF Loading, Probing, Summing, Passing, Refilling, Staging
  <2>3. QED
    BY <2>1, <2>2 DEF At
<1>5. \A w \in Warp : col[w] = nb + 1 /\ ColumnsStored(w, (nb + 1) * B!kN) /\ QueriesSummed(w, nb, 0)
  BY <1>2, <1>4 DEF Storing
<1>6. nb = B!LastColBlock
  BY <1>2, <1>3, <1>5 DEF Warp
<1>7. x \in Nat /\ x < call.L /\ call.L \in Nat /\ call.L <= (nb + 1) * B!kN
  BY <1>3, <1>6, BwdCall DEF Real
<1>8. dq[x] = QueryGrad(x, (nb + 1) * B!kN)
  <2> DEFINE r == x % B!kM
  <2>1. r \in Nat
    BY <1>3, <1>7, Quotient
  <2> HIDE DEF r
  <2>2. PICK w \in Warp : r % 2 = w
    BY <2>1, ModTwo DEF Warp
  <2>3. QueriesSummed(w, nb, 0) /\ OwnsRow(w, x)
    BY <1>5, <2>2 DEF OwnsRow, r
  <2>4. QED
    BY <1>7, <2>3 DEF QueriesSummed
<1>9. dk[x] = KeyGrad(x, 0) /\ dv[x] = ValueGrad(x, 0)
  <2> DEFINE c == x % B!kN
             top == (nb + 1) * B!kN
  <2>1. c \in B!TileCol
    BY <1>3, <1>7, Quotient DEF B!TileCol
  <2>2. PICK w \in Warp : c \in B!SpanOf(w)
    BY <1>3, <2>1, SpansSplit
  <2>3. OwnsCol(w, x)
    BY <2>2 DEF OwnsCol
  <2>4. ColumnsStored(w, top)
    BY <1>5
  <2>5. top \in Int /\ call.L <= top
    BY <1>3, <1>7
  <2> HIDE DEF c, top
  <2>6. x < top
    BY <1>7, <2>5
  <2>7. QED
    BY <2>3, <2>4, <2>6 DEF ColumnsStored
<1>10. QED
  BY <1>6, <1>8, <1>9

\* After the backward every kept pair has added exactly one product, of the right rows,
\* to dQ of its query and to dK and dV of its key, and no gradient has met a stale or
\* uninitialised operand.
THEOREM GradientsAreExact == Spec => []GradientsExact
<1>1. Init => KernelInv
  BY FwdStarts DEF Init, KernelInv
<1>2. KernelInv => GradientsExact
  <2> SUFFICES ASSUME KernelInv, phase = "backward", B!BwdDone, NEW x \in Real(call)
               PROVE  LET keys    == {j \in Real(call) : Keeps(call, x, j)}
                          queries == {i \in Real(call) : Keeps(call, i, x)}
                      IN  /\ dq[x] = SetToBag({<<x, j, x, j, j>> : j \in keys})
                          /\ dk[x] = SetToBag({<<i, x, i, x, i>> : i \in queries})
                          /\ dv[x] = SetToBag({<<i, x, i>> : i \in queries})
    BY DEF GradientsExact
  <2> DEFINE keys    == {j \in Real(call) : Keeps(call, x, j)}
             queries == {i \in Real(call) : Keeps(call, i, x)}
             top     == (B!LastColBlock + 1) * B!kN
  <2>1. BwdInv /\ call \in Calls
    BY DEF KernelInv, BwdInv, BwdShape
  <2>2. dq[x] = QueryGrad(x, top) /\ dk[x] = KeyGrad(x, 0) /\ dv[x] = ValueGrad(x, 0)
    BY <2>1, GradientsDone
  <2>3. \A i \in Real(call) : 0 <= i /\ i < top
    <3>1. call.L \in Nat /\ call.L <= top /\ top \in Int /\ Real(call) = 0 .. call.L - 1
      BY <2>1, BwdCall DEF Real
    <3> HIDE DEF top
    <3>2. QED
      BY <3>1
  <2> HIDE DEF top
  <2>4. KeysBelow(x, top) = keys /\ QueriesFrom(x, 0) = queries
    BY <2>3 DEF KeysBelow, QueriesFrom
  <2> HIDE DEF keys, queries
  <2>5. /\ QueryGrad(x, top) = SetToBag({<<x, j, x, j, j>> : j \in keys})
        /\ KeyGrad(x, 0) = SetToBag({<<i, x, i, x, i>> : i \in queries})
        /\ ValueGrad(x, 0) = SetToBag({<<i, x, i>> : i \in queries})
    BY <2>4 DEF QueryGrad, KeyGrad, ValueGrad
  <2>6. QED
    BY <2>2, <2>5 DEF keys, queries
<1>3. QED
  BY <1>1, <1>2, KernelKept, PTL DEF Spec
=============================================================================
