------------------------------ MODULE PathState ------------------------------
(***************************************************************************)
(* build_path_state, group_bits_for_path and segment_block_base of         *)
(* reference.py, as the walk they are: each step descends one level of a   *)
(* decomposition path, gathers the quorum of the chosen owner from the     *)
(* current local sequence and reindexes every label of the earlier levels. *)
(* Sequences are kept in local order, for both gather orders, so this      *)
(* module is where the set-based operators of Decomposition are checked    *)
(* against the order-sensitive code they abstract.                         *)
(***************************************************************************)
EXTENDS Integers, Sequences, FiniteSets, SequencesExt

CONSTANT
    Decompositions \* the calls explored: records
                   \*   c             chunks per level
                   \*   interest_set  offsets in the order the code lists them
                   \*   align         chunk alignment
                   \*   lengths       sequence lengths to start from
                   \*   bound         longest path explored

VARIABLES
    decomposition, \* that of this call
    n,             \* sequence length
    sorted,        \* sorted_gather
    path,          \* owners chosen so far
    token_ids,     \* global token of each local position
    labels,        \* label_history[level][local position]
    gathered       \* trace[level].chunks

walkVars == <<decomposition, n, sorted, path, token_ids, labels, gathered>>

\* A task builder is given offsets of its chunks and an alignment in whole tokens.
ASSUME PathAssumption ==
    \A d \in Decompositions :
        /\ d.c \in Nat \ {0} /\ d.align \in Nat \ {0}
        /\ d.interest_set \in Seq(0 .. d.c - 1)
        /\ d.lengths \subseteq Nat

C           == decomposition.c
InterestSeq == decomposition.interest_set
Align       == decomposition.align
Chunk       == 0 .. C-1

\* check_quorum_set: the differences of distinct members, as a multiset, are
\* exactly the non-zero residues.
CheckQuorumSet ==
    LET I == DOMAIN InterestSeq
    IN  /\ \A a, b \in I : a # b => InterestSeq[a] # InterestSeq[b]
        /\ \A d \in 1 .. C-1 :
              Cardinality({p \in I \X I :
                  p[1] # p[2] /\ (InterestSeq[p[1]] - InterestSeq[p[2]]) % C = d}) = 1

\* Faults: the last chunks are the longer ones, or the first takes the ragged tail.
SizesExtraLast(len) ==
    [k \in Chunk |-> (len \div C) + (IF C-1-k < len % C THEN 1 ELSE 0)]

SizesTailFirst(len) ==
    LET blocks == len \div Align
    IN  [k \in Chunk |-> (blocks \div C) * Align
                         + (IF k < blocks % C THEN Align ELSE 0)
                         + (IF k = 0 THEN len % Align ELSE 0)]

\* chunk_layout: the sizes, then the running sum of the sizes.
Sizes(len) ==
    IF Align <= 1
    THEN [k \in Chunk |-> (len \div C) + (IF k < len % C THEN 1 ELSE 0)]
    ELSE LET blocks == len \div Align
         IN  [k \in Chunk |-> (blocks \div C) * Align
                              + (IF k < blocks % C THEN Align ELSE 0)
                              + (IF k = C-1 THEN len % Align ELSE 0)]

Starts(len) ==
    LET sizes == Sizes(len)
        start[k \in Chunk] == IF k = 0 THEN 0 ELSE start[k-1] + sizes[k-1]
    IN  start

\* Local positions (from 1) that chunk k occupies.
Segment(len, k) == [i \in 1 .. Sizes(len)[k] |-> Starts(len)[k] + i]

\* quorum_chunks; a fault where sorted_gather is set.
quorum_chunks(owner) == [i \in DOMAIN InterestSeq |-> (owner + InterestSeq[i]) % C]

\* sorted(chunks) is by rank: a quorum holds no chunk twice.
QuorumSeq(owner) ==
    LET q == quorum_chunks(owner)
        rank(k) == Cardinality({x \in Range(q) : x < k})
    IN  IF sorted THEN [i \in DOMAIN q |-> CHOOSE k \in Range(q) : rank(k) = i-1] ELSE q

GatherIdx(owner) ==
    FlattenSeq([i \in DOMAIN InterestSeq |-> Segment(Len(token_ids), QuorumSeq(owner)[i])])

Reindex(seq, idx) == [i \in DOMAIN idx |-> seq[idx[i]]]

\* labels_cur: the chunk of every position of the current local sequence.
CurrentLabels ==
    [i \in 1 .. Len(token_ids) |->
        CHOOSE k \in Chunk : i \in Range(Segment(Len(token_ids), k))]

WalkInit ==
    /\ decomposition \in Decompositions
    /\ CheckQuorumSet
    /\ n \in decomposition.lengths
    /\ sorted \in BOOLEAN
    /\ Align > 1 => sorted           \* every caller that aligns also sorts
    /\ path = <<>>
    /\ token_ids = [i \in 1 .. n |-> i - 1]
    /\ labels = <<>>
    /\ gathered = <<>>

\* One iteration of "for owner in path".
Descend(owner) ==
    LET idx == GatherIdx(owner)
    IN  /\ Len(path) < decomposition.bound
        /\ path' = Append(path, owner)
        /\ token_ids' = Reindex(token_ids, idx)
        /\ labels' = Append([l \in DOMAIN labels |-> Reindex(labels[l], idx)],
                            Reindex(CurrentLabels, idx))
        /\ gathered' = Append(gathered, QuorumSeq(owner))
        /\ UNCHANGED <<decomposition, n, sorted>>

WalkNext == \E owner \in Chunk : Descend(owner)

WalkSpec == WalkInit /\ [][WalkNext]_walkVars

-----------------------------------------------------------------------------
\* A fault: the owner's own diagonal block is masked too.
BitsOwnerToo(lab, own, i) == {<<l, lab[l][i]>> : l \in DOMAIN own}

\* group_bits_for_path: the groups of a local position, one for each level at
\* which it was gathered by an owner other than its own chunk.
Bits(lab, own, i) == {<<l, lab[l][i]>> : l \in {m \in DOMAIN own : lab[m][i] # own[m]}}

\* dense_keep_mask_for_path without the causal part, as global token pairs.
KeptPairs(ids, lab, own) ==
    {<<ids[p[1]], ids[p[2]]>> :
        p \in {q \in (DOMAIN ids) \X (DOMAIN ids) :
                  Bits(lab, own, q[1]) \cap Bits(lab, own, q[2]) = {}}}

\* The kept pairs of the subproblem that Descend(owner) leads to.
KeptBelow(owner) ==
    LET idx == GatherIdx(owner)
    IN  KeptPairs(Reindex(token_ids, idx),
                  Append([l \in DOMAIN labels |-> Reindex(labels[l], idx)],
                         Reindex(CurrentLabels, idx)),
                  Append(path, owner))

\* segment_block_base: the first global row of every block of Align rows.
BlockBase == [b \in 0 .. (Len(token_ids) - 1) \div Align |-> token_ids[b * Align + 1]]

-----------------------------------------------------------------------------
\* A token is gathered once, and every level has a label for every position.
WalkTypeOK ==
    /\ path \in Seq(Chunk) /\ Len(path) <= decomposition.bound
    /\ IsInjective(token_ids) /\ Range(token_ids) \subseteq 0 .. n-1
    /\ Len(labels) = Len(path) /\ Len(gathered) = Len(path)
    /\ \A l \in DOMAIN labels : Len(labels[l]) = Len(token_ids)
    /\ \A l \in DOMAIN labels : Range(labels[l]) \subseteq Range(gathered[l])

\* Pairs of rows that lie in one chunk of the current local sequence.
Diagonal ==
    LET labels_cur == CurrentLabels
        rows == DOMAIN token_ids
    IN  {<<token_ids[p[1]], token_ids[p[2]]>> :
            p \in {q \in rows \X rows : labels_cur[q[1]] = labels_cur[q[2]]}}

\* Every pair of the current subproblem is kept below exactly one owner, and an
\* owner keeps no pair the current subproblem does not: the coverage that
\* check_pair_coverage asserts, level by level, in both gather orders.  Of an
\* interest set without offset 0, which check_quorum_set accepts as well, this is true
\* of the pairs across chunks ("off-diagonal chunk pairs covered exactly once"), and
\* every pair within a chunk is lost: only the chunk's own owner leaves it unmasked,
\* and that owner does not gather it.
ChildrenCoverOnce ==
    LET here  == KeptPairs(token_ids, labels, path)
        below == [o \in Chunk |-> KeptBelow(o)]
        lost  == IF 0 \in Range(InterestSeq) THEN {} ELSE Diagonal
    IN  /\ UNION Range(below) = here \ lost
        /\ \A a, b \in Chunk : a # b => below[a] \cap below[b] = {}

\* Under sorted_gather the local order is the global order, so the kernel's
\* lower-triangular mask is exactly the global causal mask.
LocalCausalIsGlobal ==
    sorted => \A i, j \in DOMAIN token_ids : (i <= j) = (token_ids[i] <= token_ids[j])

\* A block of Align rows never straddles two runs, so the block map addresses
\* every row of the local sequence (segment_block_base).
BlockMapExact ==
    sorted => \A r \in 0 .. Len(token_ids) - 1 :
                 token_ids[r + 1] = BlockBase[r \div Align] + (r % Align)

\* The operators the proofs are about compute the same subproblem as the walk.
D == INSTANCE Decomposition WITH
         N <- Max(decomposition.lengths), InterestSet <- Range(InterestSeq), Itr <- 1

AbstractTask ==
    LET task[k \in 0 .. Len(path)] ==
            IF k = 0
            THEN [path |-> <<>>, tokens |-> 0 .. n-1, bits |-> [u \in 0 .. n-1 |-> {}]]
            ELSE D!Child(task[k-1], path[k])
    IN  task[Len(path)]

MatchesDecomposition ==
    sorted =>
        /\ AbstractTask.tokens = Range(token_ids)
        /\ \A i \in DOMAIN token_ids :
              AbstractTask.bits[token_ids[i]] = Bits(labels, path, i)
=============================================================================
