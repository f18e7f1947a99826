---------------------------- MODULE Decomposition ----------------------------
(***************************************************************************)
(* The cyclic-quorum decomposition of an attention call (reference.py and  *)
(* the task builders of stable_stream.py).  A subproblem is what           *)
(* group_bits_for_path returns for a decomposition path: the tokens it     *)
(* gathers and, for every gathered token, the set of masked groups it      *)
(* carries.  A pair of gathered tokens is kept iff their groups are        *)
(* disjoint (bits[row] & bits[col] == 0).                                  *)
(*                                                                         *)
(* The engines gather with sorted_gather=True, so local order is ascending *)
(* token id and a subproblem is determined by its SET of tokens; a local   *)
(* position is a rank in that set.  A group is named by the level and the  *)
(* chunk that introduced it instead of by a bit number.                    *)
(***************************************************************************)
EXTENDS Integers, FiniteSets, Sequences

CONSTANTS
    C,             \* number of chunks of a level
    InterestSet,   \* offsets of a quorum
    N,             \* sequence length
    Align,         \* chunk alignment in tokens (1 unless segmented/shared)
    Itr            \* levels of the uniform decomposition a call starts with

Chunk == 0 .. C-1
Token == 0 .. N-1

\* The residue test of check_quorum_set: every non-zero residue is the
\* difference of exactly one ordered pair of distinct offsets.
PerfectDifferenceSet ==
    \A d \in 1 .. C-1 :
        \E a, b \in InterestSet :
            /\ a # b /\ (a - b) % C = d
            /\ \A x, y \in InterestSet :
                   x # y /\ (x - y) % C = d => x = a /\ y = b

ASSUME DecompositionAssumption ==
    /\ C \in Nat \ {0}
    /\ N \in Nat
    /\ Align \in Nat \ {0}
    /\ InterestSet \subseteq Chunk
    /\ PerfectDifferenceSet

\* Not tested by check_quorum_set, true of every entry of QUORUM_SETS: the
\* owner of a quorum is a member of it.
ASSUME OwnerAssumption == 0 \in InterestSet

\* With itr = 0 nothing is decomposed and another kernel is called.
ASSUME ItrAssumption == Itr \in Nat \ {0}

-----------------------------------------------------------------------------
\* chunk_layout for a local sequence of length L: start and end of chunk k.
\* With Align = 1 the first L % C chunks are one token longer; otherwise chunks
\* are whole blocks and the last one absorbs the ragged tail.
ChunkStart(L, k) ==
    LET blocks == L \div Align
        extra  == blocks % C
    IN  Align * (k * (blocks \div C) + (IF k < extra THEN k ELSE extra))

ChunkEnd(L, k) == IF k = C-1 THEN L ELSE ChunkStart(L, k+1)

\* labels_cur[p]: the chunk that holds local position p.
ChunkAt(L, p) == CHOOSE k \in Chunk : ChunkStart(L, k) <= p /\ p < ChunkEnd(L, k)

QuorumChunks(owner) == {(owner + off) % C : off \in InterestSet}

-----------------------------------------------------------------------------
Root == [path |-> <<>>, tokens |-> Token, bits |-> [u \in Token |-> {}]]

\* Local position of token u under sorted_gather, and its chunk label.
Rank(S, u)  == Cardinality({w \in S : w < u})
Label(t, u) == ChunkAt(Cardinality(t.tokens), Rank(t.tokens, u))

\* Faults: no diagonal block is masked, or the earlier levels keep the groups of
\* tokens that were not gathered.
ChildUnmasked(t, j) ==
    LET gathered == {u \in t.tokens : Label(t, u) \in QuorumChunks(j)}
    IN  [path |-> Append(t.path, j), tokens |-> gathered,
         bits |-> [u \in gathered |-> t.bits[u]]]

ChildStale(t, j) ==
    LET gathered == {u \in t.tokens : Label(t, u) \in QuorumChunks(j)}
    IN  [path |-> Append(t.path, j), tokens |-> gathered,
         bits |-> [u \in t.tokens |-> t.bits[u] \cup ({<<Len(t.path) + 1, Label(t, u)>>}
                                                     \ {<<Len(t.path) + 1, j>>})]]

\* One more level of build_path_state and group_bits_for_path: gather the
\* quorum of owner j and mask the diagonal block of every other chunk.
Child(t, j) ==
    LET gathered == {u \in t.tokens : Label(t, u) \in QuorumChunks(j)}
        group(u) == {<<Len(t.path) + 1, Label(t, u)>>} \ {<<Len(t.path) + 1, j>>}
    IN  [path   |-> Append(t.path, j),
         tokens |-> gathered,
         bits   |-> [u \in gathered |-> t.bits[u] \cup group(u)]]

\* refine_task: all children that gathered at least one token.
Children(t) == {k \in {Child(t, j) : j \in Chunk} : k.tokens # {}}

Kept(t) == {p \in t.tokens \X t.tokens : t.bits[p[1]] \cap t.bits[p[2]] = {}}

\* A well-formed subproblem: its groups come from its own levels.
WellFormed(t) ==
    /\ t.path \in Seq(Chunk)
    /\ t.tokens \subseteq Token
    /\ t = [path |-> t.path, tokens |-> t.tokens, bits |-> t.bits]
    /\ t.bits \in [t.tokens -> SUBSET ((1 .. Len(t.path)) \X Chunk)]

\* max_depth_for: the deepest level at which a chunk can still hold a token, every
\* level dividing the tokens by C.
MaxDepth ==
    LET levels[n \in 0 .. N] == IF n < C THEN 0 ELSE 1 + levels[n \div C]
    IN  IF C = 1 THEN 0 ELSE levels[N]
=============================================================================
