----------------------------- MODULE Distributed -----------------------------
(***************************************************************************)
(* dist_stream_cqsa_forward and dist_stream_cqsa_backward: every rank      *)
(* builds the same task list, runs the engine on its round-robin share of  *)
(* it, refining on its own what does not fit, and the ranks then add up    *)
(* their partial results by collectives, one block of tokens at a time.    *)
(*                                                                         *)
(* The engines are HybridCover: pending holds the subproblems of all       *)
(* ranks, attended their contributions taken together.  A partial result   *)
(* is the number of times its rank attended each pair.  In the forward,    *)
(* weighting it by exp(lse - max lse) and dividing by the summed weights   *)
(* makes the merge of the ranks the sum of those; partial gradients are    *)
(* summed as they are, in place.                                           *)
(***************************************************************************)
EXTENDS HybridCover, Functions

CONSTANTS
    Worlds,            \* numbers of ranks
    ChunkTokens,       \* chunk_tokens, rows reduced by one round of collectives
    RaiseBound         \* bound: ranks whose engine raises

ASSUME DistributedAssumption ==
    /\ Worlds \subseteq Nat \ {0} /\ Worlds # {} /\ IsFiniteSet(Worlds)
    /\ ChunkTokens \in Nat \ {0}
    /\ RaiseBound \in Nat

VARIABLES
    world,             \* number of ranks of the group
    backward,          \* which of the two was called
    output,            \* "replicated" or "sharded"; gradients are replicated
    mine,              \* path_idx of the tasks each rank keeps (task_subset)
    rpc,               \* "run", "reduce", "returned" or "raised"
    part,              \* pairs each rank's engine attended
    round,             \* rounds of collectives each rank is through
    result             \* buffers of each rank, by row

argVars  == <<world, backward, output, mine>>
rankVars == <<argVars, rpc, part, round, result>>
distVars == <<vars, rankVars>>

RankId == 0 .. (CHOOSE w \in Worlds : \A u \in Worlds : u <= w) - 1
Ranks == 0 .. world-1

\* The list the tasks are counted in is built with seg_align=0, whatever alignment
\* the engine's own list has.
Plain == INSTANCE Decomposition WITH Align <- 1

n_tasks ==
    LET tasks[d \in 0 .. Itr] ==
            IF d = 0 THEN {Plain!Root} ELSE UNION {Plain!Children(t) : t \in tasks[d-1]}
    IN  Cardinality(tasks[Itr])

\* _shard: positions rank, rank + world, ...  A fault: full rounds only, which drop
\* what is left over.
FullRounds(n, r, w) == {i \in 0 .. n - 1 - (n % w) : i % w = r}
Shard(n, r, w)      == {i \in 0 .. n-1 : i % w = r}

\* path_idx of the initial subproblem t is or descends from: its place in all_paths.
PathIdx(t) ==
    LET idx[d \in 0 .. Itr] == IF d = 0 THEN 0 ELSE C * idx[d-1] + t.path[d]
    IN  idx[Itr]

Owned(r) == {t \in pending : PathIdx(t) \in mine[r]}

Zero == [y \in Token |-> 0]

\* The buffers that are reduced, in order.
Buffers == IF backward THEN <<"dq", "dk", "dv">> ELSE <<"out">>

DistInit ==
    /\ Init
    /\ world \in Worlds
    /\ backward \in BOOLEAN
    /\ output \in IF backward THEN {"replicated"} ELSE {"replicated", "sharded"}
    /\ LET n == n_tasks
       IN  mine = [r \in RankId |-> IF r < world THEN Shard(n, r, world) ELSE {}]
    /\ rpc = [r \in RankId |-> "run"]
    /\ part = [r \in RankId |-> [x \in Token |-> Zero]]
    /\ round = [r \in RankId |-> 0]
    /\ result = [r \in RankId |-> [b \in Range(Buffers) |-> [x \in Token |-> Zero]]]

\* Every rank builds the task list.
BuildTasks == Deepen /\ UNCHANGED rankVars

\* The engine of rank r merges or refines one of its subproblems.
Running(r, t) == rpc[r] = "run" /\ level = Itr /\ t \in Owned(r)

RankMerge(r, t) ==
    /\ Running(r, t)
    /\ Merge(t)
    /\ part' = [part EXCEPT ![r] = [x \in Token |-> [y \in Token |->
                    @[x][y] + (IF <<x, y>> \in Kept(t) THEN 1 ELSE 0)]]]
    /\ UNCHANGED <<argVars, rpc, round, result>>

RankRefine(r, t) ==
    /\ Running(r, t)
    /\ Refine(t)
    /\ UNCHANGED rankVars

\* The engine raises, and the exception leaves the call: the rank takes part in no
\* collective.
RankRaises(r) ==
    /\ rpc[r] = "run" /\ level = Itr
    /\ Cardinality({q \in Ranks : rpc[q] = "raised"}) < RaiseBound
    /\ rpc' = [rpc EXCEPT ![r] = "raised"]
    /\ UNCHANGED <<vars, argVars, part, round, result>>

\* What the engine of rank r hands out as buffer b: the forward's output starts from
\* zeros, dq of a token sums over its keys, dk and dv over its queries.
Partial(r, b) ==
    [x \in Token |-> [y \in Token |->
        CASE b = "out" -> 0 [] b = "dq" -> part[r][x][y] [] OTHER -> part[r][y][x]]]

RankReady(r) ==
    /\ rpc[r] = "run" /\ level = Itr /\ Owned(r) = {}
    /\ rpc' = [rpc EXCEPT ![r] = "reduce"]
    /\ result' = [result EXCEPT ![r] = [b \in Range(Buffers) |-> Partial(r, b)]]
    /\ UNCHANGED <<vars, argVars, part, round>>

-----------------------------------------------------------------------------
(* The cross-rank merge.                                                     *)

\* First row, and the row after the last, that rank r holds of a sharded output.
Lo(r) == (N * r) \div world
Hi(r) == (N * (r + 1)) \div world

\* Rows up to End are reduced.  A fault: a rank reduces up to the end of its shard.
ShardOnly(r) == IF output = "sharded" THEN Hi(r) ELSE N
End(r)       == N

\* Collectives of one buffer, and the rank's number of all.
PerBuffer(end) == (end + ChunkTokens - 1) \div ChunkTokens
Rounds(r)      == Len(Buffers) * PerBuffer(End(r))

\* The buffer and the rows of round n, and those of them that rank r writes.
BufferAt(n) == Buffers[1 + n \div PerBuffer(N)]

Block(n) ==
    LET a == ChunkTokens * (n % PerBuffer(N))
    IN  a .. (IF a + ChunkTokens < N THEN a + ChunkTokens ELSE N) - 1

Written(r, n) ==
    IF output = "replicated" THEN Block(n) ELSE Block(n) \cap (Lo(r) .. Hi(r) - 1)

\* What rank r brings to the reduction of row x: gradients are reduced in place.
Brought(r, b, x) == IF backward THEN result[r][b][x] ELSE part[r][x]

Reduced(b, x, y) ==
    LET sum[r \in -1 .. world-1] == IF r = -1 THEN 0 ELSE sum[r-1] + Brought(r, b, x)[y]
    IN  sum[world-1]

\* all_reduce of one block (in the forward of the maximum, the weighted rows and the
\* weights): no rank leaves a collective before all of the group have entered it.
AllReduce ==
    /\ \A r \in Ranks : rpc[r] = "reduce" /\ round[r] = round[0] /\ round[r] < Rounds(r)
    /\ LET n == round[0]
           b == BufferAt(n)
           sum == [x \in Block(n) |-> [y \in Token |-> Reduced(b, x, y)]]
       IN  result' = [r \in RankId |->
               IF r \in Ranks
               THEN [result[r] EXCEPT ![b] =
                        [x \in Token |-> IF x \in Written(r, n) THEN sum[x] ELSE @[x]]]
               ELSE result[r]]
    /\ round' = [r \in RankId |-> IF r \in Ranks THEN round[r] + 1 ELSE round[r]]
    /\ UNCHANGED <<vars, argVars, rpc, part>>

RankReturns(r) ==
    /\ rpc[r] = "reduce" /\ round[r] >= Rounds(r)
    /\ rpc' = [rpc EXCEPT ![r] = "returned"]
    /\ UNCHANGED <<vars, argVars, part, round, result>>

Step(r) ==
    \/ \E t \in pending : RankMerge(r, t) \/ RankRefine(r, t)
    \/ RankReady(r)
    \/ RankReturns(r)

Progress == BuildTasks \/ (\E r \in Ranks : Step(r)) \/ AllReduce

DistNext ==
    \/ Progress
    \/ \E r \in Ranks : RankRaises(r)

\* As long as some rank can go on, or a collective all have entered can complete, one
\* of them does; an engine is never required to raise.
DistFairness == WF_distVars(Progress)

DistSpec == DistInit /\ [][DistNext]_distVars /\ DistFairness

-----------------------------------------------------------------------------
(* Properties.                                                               *)

\* The rows rank r promises to return.
Promised(r) == IF output = "replicated" THEN Token ELSE {x \in Token : Lo(r) <= x /\ x < Hi(r)}

\* A rank that returns holds, in the rows it promises, every key exactly once and
\* zeros elsewhere, in each gradient every key or query exactly once, and of a sharded
\* output every row is held by one rank: however many ranks there are, also more than
\* tasks, and whatever each refined ("the result is bit-for-bit the same function as
\* the single-device path").
RanksExact ==
    \A r \in Ranks : rpc[r] = "returned" =>
        /\ \A b \in Range(Buffers), x \in Token :
              result[r][b][x] = IF x \in Promised(r) THEN [y \in Token |-> 1] ELSE Zero
        /\ output = "sharded" =>
              \A x \in Token : Cardinality({q \in Ranks : x \in Promised(q)}) = 1

\* Unless some engine raises, every rank gets through all collectives and returns:
\* the ranks agree on their number and order.
JointlyDone ==
    [](\A r \in Ranks : rpc[r] # "raised") => <>(\A r \in Ranks : rpc[r] = "returned")
=============================================================================
