----------------------------- MODULE HybridCover -----------------------------
(***************************************************************************)
(* What a Stream-CQSA forward promises, whatever the schedule: starting    *)
(* from the uniform decomposition of depth Itr, each subproblem is either  *)
(* merged into the accumulator or replaced, before it contributed, by its  *)
(* children one level deeper (the hybrid schedules of refine_task).  The   *)
(* accumulator is abstracted to the number of times each ordered token     *)
(* pair (query, key) has been attended.                                    *)
(***************************************************************************)
EXTENDS Decomposition

VARIABLES
    level,      \* levels of build_tasks done so far
    pending,    \* subproblems whose contribution is not merged yet
    attended    \* [Token \X Token -> Nat], contributions per token pair

vars == <<level, pending, attended>>

Pair == Token \X Token

Init ==
    /\ level = 0
    /\ pending = {Root}
    /\ attended = [p \in Pair |-> 0]

\* build_tasks, one level of every path at a time.
Deepen ==
    /\ level < Itr
    /\ level' = level + 1
    /\ pending' = UNION {Children(t) : t \in pending}
    /\ UNCHANGED attended

\* A subproblem that does not fit is replaced by its children.
Refine(t) ==
    /\ level = Itr
    /\ Len(t.path) < MaxDepth
    /\ pending' = (pending \ {t}) \cup Children(t)
    /\ UNCHANGED <<level, attended>>

\* A subproblem's kept pairs are added to the accumulator.
Merge(t) ==
    /\ level = Itr
    /\ pending' = pending \ {t}
    /\ attended' = [p \in Pair |-> attended[p] + (IF p \in Kept(t) THEN 1 ELSE 0)]
    /\ UNCHANGED level

Next ==
    \/ Deepen
    \/ \E t \in pending : Refine(t)
    \/ \E t \in pending : Merge(t)

Spec == Init /\ [][Next]_vars

-----------------------------------------------------------------------------

\* Every subproblem is well formed and the accumulator counts token pairs.
TypeOK ==
    /\ level \in 0 .. Itr
    /\ attended \in [Pair -> Nat]
    /\ \A t \in pending : WellFormed(t)

\* Each ordered token pair is either attended once and kept by no remaining
\* subproblem, or not attended yet and kept by exactly one: the children of a
\* refined subproblem partition its kept pairs (refine_task, check_pair_coverage).
ExactlyOnce ==
    \A p \in Pair :
        \/ attended[p] = 1 /\ \A t \in pending : p \notin Kept(t)
        \/ attended[p] = 0 /\ \E t \in pending :
              /\ p \in Kept(t)
              /\ \A s \in pending : p \in Kept(s) => s = t

\* When nothing is left to merge every ordered pair was attended exactly once.
Exact == pending = {} => \A p \in Pair : attended[p] = 1
=============================================================================
