----------------------------- MODULE BackwardCall -----------------------------
(***************************************************************************)
(* What the two paths of stream_cqsa_backward share: the arguments of the  *)
(* call, the point its thread is at and how it ended.  host_resident picks *)
(* the path: BackwardHost streams host tensors through staging slots,      *)
(* BackwardDevice reads tensors that are on the device.                    *)
(***************************************************************************)
EXTENDS TaskTree

CONSTANT None              \* no subproblem

ASSUME BackwardCallAssumption == None \notin Path

VARIABLES
    host_resident,     \* stream_from_host with the inputs on the host
    allow_escalation,  \* decompose further after an out-of-memory failure
    shard,             \* paths of the initial tasks that task_subset keeps
    pc,                \* control point of the calling thread
    exc,               \* exception being handled: "none", "oom" or "error"
    outcome            \* "running", "returned" or "raised"

callVars == <<host_resident, allow_escalation, shard>>

CallInit ==
    /\ host_resident \in BOOLEAN
    /\ allow_escalation \in BOOLEAN
    /\ shard \in SUBSET Range(Tasks[Itr]) \ {{}}
    /\ pc = IF host_resident THEN "attempt" ELSE "loop"
    /\ exc = "none" /\ outcome = "running"

\* build_tasks_cached, then the subproblems named by task_subset.
ShardTasks == Selected(Tasks[Itr], LAMBDA p : p \in shard)

\* The pairs of tokens (query, key) that the additions n[p] of each subproblem p
\* count, each as often as it is counted.
Counted(x, n) == Cardinality(UNION {{p} \X (1 .. n[p]) : p \in {q \in Path : x \in KeptOf[q]}})
=============================================================================
