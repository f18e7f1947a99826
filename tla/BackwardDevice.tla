--------------------------- MODULE BackwardDevice ---------------------------
(***************************************************************************)
(* stream_cqsa_backward with inputs on the device: a sequential loop over  *)
(* the subproblems.  A subproblem's three gradients are added by three     *)
(* separate index_add_ calls, and an out-of-memory failure replaces the    *)
(* subproblem by its children, which is sound only while none of the three *)
(* additions was made.                                                     *)
(***************************************************************************)
EXTENDS BackwardCall

VARIABLES
    pending,           \* task queue
    cur,               \* subproblem _run_bwd_task is working on, or None
    retries,           \* out-of-memory failures recovered from
    dirty,             \* nonlocal_dirty
    grad               \* times each subproblem was added to each gradient

deviceVars == <<pending, cur, retries, dirty, grad>>

Gradient == {"dq", "dk", "dv"}

\* retry_budget, from the length of the initial task list.
Budget == 64 + 16 * Max({1, Cardinality(shard)}) * Max({1, MaxDepth})

DeviceInit ==
    /\ pending = IF host_resident THEN <<>> ELSE ShardTasks
    /\ cur = None
    /\ retries = 0 /\ dirty = FALSE
    /\ grad = [g \in Gradient |-> [p \in Path |-> 0]]

-----------------------------------------------------------------------------
\* pending.pop(0)
Pop ==
    /\ pc = "loop" /\ pending # <<>>
    /\ pc' = "run"
    /\ cur' = Head(pending) /\ pending' = Tail(pending)
    /\ UNCHANGED <<callVars, exc, retries, dirty, grad, outcome>>

\* Gather, differentiate and cast all three gradients: every allocation is here.
Compute ==
    /\ pc = "run"
    /\ pc' = "dq"
    /\ UNCHANGED <<callVars, pending, cur, exc, retries, dirty, grad, outcome>>

ComputeFails ==
    /\ pc = "run"
    /\ exc' \in {"oom", "error"}
    /\ pc' = "except"
    /\ UNCHANGED <<callVars, pending, cur, retries, dirty, grad, outcome>>

\* One index_add_; g is the gradient whose turn it is.
Add(g) == grad' = [grad EXCEPT ![g][cur] = @ + 1]

AddDq ==
    /\ pc = "dq"
    /\ Add("dq")
    /\ pc' = "dk"
    /\ UNCHANGED <<callVars, pending, cur, exc, retries, dirty, outcome>>

AddDk ==
    /\ pc = "dk"
    /\ Add("dk")
    /\ pc' = "dv"
    /\ UNCHANGED <<callVars, pending, cur, exc, retries, dirty, outcome>>

AddDv ==
    /\ pc = "dv"
    /\ Add("dv")
    /\ pc' = "loop"
    /\ cur' = None
    /\ UNCHANGED <<callVars, pending, exc, retries, dirty, outcome>>

\* A failed addition adds nothing itself.  The handler around the second and the
\* third sets the flag; the first is outside it.
\* A fault: the handler is around the last addition only.
DirtyAtLast(at)  == at = "dv"
DirtyAfter(at) == at \in {"dk", "dv"}

AddFails ==
    /\ pc \in Gradient
    /\ exc' \in {"oom", "error"}
    /\ dirty' = (dirty \/ DirtyAfter(pc))
    /\ pc' = "except"
    /\ UNCHANGED <<callVars, pending, cur, retries, grad, outcome>>

-----------------------------------------------------------------------------
\* The except clause: anything but a clean out-of-memory failure leaves the call.
\* A fault: the flag is not consulted.
OomOnly     == exc = "oom"
Recoverable == exc = "oom" /\ ~dirty

HandleError ==
    /\ pc = "except"
    /\ ~Recoverable
    /\ pc' = "end" /\ outcome' = "raised"
    /\ UNCHANGED <<callVars, pending, cur, exc, retries, dirty, grad>>

CanRefine == allow_escalation /\ Len(cur) < MaxDepth /\ retries < Budget

DeviceGiveUp ==
    /\ pc = "except"
    /\ Recoverable
    /\ ~CanRefine
    /\ pc' = "end" /\ outcome' = "raised"
    /\ retries' = retries + 1
    /\ UNCHANGED <<callVars, pending, cur, exc, dirty, grad>>

\* Where the children go: in front of the queue, in place of the subproblem.
\* Faults: the subproblem stays beside them, or the rest of the queue is lost.
KeptBeside == Kids(cur) \o <<cur>> \o pending
RestLost   == Kids(cur)
Replaced   == Kids(cur) \o pending

RefineTask ==
    /\ pc = "except"
    /\ Recoverable
    /\ CanRefine
    /\ pending' = Replaced
    /\ retries' = retries + 1
    /\ cur' = None /\ exc' = "none"
    /\ pc' = "loop"
    /\ UNCHANGED <<callVars, dirty, grad, outcome>>

DeviceReturn ==
    /\ pc = "loop" /\ pending = <<>>
    /\ pc' = "end" /\ outcome' = "returned"
    /\ UNCHANGED <<callVars, pending, cur, exc, retries, dirty, grad>>

\* The loop goes on; failures are apart.
DeviceStep ==
    \/ Pop \/ Compute
    \/ AddDq \/ AddDk \/ AddDv
    \/ HandleError \/ DeviceGiveUp \/ RefineTask \/ DeviceReturn

DeviceFails == ComputeFails \/ AddFails

-----------------------------------------------------------------------------
(* Properties.                                                               *)

\* A subproblem waiting in the queue has contributed to no gradient, and neither
\* has any subproblem it descends from: what the recovery puts back, or puts in
\* place of a failed subproblem, was not added in part before ("a commit left half
\* applied would be counted twice, silently, in the gradient").
QueuedIsClean ==
    \A p \in Range(pending) : \A q \in Ancestors(p) : \A g \in Gradient : grad[g][q] = 0

\* The loop implements the hybrid schedules of HybridCover, from the level at which
\* it is given the task list; a subproblem is merged by its last addition.
Cover == INSTANCE HybridCover WITH
    level    <- Itr,
    pending  <- {TaskOf[p] : p \in Range(pending) \cup ({cur} \ {None})},
    attended <- [x \in Token \X Token |-> Counted(x, grad["dv"])]

CoverSteps == [][host_resident \/ Cover!Next]_(Cover!vars)
=============================================================================
