---------------------------- MODULE BackwardHost ----------------------------
(***************************************************************************)
(* stream_cqsa_backward with stream_from_host=True: an attempt             *)
(* (_stream_cqsa_backward_host) issues all subproblems of one depth to     *)
(* n_par streams through pinned staging slots and scatters the gradients   *)
(* of a slot when the slot is needed again, in a worker thread or in the   *)
(* host thread.  An out-of-memory failure abandons the attempt, and the    *)
(* call starts over one level deeper with accumulators of its own.         *)
(*                                                                         *)
(* Streams are FIFOs and buffers hold names of subproblems, as in          *)
(* StreamForward.  What an attempt allocates is indexed by its depth: the  *)
(* scatter worker of an abandoned attempt keeps running on its buffers.    *)
(***************************************************************************)
EXTENDS BackwardCall

CONSTANT
    Pars               \* values of max_parallel

ASSUME BackwardAssumption == Pars \subseteq Nat \ {0} /\ IsFiniteSet(Pars)

Depth == Itr .. Deepest
Slot  == 1 .. Max(Pars)

VARIABLES
    accumulate_on_gpu, \* gradients added on the device, in line
    scatter_async,     \* _SCATTER_ASYNC: scatter in the worker thread
    max_parallel,
    depth,             \* depth of the attempt
    tasks,             \* tasks_at_depth
    i,                 \* subproblems issued by the attempt
    caller,            \* "busy" while the caller's stream has work the streams wait for
    queue,             \* operations issued to each stream and not done yet
    stage_in,          \* subproblem whose inputs are in each pinned slot
    dev,               \* subproblem whose inputs the stream's kernel will read
    product,           \* gradients computed on each stream
    stage_out,         \* subproblem whose gradients are in each pinned slot
    slot_state,        \* subproblem in flight in each slot
    slot_scatter,      \* subproblem whose scatter future each slot holds
    future,            \* state of each submitted scatter
    jobs,              \* queue of each attempt's scatter worker
    added              \* times a subproblem was added to each attempt's accumulators

argVars  == <<callVars, accumulate_on_gpu, scatter_async, max_parallel>>
loopVars == <<depth, tasks, i, exc, outcome>>
gpuVars  == <<caller, queue, dev, product>>
slotVars == <<slot_state, slot_scatter>>
jobVars  == <<future, jobs>>
hostVars == <<accumulate_on_gpu, scatter_async, max_parallel, depth, tasks, i, gpuVars,
              stage_in, stage_out, slotVars, jobVars, added>>

n_par == Min({max_parallel, Len(tasks)})
S     == (i % n_par) + 1
Current == tasks[i + 1]

\* There is a worker thread.
Async == scatter_async /\ Len(tasks) > 1

HostInit ==
    /\ IF host_resident
       THEN /\ accumulate_on_gpu \in BOOLEAN /\ scatter_async \in BOOLEAN
            /\ max_parallel \in Pars
            /\ tasks = ShardTasks
       ELSE /\ accumulate_on_gpu = TRUE /\ scatter_async = FALSE
            /\ max_parallel = Min(Pars)
            /\ tasks = <<>>
    /\ depth = Itr /\ i = 0
    /\ caller = "idle"
    /\ queue = [s \in Slot |-> <<>>]
    /\ stage_in = [s \in Slot |-> None]
    /\ dev = [s \in Slot |-> None] /\ product = [s \in Slot |-> None]
    /\ stage_out = [d \in Depth |-> [s \in Slot |-> None]]
    /\ slot_state = [s \in Slot |-> None] /\ slot_scatter = [s \in Slot |-> None]
    /\ future = [p \in Path |-> "none"]
    /\ jobs = [d \in Depth |-> <<>>]
    /\ added = [d \in Depth |-> [p \in Path |-> 0]]

Op(kind) == [op |-> kind, task |-> Current]

\* The event recorded behind the work of slot s has fired.  A fault: not waited for.
NotLanded(s) == TRUE
Landed(s)    == queue[s] = <<>>
DeviceIdle   == caller = "idle" /\ \A s \in Slot : queue[s] = <<>>

-----------------------------------------------------------------------------
(* One attempt.                                                              *)

\* Accumulators, slots and streams are allocated; the loop over the tasks starts.
\* The zeros of device accumulators are written by the caller's stream.
StartAttempt ==
    /\ pc = "attempt"
    /\ pc' = "flush"
    /\ caller' = "busy"
    /\ UNCHANGED <<argVars, loopVars, queue, dev, product, stage_in, stage_out, slotVars, jobVars, added>>

\* Which accumulators an attempt adds to.  A fault: they outlive the attempt.
SharedAccumulators(d) == Itr
Accumulators(d)       == d

\* _scatter adds what is in the slot's staging buffer; with a device accumulator
\* it does nothing.
Scattered(d, s) ==
    IF accumulate_on_gpu THEN added
    ELSE [added EXCEPT ![Accumulators(d)][stage_out[d][s]] = @ + 1]

\* flush(s): wait for the copy back, then scatter or hand the scatter over.
Flush(s) ==
    /\ slot_state[s] # None
    /\ Landed(s)
    /\ slot_state' = [slot_state EXCEPT ![s] = None]
    /\ IF Async
       THEN /\ jobs' = [jobs EXCEPT ![depth] = Append(@, [task |-> slot_state[s], slot |-> s])]
            /\ future' = [future EXCEPT ![slot_state[s]] = "queued"]
            /\ slot_scatter' = [slot_scatter EXCEPT ![s] = slot_state[s]]
            /\ UNCHANGED added
       ELSE /\ added' = Scattered(depth, s)
            /\ slot_scatter' = [slot_scatter EXCEPT ![s] = None]
            /\ UNCHANGED <<jobs, future>>
    /\ UNCHANGED <<argVars, pc, loopVars, gpuVars, stage_in, stage_out>>

FlushSlot ==
    /\ pc = "flush" /\ i < Len(tasks)
    /\ Flush(S)

\* slot_scatter[s].result(), then the slot may be refilled.
\* A fault: the slot is refilled while its scatter is still to be done.
ScatterAssumed(s) == TRUE
ScatterDone(s)    == slot_scatter[s] # None => future[slot_scatter[s]] = "done"
ScatterFailed(s)  == slot_scatter[s] # None /\ future[slot_scatter[s]] \in {"oom", "error"}

ReuseSlot ==
    /\ pc = "flush" /\ i < Len(tasks)
    /\ slot_state[S] = None
    /\ ScatterDone(S)
    /\ slot_scatter' = [slot_scatter EXCEPT ![S] = None]
    /\ pc' = "gather"
    /\ UNCHANGED <<argVars, loopVars, gpuVars, stage_in, stage_out, slot_state, jobVars, added>>

\* Gather into the pinned slot, start the copies, launch the kernel.
Gather ==
    /\ pc = "gather"
    /\ stage_in' = [stage_in EXCEPT ![S] = Current]
    /\ queue' = [queue EXCEPT ![S] = @ \o <<Op("load"), Op("kernel")>>]
    /\ pc' = "output"
    /\ UNCHANGED <<argVars, loopVars, caller, dev, product, stage_out, slotVars, jobVars, added>>

\* Add on the device, or copy the gradients back; then the slot is in flight.
Output ==
    /\ pc = "output"
    /\ queue' = [queue EXCEPT ![S] =
                    Append(@, Op(IF accumulate_on_gpu THEN "add" ELSE "d2h"))]
    /\ slot_state' = [slot_state EXCEPT ![S] = Current]
    /\ i' = i + 1
    /\ pc' = "flush"
    /\ UNCHANGED <<argVars, depth, tasks, exc, outcome, caller, dev, product,
                   stage_in, stage_out, slot_scatter, jobVars, added>>

\* After the loop: flush the slots in order, then collect the scatters in order.
First(s, P(_)) == P(s) /\ \A r \in 1 .. s-1 : ~P(r)

DrainSlot(s) ==
    /\ pc = "flush" /\ i = Len(tasks)
    /\ First(s, LAMBDA r : slot_state[r] # None)
    /\ Flush(s)

CollectScatter(s) ==
    /\ pc = "flush" /\ i = Len(tasks)
    /\ \A r \in Slot : slot_state[r] = None
    /\ First(s, LAMBDA r : slot_scatter[r] # None)
    /\ ScatterDone(s)
    /\ slot_scatter' = [slot_scatter EXCEPT ![s] = None]
    /\ UNCHANGED <<argVars, pc, loopVars, gpuVars, stage_in, stage_out, slot_state, jobVars, added>>

\* scatter_pool.shutdown(wait=True)
HostReturn ==
    /\ pc = "flush" /\ i = Len(tasks)
    /\ \A s \in Slot : slot_state[s] = None /\ slot_scatter[s] = None
    /\ jobs[depth] = <<>>
    /\ pc' = "end" /\ outcome' = "returned"
    /\ UNCHANGED <<argVars, depth, tasks, i, exc, gpuVars, stage_in, stage_out,
                   slotVars, jobVars, added>>

-----------------------------------------------------------------------------
(* Failures and the escalation of the whole call.                            *)

Raise(kind) ==
    /\ exc' = kind
    /\ pc' = "except"
    /\ UNCHANGED <<argVars, depth, tasks, i, outcome, caller, dev, product, stage_in,
                   stage_out, slotVars, jobVars, added>>

\* An allocation fails: of the accumulators, of a copy, in the kernel, or of the
\* fp32 gradients of a device accumulator, some of which may already be adding.
IssueFails ==
    /\ pc \in {"attempt", "gather", "output"}
    /\ \E kind \in {"oom", "error"} : Raise(kind)
    /\ \/ UNCHANGED queue
       \/ /\ pc = "output" /\ accumulate_on_gpu
          /\ queue' = [queue EXCEPT ![S] = Append(@, Op("add"))]

\* result() of a failed scatter raises, in whatever iteration looks at it.
ScatterRaises ==
    /\ pc = "flush"
    /\ \E s \in Slot :
          /\ IF i < Len(tasks)
             THEN s = S /\ slot_state[s] = None
             ELSE /\ \A r \in Slot : slot_state[r] = None
                  /\ First(s, LAMBDA r : slot_scatter[r] # None)
          /\ ScatterFailed(s)
          /\ exc' = future[slot_scatter[s]]
    /\ pc' = "except"
    /\ UNCHANGED <<argVars, depth, tasks, i, outcome, gpuVars, stage_in, stage_out,
                   slotVars, jobVars, added>>

HostGiveUp ==
    /\ pc = "except"
    /\ exc = "error" \/ (DeviceIdle /\ (~allow_escalation \/ depth >= MaxDepth))
    /\ pc' = "end" /\ outcome' = "raised"
    /\ UNCHANGED <<argVars, depth, tasks, i, exc, gpuVars, stage_in, stage_out,
                   slotVars, jobVars, added>>

\* The deeper tasks of this shard: those whose path starts with one of its paths.
\* A fault: the deeper tasks at the positions the shard had in the initial list.
SamePositions(list) ==
    Selected(list, LAMBDA p : \E k \in DOMAIN Tasks[Itr] : Tasks[Itr][k] \in shard /\ list[k] = p)
Mine(list)     == Selected(list, LAMBDA p : SubSeq(p, 1, Itr) \in shard)

\* The depth of the next attempt, and its task list.  Faults: the depth does not
\* grow, or the list is that of the depth before.
SameDepth(d) == d
Deeper(d)    == d + 1
StaleTasks(d) == Tasks[d - 1]
TasksAt(d)    == Tasks[d]

\* Synchronize, rebuild the task list one level deeper, start over.
Escalate ==
    /\ pc = "except"
    /\ exc = "oom" /\ DeviceIdle
    /\ allow_escalation /\ depth < MaxDepth
    /\ depth' = Deeper(depth)
    /\ \E list \in {TasksAt(Deeper(depth))} : tasks' = Mine(list)
    /\ i' = 0 /\ exc' = "none"
    /\ pc' = "attempt"
    /\ stage_in' = [s \in Slot |-> None]
    /\ slot_state' = [s \in Slot |-> None]
    /\ slot_scatter' = [s \in Slot |-> None]
    /\ UNCHANGED <<argVars, outcome, gpuVars, stage_out, jobVars, added>>

HostStep ==
    \/ StartAttempt \/ FlushSlot \/ ReuseSlot \/ Gather \/ Output \/ HostReturn
    \/ ScatterRaises \/ HostGiveUp \/ Escalate
    \/ \E s \in Slot : DrainSlot(s) \/ CollectScatter(s)

-----------------------------------------------------------------------------
(* Device streams.                                                           *)

\* A new stream waits for the caller's stream.  A fault: it does not.
NoEntryWait == TRUE
EntryWait   == caller = "idle"

Exec(s, kind) ==
    /\ EntryWait
    /\ queue[s] # <<>> /\ Head(queue[s]).op = kind
    /\ queue' = [queue EXCEPT ![s] = Tail(@)]
    /\ UNCHANGED <<argVars, pc, loopVars, caller, stage_in, slotVars, jobVars>>

CallerDone ==
    /\ caller = "busy"
    /\ caller' = "idle"
    /\ added' = IF accumulate_on_gpu
                THEN [added EXCEPT ![Accumulators(depth)] = [p \in Path |-> 0]]
                ELSE added
    /\ UNCHANGED <<argVars, pc, loopVars, queue, dev, product, stage_in, stage_out,
                   slotVars, jobVars>>

Load(s) ==
    /\ Exec(s, "load")
    /\ dev' = [dev EXCEPT ![s] = stage_in[s]]
    /\ UNCHANGED <<product, stage_out, added>>

Kernel(s) ==
    /\ Exec(s, "kernel")
    /\ product' = [product EXCEPT ![s] = dev[s]]
    /\ UNCHANGED <<dev, stage_out, added>>

\* index_add_ on the device adds atomically.
DeviceAdd(s) ==
    /\ Exec(s, "add")
    /\ added' = [added EXCEPT ![Accumulators(depth)][product[s]] = @ + 1]
    /\ UNCHANGED <<dev, product, stage_out>>

D2h(s) ==
    /\ Exec(s, "d2h")
    /\ stage_out' = [stage_out EXCEPT ![depth][s] = product[s]]
    /\ UNCHANGED <<dev, product, added>>

StreamStep(s) == Load(s) \/ Kernel(s) \/ DeviceAdd(s) \/ D2h(s)

-----------------------------------------------------------------------------
(* Scatter workers, one per attempt.                                         *)

Take(d, state) ==
    /\ jobs[d] # <<>>
    /\ jobs' = [jobs EXCEPT ![d] = Tail(@)]
    /\ future' = [future EXCEPT ![Head(jobs[d]).task] = state]
    /\ UNCHANGED <<argVars, pc, loopVars, gpuVars, stage_in, stage_out, slotVars>>

Scatter(d) ==
    /\ Take(d, "done")
    /\ added' = Scattered(d, Head(jobs[d]).slot)

\* A scatter that fails may have been added in part.
ScatterFails(d) ==
    /\ ~accumulate_on_gpu
    /\ \E kind \in {"oom", "error"} : Take(d, kind)
    /\ added' \in {added, Scattered(d, Head(jobs[d]).slot)}

HostFails == IssueFails \/ \E d \in Depth : ScatterFails(d)

-----------------------------------------------------------------------------
(* Properties.                                                               *)


\* The pinned inputs of a slot are not refilled before the copy has read them:
\* flush waits for an event recorded behind that copy.
StagingOwned ==
    \A s \in Slot : \A k \in DOMAIN queue[s] :
        queue[s][k].op = "load" => stage_in[s] = queue[s][k].task

\* "A slot is not refilled until its own scatter has consumed the staging buffer":
\* whatever scatter is still to be done, of this attempt or of an abandoned one,
\* finds its own subproblem's gradients there.
GradientsOwned ==
    \A d \in Depth : \A j \in Range(jobs[d]) :
        ~accumulate_on_gpu => stage_out[d][j.slot] = j.task

\* Subproblems of the attempt that are not in its accumulators yet: to be issued,
\* being added on the device, or in a slot or a scatter job on the host.
Outstanding ==
    {tasks[k] : k \in i+1 .. Len(tasks)}
    \cup {o.task : o \in {x \in UNION {Range(queue[s]) : s \in Slot} : x.op = "add"}}
    \cup (IF accumulate_on_gpu THEN {}
          ELSE (Range(slot_state) \ {None}) \cup {p \in Path : future[p] = "queued"})

\* While an attempt runs, each of its subproblems is outstanding or has been added
\* once (a failed scatter is neither until it is noticed), and nothing of an
\* abandoned attempt is in its accumulators ("nothing to unwind").
OwedOrAdded ==
    host_resident /\ pc \in {"flush", "gather", "output"} =>
        \A p \in Path :
            future[p] \notin {"oom", "error"} =>
                added[depth][p] = IF p \in Range(tasks) \ Outstanding THEN 1 ELSE 0
=============================================================================
