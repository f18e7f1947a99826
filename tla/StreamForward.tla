---------------------------- MODULE StreamForward ----------------------------
(***************************************************************************)
(* The classic forward engine (stream_cqsa_forward): one host thread that  *)
(* issues subproblems to worker streams, one merge stream, and, when the   *)
(* accumulator is on the host, one merge worker thread.  An out-of-memory  *)
(* failure may interrupt any step that allocates; the host then waits for  *)
(* everything in flight, halves the number of streams or, at one stream,   *)
(* replaces the failed subproblem by its children.                         *)
(*                                                                         *)
(* A subproblem is named by its path.  A CUDA stream is a FIFO of issued   *)
(* operations; a CUDA event has fired iff no operation it was recorded     *)
(* behind is left.  Buffers hold the name of the subproblem whose rows     *)
(* they hold, so a buffer reused too early shows up as a contribution of   *)
(* the wrong subproblem.                                                   *)
(***************************************************************************)
EXTENDS TaskTree

CONSTANTS
    NPar,              \* streams at the start (choose_parallelism, max_parallel)
    Accumulators,      \* accumulators a call may use, a subset of Accumulator
    OomBound,          \* bound on injected out-of-memory failures
    None               \* no subproblem

\* On the device; on the host, merged by the worker thread (_FWD_MERGE_ASYNC); or
\* on the host, merged by the host thread.
Accumulator == {"gpu", "worker", "inline"}

ASSUME ForwardAssumption ==
    /\ NPar \in Nat \ {0}
    /\ Accumulators \subseteq Accumulator
    /\ OomBound \in Nat
    /\ None \notin Path /\ None \notin [task : Path, slot : 1 .. NPar]

VARIABLES
    accumulator,       \* accumulate_on_gpu and _FWD_MERGE_ASYNC of the call
    host_resident,     \* stream_from_host: inputs staged through pinned buffers
    allow_escalation,  \* refine at one stream, or report the OOM
    pc,          \* control point of the host thread
    level,       \* levels of the task list built
    pending,     \* task queue
    cur,         \* subproblem the host is processing, or None
    slot,        \* successful run_one calls
    nstreams,    \* len(streams)
    retries,     \* info["oom_retries"]
    exc,         \* exception being handled: "none", "oom" or "error"
    outcome,     \* "running", "returned", "raised", or "budget"
    caller,      \* "busy" while the caller's stream has work issued before the call
    queue,       \* operations issued to each stream and not done yet
    pinned,      \* subproblem whose rows are in each pinned staging slot
    dev,         \* subproblem whose rows the stream's kernel will read
    result,      \* kernel output of each subproblem, as the rows it is about
    out,         \* subproblem whose output is in each pinned output slot
    slotDone,    \* subproblem whose done event guards each slot
    slotMerge,   \* subproblem whose merge future each slot holds
    future,      \* state of each submitted merge job
    jobs,        \* queue of the merge worker
    running,     \* job the merge worker is executing
    rmw,         \* accumulator as read by the merge in progress on a stream
    acc,         \* times each subproblem was added to the accumulator
    dirty        \* accum.dirty

callVars == <<accumulator, host_resident, allow_escalation>>
hostVars == <<callVars, pc, level, pending, cur, slot, nstreams, retries, exc, outcome>>
slotVars == <<slotDone, slotMerge>>
bufVars  == <<dev, result, out, rmw>>
gpuVars  == <<caller, queue, bufVars>>
jobVars  == <<future, jobs, running>>
vars == <<hostVars, slotVars, gpuVars, jobVars, pinned, acc, dirty>>

MergeStream == 0
Slot   == 1 .. NPar
Stream == {MergeStream} \cup Slot

\* The slot of the next run_one call.
S == (slot % nstreams) + 1

-----------------------------------------------------------------------------
\* oom_retry_budget, from the length of the initial task list.
Budget == 64 + 16 * Max({1, Len(Tasks[Itr])}) * Max({1, MaxDepth})

-----------------------------------------------------------------------------
Init ==
    /\ accumulator \in Accumulators
    /\ host_resident \in BOOLEAN
    /\ allow_escalation \in BOOLEAN
    /\ pc = "build"
    /\ level = 0
    /\ pending = <<(<<>>)>>
    /\ cur = None /\ slot = 0 /\ nstreams = NPar
    /\ retries = 0 /\ exc = "none" /\ outcome = "running"
    /\ caller = "busy"
    /\ queue  = [s \in Stream |-> <<>>]
    /\ pinned = [s \in Slot |-> None]
    /\ dev    = [s \in Slot |-> None]
    /\ result = [p \in Path |-> None]
    /\ out    = [s \in Slot |-> None]
    /\ slotDone  = [s \in Slot |-> None]
    /\ slotMerge = [s \in Slot |-> None]
    /\ future = [p \in Path |-> "none"]
    /\ jobs = <<>> /\ running = None
    /\ rmw = [s \in Stream |-> None]
    /\ acc = [p \in Path |-> 0]
    /\ dirty = FALSE

Op(kind, p, s) == [op |-> kind, task |-> p, slot |-> s]

\* An event recorded behind the work of p on the worker streams has fired.
WorkDone(p)  == \A s \in Slot : \A i \in DOMAIN queue[s] : queue[s][i].task # p
\* The done event recorded for p on the merge stream has fired.
MergeDone(p) == \A i \in DOMAIN queue[MergeStream] : queue[MergeStream][i].task # p
\* A fault: the recovery does not wait for the device.
NeverWaited  == TRUE
DeviceIdle   == caller = "idle" /\ \A s \in Stream : queue[s] = <<>>

\* result() on the merge future of a slot returns, or raises what the job raised.
Merged(s) == future[slotMerge[s]] = "done"
MergeFailed(s) == future[slotMerge[s]] \in {"oom", "error"}

-----------------------------------------------------------------------------
(* Host thread.                                                              *)

\* build_tasks, one level of every path at a time (all_paths order).
BuildLevel ==
    /\ pc = "build" /\ level < Itr
    /\ level' = level + 1
    /\ pending' = FlattenSeq([i \in DOMAIN pending |-> Kids(pending[i])])
    /\ UNCHANGED <<callVars, pc, cur, slot, nstreams, retries, exc, outcome,
                   slotVars, gpuVars, jobVars, pinned, acc, dirty>>

StartLoop ==
    /\ pc = "build" /\ level = Itr
    /\ pc' = "loop"
    /\ UNCHANGED <<callVars, level, pending, cur, slot, nstreams, retries, exc, outcome,
                   slotVars, gpuVars, jobVars, pinned, acc, dirty>>

Pop ==
    /\ pc = "loop" /\ pending # <<>>
    /\ cur' = Head(pending)
    /\ pending' = Tail(pending)
    /\ pc' = "slot"
    /\ UNCHANGED <<callVars, level, slot, nstreams, retries, exc, outcome,
                   slotVars, gpuVars, jobVars, pinned, acc, dirty>>

\* slot_done[slot].synchronize()
\* A fault: no backpressure.
SlotAssumedFree(s) == TRUE
SlotFree(s) == slotDone[s] = None \/ MergeDone(slotDone[s])

WaitSlot ==
    /\ pc = "slot"
    /\ SlotFree(S)
    /\ pc' = "gather"
    /\ UNCHANGED <<callVars, level, pending, cur, slot, nstreams, retries, exc, outcome,
                   slotVars, gpuVars, jobVars, pinned, acc, dirty>>

\* Gather on the host into the slot's pinned buffers and start the copy, or
\* gather on the device.
Gather ==
    /\ pc = "gather"
    /\ pc' = "launch"
    /\ pinned' = IF host_resident THEN [pinned EXCEPT ![S] = cur] ELSE pinned
    /\ queue' = [queue EXCEPT ![S] = Append(@, Op("load", cur, S))]
    /\ UNCHANGED <<callVars, level, pending, cur, slot, nstreams, retries, exc, outcome,
                   slotVars, caller, bufVars, jobVars, acc, dirty>>

Launch ==
    /\ pc = "launch"
    /\ pc' = "d2h"
    /\ queue' = [queue EXCEPT ![S] = Append(@, Op("kernel", cur, S))]
    /\ UNCHANGED <<callVars, level, pending, cur, slot, nstreams, retries, exc, outcome,
                   slotVars, caller, bufVars, jobVars, pinned, acc, dirty>>

\* Raise: control moves to the except clause around run_one.
Raise(kind) ==
    /\ kind = "oom" => retries < OomBound
    /\ exc' = kind
    /\ pc' = "except"
    /\ UNCHANGED <<callVars, level, pending, cur, slot, nstreams, retries, outcome,
                   slotVars, gpuVars, jobVars, pinned, acc>>

\* The gather or the inner kernel runs out of memory, or fails otherwise.
ComputeFails ==
    /\ pc \in {"gather", "launch"}
    /\ \E kind \in {"oom", "error"} : Raise(kind)
    /\ UNCHANGED dirty

\* Reuse of the slot's pinned output: its last merge must have finished, and a
\* failure of that merge is raised here, in the run_one of another subproblem.
WaitMerge ==
    /\ pc = "d2h" /\ accumulator = "worker"
    /\ slotMerge[S] # None /\ Merged(S)
    /\ slotMerge' = [slotMerge EXCEPT ![S] = None]
    /\ UNCHANGED <<hostVars, slotDone, gpuVars, jobVars, pinned, acc, dirty>>

WaitMergeFails ==
    /\ pc = "d2h" /\ accumulator = "worker"
    /\ slotMerge[S] # None /\ MergeFailed(S)
    /\ exc' = future[slotMerge[S]]
    /\ pc' = "except"
    /\ UNCHANGED <<callVars, level, pending, cur, slot, nstreams, retries, outcome,
                   slotVars, gpuVars, jobVars, pinned, acc, dirty>>

\* The slot's pinned output is free. A fault: it is taken to be free.
OutputAssumedFree == TRUE
OutputFree == slotMerge[S] = None

\* Non-blocking copy of the output into the slot's pinned buffers.
StartD2h ==
    /\ pc = "d2h" /\ accumulator = "worker"
    /\ OutputFree
    /\ pc' = "merge"
    /\ queue' = [queue EXCEPT ![S] = Append(@, Op("d2h", cur, S))]
    /\ UNCHANGED <<callVars, level, pending, cur, slot, nstreams, retries, exc, outcome,
                   slotVars, caller, bufVars, jobVars, pinned, acc, dirty>>

\* Blocking copy for a host accumulator, nothing for a device accumulator.
BlockingD2h ==
    /\ pc = "d2h" /\ accumulator # "worker"
    /\ accumulator = "inline" => queue[S] = <<>>
    /\ pc' = "merge"
    /\ UNCHANGED <<callVars, level, pending, cur, slot, nstreams, retries, exc, outcome,
                   slotVars, gpuVars, jobVars, pinned, acc, dirty>>

\* Operations a merge adds to the merge stream, behind the subproblem's work.
MergeOps(p, s) ==
    LET wait == <<Op("wait", p, s)>>
        done == <<Op("done", p, s)>>
    IN  IF accumulator = "gpu"
        THEN wait \o <<Op("read", p, s), Op("commit", p, s)>> \o done
        ELSE wait \o done

\* Where merges are issued: all on the one merge stream.
\* A fault: each on its own worker stream.
OwnStream(s)  == s
MergeQueue(s) == MergeStream

\* Merge on the merge stream, in the worker or here, then guard the slot.
Merge ==
    /\ pc = "merge"
    /\ queue' = [queue EXCEPT ![MergeQueue(S)] = @ \o MergeOps(cur, S)]
    /\ IF accumulator = "worker"
       THEN /\ jobs' = Append(jobs, [task |-> cur, slot |-> S])
            /\ future' = [future EXCEPT ![cur] = "queued"]
            /\ slotMerge' = [slotMerge EXCEPT ![S] = cur]
       ELSE UNCHANGED <<jobs, future, slotMerge>>
    /\ IF accumulator = "inline"
       THEN /\ acc' = [acc EXCEPT ![result[cur]] = @ + 1]
            /\ result' = [result EXCEPT ![cur] = None]
       ELSE UNCHANGED <<acc, result>>
    /\ slotDone' = [slotDone EXCEPT ![S] = cur]
    /\ slot' = slot + 1
    /\ cur' = None
    /\ pc' = "loop"
    /\ UNCHANGED <<callVars, level, pending, nstreams, retries, exc, outcome,
                   caller, dev, out, rmw, running, pinned, dirty>>

\* merge_lse on the host thread fails before its first write, or halfway.
MergeFails ==
    /\ pc = "merge" /\ accumulator # "worker"
    /\ \E kind \in {"oom", "error"} : Raise(kind)
    /\ dirty' \in BOOLEAN

\* A failed subproblem may be tried again: nothing of it was written.
\* A fault: accum.dirty is not consulted.
OomOnly     == exc = "oom"
Recoverable == exc = "oom" /\ ~dirty

\* The except clause: only a clean out-of-memory failure is recovered from.
HandleError ==
    /\ pc = "except"
    /\ ~Recoverable
    /\ pc' = "end" /\ outcome' = "raised"
    /\ UNCHANGED <<callVars, level, pending, cur, slot, nstreams, retries, exc,
                   slotVars, gpuVars, jobVars, pinned, acc, dirty>>

HandleOom ==
    /\ pc = "except"
    /\ Recoverable
    /\ retries' = retries + 1
    /\ pc' = "sync"
    /\ UNCHANGED <<callVars, level, pending, cur, slot, nstreams, exc, outcome,
                   slotVars, gpuVars, jobVars, pinned, acc, dirty>>

\* torch.cuda.synchronize(device)
Synchronize ==
    /\ pc = "sync" /\ DeviceIdle
    /\ pc' = "drain"
    /\ UNCHANGED <<callVars, level, pending, cur, slot, nstreams, retries, exc, outcome,
                   slotVars, gpuVars, jobVars, pinned, acc, dirty>>

\* The first slot whose merge future has not been collected.
Collectable(s) == slotMerge[s] # None /\ \A r \in Slot : r < s => slotMerge[r] = None

DrainMerge(s) ==
    /\ pc = "drain"
    /\ Collectable(s) /\ Merged(s)
    /\ slotMerge' = [slotMerge EXCEPT ![s] = None]
    /\ UNCHANGED <<hostVars, slotDone, gpuVars, jobVars, pinned, acc, dirty>>

\* A failed merge is raised again, out of the except clause or of the join.
CollectFails(s) ==
    /\ pc \in {"drain", "join"}
    /\ Collectable(s) /\ MergeFailed(s)
    /\ pc' = "end" /\ outcome' = "raised"
    /\ UNCHANGED <<callVars, level, pending, cur, slot, nstreams, retries, exc,
                   slotVars, gpuVars, jobVars, pinned, acc, dirty>>

\* Every merge future was collected. A fault: the futures are not looked at.
NotDrained == TRUE
Drained == \A s \in Slot : slotMerge[s] = None

\* What is left of a recovery: the retry budget, then the loop again.
Resume ==
    /\ exc' = "none"
    /\ cur' = None
    /\ slotDone' = [s \in Slot |-> None]
    /\ IF retries > Budget
       THEN pc' = "end" /\ outcome' = "budget"
       ELSE pc' = "loop" /\ outcome' = outcome
    /\ UNCHANGED <<callVars, level, slot, retries, slotMerge,
                   gpuVars, jobVars, pinned, acc, dirty>>

\* What a recovery puts back at the head of the queue.
\* A fault: the failed subproblem is kept beside its children.
Retry        == <<cur>>
ReplaceTwice == Kids(cur) \o <<cur>>
Replace      == Kids(cur)

\* A fault: one stream is halved too.
HalveToNone ==
    /\ pc = "drain" /\ Drained
    /\ nstreams' = nstreams \div 2
    /\ pending' = Retry \o pending
    /\ Resume

\* First response: half the streams, the same subproblem again.
HalveStreams ==
    /\ pc = "drain" /\ Drained
    /\ nstreams > 1
    /\ nstreams' = nstreams \div 2
    /\ pending' = Retry \o pending
    /\ Resume

\* At one stream: replace the subproblem by its children.
RefineTask ==
    /\ pc = "drain" /\ Drained
    /\ nstreams = 1
    /\ allow_escalation /\ Len(cur) < MaxDepth
    /\ pending' = Replace \o pending
    /\ UNCHANGED nstreams
    /\ Resume

\* Escalation disabled, or at the deepest level the sequence admits.
GiveUp ==
    /\ pc = "drain" /\ Drained
    /\ nstreams = 1
    /\ ~(allow_escalation /\ Len(cur) < MaxDepth)
    /\ pc' = "end" /\ outcome' = "raised"
    /\ UNCHANGED <<callVars, level, pending, cur, slot, nstreams, retries, exc,
                   slotVars, gpuVars, jobVars, pinned, acc, dirty>>

LoopDone ==
    /\ pc = "loop" /\ pending = <<>>
    /\ pc' = "join"
    /\ UNCHANGED <<callVars, level, pending, cur, slot, nstreams, retries, exc, outcome,
                   slotVars, gpuVars, jobVars, pinned, acc, dirty>>

\* Join the merge futures, synchronize the device and return the output.
JoinMerge(s) ==
    /\ pc = "join"
    /\ Collectable(s) /\ Merged(s)
    /\ slotMerge' = [slotMerge EXCEPT ![s] = None]
    /\ UNCHANGED <<hostVars, slotDone, gpuVars, jobVars, pinned, acc, dirty>>

Return ==
    /\ pc = "join" /\ Drained /\ DeviceIdle
    /\ pc' = "end" /\ outcome' = "returned"
    /\ UNCHANGED <<callVars, level, pending, cur, slot, nstreams, retries, exc,
                   slotVars, gpuVars, jobVars, pinned, acc, dirty>>

HostStep ==
    \/ BuildLevel \/ StartLoop \/ Pop \/ WaitSlot \/ Gather \/ Launch
    \/ WaitMerge \/ WaitMergeFails \/ StartD2h \/ BlockingD2h \/ Merge
    \/ HandleError \/ HandleOom \/ Synchronize
    \/ HalveStreams \/ RefineTask \/ GiveUp \/ LoopDone \/ Return
    \/ \E s \in Slot : DrainMerge(s) \/ JoinMerge(s) \/ CollectFails(s)

-----------------------------------------------------------------------------
(* Device streams.                                                           *)

\* A new stream waits for the caller's stream.  A fault: it carries no dependency
\* on the caller's work.
NoEntryWait == TRUE
EntryWait   == caller = "idle"

\* Execute the operation at the head of stream s.
Exec(s, kind) ==
    /\ EntryWait
    /\ queue[s] # <<>> /\ Head(queue[s]).op = kind
    /\ queue' = [queue EXCEPT ![s] = Tail(@)]
    /\ UNCHANGED <<hostVars, slotVars, jobVars, pinned, caller, dirty>>

\* The caller's stream runs dry: whatever wrote q, k and v, and the zeros of a
\* device accumulator, which overwrite what was merged before them.
CallerDone ==
    /\ caller = "busy"
    /\ caller' = "idle"
    /\ acc' = IF accumulator = "gpu" THEN [p \in Path |-> 0] ELSE acc
    /\ UNCHANGED <<hostVars, slotVars, queue, bufVars, jobVars, pinned, dirty>>

Load(s) ==
    /\ Exec(s, "load")
    /\ LET o == Head(queue[s])
       IN  dev' = [dev EXCEPT ![s] = IF host_resident THEN pinned[o.slot]
                                     ELSE IF caller = "idle" THEN o.task ELSE None]
    /\ UNCHANGED <<result, out, rmw, acc>>

Kernel(s) ==
    /\ Exec(s, "kernel")
    /\ result' = [result EXCEPT ![Head(queue[s]).task] = dev[s]]
    /\ dev' = [dev EXCEPT ![s] = None]
    /\ UNCHANGED <<out, rmw, acc>>

D2h(s) ==
    /\ Exec(s, "d2h")
    /\ LET o == Head(queue[s])
       IN  /\ out' = [out EXCEPT ![o.slot] = result[o.task]]
           /\ result' = [result EXCEPT ![o.task] = None]
    /\ UNCHANGED <<dev, rmw, acc>>

\* merge_stream.wait_event(compute_done)
WaitCompute(s) ==
    /\ Exec(s, "wait")
    /\ \A r \in Slot \ {s} : \A i \in DOMAIN queue[r] :
          queue[r][i].task # Head(queue[s]).task
    /\ UNCHANGED <<dev, result, out, rmw, acc>>

\* The merge of a device accumulator reads acc/l/m and writes them back.
MergeRead(s) ==
    /\ Exec(s, "read")
    /\ rmw' = [rmw EXCEPT ![s] = acc]
    /\ UNCHANGED <<dev, result, out, acc>>

MergeCommit(s) ==
    /\ Exec(s, "commit")
    /\ acc' = [rmw[s] EXCEPT ![result[Head(queue[s]).task]] = @ + 1]
    /\ rmw' = [rmw EXCEPT ![s] = None]
    /\ result' = [result EXCEPT ![Head(queue[s]).task] = None]
    /\ UNCHANGED <<dev, out>>

RecordDone(s) ==
    /\ Exec(s, "done")
    /\ UNCHANGED <<dev, result, out, rmw, acc>>

StreamStep(s) ==
    \/ s # MergeStream /\ (Load(s) \/ Kernel(s) \/ D2h(s))
    \/ WaitCompute(s) \/ MergeRead(s) \/ MergeCommit(s) \/ RecordDone(s)

-----------------------------------------------------------------------------
(* Merge worker thread (_merge_job).                                         *)

\* ev_.synchronize(): the slot's d2h has landed.
WorkerStart ==
    /\ running = None /\ jobs # <<>>
    /\ WorkDone(Head(jobs).task)
    /\ running' = Head(jobs)
    /\ jobs' = Tail(jobs)
    /\ UNCHANGED <<hostVars, slotVars, gpuVars, future, pinned, acc, dirty>>

WorkerMerge ==
    /\ running # None
    /\ acc' = [acc EXCEPT ![out[running.slot]] = @ + 1]
    /\ future' = [future EXCEPT ![running.task] = "done"]
    /\ running' = None
    /\ UNCHANGED <<hostVars, slotVars, gpuVars, jobs, pinned, dirty>>

\* The future of a failed job carries its exception.
\* A fault: the job's exception is swallowed and its future never resolved.
Swallow(kind) == future
Fail(kind)    == [future EXCEPT ![running.task] = kind]

WorkerFails ==
    /\ running # None
    /\ \E kind \in {"oom", "error"} :
          /\ kind = "oom" => retries < OomBound
          /\ future' = Fail(kind)
    /\ dirty' \in BOOLEAN
    /\ running' = None
    /\ UNCHANGED <<hostVars, slotVars, gpuVars, jobs, pinned, acc>>

WorkerStep == WorkerStart \/ WorkerMerge

-----------------------------------------------------------------------------
Next ==
    \/ HostStep
    \/ ComputeFails
    \/ MergeFails
    \/ CallerDone
    \/ \E s \in Stream : StreamStep(s)
    \/ WorkerStep
    \/ WorkerFails

\* The host thread, every stream, the caller's, and the worker thread keep running; failures
\* are never required to happen.
Fairness ==
    /\ WF_vars(HostStep)
    /\ WF_vars(CallerDone)
    /\ \A s \in Stream : WF_vars(StreamStep(s))
    /\ WF_vars(WorkerStep)

Spec == Init /\ [][Next]_vars /\ Fairness

-----------------------------------------------------------------------------
(* Properties.                                                               *)

\* Subproblems whose contribution is still owed: queued, in the host's hands,
\* or handed to a merge that has not been applied (and never will be, if it failed).
Outstanding ==
    Range(pending) \cup ({cur} \ {None})
    \cup {p \in Path : future[p] \in {"queued", "oom", "error"}}
    \cup {o.task : o \in {x \in UNION {Range(queue[s]) : s \in Stream} : x.op = "commit"}}

\* Queues and buffers hold subproblems, and the stream count stays in 1 .. NPar:
\* run_one divides by it.
TypeOK ==
    /\ pending \in Seq(Path) /\ cur \in Path \cup {None}
    /\ nstreams \in 1 .. NPar /\ level \in 0 .. Itr
    /\ acc \in [Path -> Nat]
    /\ \A s \in Slot : slotDone[s] \in Path \cup {None} /\ slotMerge[s] \in Path \cup {None}
    /\ \A s \in Slot : pinned[s] \in Path \cup {None} /\ out[s] \in Path \cup {None}
    /\ dirty \in BOOLEAN

\* On every finest decomposition path exactly one subproblem is owed or was
\* merged, and merged once, through halvings, refinements and failed merges
\* ("replacing it double counts nothing").  A merge lost to an interleaved
\* read-modify-write of acc/l/m leaves a path with none.
HeldOnce ==
    \A p \in Leaf :
        \E q \in Ancestors(p) :
            /\ (q \in Outstanding /\ acc[q] = 0) \/ (q \notin Outstanding /\ acc[q] = 1)
            /\ \A r \in Ancestors(p) \ {q} : r \notin Outstanding /\ acc[r] = 0

\* A call that returns owes nothing and no merge was applied halfway, whether
\* the failure was in the host thread or in a merge job (accum.dirty, result()).
ReturnedExact == outcome = "returned" => Outstanding = {} /\ ~dirty

\* A pinned staging buffer holds its subproblem's rows until the asynchronous
\* copy has read them: reuse of a slot waits for slot_done.
StagingOwned ==
    host_resident => \A s \in Slot : \A i \in DOMAIN queue[s] :
        queue[s][i].op = "load" => pinned[queue[s][i].slot] = queue[s][i].task

\* A pinned output buffer is not overwritten between the end of its copy and
\* the merge job that reads it: reuse waits for slot_merge.
OutputOwned ==
    \A j \in Range(jobs) \cup ({running} \ {None}) :
        WorkDone(j.task) => out[j.slot] = j.task

\* At most len(streams) subproblems are in flight, also after a halving: the
\* backpressure the memory budget of choose_parallelism relies on.
BoundedInFlight ==
    Cardinality({o.task : o \in UNION {Range(queue[s]) : s \in Stream}}) <= nstreams

\* Nothing is in flight when a failed subproblem is put back or replaced: no
\* stream still has work and no merge job is queued or running (the
\* synchronize and the drain of slot_merge in the except clause).
QuiescentRecovery ==
    pc = "drain" /\ Drained =>
        (\A s \in Stream : queue[s] = <<>>) /\ jobs = <<>> /\ running = None

\* The call returns or raises, whatever fails and in whatever thread: no wait on
\* an event or a future is for something that will not happen.
Terminates == <>(pc = "end")

\* The engine implements the hybrid schedules of HybridCover: a queued, running
\* or failed subproblem is pending there, a merged one has been attended.
Cover == INSTANCE HybridCover WITH
    pending  <- {TaskOf[p] : p \in Outstanding},
    attended <- LET merged == {p \in Path : acc[p] # 0}
                IN  [x \in Token \X Token |->
                        Cardinality(UNION {{p} \X (1 .. acc[p]) :
                                           p \in {q \in merged : x \in KeptOf[q]}})]

ImplementsCover == Cover!Spec
=============================================================================
