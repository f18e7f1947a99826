------------------------------ MODULE ChunkPool ------------------------------
(***************************************************************************)
(* DeviceChunkPool and the forward loop that uses it (shared_chunks=True,  *)
(* stream_from_host=True, itr=1): each top-level chunk is copied to a pool *)
(* slot once and shared by the subproblems that gather it.  The host       *)
(* counts references and releases them when the work is ENQUEUED; an       *)
(* eviction therefore also waits for the last device event of the chunk.   *)
(*                                                                         *)
(* Streams are FIFOs of issued operations as in StreamForward.  The copies *)
(* of a miss are issued on the stream of the subproblem that missed.  A    *)
(* slot's rows are abstracted to the chunk whose rows they are.            *)
(***************************************************************************)
EXTENDS TaskTree

CONSTANTS
    Pars,              \* numbers of streams a call may start with
    PoolSizes,         \* pool sizes a call may ask for (chunk_pool_slots)
    OomBound,          \* bound on injected out-of-memory failures
    None               \* no subproblem, no chunk

\* "shared_chunks currently supports itr=1"
ASSUME PoolAssumption ==
    /\ Itr = 1
    /\ Pars \subseteq Nat \ {0}
    /\ PoolSizes \subseteq Nat \ {0}
    /\ OomBound \in Nat
    /\ None \notin Path

VARIABLES
    n_par,        \* streams at the start
    n_slots,      \* slots of the pool, by default min(c, n_par * l)
    allow_escalation,   \* refine at one stream, or report the OOM
    pc,           \* control point of the host thread
    pending, cur, slot, nstreams, retries, outcome,   \* as in StreamForward
    slotDone,     \* subproblem whose done event guards each stream slot
    todo,         \* chunk ids acquire has not reached yet
    assigned,     \* acquire's result so far, a function on chunk ids
    slot_of,      \* resident chunks with their slots, in dict order
    refcount,     \* host references to each chunk
    last_event,   \* subproblem whose release event guards each chunk
    free,         \* slots never used or not in use
    queue,        \* operations issued to each stream and not done yet
    content       \* chunk whose rows each pool slot holds

callVars == <<n_par, n_slots, allow_escalation>>
loopVars == <<callVars, pending, cur, slot, nstreams, retries, outcome, slotDone>>
poolVars == <<slot_of, refcount, last_event, free>>
vars == <<pc, loopVars, todo, assigned, poolVars, queue, content>>

MergeStream == 0
StreamSlot  == 1 .. n_par
Stream      == {MergeStream} \cup StreamSlot
PoolSlot    == 0 .. n_slots - 1

S == (slot % nstreams) + 1

-----------------------------------------------------------------------------
\* The chunks run_one acquires for a subproblem: the quorum of path[0].
Cids(p) == Selected([k \in 1 .. C |-> k - 1], LAMBDA x : x \in QuorumChunks(p[1]))

WorkDone(p)  == \A s \in StreamSlot : \A i \in DOMAIN queue[s] : queue[s][i].task # p
MergeDone(p) == \A i \in DOMAIN queue[MergeStream] : queue[MergeStream][i].task # p
DeviceIdle   == \A s \in Stream : queue[s] = <<>>

Init ==
    /\ n_par \in Pars /\ n_slots \in PoolSizes /\ allow_escalation \in BOOLEAN
    /\ pc = "loop"
    /\ pending = Tasks[Itr]
    /\ cur = None /\ slot = 0 /\ nstreams = n_par
    /\ retries = 0 /\ outcome = "running"
    /\ slotDone = [s \in StreamSlot |-> None]
    /\ todo = <<>> /\ assigned = <<>>
    /\ slot_of = <<>>
    /\ refcount = [c \in Chunk |-> 0]
    /\ last_event = [c \in Chunk |-> None]
    /\ free = [i \in 1 .. n_slots |-> i-1]
    /\ queue = [s \in Stream |-> <<>>]
    /\ content = [x \in PoolSlot |-> None]

-----------------------------------------------------------------------------
(* The forward loop around the pool.                                         *)

Pop ==
    /\ pc = "loop" /\ pending # <<>>
    /\ pc' = "slot"
    /\ cur' = Head(pending) /\ pending' = Tail(pending)
    /\ UNCHANGED <<callVars, slot, nstreams, retries, outcome, slotDone,
                   todo, assigned, poolVars, queue, content>>

WaitSlot ==
    /\ pc = "slot"
    /\ slotDone[S] = None \/ MergeDone(slotDone[S])
    /\ pc' = "acquire"
    /\ todo' = Cids(cur) /\ assigned' = <<>>
    /\ UNCHANGED <<loopVars, poolVars, queue, content>>

-----------------------------------------------------------------------------
(* DeviceChunkPool.acquire, one chunk at a time.                             *)

\* A fault: the dict is not consulted.
LookupMissed(c) == FALSE
Resident(c)     == \E i \in DOMAIN slot_of : slot_of[i].chunk = c
ResidentSlot(c) == slot_of[CHOOSE i \in DOMAIN slot_of : slot_of[i].chunk = c].slot

\* Pin the first chunk of todo in slot x.
Pin(x) ==
    /\ refcount' = [refcount EXCEPT ![Head(todo)] = @ + 1]
    /\ assigned' = [c \in DOMAIN assigned \cup {Head(todo)} |->
                        IF c = Head(todo) THEN x ELSE assigned[c]]
    /\ todo' = Tail(todo)
    /\ UNCHANGED <<pc, loopVars, content>>

\* Copy the first chunk of todo into slot x; without is slot_of less the victim.
LoadInto(x, without) ==
    /\ slot_of' = Append(without, [chunk |-> Head(todo), slot |-> x])
    /\ queue' = [queue EXCEPT ![S] =
                    Append(@, [op |-> "copy", task |-> cur, chunk |-> Head(todo), slot |-> x])]
    /\ Pin(x)

Hit ==
    /\ pc = "acquire" /\ todo # <<>>
    /\ Resident(Head(todo))
    /\ Pin(ResidentSlot(Head(todo)))
    /\ UNCHANGED <<slot_of, last_event, free, queue>>

MissFree ==
    /\ pc = "acquire" /\ todo # <<>>
    /\ ~Resident(Head(todo))
    /\ free # <<>>
    /\ free' = Front(free)
    /\ LoadInto(Last(free), slot_of)
    /\ UNCHANGED last_event

\* _evict_one scans slot_of in dict order for the first unreferenced chunk.
\* A fault: it takes the oldest chunk, referenced or not.
AnyEntry(i)  == TRUE
Evictable(i) == refcount[slot_of[i].chunk] = 0
Victims == {i \in DOMAIN slot_of : Evictable(i)}

\* ev.synchronize() on the victim's last event. A fault: no wait.
EventIgnored(c) == TRUE
EventFired(c)   == last_event[c] = None \/ MergeDone(last_event[c])

MissEvict ==
    /\ pc = "acquire" /\ todo # <<>>
    /\ ~Resident(Head(todo))
    /\ free = <<>> /\ Victims # {}
    /\ LET i == Min(Victims)
           victim == slot_of[i].chunk
       IN  /\ EventFired(victim)
           /\ last_event' = [last_event EXCEPT ![victim] = None]
           /\ LoadInto(slot_of[i].slot, RemoveAt(slot_of, i))
    /\ UNCHANGED free

\* "chunk pool exhausted" is not an out-of-memory error: it ends the call.
Exhausted ==
    /\ pc = "acquire" /\ todo # <<>>
    /\ ~Resident(Head(todo))
    /\ free = <<>> /\ Victims = {}
    /\ pc' = "end" /\ outcome' = "exhausted"
    /\ UNCHANGED <<callVars, pending, cur, slot, nstreams, retries, slotDone,
                   todo, assigned, poolVars, queue, content>>

-----------------------------------------------------------------------------
\* The kernel reads the pool through the block map built from assigned.
Launch ==
    /\ pc = "acquire" /\ todo = <<>>
    /\ pc' = "merge"
    /\ queue' = [queue EXCEPT ![S] =
                    Append(@, [op |-> "kernel", task |-> cur, rows |-> assigned])]
    /\ UNCHANGED <<loopVars, todo, assigned, poolVars, content>>

\* What release does to a reference count.  A fault: nothing.
NotDropped(n) == n
Dropped(n) == IF n > 0 THEN n - 1 ELSE 0

\* Issue the merge behind the kernel, release the chunks, guard the slot.
MergeAndRelease ==
    /\ pc = "merge"
    /\ pc' = "loop"
    /\ queue' = [queue EXCEPT ![MergeStream] = Append(@, [op |-> "merge", task |-> cur])]
    /\ refcount' = [c \in Chunk |-> IF c \in Range(Cids(cur)) THEN Dropped(refcount[c])
                                                              ELSE refcount[c]]
    /\ last_event' = [c \in Chunk |-> IF c \in Range(Cids(cur)) THEN cur ELSE last_event[c]]
    /\ slotDone' = [slotDone EXCEPT ![S] = cur]
    /\ slot' = slot + 1 /\ cur' = None
    /\ UNCHANGED <<callVars, pending, nstreams, retries, outcome, todo, assigned,
                   slot_of, free, content>>

\* The copies of the index and of the group bits, before acquire, or block_base, the
\* inner kernel or the merge, after it, run out of memory (acquire itself allocates
\* nothing).  What was acquired stays referenced: only run_one's last lines release it.
Oom ==
    /\ \/ pc = "acquire" /\ todo \in {Cids(cur), <<>>}
       \/ pc = "merge"
    /\ retries < OomBound
    /\ retries' = retries + 1
    /\ pc' = "sync"
    /\ UNCHANGED <<callVars, pending, cur, slot, nstreams, outcome, slotDone,
                   todo, assigned, poolVars, queue, content>>

Recovered ==
    /\ pc' = "loop"
    /\ cur' = None
    /\ slotDone' = [s \in StreamSlot |-> None]
    /\ UNCHANGED <<callVars, slot, retries, outcome, todo, assigned, poolVars, queue, content>>

HalveStreams ==
    /\ pc = "sync" /\ DeviceIdle
    /\ nstreams > 1
    /\ nstreams' = nstreams \div 2
    /\ pending' = <<cur>> \o pending
    /\ Recovered

CanRefine == allow_escalation /\ Len(cur) < MaxDepth

RefineTask ==
    /\ pc = "sync" /\ DeviceIdle
    /\ nstreams = 1 /\ CanRefine
    /\ pending' = Kids(cur) \o pending
    /\ UNCHANGED nstreams
    /\ Recovered

GiveUp ==
    /\ pc = "sync" /\ DeviceIdle
    /\ nstreams = 1 /\ ~CanRefine
    /\ pc' = "end" /\ outcome' = "raised"
    /\ UNCHANGED <<callVars, pending, cur, slot, nstreams, retries, slotDone,
                   todo, assigned, poolVars, queue, content>>

Return ==
    /\ pc = "loop" /\ pending = <<>> /\ DeviceIdle
    /\ pc' = "end" /\ outcome' = "returned"
    /\ UNCHANGED <<callVars, pending, cur, slot, nstreams, retries, slotDone,
                   todo, assigned, poolVars, queue, content>>

-----------------------------------------------------------------------------
(* Device streams.                                                           *)

Exec(s, kind) ==
    /\ queue[s] # <<>> /\ Head(queue[s]).op = kind
    /\ queue' = [queue EXCEPT ![s] = Tail(@)]
    /\ UNCHANGED <<pc, loopVars, todo, assigned, poolVars>>

Copy(s) ==
    /\ Exec(s, "copy")
    /\ content' = [content EXCEPT ![Head(queue[s]).slot] = Head(queue[s]).chunk]

Kernel(s) ==
    /\ Exec(s, "kernel")
    /\ UNCHANGED content

MergeOp ==
    /\ Exec(MergeStream, "merge")
    /\ WorkDone(Head(queue[MergeStream]).task)
    /\ UNCHANGED content

\* The call has ended.
Ended ==
    /\ pc = "end"
    /\ UNCHANGED vars

Next ==
    \/ Pop \/ WaitSlot
    \/ Hit \/ MissFree \/ MissEvict \/ Exhausted
    \/ Launch \/ MergeAndRelease \/ Oom
    \/ HalveStreams \/ RefineTask \/ GiveUp \/ Return
    \/ \E s \in StreamSlot : Copy(s) \/ Kernel(s)
    \/ MergeOp
    \/ Ended

Spec == Init /\ [][Next]_vars

-----------------------------------------------------------------------------
(* Properties.                                                               *)

KernelOps == {o \in UNION {Range(queue[s]) : s \in StreamSlot} : o.op = "kernel"}

\* A slot holds one chunk, resident or free, and the dict agrees with itself.
TypeOK ==
    /\ \A i, j \in DOMAIN slot_of : i # j =>
          slot_of[i].chunk # slot_of[j].chunk /\ slot_of[i].slot # slot_of[j].slot
    /\ {slot_of[i].slot : i \in DOMAIN slot_of} \cup Range(free) = PoolSlot
    /\ Len(slot_of) + Len(free) = n_slots
    /\ refcount \in [Chunk -> Nat]

\* "The kernel may still be reading the chunk": until a kernel has run, every
\* chunk it was launched on keeps its slot, whatever is evicted meanwhile, also
\* after an out-of-memory failure of another subproblem.
KeepsItsChunks ==
    \A o \in KernelOps : \A c \in DOMAIN o.rows :
        [chunk |-> c, slot |-> o.rows[c]] \in Range(slot_of)

\* Every copy of a chunk is issued before the kernels that read it, and none that
\* would overwrite a slot is waiting while a kernel still reads that slot.
NoPendingOverwrite ==
    \A o \in KernelOps : \A c \in DOMAIN o.rows :
        LET writes == {w \in UNION {Range(queue[s]) : s \in StreamSlot} :
                          w.op = "copy" /\ w.slot = o.rows[c]}
        IN  /\ \A w \in writes : w.chunk = c
            /\ content[o.rows[c]] = c \/ writes # {}

\* The default number of slots.
DefaultSlots == Min({C, n_par * Cardinality(InterestSet)})

\* The default pool, or a larger one, is never exhausted at a fixed depth, although
\* a failed subproblem never gives its references back: "every slot is referenced
\* by an in-flight subsequence" does not become true of chunks nobody holds.
PoolSuffices ==
    n_slots >= DefaultSlots /\ ~allow_escalation => outcome # "exhausted"

\* Rows of the pool the kernel of an operation addresses (block_base), as the
\* tokens found there: the first local_size rows of the chunks in ascending order.
RowsRead(o) ==
    LET chunks == SetToSortSeq(DOMAIN o.rows, <)
        tokens(c) == IF content[o.rows[c]] = None THEN <<>>
                     ELSE [i \in 1 .. ChunkEnd(N, c) - ChunkStart(N, c) |->
                              ChunkStart(N, content[o.rows[c]]) + i - 1]
        all == FlattenSeq([k \in DOMAIN chunks |-> tokens(chunks[k])])
        size == Cardinality(TaskOf[o.task].tokens)
    IN  SubSeq(all, 1, IF size <= Len(all) THEN size ELSE Len(all))

\* A kernel that may run now reads exactly its subproblem's tokens, in ascending
\* order ("Make chunk_ids resident and pin them").
ReadsItsTokens ==
    \A s \in StreamSlot :
        queue[s] # <<>> /\ Head(queue[s]).op = "kernel" =>
            RowsRead(Head(queue[s])) = SetToSortSeq(TaskOf[Head(queue[s]).task].tokens, <)
=============================================================================
