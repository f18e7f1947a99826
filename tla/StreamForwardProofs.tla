------------------------- MODULE StreamForwardProofs -------------------------
(***************************************************************************)
(* The forward engine, for every number of streams, every accumulator,     *)
(* every difference set, length and depth, and any number of failures.     *)
(***************************************************************************)
EXTENDS StreamForward, DecompositionProofs

-----------------------------------------------------------------------------
(* The inductive invariant.                                                  *)

\* The host holds the slot of the next run_one call.
Working == cur # None /\ pc # "slot"

\* The subproblem a worker stream works for.
Owner(s) == IF s = S /\ Working THEN cur ELSE slotDone[s]

\* What a stream may have left of a subproblem when its load, its kernel and its
\* copy to the host were issued.
Loading(p, s) == {<<>>, <<Op("load", p, s)>>}
Computing(p, s) ==
    {<<>>, <<Op("kernel", p, s)>>, <<Op("load", p, s), Op("kernel", p, s)>>}
Copying(p, s) ==
    {<<>>, <<Op("d2h", p, s)>>, <<Op("kernel", p, s), Op("d2h", p, s)>>,
     <<Op("load", p, s), Op("kernel", p, s), Op("d2h", p, s)>>}
Issued(q, p, s) == IF accumulator = "worker" THEN q \in Copying(p, s) ELSE q \in Computing(p, s)

Control == {"build", "loop", "slot", "gather", "launch", "d2h", "merge",
            "except", "sync", "drain", "join", "end"}
FutureState == {"none", "queued", "done", "oom", "error"}
Job == [task : Path, slot : Slot]

HostType ==
    /\ accumulator \in Accumulator
    /\ host_resident \in BOOLEAN /\ allow_escalation \in BOOLEAN
    /\ pc \in Control /\ level \in 0 .. Itr
    /\ pending \in Seq(Path) /\ cur \in Path \cup {None}
    /\ slot \in Nat /\ nstreams \in 1 .. NPar
    /\ dirty \in BOOLEAN

Kind == {"load", "kernel", "d2h", "wait", "read", "commit", "done"}
Operation == [op : Kind, task : Path, slot : Slot]

QueueType == queue \in [Stream -> Seq(Operation)]

BufType ==
    /\ pinned \in [Slot -> Path \cup {None}]
    /\ dev \in [Slot -> Path \cup {None}]
    /\ result \in [Path -> Path \cup {None}]
    /\ out \in [Slot -> Path \cup {None}]
    /\ DOMAIN rmw = Stream
    /\ acc \in [Path -> {0, 1}]

JobType ==
    /\ slotDone \in [Slot -> Path \cup {None}]
    /\ slotMerge \in [Slot -> Path \cup {None}]
    /\ future \in [Path -> FutureState]
    /\ jobs \in Seq(Job) /\ running \in Job \cup {None}

TypeInv == HostType /\ QueueType /\ BufType /\ JobType

\* What the control point says of the rest of the state.
PhaseInv ==
    /\ pc \in {"build", "loop", "join"} => cur = None
    /\ pc \in {"slot", "gather", "launch", "d2h", "merge", "except", "sync", "drain"} => cur # None
    /\ pc # "build" => level = Itr
    /\ pc = "build" => /\ acc = [p \in Path |-> 0] /\ future = [p \in Path |-> "none"]
                       /\ \A s \in Stream : queue[s] = <<>>
                       /\ \A i \in DOMAIN pending : Len(pending[i]) = level
    /\ pc = "drain" => \A s \in Stream : queue[s] = <<>>
    /\ outcome = "returned" => /\ pc = "end" /\ pending = <<>> /\ cur = None /\ ~dirty
                               /\ \A s \in Slot : slotMerge[s] = None
                               /\ \A s \in Stream : queue[s] = <<>>
    /\ pc = "join" => pending = <<>>
    /\ caller = "busy" /\ accumulator = "gpu" => acc = [p \in Path |-> 0]

\* Slots beyond the current number of streams are not in use.
SlotInv == \A s \in Slot : s > nstreams => slotDone[s] = None /\ slotMerge[s] = None

LaneInv == \A s \in Slot :
    /\ s = S /\ Working =>
          /\ pc # "merge" => queue[s] \in Loading(cur, s) \cup Computing(cur, s)
          /\ pc = "gather" => queue[s] = <<>>
          /\ pc = "launch" => queue[s] \in Loading(cur, s)
          /\ pc = "d2h" => queue[s] \in Computing(cur, s)
          /\ pc = "merge" => Issued(queue[s], cur, s)
          /\ pc = "merge" /\ accumulator = "inline" => queue[s] = <<>>
    /\ ~(s = S /\ Working) =>
          /\ slotDone[s] = None => queue[s] = <<>>
          /\ slotDone[s] # None => Issued(queue[s], slotDone[s], s)

\* The rows of the owner are where its next operation reads them.
DataAt(s) ==
    /\ queue[s] # <<>> /\ Head(queue[s]).op = "load" /\ host_resident => pinned[s] = Owner(s)
    /\ queue[s] # <<>> /\ Head(queue[s]).op = "kernel" => dev[s] = Owner(s)
    /\ queue[s] # <<>> /\ Head(queue[s]).op = "d2h" => result[Owner(s)] = Owner(s)
    /\ queue[s] = <<>> /\ s = S /\ Working =>
          /\ pc = "launch" => dev[s] = cur
          /\ pc = "d2h" => result[cur] = cur
          /\ pc = "merge" /\ accumulator # "worker" => result[cur] = cur
          /\ pc = "merge" /\ accumulator = "worker" => out[s] = cur

DataInv == \A s \in Slot : DataAt(s)

mq == queue[MergeStream]

After(kind) == IF accumulator # "gpu" THEN "done"
               ELSE CASE kind = "wait" -> "read" [] kind = "read" -> "commit" [] OTHER -> "done"

\* The merge stream: the operations of one merge after the other, each of them
\* for the subproblem that guards its slot, and on rows that are ready.
MqGuard == \A i \in DOMAIN mq :
    /\ mq[i].op \in {"wait", "done"} \/ (accumulator = "gpu" /\ mq[i].op \in {"read", "commit"})
    /\ mq[i].task = slotDone[mq[i].slot]
    /\ Working => mq[i].slot # S

MqOrder ==
    /\ \A i \in DOMAIN mq : mq[i].op = "done" => i = Len(mq) \/ mq[i+1].op = "wait"
    /\ \A i \in DOMAIN mq : mq[i].op # "done" =>
          /\ i < Len(mq)
          /\ mq[i+1].op = After(mq[i].op)
          /\ mq[i+1].task = mq[i].task /\ mq[i+1].slot = mq[i].slot
    /\ \A i, j \in DOMAIN mq : mq[i].op = mq[j].op /\ mq[i].slot = mq[j].slot => i = j

MqHead == mq # <<>> =>
    /\ mq[1].op # "wait" => queue[mq[1].slot] = <<>>
    /\ mq[1].op = "commit" => rmw[MergeStream] = acc

MqReady ==
    /\ \A s \in Slot : queue[s] # <<>> /\ ~(s = S /\ Working) =>
          \E i \in DOMAIN mq : mq[i].op = "wait" /\ mq[i].slot = s
    /\ \A i \in DOMAIN mq : mq[i].op = "commit" /\ queue[mq[i].slot] = <<>> =>
          result[mq[i].task] = mq[i].task

MergeInv == MqGuard /\ MqOrder /\ MqHead /\ MqReady

\* Merge jobs are for the worker; each is the one its slot waits for, and its rows
\* are in the slot's output or on their way.
JobKind == accumulator # "worker" => jobs = <<>> /\ running = None /\ \A s \in Slot : slotMerge[s] = None

JobQueue ==
    /\ \A i \in DOMAIN jobs :
          /\ slotMerge[jobs[i].slot] = jobs[i].task /\ future[jobs[i].task] = "queued"
          /\ jobs[i] # running
          /\ \/ out[jobs[i].slot] = jobs[i].task
             \/ queue[jobs[i].slot] # <<>> /\ ~(Working /\ S = jobs[i].slot)
    /\ \A i, j \in DOMAIN jobs : jobs[i] = jobs[j] => i = j

JobRunning == running # None => /\ slotMerge[running.slot] = running.task
                                /\ future[running.task] = "queued"
                                /\ out[running.slot] = running.task

\* A future has its job or its slot, and a slot's future is of its last subproblem.
JobFuture == \A p \in Path : future[p] = "queued" =>
    \/ \E i \in DOMAIN jobs : jobs[i].task = p
    \/ running # None /\ running.task = p

Failed(p) == future[p] \in {"oom", "error"}

JobSlot ==
    /\ \A p \in Path : Failed(p) => \E s \in Slot : slotMerge[s] = p
    /\ \A s \in Slot : slotMerge[s] # None => slotMerge[s] = slotDone[s] /\ future[slotMerge[s]] # "none"
    /\ pc = "merge" => slotMerge[S] = None

\* A merge stopped halfway is a failed future, or being handled.
JobDirty == dirty => \/ \E p \in Path : Failed(p)
                     \/ pc = "except" \/ (pc = "end" /\ outcome = "raised")

JobInv == JobKind /\ JobQueue /\ JobRunning /\ JobFuture /\ JobSlot /\ JobDirty

\* A merge of p was issued to the merge stream and has not written.
Committing(p) == \E i \in DOMAIN mq : mq[i].op = "commit" /\ mq[i].task = p

\* The host handed p to a merge, or p was merged.
Handed(p) == acc[p] = 1 \/ future[p] # "none" \/ Committing(p)

\* A subproblem is in one place only: queued, in the host's hands, or handed over,
\* and then merged once at most.
CustodyPending ==
    /\ Distinct(pending)
    /\ \A i \in DOMAIN pending : pending[i] # cur /\ ~Handed(pending[i])
    /\ cur # None => ~Handed(cur)

CustodyMerged ==
    /\ \A p \in Path : acc[p] = 1 => ~Committing(p) /\ future[p] \in {"none", "done"}
    /\ \A p \in Path : future[p] = "done" => acc[p] = 1
    /\ \A p \in Path : future[p] # "none" => accumulator = "worker"

CustodySlot ==
    /\ \A s \in Slot : slotDone[s] # None => Handed(slotDone[s])
    /\ \A s, r \in Slot : slotDone[s] # None /\ slotDone[s] = slotDone[r] => s = r

CustodyInv == CustodyPending /\ CustodyMerged /\ CustodySlot

Held == {p \in Path : p = cur \/ Handed(p)} \cup Range(pending)

\* The subproblems held at a time: none descends from another, and every leaf
\* descends from one.
CoverInv ==
    /\ \A p, q \in Held : q \in Ancestors(p) => q = p
    /\ \A p \in Leaf : \E q \in Ancestors(p) : q \in Held

IInv == TypeInv /\ PhaseInv /\ SlotInv /\ LaneInv /\ DataInv /\ MergeInv /\ JobInv
        /\ CustodyInv /\ CoverInv

-----------------------------------------------------------------------------
\* The slot of the next run_one call is one of the streams, and stays it while
\* neither the counter nor the number of streams changes.
LEMMA SlotType ==
    ASSUME TypeInv
    PROVE  /\ S \in Slot /\ S <= nstreams /\ S \in Stream /\ S # MergeStream
           /\ Slot \subseteq Stream /\ MergeStream \in Stream /\ MergeStream \notin Slot
           /\ UNCHANGED <<slot, nstreams>> => S' = S
<1> DEFINE r == slot % nstreams
<1>1. slot \in Nat /\ nstreams \in Nat /\ nstreams >= 1 /\ nstreams <= NPar /\ NPar \in Nat
  BY ForwardAssumption DEF TypeInv, HostType
<1>2. r \in Int /\ 0 <= r /\ r < nstreams
  BY <1>1
<1>3. S = r + 1
  BY DEF S
<1> HIDE DEF r
<1>4. S \in 1 .. NPar /\ S <= nstreams /\ S # 0
  BY <1>1, <1>2, <1>3
<1>5. UNCHANGED <<slot, nstreams>> => S' = S
  BY DEF S
<1>6. QED
  BY <1>4, <1>5 DEF Slot, Stream, MergeStream

\* The fields of an operation.
LEMMA OpFields ==
    \A k, p, s : Op(k, p, s).op = k /\ Op(k, p, s).task = p /\ Op(k, p, s).slot = s
  BY DEF Op

\* The streams of the workers load, run kernels and copy; the merge stream merges.
LEMMA NextCases ==
    ASSUME TypeInv, LaneInv, MergeInv, [Next]_vars
    PROVE  \/ BuildLevel \/ StartLoop \/ Pop \/ WaitSlot \/ Gather \/ Launch
           \/ WaitMerge \/ WaitMergeFails \/ StartD2h \/ BlockingD2h \/ Merge
           \/ HandleError \/ HandleOom \/ Synchronize \/ HalveStreams \/ RefineTask
           \/ GiveUp \/ LoopDone \/ Return
           \/ \E s \in Slot : DrainMerge(s)
           \/ \E s \in Slot : JoinMerge(s)
           \/ \E s \in Slot : CollectFails(s)
           \/ ComputeFails \/ MergeFails \/ CallerDone
           \/ \E s \in Slot : Load(s)
           \/ \E s \in Slot : Kernel(s)
           \/ \E s \in Slot : D2h(s)
           \/ WaitCompute(MergeStream) \/ MergeRead(MergeStream)
           \/ MergeCommit(MergeStream) \/ RecordDone(MergeStream)
           \/ WorkerStart \/ WorkerMerge \/ WorkerFails \/ UNCHANGED vars
<1>1. ASSUME NEW s \in Slot, queue[s] # <<>> PROVE Head(queue[s]).op \in {"load", "kernel", "d2h"}
  <2>1. \A p : queue[s] \in Loading(p, s) \cup Computing(p, s) \cup Copying(p, s) =>
             Head(queue[s]).op \in {"load", "kernel", "d2h"}
    BY <1>1, ShortLists, OpFields DEF Loading, Computing, Copying
  <2>2. QED
    BY <1>1, <2>1 DEF LaneInv, Issued
<1>2. ASSUME NEW s \in Stream, StreamStep(s)
      PROVE  \/ \E r \in Slot : Load(r)
             \/ \E r \in Slot : Kernel(r)
             \/ \E r \in Slot : D2h(r)
             \/ WaitCompute(MergeStream) \/ MergeRead(MergeStream)
             \/ MergeCommit(MergeStream) \/ RecordDone(MergeStream)
  <2>1. CASE s = MergeStream
    BY <1>2, <2>1 DEF StreamStep
  <2>2. CASE s # MergeStream
    <3>1. s \in Slot
      BY <2>2 DEF Stream
    <3>2. ~(WaitCompute(s) \/ MergeRead(s) \/ MergeCommit(s) \/ RecordDone(s))
      BY <1>1, <3>1 DEF WaitCompute, MergeRead, MergeCommit, RecordDone, Exec
    <3>3. QED
      BY <1>2, <3>1, <3>2 DEF StreamStep
  <2>3. QED
    BY <2>1, <2>2
<1>3. QED
  BY <1>2 DEF Next, HostStep, WorkerStep


\* What a worker stream has left, by the operation at its head.
LEMMA LaneHead ==
    ASSUME TypeInv, LaneInv, NEW s \in Slot, queue[s] # <<>>, NEW p, p = Owner(s)
    PROVE  /\ p \in Path /\ p # None
           /\ \A i \in DOMAIN queue[s] : queue[s][i].task = p /\ queue[s][i].slot = s
           /\ Head(queue[s]).task = p /\ Head(queue[s]).slot = s
           /\ \/ /\ Head(queue[s]).op = "load"
                 /\ \/ queue[s] = <<Op("load", p, s)>> /\ Tail(queue[s]) = <<>>
                    \/ /\ queue[s] = <<Op("load", p, s), Op("kernel", p, s)>>
                       /\ Tail(queue[s]) = <<Op("kernel", p, s)>>
                    \/ /\ queue[s] = <<Op("load", p, s), Op("kernel", p, s), Op("d2h", p, s)>>
                       /\ Tail(queue[s]) = <<Op("kernel", p, s), Op("d2h", p, s)>>
              \/ /\ Head(queue[s]).op = "kernel"
                 /\ \/ queue[s] = <<Op("kernel", p, s)>> /\ Tail(queue[s]) = <<>>
                    \/ /\ queue[s] = <<Op("kernel", p, s), Op("d2h", p, s)>>
                       /\ Tail(queue[s]) = <<Op("d2h", p, s)>>
              \/ /\ Head(queue[s]).op = "d2h"
                 /\ queue[s] = <<Op("d2h", p, s)>> /\ Tail(queue[s]) = <<>>
<1>1. queue[s] \in Loading(p, s) \cup Computing(p, s) \cup Copying(p, s)
  BY DEF LaneInv, Issued, Owner
<1>2. p \in Path /\ p # None
  BY ForwardAssumption DEF LaneInv, TypeInv, HostType, JobType, Owner, Working
<1>3. \/ queue[s] = <<Op("load", p, s)>>
      \/ queue[s] = <<Op("load", p, s), Op("kernel", p, s)>>
      \/ queue[s] = <<Op("load", p, s), Op("kernel", p, s), Op("d2h", p, s)>>
      \/ queue[s] = <<Op("kernel", p, s)>>
      \/ queue[s] = <<Op("kernel", p, s), Op("d2h", p, s)>>
      \/ queue[s] = <<Op("d2h", p, s)>>
  BY <1>1 DEF Loading, Computing, Copying
<1>4. \A i \in DOMAIN queue[s] : queue[s][i].task = p /\ queue[s][i].slot = s
  BY <1>3, OpFields
<1>5. Head(queue[s]).task = p /\ Head(queue[s]).slot = s
  BY <1>3, OpFields, ShortLists
<1>6. CASE queue[s] = <<Op("load", p, s)>>
  BY <1>2, <1>4, <1>5, <1>6, OpFields, ShortLists
<1>7. CASE queue[s] = <<Op("load", p, s), Op("kernel", p, s)>>
  BY <1>2, <1>4, <1>5, <1>7, OpFields, ShortLists
<1>8. CASE queue[s] = <<Op("load", p, s), Op("kernel", p, s), Op("d2h", p, s)>>
  BY <1>2, <1>4, <1>5, <1>8, OpFields, ShortLists
<1>9. CASE queue[s] = <<Op("kernel", p, s)>>
  BY <1>2, <1>4, <1>5, <1>9, OpFields, ShortLists
<1>10. CASE queue[s] = <<Op("kernel", p, s), Op("d2h", p, s)>>
  BY <1>2, <1>4, <1>5, <1>10, OpFields, ShortLists
<1>11. CASE queue[s] = <<Op("d2h", p, s)>>
  BY <1>2, <1>4, <1>5, <1>11, OpFields, ShortLists
<1>12. QED
  BY <1>3, <1>6, <1>7, <1>8, <1>9, <1>10, <1>11

\* A copy of the gathered rows to the stream brings the rows of its owner.
LEMMA LoadFacts ==
    ASSUME TypeInv, LaneInv, DataInv, NEW s \in Slot, Load(s), NEW p, p = Owner(s)
    PROVE  /\ p \in Path /\ p # None
           /\ \/ queue[s] = <<Op("load", p, s)>> /\ Tail(queue[s]) = <<>>
              \/ /\ queue[s] = <<Op("load", p, s), Op("kernel", p, s)>>
                 /\ Tail(queue[s]) = <<Op("kernel", p, s)>>
              \/ /\ queue[s] = <<Op("load", p, s), Op("kernel", p, s), Op("d2h", p, s)>>
                 /\ Tail(queue[s]) = <<Op("kernel", p, s), Op("d2h", p, s)>>
           /\ queue' = [queue EXCEPT ![s] = Tail(queue[s])]
           /\ dev' = [dev EXCEPT ![s] = p]
<1>1. queue[s] # <<>> /\ Head(queue[s]).op = "load"
  BY DEF Load, Exec
<1>2. /\ p \in Path /\ p # None /\ Head(queue[s]).task = p /\ Head(queue[s]).slot = s
      /\ \/ queue[s] = <<Op("load", p, s)>> /\ Tail(queue[s]) = <<>>
         \/ /\ queue[s] = <<Op("load", p, s), Op("kernel", p, s)>>
            /\ Tail(queue[s]) = <<Op("kernel", p, s)>>
         \/ /\ queue[s] = <<Op("load", p, s), Op("kernel", p, s), Op("d2h", p, s)>>
            /\ Tail(queue[s]) = <<Op("kernel", p, s), Op("d2h", p, s)>>
  BY <1>1, LaneHead
<1>3. host_resident => pinned[s] = p
  BY <1>1 DEF DataInv, DataAt
<1>4. dev' = [dev EXCEPT ![s] = p]
  BY <1>2, <1>3 DEF Load, Exec, EntryWait
<1>5. queue' = [queue EXCEPT ![s] = Tail(queue[s])]
  BY DEF Load, Exec
<1>6. QED
  BY <1>2, <1>4, <1>5

\* The kernel makes the result of the stream's owner.
LEMMA KernelFacts ==
    ASSUME TypeInv, LaneInv, DataInv, NEW s \in Slot, Kernel(s), NEW p, p = Owner(s)
    PROVE  /\ p \in Path /\ p # None
           /\ \/ queue[s] = <<Op("kernel", p, s)>> /\ Tail(queue[s]) = <<>>
              \/ /\ queue[s] = <<Op("kernel", p, s), Op("d2h", p, s)>>
                 /\ Tail(queue[s]) = <<Op("d2h", p, s)>>
           /\ queue' = [queue EXCEPT ![s] = Tail(queue[s])]
           /\ result' = [result EXCEPT ![p] = p]
           /\ dev' = [dev EXCEPT ![s] = None]
<1>1. queue[s] # <<>> /\ Head(queue[s]).op = "kernel"
  BY DEF Kernel, Exec
<1>2. /\ p \in Path /\ p # None /\ Head(queue[s]).task = p
      /\ \/ queue[s] = <<Op("kernel", p, s)>> /\ Tail(queue[s]) = <<>>
         \/ /\ queue[s] = <<Op("kernel", p, s), Op("d2h", p, s)>>
            /\ Tail(queue[s]) = <<Op("d2h", p, s)>>
  BY <1>1, LaneHead
<1>3. dev[s] = p
  BY <1>1 DEF DataInv, DataAt
<1>4. result' = [result EXCEPT ![p] = p] /\ dev' = [dev EXCEPT ![s] = None]
  BY <1>2, <1>3 DEF Kernel
<1>5. queue' = [queue EXCEPT ![s] = Tail(queue[s])]
  BY DEF Kernel, Exec
<1>6. QED
  BY <1>2, <1>4, <1>5

\* The copy to the host puts the owner's rows in the slot's output.
LEMMA D2hFacts ==
    ASSUME TypeInv, LaneInv, DataInv, NEW s \in Slot, D2h(s), NEW p, p = Owner(s)
    PROVE  /\ p \in Path /\ p # None
           /\ queue[s] = <<Op("d2h", p, s)>> /\ Tail(queue[s]) = <<>>
           /\ queue' = [queue EXCEPT ![s] = Tail(queue[s])]
           /\ out' = [out EXCEPT ![s] = p]
           /\ result' = [result EXCEPT ![p] = None]
<1>1. queue[s] # <<>> /\ Head(queue[s]).op = "d2h"
  BY DEF D2h, Exec
<1>2. /\ p \in Path /\ p # None /\ Head(queue[s]).task = p /\ Head(queue[s]).slot = s
      /\ queue[s] = <<Op("d2h", p, s)>> /\ Tail(queue[s]) = <<>>
  BY <1>1, LaneHead
<1>3. result[p] = p
  BY <1>1 DEF DataInv, DataAt
<1>4. out' = [out EXCEPT ![s] = p] /\ result' = [result EXCEPT ![p] = None]
  BY <1>2, <1>3 DEF D2h
<1>5. queue' = [queue EXCEPT ![s] = Tail(queue[s])]
  BY DEF D2h, Exec
<1>6. QED
  BY <1>2, <1>4, <1>5


-----------------------------------------------------------------------------
\* build_tasks replaces every path by its non-empty children.
LEMMA BuildFacts ==
    ASSUME IInv, BuildLevel
    PROVE  /\ pending' \in Seq(Path) /\ Distinct(pending')
           /\ Range(pending') = UNION {Range(Kids(pending[i])) : i \in DOMAIN pending}
           /\ \A i \in DOMAIN pending' : Len(pending'[i]) = level'
           /\ level \in Nat /\ level < Deepest
<1>1. pending \in Seq(Path) /\ Distinct(pending) /\ level \in Nat /\ level < Deepest
  <2>1. level \in 0 .. Itr /\ level < Itr
    BY DEF IInv, TypeInv, HostType, BuildLevel
  <2>2. level \in Nat /\ level < Deepest
    BY <2>1, DeepestType
  <2>3. QED
    BY <2>2 DEF IInv, TypeInv, HostType, CustodyInv, CustodyPending
<1>2. \A i \in DOMAIN pending : Len(pending[i]) = level
  BY DEF IInv, PhaseInv, BuildLevel
<1>3. pending' = FlattenSeq([i \in DOMAIN pending |-> Kids(pending[i])]) /\ level' = level + 1
  BY DEF BuildLevel
<1>4. QED
  BY <1>1, <1>2, <1>3, NextLevel

\* refine_task replaces a path by its non-empty children, none of which is held.
LEMMA RefineFacts ==
    ASSUME IInv, RefineTask
    PROVE  /\ cur \in Path /\ Len(cur) < Deepest
           /\ Kids(cur) \in Seq(Path) /\ Distinct(Kids(cur))
           /\ Range(Kids(cur)) = {Append(cur, j) : j \in Chunk} \cap Nonempty
           /\ \A q \in Range(Kids(cur)) : q \in Path /\ q \notin Held /\ q # cur
<1>1. cur \in Path
  BY DEF IInv, TypeInv, HostType, PhaseInv, RefineTask
<1>2. Len(cur) < Deepest
  <2>1. Len(cur) < MaxDepth /\ Len(cur) \in Nat
    BY <1>1, PathIs DEF RefineTask
  <2>2. QED
    BY <2>1, DeepestType, MaxDepthType
<1>3. /\ Kids(cur) \in Seq(Path) /\ Distinct(Kids(cur))
      /\ Range(Kids(cur)) = {Append(cur, j) : j \in Chunk} \cap Nonempty
  BY <1>1, <1>2, KidsIs
<1>4. ASSUME NEW q \in Range(Kids(cur)) PROVE q \in Path /\ q \notin Held /\ q # cur
  <2>1. PICK j \in Chunk : q = Append(cur, j)
    BY <1>3
  <2>2. cur \in Seq(Chunk)
    BY <1>1, PathIs
  <2>3. Ancestors(q) = Ancestors(cur) \cup {q} /\ cur \in Ancestors(cur)
    BY <2>1, <2>2, ChildAncestors, AncestorsIs
  <2>4. Len(q) = Len(cur) + 1 /\ Len(cur) \in Nat
    BY <2>1, <2>2, AppendProperties
  <2>5. q # cur
    BY <2>4
  <2>6. cur \in Held
    BY <1>1 DEF Held
  <2>7. q \notin Held
    BY <2>3, <2>5, <2>6 DEF IInv, CoverInv
  <2>8. q \in Path
    BY <1>1, <1>2, <2>1, PathStep
  <2>9. QED
    BY <2>5, <2>7, <2>8
<1>5. QED
  BY <1>1, <1>2, <1>3, <1>4


-----------------------------------------------------------------------------
\* Issuing an operation, and completing the one at the head.
LEMMA PushType ==
    ASSUME TypeInv, NEW s \in Stream, NEW o \in Operation
    PROVE  [queue EXCEPT ![s] = Append(@, o)] \in [Stream -> Seq(Operation)]
  BY DEF TypeInv, QueueType

\* The first operation of a stream is done.
LEMMA PopType ==
    ASSUME TypeInv, NEW s \in Stream, NEW kind, Exec(s, kind)
    PROVE  /\ queue' = [queue EXCEPT ![s] = Tail(queue[s])]
           /\ queue' \in [Stream -> Seq(Operation)]
           /\ queue[s] # <<>> /\ Head(queue[s]) = queue[s][1] /\ 1 \in DOMAIN queue[s]
           /\ queue[s][1].op = kind /\ queue[s][1] \in Operation
           /\ Len(queue'[s]) = Len(queue[s]) - 1 /\ Len(queue[s]) \in Nat \ {0}
           /\ DOMAIN queue'[s] = 1 .. Len(queue[s]) - 1 /\ DOMAIN queue[s] = 1 .. Len(queue[s])
           /\ \A i \in DOMAIN queue'[s] : queue'[s][i] = queue[s][i+1] /\ i + 1 \in DOMAIN queue[s]
           /\ \A r \in Stream \ {s} : queue'[r] = queue[r]
<1> USE DEF TypeInv, QueueType
<1>1. queue[s] \in Seq(Operation) /\ queue[s] # <<>> /\ Head(queue[s]).op = kind
  BY DEF Exec
<1>2. queue' = [queue EXCEPT ![s] = Tail(queue[s])]
  BY DEF Exec
<1>3. Tail(queue[s]) \in Seq(Operation) /\ queue'[s] = Tail(queue[s])
  BY <1>1, <1>2
<1>4. queue' \in [Stream -> Seq(Operation)]
  BY <1>2, <1>3
<1>5. \A r \in Stream \ {s} : queue'[r] = queue[r]
  BY <1>2
<1> DEFINE q == queue[s]
           t == queue'[s]
<1>6. q \in Seq(Operation) /\ q # <<>> /\ t = Tail(q)
  BY <1>1, <1>3
<1> HIDE DEF q, t
<1>7. /\ Head(q) = q[1] /\ 1 \in DOMAIN q /\ Len(t) = Len(q) - 1 /\ Len(q) \in Nat \ {0}
      /\ DOMAIN t = 1 .. Len(q) - 1 /\ DOMAIN q = 1 .. Len(q) /\ q[1] \in Operation
      /\ \A i \in DOMAIN t : t[i] = q[i+1] /\ i + 1 \in DOMAIN q
  BY <1>6, EmptySeq
<1>8. QED
  BY <1>1, <1>2, <1>4, <1>5, <1>7 DEF q, t

\* The operations of a merge, as appended to the merge stream.
LEMMA MergeFacts ==
    ASSUME IInv, Merge
    PROVE  /\ cur \in Path /\ cur # None
           /\ queue' \in [Stream -> Seq(Operation)]
           /\ \A s \in Slot : queue'[s] = queue[s]
           /\ LET n == Len(mq)
                  k == IF accumulator = "gpu" THEN 4 ELSE 2
              IN  /\ n \in Nat /\ DOMAIN mq = 1 .. n
                  /\ Len(mq') = n + k /\ DOMAIN mq' = 1 .. n + k
                  /\ \A i \in 1 .. n : mq'[i] = mq[i]
                  /\ mq'[n+1] = Op("wait", cur, S)
                  /\ accumulator = "gpu" => mq'[n+2] = Op("read", cur, S)
                                            /\ mq'[n+3] = Op("commit", cur, S)
                  /\ mq'[n+k] = Op("done", cur, S)
<1>1. cur \in Path /\ cur # None
  BY DEF IInv, TypeInv, HostType, PhaseInv, Merge
<1>2. S \in Slot /\ MergeStream \in Stream /\ MergeStream \notin Slot /\ Slot \subseteq Stream
  BY SlotType DEF IInv
<1>4. mq \in Seq(Operation)
  BY <1>2 DEF IInv, TypeInv, QueueType, mq
<1> DEFINE ops == MergeOps(cur, S)
           w == Op("wait", cur, S)
           r == Op("read", cur, S)
           c == Op("commit", cur, S)
           d == Op("done", cur, S)
<1>5. w \in Operation /\ r \in Operation /\ c \in Operation /\ d \in Operation
  BY <1>1, <1>2 DEF Operation, Op, Kind
<1>6. ops = IF accumulator = "gpu" THEN <<w>> \o <<r, c>> \o <<d>> ELSE <<w>> \o <<d>>
  BY DEF MergeOps
<1>7. queue' = [queue EXCEPT ![MergeStream] = mq \o ops]
  BY DEF Merge, MergeQueue, mq
<1> HIDE DEF ops, w, r, c, d
<1>8. /\ ops \in Seq(Operation)
      /\ accumulator = "gpu" => /\ Len(ops) = 4
                                /\ ops[1] = w /\ ops[2] = r /\ ops[3] = c /\ ops[4] = d
      /\ accumulator # "gpu" => Len(ops) = 2 /\ ops[1] = w /\ ops[2] = d
  BY <1>5, <1>6
<1>9. mq' = mq \o ops /\ \A s \in Slot : queue'[s] = queue[s]
  BY <1>2, <1>7 DEF IInv, TypeInv, QueueType, mq
<1>10. mq \o ops \in Seq(Operation)
  BY <1>4, <1>8
<1>11. queue' \in [Stream -> Seq(Operation)]
  BY <1>2, <1>7, <1>10 DEF IInv, TypeInv, QueueType
<1> DEFINE n == Len(mq)
           k == IF accumulator = "gpu" THEN 4 ELSE 2
<1>12. n \in Nat /\ DOMAIN mq = 1 .. n
  BY <1>4
<1>13. Len(mq') = n + k /\ DOMAIN mq' = 1 .. n + k
  <2>1. k \in Nat /\ Len(ops) = k
    BY <1>8
  <2> HIDE DEF k
  <2>2. QED
    BY <1>4, <1>8, <1>9, <2>1
<1>14. \A i \in 1 .. n : mq'[i] = mq[i]
  BY <1>4, <1>8, <1>9
<1>15. \A i \in 1 .. k : mq'[n+i] = ops[i]
  BY <1>4, <1>8, <1>9
<1>16. /\ mq'[n+1] = w /\ mq'[n+k] = d
       /\ accumulator = "gpu" => mq'[n+2] = r /\ mq'[n+3] = c
  BY <1>8, <1>15
<1>17. QED
  BY <1>1, <1>9, <1>11, <1>12, <1>13, <1>14, <1>16 DEF w, r, c, d

-----------------------------------------------------------------------------
\* The three ways to add a subproblem to the accumulator: by the merge stream,
\* by the worker thread and by the host.  Each adds the rows of a subproblem
\* that was not added before.
LEMMA CommitFacts ==
    ASSUME IInv, MergeCommit(MergeStream), NEW p, p = mq[1].task
    PROVE  /\ p \in Path /\ acc[p] = 0 /\ future[p] = "none" /\ accumulator = "gpu"
           /\ acc' = [acc EXCEPT ![p] = 1]
           /\ result' = [result EXCEPT ![p] = None]
           /\ mq # <<>> /\ mq[1].op = "commit" /\ mq[1].slot \in Slot
           /\ slotDone[mq[1].slot] = p
<1> USE DEF IInv
<1>1. /\ mq # <<>> /\ Head(mq) = mq[1] /\ 1 \in DOMAIN mq
      /\ mq[1].op = "commit" /\ mq[1] \in Operation
  BY PopType, SlotType DEF MergeCommit, mq
<1>2. p \in Path /\ mq[1].slot \in Slot
  BY <1>1 DEF Operation
<1>3. Committing(p)
  BY <1>1 DEF Committing
<1>4. acc[p] = 0
  BY <1>2, <1>3 DEF CustodyInv, CustodyPending, CustodyMerged, CustodySlot, TypeInv, BufType
<1>5. accumulator = "gpu" /\ slotDone[mq[1].slot] = p
  BY <1>1 DEF MergeInv, MqGuard
<1>6. future[p] = "none"
  BY <1>2, <1>5 DEF CustodyInv, CustodyPending, CustodyMerged, CustodySlot
<1>7. queue[mq[1].slot] = <<>> /\ rmw[MergeStream] = acc
  BY <1>1 DEF MergeInv, MqHead
<1>8. result[p] = p
  BY <1>1, <1>7 DEF MergeInv, MqReady
<1>9. Head(queue[MergeStream]).task = p
  BY <1>1 DEF mq
<1>10. acc' = [acc EXCEPT ![p] = acc[p] + 1] /\ result' = [result EXCEPT ![p] = None]
  BY <1>7, <1>8, <1>9 DEF MergeCommit
<1>11. QED
  BY <1>1, <1>2, <1>4, <1>5, <1>6, <1>10

\* The worker thread adds the rows of its job's subproblem.
LEMMA WorkerFacts ==
    ASSUME IInv, WorkerMerge, NEW p, p = running.task
    PROVE  /\ p \in Path /\ acc[p] = 0 /\ future[p] = "queued" /\ accumulator = "worker"
           /\ acc' = [acc EXCEPT ![p] = 1]
<1> USE DEF IInv
<1>1. running \in Job /\ running # None
  BY DEF TypeInv, JobType, WorkerMerge
<1>2. p \in Path
  BY <1>1 DEF Job
<1>3. future[p] = "queued" /\ out[running.slot] = p
  BY <1>1 DEF JobInv, JobKind, JobQueue, JobRunning, JobFuture, JobSlot, JobDirty, Failed
<1>4. acc[p] = 0 /\ accumulator = "worker"
  BY <1>2, <1>3 DEF CustodyInv, CustodyPending, CustodyMerged, CustodySlot, TypeInv, BufType
<1>5. acc' = [acc EXCEPT ![p] = acc[p] + 1]
  BY <1>3 DEF WorkerMerge
<1>6. QED
  BY <1>2, <1>3, <1>4, <1>5

\* The host thread adds the rows of the subproblem in its hands.
LEMMA InlineFacts ==
    ASSUME IInv, Merge, accumulator = "inline"
    PROVE  /\ cur \in Path /\ acc[cur] = 0 /\ future[cur] = "none"
           /\ acc' = [acc EXCEPT ![cur] = 1]
           /\ result' = [result EXCEPT ![cur] = None]
<1> USE DEF IInv
<1>1. cur \in Path /\ cur # None /\ pc = "merge"
  BY MergeFacts DEF Merge
<1>2. S \in Slot /\ Working
  BY <1>1, SlotType DEF Working
<1>3. queue[S] = <<>>
  BY <1>1, <1>2 DEF LaneInv
<1>4. result[cur] = cur
  BY <1>1, <1>2, <1>3 DEF DataInv, DataAt
<1>5. acc[cur] = 0 /\ future[cur] = "none"
  BY <1>1 DEF CustodyInv, CustodyPending, CustodyMerged, CustodySlot, Handed, TypeInv, BufType
<1>6. acc' = [acc EXCEPT ![cur] = acc[cur] + 1] /\ result' = [result EXCEPT ![cur] = None]
  BY <1>4 DEF Merge
<1>7. QED
  BY <1>1, <1>5, <1>6

-----------------------------------------------------------------------------
\* The host's variables keep their types.
LEMMA HostTypeStep ==
    ASSUME IInv, [Next]_vars
    PROVE  HostType'
<1> USE DEF IInv, TypeInv, HostType, Control, hostVars, callVars, slotVars, bufVars, gpuVars, jobVars
<1>1. CASE BuildLevel
  <2>1. pending' \in Seq(Path)
    BY <1>1, BuildFacts
  <2>2. QED
    BY <1>1, <2>1, ItrAssumption DEF BuildLevel
<1>2. CASE StartLoop
  BY <1>2 DEF StartLoop
<1>3. CASE Pop
  BY <1>3 DEF Pop
<1>4. CASE WaitSlot
  BY <1>4 DEF WaitSlot, SlotFree
<1>5. CASE Gather
  BY <1>5 DEF Gather
<1>6. CASE Launch
  BY <1>6 DEF Launch
<1>7. CASE WaitMerge
  BY <1>7 DEF WaitMerge, Merged
<1>8. CASE WaitMergeFails
  BY <1>8 DEF WaitMergeFails
<1>9. CASE StartD2h
  BY <1>9 DEF StartD2h, OutputFree
<1>10. CASE BlockingD2h
  BY <1>10 DEF BlockingD2h
<1>11. CASE Merge
  BY <1>11 DEF Merge
<1>12. CASE HandleError
  BY <1>12 DEF HandleError, Recoverable
<1>13. CASE HandleOom
  BY <1>13 DEF HandleOom, Recoverable
<1>14. CASE Synchronize
  BY <1>14 DEF Synchronize, DeviceIdle
<1>15. CASE HalveStreams
  <2>1. nstreams' \in 1 .. NPar
    BY <1>15, ForwardAssumption DEF HalveStreams
  <2>2. cur \in Path /\ <<cur>> \in Seq(Path)
    BY <1>15 DEF HalveStreams, PhaseInv
  <2>3. pending' \in Seq(Path)
    BY <1>15, <2>2 DEF HalveStreams, Retry
  <2>4. QED
    BY <1>15, <2>1, <2>3 DEF HalveStreams, Resume
<1>16. CASE RefineTask
  <2>1. Kids(cur) \in Seq(Path)
    BY <1>16, RefineFacts
  <2>2. pending' \in Seq(Path)
    BY <1>16, <2>1 DEF RefineTask, Replace
  <2>3. QED
    BY <1>16, <2>2 DEF RefineTask, Resume
<1>17. CASE GiveUp
  BY <1>17 DEF GiveUp, Drained
<1>18. CASE LoopDone
  BY <1>18 DEF LoopDone
<1>19. CASE Return
  BY <1>19 DEF Return, Drained
<1>20. ASSUME NEW s \in Slot, DrainMerge(s) PROVE HostType'
  BY <1>20 DEF DrainMerge, Collectable, Merged
<1>21. ASSUME NEW s \in Slot, JoinMerge(s) PROVE HostType'
  BY <1>21 DEF JoinMerge, Collectable, Merged
<1>22. ASSUME NEW s \in Slot, CollectFails(s) PROVE HostType'
  BY <1>22 DEF CollectFails, Collectable, MergeFailed
<1>23. CASE ComputeFails
  BY <1>23 DEF ComputeFails, Raise
<1>24. CASE MergeFails
  BY <1>24 DEF MergeFails, Raise
<1>25. CASE CallerDone
  BY <1>25 DEF CallerDone
<1>26. ASSUME NEW s \in Slot, Load(s) PROVE HostType'
  BY <1>26 DEF Load, Exec
<1>27. ASSUME NEW s \in Slot, Kernel(s) PROVE HostType'
  BY <1>27 DEF Kernel, Exec
<1>28. ASSUME NEW s \in Slot, D2h(s) PROVE HostType'
  BY <1>28 DEF D2h, Exec
<1>29. CASE WaitCompute(MergeStream)
  BY <1>29 DEF WaitCompute, Exec
<1>30. CASE MergeRead(MergeStream)
  BY <1>30 DEF MergeRead, Exec
<1>31. CASE MergeCommit(MergeStream)
  BY <1>31 DEF MergeCommit, Exec
<1>32. CASE RecordDone(MergeStream)
  BY <1>32 DEF RecordDone, Exec
<1>33. CASE WorkerStart
  BY <1>33 DEF WorkerStart
<1>34. CASE WorkerMerge
  BY <1>34 DEF WorkerMerge
<1>35. CASE WorkerFails
  BY <1>35 DEF WorkerFails, Fail
<1>36. CASE UNCHANGED vars
  BY <1>36 DEF vars, hostVars
<1>37. QED
  BY NextCases, <1>1, <1>2, <1>3, <1>4, <1>5, <1>6, <1>7, <1>8, <1>9, <1>10, <1>11,
     <1>12, <1>13, <1>14, <1>15, <1>16, <1>17, <1>18, <1>19, <1>20, <1>21, <1>22,
     <1>23, <1>24, <1>25, <1>26, <1>27, <1>28, <1>29, <1>30, <1>31, <1>32, <1>33,
     <1>34, <1>35, <1>36

\* Streams hold operations.
LEMMA QueueTypeStep ==
    ASSUME IInv, [Next]_vars
    PROVE  QueueType'
<1> USE DEF IInv, TypeInv, QueueType, hostVars, callVars, slotVars, bufVars, gpuVars, jobVars
<1>1. CASE BuildLevel
  BY <1>1 DEF BuildLevel
<1>2. CASE StartLoop
  BY <1>2 DEF StartLoop
<1>3. CASE Pop
  BY <1>3 DEF Pop
<1>4. CASE WaitSlot
  BY <1>4 DEF WaitSlot, SlotFree
<1>5. CASE Gather
  <2>1. Op("load", cur, S) \in Operation
    BY <1>5, SlotType DEF Operation, Kind, Op, PhaseInv, HostType, Gather
  <2>2. queue' = [queue EXCEPT ![S] = Append(@, Op("load", cur, S))]
    BY <1>5 DEF Gather
  <2>3. QED
    BY <2>1, <2>2, PushType, SlotType
<1>6. CASE Launch
  <2>1. Op("kernel", cur, S) \in Operation
    BY <1>6, SlotType DEF Operation, Kind, Op, PhaseInv, HostType, Launch
  <2>2. queue' = [queue EXCEPT ![S] = Append(@, Op("kernel", cur, S))]
    BY <1>6 DEF Launch
  <2>3. QED
    BY <2>1, <2>2, PushType, SlotType
<1>7. CASE WaitMerge
  BY <1>7 DEF WaitMerge, Merged
<1>8. CASE WaitMergeFails
  BY <1>8 DEF WaitMergeFails, MergeFailed
<1>9. CASE StartD2h
  <2>1. Op("d2h", cur, S) \in Operation
    BY <1>9, SlotType DEF Operation, Kind, Op, PhaseInv, HostType, StartD2h
  <2>2. queue' = [queue EXCEPT ![S] = Append(@, Op("d2h", cur, S))]
    BY <1>9 DEF StartD2h
  <2>3. QED
    BY <2>1, <2>2, PushType, SlotType
<1>10. CASE BlockingD2h
  BY <1>10 DEF BlockingD2h
<1>11. CASE Merge
  BY <1>11, MergeFacts
<1>12. CASE HandleError
  BY <1>12 DEF HandleError, Recoverable
<1>13. CASE HandleOom
  BY <1>13 DEF HandleOom, Recoverable
<1>14. CASE Synchronize
  BY <1>14 DEF Synchronize, DeviceIdle
<1>15. CASE HalveStreams
  BY <1>15 DEF HalveStreams, Resume, Retry, Drained
<1>16. CASE RefineTask
  BY <1>16 DEF RefineTask, Resume, Replace, Drained
<1>17. CASE GiveUp
  BY <1>17 DEF GiveUp, Drained
<1>18. CASE LoopDone
  BY <1>18 DEF LoopDone
<1>19. CASE Return
  BY <1>19 DEF Return, Drained
<1>20. ASSUME NEW s \in Slot, DrainMerge(s) PROVE QueueType'
  BY <1>20 DEF DrainMerge, Collectable, Merged
<1>21. ASSUME NEW s \in Slot, JoinMerge(s) PROVE QueueType'
  BY <1>21 DEF JoinMerge, Collectable, Merged
<1>22. ASSUME NEW s \in Slot, CollectFails(s) PROVE QueueType'
  BY <1>22 DEF CollectFails, Collectable, MergeFailed
<1>23. CASE ComputeFails
  BY <1>23 DEF ComputeFails, Raise
<1>24. CASE MergeFails
  BY <1>24 DEF MergeFails, Raise
<1>25. CASE CallerDone
  BY <1>25 DEF CallerDone
<1>26. ASSUME NEW s \in Slot, Load(s) PROVE QueueType'
  BY <1>26, SlotType, PopType DEF Load
<1>27. ASSUME NEW s \in Slot, Kernel(s) PROVE QueueType'
  BY <1>27, SlotType, PopType DEF Kernel
<1>28. ASSUME NEW s \in Slot, D2h(s) PROVE QueueType'
  BY <1>28, SlotType, PopType DEF D2h
<1>29. CASE WaitCompute(MergeStream)
  BY <1>29, SlotType, PopType DEF WaitCompute
<1>30. CASE MergeRead(MergeStream)
  BY <1>30, SlotType, PopType DEF MergeRead
<1>31. CASE MergeCommit(MergeStream)
  BY <1>31, SlotType, PopType DEF MergeCommit
<1>32. CASE RecordDone(MergeStream)
  BY <1>32, SlotType, PopType DEF RecordDone
<1>33. CASE WorkerStart
  BY <1>33 DEF WorkerStart
<1>34. CASE WorkerMerge
  BY <1>34 DEF WorkerMerge
<1>35. CASE WorkerFails
  BY <1>35 DEF WorkerFails, Fail
<1>36. CASE UNCHANGED vars
  BY <1>36 DEF vars, hostVars
<1>37. QED
  BY NextCases, <1>1, <1>2, <1>3, <1>4, <1>5, <1>6, <1>7, <1>8, <1>9, <1>10, <1>11,
     <1>12, <1>13, <1>14, <1>15, <1>16, <1>17, <1>18, <1>19, <1>20, <1>21, <1>22,
     <1>23, <1>24, <1>25, <1>26, <1>27, <1>28, <1>29, <1>30, <1>31, <1>32, <1>33,
     <1>34, <1>35, <1>36

\* Buffers hold subproblems.
LEMMA BufTypeStep ==
    ASSUME IInv, [Next]_vars
    PROVE  BufType'
<1> USE DEF IInv, TypeInv, BufType, hostVars, callVars, slotVars, bufVars, gpuVars, jobVars
<1>1. CASE BuildLevel
  BY <1>1 DEF BuildLevel
<1>2. CASE StartLoop
  BY <1>2 DEF StartLoop
<1>3. CASE Pop
  BY <1>3 DEF Pop
<1>4. CASE WaitSlot
  BY <1>4 DEF WaitSlot, SlotFree
<1>5. CASE Gather
  BY <1>5, SlotType DEF HostType, PhaseInv, Gather
<1>6. CASE Launch
  BY <1>6 DEF Launch
<1>7. CASE WaitMerge
  BY <1>7 DEF WaitMerge, Merged
<1>8. CASE WaitMergeFails
  BY <1>8 DEF WaitMergeFails, MergeFailed
<1>9. CASE StartD2h
  BY <1>9 DEF StartD2h, OutputFree
<1>10. CASE BlockingD2h
  BY <1>10 DEF BlockingD2h
<1>11. CASE Merge
  <2>1. CASE accumulator = "inline"
    <3>1. cur \in Path /\ acc' = [acc EXCEPT ![cur] = 1] /\ result' = [result EXCEPT ![cur] = None]
      BY <1>11, <2>1, InlineFacts
    <3>2. QED
      BY <1>11, <3>1 DEF Merge
  <2>2. CASE accumulator # "inline"
    BY <1>11, <2>2 DEF Merge
  <2>3. QED
    BY <2>1, <2>2
<1>12. CASE HandleError
  BY <1>12 DEF HandleError, Recoverable
<1>13. CASE HandleOom
  BY <1>13 DEF HandleOom, Recoverable
<1>14. CASE Synchronize
  BY <1>14 DEF Synchronize, DeviceIdle
<1>15. CASE HalveStreams
  BY <1>15 DEF HalveStreams, Resume, Retry, Drained
<1>16. CASE RefineTask
  BY <1>16 DEF RefineTask, Resume, Replace, Drained
<1>17. CASE GiveUp
  BY <1>17 DEF GiveUp, Drained
<1>18. CASE LoopDone
  BY <1>18 DEF LoopDone
<1>19. CASE Return
  BY <1>19 DEF Return, Drained
<1>20. ASSUME NEW s \in Slot, DrainMerge(s) PROVE BufType'
  BY <1>20 DEF DrainMerge, Collectable, Merged
<1>21. ASSUME NEW s \in Slot, JoinMerge(s) PROVE BufType'
  BY <1>21 DEF JoinMerge, Collectable, Merged
<1>22. ASSUME NEW s \in Slot, CollectFails(s) PROVE BufType'
  BY <1>22 DEF CollectFails, Collectable, MergeFailed
<1>23. CASE ComputeFails
  BY <1>23 DEF ComputeFails, Raise
<1>24. CASE MergeFails
  BY <1>24 DEF MergeFails, Raise
<1>25. CASE CallerDone
  BY <1>25 DEF CallerDone
<1>26. ASSUME NEW s \in Slot, Load(s) PROVE BufType'
  <2>1. Owner(s) \in Path /\ dev' = [dev EXCEPT ![s] = Owner(s)]
    BY <1>26, LoadFacts
  <2>2. QED
    BY <1>26, <2>1 DEF Load, Exec
<1>27. ASSUME NEW s \in Slot, Kernel(s) PROVE BufType'
  <2>1. /\ Owner(s) \in Path /\ dev' = [dev EXCEPT ![s] = None]
        /\ result' = [result EXCEPT ![Owner(s)] = Owner(s)]
    BY <1>27, KernelFacts
  <2>2. QED
    BY <1>27, <2>1 DEF Kernel, Exec
<1>28. ASSUME NEW s \in Slot, D2h(s) PROVE BufType'
  <2>1. /\ Owner(s) \in Path /\ out' = [out EXCEPT ![s] = Owner(s)]
        /\ result' = [result EXCEPT ![Owner(s)] = None]
    BY <1>28, D2hFacts
  <2>2. out' \in [Slot -> Path \cup {None}] /\ result' \in [Path -> Path \cup {None}]
    BY <2>1
  <2>3. QED
    BY <1>28, <2>2 DEF D2h, Exec
<1>29. CASE WaitCompute(MergeStream)
  BY <1>29 DEF WaitCompute, Exec
<1>30. CASE MergeRead(MergeStream)
  BY <1>30, SlotType DEF MergeRead, Exec
<1>31. CASE MergeCommit(MergeStream)
  <2>1. PICK p \in Path : acc' = [acc EXCEPT ![p] = 1] /\ result' = [result EXCEPT ![p] = None]
    BY <1>31, CommitFacts
  <2>2. QED
    BY <1>31, <2>1 DEF MergeCommit, Exec
<1>32. CASE RecordDone(MergeStream)
  BY <1>32 DEF RecordDone, Exec
<1>33. CASE WorkerStart
  BY <1>33 DEF WorkerStart
<1>34. CASE WorkerMerge
  <2>1. PICK p \in Path : acc' = [acc EXCEPT ![p] = 1]
    BY <1>34, WorkerFacts
  <2>2. QED
    BY <1>34, <2>1 DEF WorkerMerge
<1>35. CASE WorkerFails
  BY <1>35 DEF WorkerFails, Fail
<1>36. CASE UNCHANGED vars
  BY <1>36 DEF vars, hostVars
<1>37. QED
  BY NextCases, <1>1, <1>2, <1>3, <1>4, <1>5, <1>6, <1>7, <1>8, <1>9, <1>10, <1>11,
     <1>12, <1>13, <1>14, <1>15, <1>16, <1>17, <1>18, <1>19, <1>20, <1>21, <1>22,
     <1>23, <1>24, <1>25, <1>26, <1>27, <1>28, <1>29, <1>30, <1>31, <1>32, <1>33,
     <1>34, <1>35, <1>36

\* Slots and merge jobs name subproblems.
LEMMA JobTypeStep ==
    ASSUME IInv, [Next]_vars
    PROVE  JobType'
<1> USE DEF IInv, TypeInv, JobType, hostVars, callVars, slotVars, bufVars, gpuVars, jobVars
<1>1. CASE BuildLevel
  BY <1>1 DEF BuildLevel
<1>2. CASE StartLoop
  BY <1>2 DEF StartLoop
<1>3. CASE Pop
  BY <1>3 DEF Pop
<1>4. CASE WaitSlot
  BY <1>4 DEF WaitSlot, SlotFree
<1>5. CASE Gather
  BY <1>5 DEF Gather
<1>6. CASE Launch
  BY <1>6 DEF Launch
<1>7. CASE WaitMerge
  BY <1>7 DEF WaitMerge, Merged
<1>8. CASE WaitMergeFails
  BY <1>8 DEF WaitMergeFails, MergeFailed
<1>9. CASE StartD2h
  BY <1>9 DEF StartD2h, OutputFree
<1>10. CASE BlockingD2h
  BY <1>10 DEF BlockingD2h
<1>11. CASE Merge
  <2>1. cur \in Path /\ S \in Slot
    BY <1>11, MergeFacts, SlotType
  <2>2. [task |-> cur, slot |-> S] \in Job
    BY <2>1 DEF Job
  <2>3. slotDone' \in [Slot -> Path \cup {None}] /\ slotMerge' \in [Slot -> Path \cup {None}]
    BY <1>11, <2>1 DEF Merge
  <2>4. future' \in [Path -> FutureState]
    BY <1>11, <2>1 DEF Merge, FutureState
  <2>5. jobs' \in Seq(Job) /\ running' \in Job \cup {None}
    BY <1>11, <2>2 DEF Merge
  <2>6. QED
    BY <2>3, <2>4, <2>5
<1>12. CASE HandleError
  BY <1>12 DEF HandleError, Recoverable
<1>13. CASE HandleOom
  BY <1>13 DEF HandleOom, Recoverable
<1>14. CASE Synchronize
  BY <1>14 DEF Synchronize, DeviceIdle
<1>15. CASE HalveStreams
  BY <1>15 DEF HalveStreams, Resume, Retry, Drained
<1>16. CASE RefineTask
  BY <1>16 DEF RefineTask, Resume, Replace, Drained
<1>17. CASE GiveUp
  BY <1>17 DEF GiveUp, Drained
<1>18. CASE LoopDone
  BY <1>18 DEF LoopDone
<1>19. CASE Return
  BY <1>19 DEF Return, Drained
<1>20. ASSUME NEW s \in Slot, DrainMerge(s) PROVE JobType'
  BY <1>20 DEF DrainMerge, Collectable, Merged
<1>21. ASSUME NEW s \in Slot, JoinMerge(s) PROVE JobType'
  BY <1>21 DEF JoinMerge, Collectable, Merged
<1>22. ASSUME NEW s \in Slot, CollectFails(s) PROVE JobType'
  BY <1>22 DEF CollectFails, Collectable, MergeFailed
<1>23. CASE ComputeFails
  BY <1>23 DEF ComputeFails, Raise
<1>24. CASE MergeFails
  BY <1>24 DEF MergeFails, Raise
<1>25. CASE CallerDone
  BY <1>25 DEF CallerDone
<1>26. ASSUME NEW s \in Slot, Load(s) PROVE JobType'
  BY <1>26 DEF Load, Exec
<1>27. ASSUME NEW s \in Slot, Kernel(s) PROVE JobType'
  BY <1>27 DEF Kernel, Exec
<1>28. ASSUME NEW s \in Slot, D2h(s) PROVE JobType'
  BY <1>28 DEF D2h, Exec
<1>29. CASE WaitCompute(MergeStream)
  BY <1>29 DEF WaitCompute, Exec
<1>30. CASE MergeRead(MergeStream)
  BY <1>30 DEF MergeRead, Exec
<1>31. CASE MergeCommit(MergeStream)
  BY <1>31 DEF MergeCommit, Exec
<1>32. CASE RecordDone(MergeStream)
  BY <1>32 DEF RecordDone, Exec
<1>33. CASE WorkerStart
  BY <1>33 DEF WorkerStart
<1>34. CASE WorkerMerge
  <2>1. running.task \in Path
    BY <1>34 DEF Job, WorkerMerge
  <2>2. future' \in [Path -> FutureState]
    BY <1>34, <2>1 DEF WorkerMerge, FutureState
  <2>3. QED
    BY <1>34, <2>2 DEF WorkerMerge
<1>35. CASE WorkerFails
  <2>1. running.task \in Path
    BY <1>35 DEF Job, WorkerFails
  <2>2. future' \in [Path -> FutureState]
    BY <1>35, <2>1 DEF WorkerFails, Fail, FutureState
  <2>3. QED
    BY <1>35, <2>2 DEF WorkerFails
<1>36. CASE UNCHANGED vars
  BY <1>36 DEF vars, hostVars
<1>37. QED
  BY NextCases, <1>1, <1>2, <1>3, <1>4, <1>5, <1>6, <1>7, <1>8, <1>9, <1>10, <1>11,
     <1>12, <1>13, <1>14, <1>15, <1>16, <1>17, <1>18, <1>19, <1>20, <1>21, <1>22,
     <1>23, <1>24, <1>25, <1>26, <1>27, <1>28, <1>29, <1>30, <1>31, <1>32, <1>33,
     <1>34, <1>35, <1>36

\* Every action keeps the types.
LEMMA TypeStep ==
    ASSUME IInv, [Next]_vars
    PROVE  TypeInv'
  BY HostTypeStep, QueueTypeStep, BufTypeStep, JobTypeStep DEF TypeInv

-----------------------------------------------------------------------------
\* What the control point says of the rest of the state.
LEMMA PhaseStep ==
    ASSUME IInv, [Next]_vars
    PROVE  PhaseInv'
<1> USE SlotType DEF IInv, PhaseInv, hostVars, callVars, slotVars, bufVars, gpuVars, jobVars
<1>1. CASE BuildLevel
  <2>1. \A i \in DOMAIN pending' : Len(pending'[i]) = level'
    BY <1>1, BuildFacts
  <2>2. QED
    BY <1>1, <2>1 DEF BuildLevel
<1>2. CASE StartLoop
  BY <1>2 DEF StartLoop
<1>3. CASE Pop
  <2>1. cur' \in Path /\ cur' # None
    BY <1>3, ForwardAssumption DEF Pop, TypeInv, HostType
  <2>2. QED
    BY <1>3, <2>1 DEF Pop
<1>4. CASE WaitSlot
  BY <1>4 DEF WaitSlot, SlotFree
<1>5. CASE Gather
  BY <1>5 DEF Gather
<1>6. CASE Launch
  BY <1>6 DEF Launch
<1>7. CASE WaitMerge
  BY <1>7 DEF WaitMerge, Merged
<1>8. CASE WaitMergeFails
  BY <1>8 DEF WaitMergeFails, MergeFailed
<1>9. CASE StartD2h
  BY <1>9 DEF StartD2h, OutputFree
<1>10. CASE BlockingD2h
  BY <1>10 DEF BlockingD2h
<1>11. CASE Merge
  <2>1. accumulator = "gpu" => acc' = acc
    BY <1>11 DEF Merge
  <2>2. QED
    BY <1>11, <2>1 DEF Merge
<1>12. CASE HandleError
  BY <1>12 DEF HandleError, Recoverable
<1>13. CASE HandleOom
  BY <1>13 DEF HandleOom, Recoverable
<1>14. CASE Synchronize
  BY <1>14 DEF Synchronize, DeviceIdle
<1>15. CASE HalveStreams
  BY <1>15 DEF HalveStreams, Resume, Retry, Drained
<1>16. CASE RefineTask
  BY <1>16 DEF RefineTask, Resume, Replace, Drained
<1>17. CASE GiveUp
  BY <1>17 DEF GiveUp, Drained
<1>18. CASE LoopDone
  BY <1>18 DEF LoopDone
<1>19. CASE Return
  <2>1. \A p \in Path : future[p] \notin {"oom", "error"}
    BY <1>19, ForwardAssumption DEF JobInv, JobKind, JobQueue, JobRunning, JobFuture, JobSlot, JobDirty, Failed, Return, Drained
  <2>2. ~dirty
    BY <1>19, <2>1 DEF JobInv, JobKind, JobQueue, JobRunning, JobFuture, JobSlot, JobDirty, Failed, Return
  <2>3. QED
    BY <1>19, <2>2 DEF Return, Drained, DeviceIdle
<1>20. ASSUME NEW s \in Slot, DrainMerge(s) PROVE PhaseInv'
  BY <1>20 DEF DrainMerge, Collectable, Merged
<1>21. ASSUME NEW s \in Slot, JoinMerge(s) PROVE PhaseInv'
  BY <1>21 DEF JoinMerge, Collectable, Merged
<1>22. ASSUME NEW s \in Slot, CollectFails(s) PROVE PhaseInv'
  BY <1>22 DEF CollectFails, Collectable, MergeFailed
<1>23. CASE ComputeFails
  BY <1>23 DEF ComputeFails, Raise
<1>24. CASE MergeFails
  BY <1>24 DEF MergeFails, Raise
<1>25. CASE CallerDone
  BY <1>25 DEF CallerDone
<1>26. ASSUME NEW s \in Slot, Load(s) PROVE PhaseInv'
  BY <1>26 DEF Load, Exec
<1>27. ASSUME NEW s \in Slot, Kernel(s) PROVE PhaseInv'
  BY <1>27 DEF Kernel, Exec
<1>28. ASSUME NEW s \in Slot, D2h(s) PROVE PhaseInv'
  BY <1>28 DEF D2h, Exec
<1>29. CASE WaitCompute(MergeStream)
  BY <1>29 DEF WaitCompute, Exec
<1>30. CASE MergeRead(MergeStream)
  BY <1>30 DEF MergeRead, Exec
<1>31. CASE MergeCommit(MergeStream)
  <2>1. caller = "idle" /\ mq # <<>>
    BY <1>31, CommitFacts DEF MergeCommit, Exec, EntryWait
  <2>2. pc # "build" /\ pc # "drain" /\ outcome # "returned"
    BY <2>1 DEF mq
  <2>3. QED
    BY <1>31, <2>1, <2>2 DEF MergeCommit, Exec
<1>32. CASE RecordDone(MergeStream)
  BY <1>32 DEF RecordDone, Exec
<1>33. CASE WorkerStart
  BY <1>33 DEF WorkerStart
<1>34. CASE WorkerMerge
  <2>1. running # None /\ accumulator = "worker" /\ future[running.task] # "none"
    BY <1>34, WorkerFacts DEF WorkerMerge
  <2>2. running.task \in Path /\ slotMerge[running.slot] # None /\ running.slot \in Slot
    BY <1>34, ForwardAssumption DEF JobInv, JobKind, JobQueue, JobRunning, JobFuture, JobSlot, JobDirty, Failed, TypeInv, JobType, Job, WorkerMerge
  <2>3. pc # "build" /\ outcome # "returned"
    BY <2>1, <2>2
  <2>4. QED
    BY <1>34, <2>1, <2>3 DEF WorkerMerge
<1>35. CASE WorkerFails
  <2>1. running # None /\ future[running.task] # "none"
    BY <1>35 DEF JobInv, JobKind, JobQueue, JobRunning, JobFuture, JobSlot, JobDirty, Failed, WorkerFails
  <2>2. running.task \in Path /\ slotMerge[running.slot] # None /\ running.slot \in Slot
    BY <1>35, ForwardAssumption DEF JobInv, JobKind, JobQueue, JobRunning, JobFuture, JobSlot, JobDirty, Failed, TypeInv, JobType, Job, WorkerFails
  <2>3. pc # "build" /\ outcome # "returned"
    BY <2>1, <2>2
  <2>4. QED
    BY <1>35, <2>3 DEF WorkerFails, Fail
<1>36. CASE UNCHANGED vars
  BY <1>36 DEF vars, hostVars
<1>37. QED
  BY NextCases, <1>1, <1>2, <1>3, <1>4, <1>5, <1>6, <1>7, <1>8, <1>9, <1>10, <1>11,
     <1>12, <1>13, <1>14, <1>15, <1>16, <1>17, <1>18, <1>19, <1>20, <1>21, <1>22,
     <1>23, <1>24, <1>25, <1>26, <1>27, <1>28, <1>29, <1>30, <1>31, <1>32, <1>33,
     <1>34, <1>35, <1>36

\* Slots beyond the number of streams stay out of use.
LEMMA SlotStep ==
    ASSUME IInv, [Next]_vars
    PROVE  SlotInv'
<1> USE SlotType DEF IInv, TypeInv, SlotInv, hostVars, callVars, slotVars, bufVars, gpuVars, jobVars
<1>1. CASE BuildLevel
  BY <1>1 DEF BuildLevel
<1>2. CASE StartLoop
  BY <1>2 DEF StartLoop
<1>3. CASE Pop
  BY <1>3 DEF Pop
<1>4. CASE WaitSlot
  BY <1>4 DEF WaitSlot, SlotFree
<1>5. CASE Gather
  BY <1>5 DEF Gather
<1>6. CASE Launch
  BY <1>6 DEF Launch
<1>7. CASE WaitMerge
  BY <1>7 DEF WaitMerge, Merged
<1>8. CASE WaitMergeFails
  BY <1>8 DEF WaitMergeFails, MergeFailed
<1>9. CASE StartD2h
  BY <1>9 DEF StartD2h, OutputFree
<1>10. CASE BlockingD2h
  BY <1>10 DEF BlockingD2h
<1>11. CASE Merge
  <2>1. \A s \in Slot : s # S => slotDone'[s] = slotDone[s] /\ slotMerge'[s] = slotMerge[s]
    BY <1>11 DEF Merge, JobType
  <2>2. nstreams' = nstreams
    BY <1>11 DEF Merge
  <2>3. S <= nstreams
    BY SlotType
  <2>4. S \in Slot /\ nstreams \in Int /\ \A s \in Slot : s \in Int
    BY SlotType, ForwardAssumption DEF Slot, HostType
  <2>5. \A s \in Slot : s > nstreams => s # S
    BY <2>3, <2>4
  <2>6. QED
    BY <2>1, <2>2, <2>5
<1>12. CASE HandleError
  BY <1>12 DEF HandleError, Recoverable
<1>13. CASE HandleOom
  BY <1>13 DEF HandleOom, Recoverable
<1>14. CASE Synchronize
  BY <1>14 DEF Synchronize, DeviceIdle
<1>15. CASE HalveStreams
  <2>1. slotDone' = [s \in Slot |-> None] /\ slotMerge' = slotMerge
    BY <1>15 DEF HalveStreams, Resume
  <2>2. \A s \in Slot : slotMerge[s] = None
    BY <1>15 DEF HalveStreams, Drained
  <2>3. QED
    BY <2>1, <2>2
<1>16. CASE RefineTask
  BY <1>16 DEF RefineTask, Resume, Replace, Drained
<1>17. CASE GiveUp
  BY <1>17 DEF GiveUp, Drained
<1>18. CASE LoopDone
  BY <1>18 DEF LoopDone
<1>19. CASE Return
  BY <1>19 DEF Return, Drained
<1>20. ASSUME NEW s \in Slot, DrainMerge(s) PROVE SlotInv'
  BY <1>20 DEF DrainMerge, Collectable, Merged
<1>21. ASSUME NEW s \in Slot, JoinMerge(s) PROVE SlotInv'
  BY <1>21 DEF JoinMerge, Collectable, Merged
<1>22. ASSUME NEW s \in Slot, CollectFails(s) PROVE SlotInv'
  BY <1>22 DEF CollectFails, Collectable, MergeFailed
<1>23. CASE ComputeFails
  BY <1>23 DEF ComputeFails, Raise
<1>24. CASE MergeFails
  BY <1>24 DEF MergeFails, Raise
<1>25. CASE CallerDone
  BY <1>25 DEF CallerDone
<1>26. ASSUME NEW s \in Slot, Load(s) PROVE SlotInv'
  BY <1>26 DEF Load, Exec
<1>27. ASSUME NEW s \in Slot, Kernel(s) PROVE SlotInv'
  BY <1>27 DEF Kernel, Exec
<1>28. ASSUME NEW s \in Slot, D2h(s) PROVE SlotInv'
  BY <1>28 DEF D2h, Exec
<1>29. CASE WaitCompute(MergeStream)
  BY <1>29 DEF WaitCompute, Exec
<1>30. CASE MergeRead(MergeStream)
  BY <1>30 DEF MergeRead, Exec
<1>31. CASE MergeCommit(MergeStream)
  BY <1>31 DEF MergeCommit, Exec
<1>32. CASE RecordDone(MergeStream)
  BY <1>32 DEF RecordDone, Exec
<1>33. CASE WorkerStart
  BY <1>33 DEF WorkerStart
<1>34. CASE WorkerMerge
  BY <1>34 DEF WorkerMerge
<1>35. CASE WorkerFails
  BY <1>35 DEF WorkerFails, Fail
<1>36. CASE UNCHANGED vars
  BY <1>36 DEF vars, hostVars
<1>37. QED
  BY NextCases, <1>1, <1>2, <1>3, <1>4, <1>5, <1>6, <1>7, <1>8, <1>9, <1>10, <1>11,
     <1>12, <1>13, <1>14, <1>15, <1>16, <1>17, <1>18, <1>19, <1>20, <1>21, <1>22,
     <1>23, <1>24, <1>25, <1>26, <1>27, <1>28, <1>29, <1>30, <1>31, <1>32, <1>33,
     <1>34, <1>35, <1>36

-----------------------------------------------------------------------------
\* Operations leave a worker stream from the front and join it at the back.
LEMMA LaneMoves ==
    ASSUME NEW p, NEW s, NEW q
    PROVE  /\ q \in Loading(p, s) /\ q # <<>> => Tail(q) \in Loading(p, s)
           /\ q \in Computing(p, s) /\ q # <<>> => Tail(q) \in Computing(p, s)
           /\ q \in Copying(p, s) /\ q # <<>> => Tail(q) \in Copying(p, s)
           /\ Append(<<>>, Op("load", p, s)) \in Loading(p, s)
           /\ q \in Loading(p, s) => Append(q, Op("kernel", p, s)) \in Computing(p, s)
           /\ q \in Computing(p, s) => Append(q, Op("d2h", p, s)) \in Copying(p, s)
<1> DEFINE l == Op("load", p, s)
           k == Op("kernel", p, s)
           d == Op("d2h", p, s)
<1>1. /\ Loading(p, s) = {<<>>, <<l>>}
      /\ Computing(p, s) = {<<>>, <<k>>, <<l, k>>}
      /\ Copying(p, s) = {<<>>, <<d>>, <<k, d>>, <<l, k, d>>}
  BY DEF Loading, Computing, Copying
<1> HIDE DEF l, k, d
<1>2. /\ Tail(<<l>>) = <<>> /\ Tail(<<k>>) = <<>> /\ Tail(<<l, k>>) = <<k>>
      /\ Tail(<<d>>) = <<>> /\ Tail(<<k, d>>) = <<d>> /\ Tail(<<l, k, d>>) = <<k, d>>
      /\ Append(<<>>, l) = <<l>> /\ Append(<<>>, k) = <<k>> /\ Append(<<l>>, k) = <<l, k>>
      /\ Append(<<>>, d) = <<d>> /\ Append(<<k>>, d) = <<k, d>>
      /\ Append(<<l, k>>, d) = <<l, k, d>>
  BY ShortLists
<1>3. q \in Loading(p, s) /\ q # <<>> => Tail(q) \in Loading(p, s)
  BY <1>1, <1>2, Zenon
<1>4. q \in Computing(p, s) /\ q # <<>> => Tail(q) \in Computing(p, s)
  BY <1>1, <1>2, Zenon
<1>5. q \in Copying(p, s) /\ q # <<>> => Tail(q) \in Copying(p, s)
  BY <1>1, <1>2, Zenon
<1>6. Append(<<>>, l) \in Loading(p, s)
  BY <1>1, <1>2, Zenon
<1>7. q \in Loading(p, s) => Append(q, k) \in Computing(p, s)
  BY <1>1, <1>2, Zenon
<1>8. q \in Computing(p, s) => Append(q, d) \in Copying(p, s)
  BY <1>1, <1>2, Zenon
<1>9. QED
  BY <1>3, <1>4, <1>5, <1>6, <1>7, <1>8 DEF l, k, d

\* Reuse of a slot waits for the merge of the subproblem that had it, which had
\* waited for its stream.
LEMMA SlotFreeFacts ==
    ASSUME IInv, WaitSlot
    PROVE  queue[S] = <<>> /\ \A i \in DOMAIN mq : mq[i].slot # S
<1> USE DEF IInv
<1>1. S \in Slot /\ ~Working
  BY SlotType DEF WaitSlot, Working
<1>2. ASSUME NEW i \in DOMAIN mq PROVE mq[i].slot # S
  <2>1. mq[i] \in Operation
    BY SlotType DEF TypeInv, QueueType, mq
  <2>2. mq[i].task = slotDone[mq[i].slot] /\ mq[i].task \in Path
    BY <2>1 DEF MergeInv, MqGuard, Operation
  <2>3. slotDone[S] = None \/ slotDone[S] # mq[i].task
    BY DEF WaitSlot, SlotFree, MergeDone, mq
  <2>4. QED
    BY <2>2, <2>3, ForwardAssumption
<1>3. queue[S] = <<>>
  BY <1>1, <1>2 DEF MergeInv, MqReady
<1>4. QED
  BY <1>2, <1>3

\* Every action keeps the worker streams in order.
LEMMA LaneStep ==
    ASSUME IInv, [Next]_vars
    PROVE  LaneInv'
<1> USE SlotType DEF IInv, TypeInv, LaneInv, Working, Issued, hostVars, callVars, slotVars, bufVars, gpuVars, jobVars
<1>1. CASE BuildLevel
  BY <1>1 DEF BuildLevel
<1>2. CASE StartLoop
  BY <1>2 DEF StartLoop
<1>3. CASE Pop
  <2>1. ~Working /\ ~Working' /\ UNCHANGED <<queue, slotDone, accumulator>>
    BY <1>3 DEF Pop, PhaseInv
  <2>2. QED
    BY <2>1
<1>4. CASE WaitSlot
  <2>1. queue[S] = <<>>
    BY <1>4, SlotFreeFacts
  <2>2. \A p : <<>> \in Loading(p, S) /\ <<>> \in Computing(p, S)
    BY DEF Loading, Computing
  <2>3. QED
    BY <1>4, <2>1, <2>2 DEF WaitSlot
<1>5. CASE Gather
  <2>1. queue'[S] = Append(queue[S], Op("load", cur, S)) /\ S \in Slot /\ Working
    BY <1>5, SlotType DEF Gather, QueueType, PhaseInv
  <2>2. \A s \in Slot : s # S => queue'[s] = queue[s]
    BY <1>5, SlotType DEF Gather, QueueType
  <2>3. UNCHANGED <<accumulator, cur, slotDone, slot, nstreams>> /\ S' = S /\ Working'
    BY <1>5, <2>1, SlotType DEF Gather
  <2>4. queue[S] = <<>>
    BY <1>5, <2>1 DEF Gather
  <2>5. queue'[S] \in Loading(cur, S)
    BY <2>1, <2>4, LaneMoves
  <2>6. \A q \in Computing(cur, S) \cup Loading(cur, S) : q \in Loading(cur, S) \cup Computing(cur, S)
    OBVIOUS
  <2>7. QED
    BY <1>5, <2>1, <2>2, <2>3, <2>5 DEF Gather
<1>6. CASE Launch
  <2>1. queue'[S] = Append(queue[S], Op("kernel", cur, S)) /\ S \in Slot /\ Working
    BY <1>6, SlotType DEF Launch, QueueType, PhaseInv
  <2>2. \A s \in Slot : s # S => queue'[s] = queue[s]
    BY <1>6, SlotType DEF Launch, QueueType
  <2>3. UNCHANGED <<accumulator, cur, slotDone, slot, nstreams>> /\ S' = S /\ Working'
    BY <1>6, <2>1, SlotType DEF Launch
  <2>4. queue[S] \in Loading(cur, S)
    BY <1>6, <2>1 DEF Launch
  <2>5. queue'[S] \in Computing(cur, S)
    BY <2>1, <2>4, LaneMoves
  <2>6. \A q \in Computing(cur, S) \cup Loading(cur, S) : q \in Loading(cur, S) \cup Computing(cur, S)
    OBVIOUS
  <2>7. QED
    BY <1>6, <2>1, <2>2, <2>3, <2>5 DEF Launch
<1>7. CASE WaitMerge
  BY <1>7 DEF WaitMerge, Merged
<1>8. CASE WaitMergeFails
  BY <1>8 DEF WaitMergeFails, MergeFailed
<1>9. CASE StartD2h
  <2>1. queue'[S] = Append(queue[S], Op("d2h", cur, S)) /\ S \in Slot /\ Working
    BY <1>9, SlotType DEF StartD2h, QueueType, PhaseInv
  <2>2. \A s \in Slot : s # S => queue'[s] = queue[s]
    BY <1>9, SlotType DEF StartD2h, QueueType
  <2>3. UNCHANGED <<accumulator, cur, slotDone, slot, nstreams>> /\ S' = S /\ Working'
    BY <1>9, <2>1, SlotType DEF StartD2h
  <2>4. queue[S] \in Computing(cur, S)
    BY <1>9, <2>1 DEF StartD2h
  <2>5. queue'[S] \in Copying(cur, S)
    BY <2>1, <2>4, LaneMoves
  <2>6. \A q \in Computing(cur, S) \cup Loading(cur, S) : q \in Loading(cur, S) \cup Computing(cur, S)
    OBVIOUS
  <2>7. QED
    BY <1>9, <2>1, <2>2, <2>3, <2>5 DEF StartD2h
<1>10. CASE BlockingD2h
  BY <1>10 DEF BlockingD2h
<1>11. CASE Merge
  <2>1. \A s \in Slot : queue'[s] = queue[s]
    BY <1>11, MergeFacts
  <2>2. /\ ~Working' /\ accumulator' = accumulator /\ pc = "merge" /\ Working
        /\ slotDone' = [slotDone EXCEPT ![S] = cur]
    BY <1>11 DEF Merge, PhaseInv
  <2>3. slotDone'[S] = cur /\ \A s \in Slot : s # S => slotDone'[s] = slotDone[s]
    BY <2>2, SlotType DEF JobType
  <2>4. cur # None
    BY <1>11, MergeFacts
  <2>5. QED
    BY <2>1, <2>2, <2>3, <2>4, SlotType
<1>12. CASE HandleError
  BY <1>12 DEF HandleError, Recoverable
<1>13. CASE HandleOom
  BY <1>13 DEF HandleOom, Recoverable
<1>14. CASE Synchronize
  BY <1>14 DEF Synchronize, DeviceIdle
<1>15. CASE HalveStreams
  <2>1. slotDone' = [s \in Slot |-> None] /\ ~Working' /\ queue' = queue
    BY <1>15 DEF HalveStreams, Resume
  <2>2. \A s \in Slot : queue[s] = <<>>
    BY <1>15, SlotType DEF HalveStreams, PhaseInv
  <2>3. QED
    BY <2>1, <2>2
<1>16. CASE RefineTask
  <2>1. slotDone' = [s \in Slot |-> None] /\ ~Working' /\ queue' = queue
    BY <1>16 DEF RefineTask, Resume
  <2>2. \A s \in Slot : queue[s] = <<>>
    BY <1>16, SlotType DEF RefineTask, PhaseInv
  <2>3. QED
    BY <2>1, <2>2
<1>17. CASE GiveUp
  BY <1>17 DEF GiveUp, Drained
<1>18. CASE LoopDone
  BY <1>18 DEF LoopDone
<1>19. CASE Return
  BY <1>19 DEF Return, Drained
<1>20. ASSUME NEW s \in Slot, DrainMerge(s) PROVE LaneInv'
  BY <1>20 DEF DrainMerge, Collectable, Merged
<1>21. ASSUME NEW s \in Slot, JoinMerge(s) PROVE LaneInv'
  BY <1>21 DEF JoinMerge, Collectable, Merged
<1>22. ASSUME NEW s \in Slot, CollectFails(s) PROVE LaneInv'
  BY <1>22 DEF CollectFails, Collectable, MergeFailed
<1>23. CASE ComputeFails
  BY <1>23 DEF ComputeFails, Raise
<1>24. CASE MergeFails
  BY <1>24 DEF MergeFails, Raise
<1>25. CASE CallerDone
  BY <1>25 DEF CallerDone
<1>26. ASSUME NEW s \in Slot, Load(s) PROVE LaneInv'
  <2> DEFINE p == Owner(s)
  <2>1. p \in Path /\ p = Owner(s)
    BY <1>26, LoadFacts
  <2> HIDE DEF p
  <2>2. \A r \in Slot : r # s => queue'[r] = queue[r]
    BY <1>26, LoadFacts, SlotType DEF QueueType
  <2>3. UNCHANGED <<accumulator, cur, pc, slotDone, slot, nstreams>> /\ S' = S
    BY <1>26, SlotType DEF Load, Exec
  <2>4. s \in Slot /\ queue'[s] = Tail(queue[s])
    BY <1>26, LoadFacts, SlotType DEF QueueType
  <2>5. /\ queue[s] \in Loading(p, s) => queue'[s] \in Loading(p, s)
        /\ queue[s] \in Computing(p, s) => queue'[s] \in Computing(p, s)
        /\ queue[s] \in Copying(p, s) => queue'[s] \in Copying(p, s)
        /\ queue[s] # <<>>
    <3>1. queue[s] # <<>>
      BY <1>26 DEF Load, Exec
    <3>2. QED
      BY <2>4, <3>1, LaneMoves
  <2>6. p = IF s = S /\ Working THEN cur ELSE slotDone[s]
    BY <2>1 DEF Owner
  <2>7. QED
    BY <2>2, <2>3, <2>4, <2>5, <2>6
<1>27. ASSUME NEW s \in Slot, Kernel(s) PROVE LaneInv'
  <2> DEFINE p == Owner(s)
  <2>1. p \in Path /\ p = Owner(s)
    BY <1>27, KernelFacts
  <2> HIDE DEF p
  <2>2. \A r \in Slot : r # s => queue'[r] = queue[r]
    BY <1>27, KernelFacts, SlotType DEF QueueType
  <2>3. UNCHANGED <<accumulator, cur, pc, slotDone, slot, nstreams>> /\ S' = S
    BY <1>27, SlotType DEF Kernel, Exec
  <2>4. s \in Slot /\ queue'[s] = Tail(queue[s])
    BY <1>27, KernelFacts, SlotType DEF QueueType
  <2>5. /\ queue[s] \in Loading(p, s) => queue'[s] \in Loading(p, s)
        /\ queue[s] \in Computing(p, s) => queue'[s] \in Computing(p, s)
        /\ queue[s] \in Copying(p, s) => queue'[s] \in Copying(p, s)
        /\ queue[s] # <<>>
    <3>1. queue[s] # <<>>
      BY <1>27 DEF Kernel, Exec
    <3>2. QED
      BY <2>4, <3>1, LaneMoves
  <2>6. p = IF s = S /\ Working THEN cur ELSE slotDone[s]
    BY <2>1 DEF Owner
  <2>7. QED
    BY <2>2, <2>3, <2>4, <2>5, <2>6
<1>28. ASSUME NEW s \in Slot, D2h(s) PROVE LaneInv'
  <2> DEFINE p == Owner(s)
  <2>1. p \in Path /\ p = Owner(s)
    BY <1>28, D2hFacts
  <2> HIDE DEF p
  <2>2. \A r \in Slot : r # s => queue'[r] = queue[r]
    BY <1>28, D2hFacts, SlotType DEF QueueType
  <2>3. UNCHANGED <<accumulator, cur, pc, slotDone, slot, nstreams>> /\ S' = S
    BY <1>28, SlotType DEF D2h, Exec
  <2>4. s \in Slot /\ queue'[s] = Tail(queue[s])
    BY <1>28, D2hFacts, SlotType DEF QueueType
  <2>5. /\ queue[s] \in Loading(p, s) => queue'[s] \in Loading(p, s)
        /\ queue[s] \in Computing(p, s) => queue'[s] \in Computing(p, s)
        /\ queue[s] \in Copying(p, s) => queue'[s] \in Copying(p, s)
        /\ queue[s] # <<>>
    <3>1. queue[s] # <<>>
      BY <1>28 DEF D2h, Exec
    <3>2. QED
      BY <2>4, <3>1, LaneMoves
  <2>6. p = IF s = S /\ Working THEN cur ELSE slotDone[s]
    BY <2>1 DEF Owner
  <2>7. QED
    BY <2>2, <2>3, <2>4, <2>5, <2>6
<1>29. CASE WaitCompute(MergeStream)
  <2>1. UNCHANGED <<accumulator, cur, pc, slotDone, slot, nstreams>> /\ S' = S
    BY <1>29, SlotType DEF WaitCompute, Exec
  <2>2. \A s \in Slot : queue'[s] = queue[s]
    BY <1>29, PopType, SlotType DEF WaitCompute
  <2>3. QED
    BY <2>1, <2>2
<1>30. CASE MergeRead(MergeStream)
  <2>1. UNCHANGED <<accumulator, cur, pc, slotDone, slot, nstreams>> /\ S' = S
    BY <1>30, SlotType DEF MergeRead, Exec
  <2>2. \A s \in Slot : queue'[s] = queue[s]
    BY <1>30, PopType, SlotType DEF MergeRead
  <2>3. QED
    BY <2>1, <2>2
<1>31. CASE MergeCommit(MergeStream)
  <2>1. UNCHANGED <<accumulator, cur, pc, slotDone, slot, nstreams>> /\ S' = S
    BY <1>31, SlotType DEF MergeCommit, Exec
  <2>2. \A s \in Slot : queue'[s] = queue[s]
    BY <1>31, PopType, SlotType DEF MergeCommit
  <2>3. QED
    BY <2>1, <2>2
<1>32. CASE RecordDone(MergeStream)
  <2>1. UNCHANGED <<accumulator, cur, pc, slotDone, slot, nstreams>> /\ S' = S
    BY <1>32, SlotType DEF RecordDone, Exec
  <2>2. \A s \in Slot : queue'[s] = queue[s]
    BY <1>32, PopType, SlotType DEF RecordDone
  <2>3. QED
    BY <2>1, <2>2
<1>33. CASE WorkerStart
  BY <1>33 DEF WorkerStart
<1>34. CASE WorkerMerge
  BY <1>34 DEF WorkerMerge
<1>35. CASE WorkerFails
  BY <1>35 DEF WorkerFails, Fail
<1>36. CASE UNCHANGED vars
  BY <1>36 DEF vars, hostVars
<1>37. QED
  BY NextCases, <1>1, <1>2, <1>3, <1>4, <1>5, <1>6, <1>7, <1>8, <1>9, <1>10, <1>11,
     <1>12, <1>13, <1>14, <1>15, <1>16, <1>17, <1>18, <1>19, <1>20, <1>21, <1>22,
     <1>23, <1>24, <1>25, <1>26, <1>27, <1>28, <1>29, <1>30, <1>31, <1>32, <1>33,
     <1>34, <1>35, <1>36

-----------------------------------------------------------------------------
\* No two streams work for the same subproblem.
LEMMA OwnerInjective ==
    ASSUME IInv, NEW s \in Slot, NEW r \in Slot, Owner(s) = Owner(r), Owner(s) # None
    PROVE  s = r
<1> USE DEF IInv, CustodyInv, CustodyPending, CustodyMerged, CustodySlot, Owner
<1>1. CASE s = S /\ Working /\ r # S
  BY <1>1 DEF Working
<1>2. CASE r = S /\ Working /\ s # S
  BY <1>2 DEF Working
<1>3. QED
  BY <1>1, <1>2

\* The first operation stays first when another one joins.
LEMMA HeadStays ==
    ASSUME NEW q \in Seq(Operation), NEW o
    PROVE  Head(Append(q, o)) = IF q = <<>> THEN o ELSE Head(q)
  BY HeadTailAppend

\* Every action keeps the rows where they are read next.
LEMMA DataStep ==
    ASSUME IInv, [Next]_vars
    PROVE  DataInv'
<1> USE SlotType DEF IInv, TypeInv, DataInv, DataAt, Owner, Working, hostVars, callVars, slotVars, bufVars, gpuVars, jobVars
<1>1. CASE BuildLevel
  BY <1>1 DEF BuildLevel
<1>2. CASE StartLoop
  BY <1>2 DEF StartLoop
<1>3. CASE Pop
  <2>1. ~Working /\ ~Working' /\ UNCHANGED <<queue, slotDone, pinned, dev, result, out, host_resident>>
    BY <1>3 DEF Pop, PhaseInv
  <2>2. QED
    BY <2>1
<1>4. CASE WaitSlot
  <2>1. queue[S] = <<>>
    BY <1>4, SlotFreeFacts
  <2>2. QED
    BY <1>4, <2>1 DEF WaitSlot
<1>5. CASE Gather
  <2>1. queue'[S] = Append(queue[S], Op("load", cur, S)) /\ S \in Slot /\ Working
    BY <1>5, SlotType DEF Gather, QueueType, PhaseInv
  <2>2. \A s \in Slot : s # S => queue'[s] = queue[s]
    BY <1>5, SlotType DEF Gather, QueueType
  <2>3. UNCHANGED <<host_resident, cur, slotDone, slot, nstreams, dev, result, out>> /\ S' = S /\ Working'
    BY <1>5, <2>1, SlotType DEF Gather
  <2>4. queue[S] \in Seq(Operation)
    BY SlotType DEF QueueType
  <2>5. Head(queue'[S]) = IF queue[S] = <<>> THEN Op("load", cur, S) ELSE Head(queue[S])
    BY <2>1, <2>4, HeadStays
  <2>6. queue'[S] # <<>>
    <3>1. Op("load", cur, S) \in Operation
      BY <2>1, SlotType DEF Operation, Kind, Op, HostType
    <3>2. QED
      BY <2>1, <2>4, <3>1, AppendProperties
  <2>7. queue[S] = <<>> /\ pinned' = IF host_resident THEN [pinned EXCEPT ![S] = cur] ELSE pinned
    BY <1>5, <2>1 DEF Gather, LaneInv
  <2>8. host_resident => pinned'[S] = cur /\ \A s \in Slot : s # S => pinned'[s] = pinned[s]
    BY <2>1, <2>7 DEF BufType
  <2>9. \A s \in Slot : s # S => (host_resident => pinned'[s] = pinned[s])
    BY <2>8
  <2>10. QED
    BY <2>1, <2>2, <2>3, <2>5, <2>6, <2>7, <2>8, <2>9, OpFields
<1>6. CASE Launch
  <2>1. queue'[S] = Append(queue[S], Op("kernel", cur, S)) /\ S \in Slot /\ Working
    BY <1>6, SlotType DEF Launch, QueueType, PhaseInv
  <2>2. \A s \in Slot : s # S => queue'[s] = queue[s]
    BY <1>6, SlotType DEF Launch, QueueType
  <2>3. UNCHANGED <<host_resident, cur, slotDone, slot, nstreams, dev, result, out>> /\ S' = S /\ Working'
    BY <1>6, <2>1, SlotType DEF Launch
  <2>4. queue[S] \in Seq(Operation)
    BY SlotType DEF QueueType
  <2>5. Head(queue'[S]) = IF queue[S] = <<>> THEN Op("kernel", cur, S) ELSE Head(queue[S])
    BY <2>1, <2>4, HeadStays
  <2>6. queue'[S] # <<>>
    <3>1. Op("kernel", cur, S) \in Operation
      BY <2>1, SlotType DEF Operation, Kind, Op, HostType
    <3>2. QED
      BY <2>1, <2>4, <3>1, AppendProperties
  <2>7. queue[S] = <<>> => dev[S] = cur
    BY <1>6, <2>1 DEF Launch
  <2>8. pinned' = pinned
    BY <1>6 DEF Launch
  <2>9. QED
    BY <2>1, <2>2, <2>3, <2>5, <2>6, <2>7, <2>8, OpFields
<1>7. CASE WaitMerge
  BY <1>7 DEF WaitMerge, Merged
<1>8. CASE WaitMergeFails
  BY <1>8 DEF WaitMergeFails, MergeFailed
<1>9. CASE StartD2h
  <2>1. queue'[S] = Append(queue[S], Op("d2h", cur, S)) /\ S \in Slot /\ Working
    BY <1>9, SlotType DEF StartD2h, QueueType, PhaseInv
  <2>2. \A s \in Slot : s # S => queue'[s] = queue[s]
    BY <1>9, SlotType DEF StartD2h, QueueType
  <2>3. UNCHANGED <<host_resident, cur, slotDone, slot, nstreams, dev, result, out>> /\ S' = S /\ Working'
    BY <1>9, <2>1, SlotType DEF StartD2h
  <2>4. queue[S] \in Seq(Operation)
    BY SlotType DEF QueueType
  <2>5. Head(queue'[S]) = IF queue[S] = <<>> THEN Op("d2h", cur, S) ELSE Head(queue[S])
    BY <2>1, <2>4, HeadStays
  <2>6. queue'[S] # <<>>
    <3>1. Op("d2h", cur, S) \in Operation
      BY <2>1, SlotType DEF Operation, Kind, Op, HostType
    <3>2. QED
      BY <2>1, <2>4, <3>1, AppendProperties
  <2>7. queue[S] = <<>> => result[cur] = cur
    BY <1>9, <2>1 DEF StartD2h
  <2>8. pinned' = pinned
    BY <1>9 DEF StartD2h
  <2>9. QED
    BY <2>1, <2>2, <2>3, <2>5, <2>6, <2>7, <2>8, OpFields
<1>10. CASE BlockingD2h
  BY <1>10 DEF BlockingD2h
<1>11. CASE Merge
  <2>1. \A s \in Slot : queue'[s] = queue[s]
    BY <1>11, MergeFacts
  <2>2. /\ ~Working' /\ pc = "merge" /\ Working /\ cur \in Path
        /\ slotDone'[S] = cur /\ \A s \in Slot : s # S => slotDone'[s] = slotDone[s]
    BY <1>11, SlotType DEF Merge, PhaseInv, HostType, JobType
  <2>3. UNCHANGED <<host_resident, pinned, dev, out>>
    BY <1>11 DEF Merge
  <2>4. \A s \in Slot : Owner(s)' = Owner(s)
    BY <2>2
  <2>5. ASSUME NEW s \in Slot, queue[s] # <<>>, Head(queue[s]).op = "d2h"
        PROVE  result'[Owner(s)] = Owner(s)
    <3>1. result[Owner(s)] = Owner(s)
      BY <2>5
    <3>2. CASE accumulator = "inline"
      <4>1. result' = [result EXCEPT ![cur] = None] /\ queue[S] = <<>>
        BY <1>11, <2>2, <3>2, InlineFacts, SlotType DEF LaneInv
      <4>2. Owner(s) # cur
        <5>1. Owner(S) = cur /\ cur # None /\ S # s
          BY <2>2, <2>5, <4>1
        <5>2. QED
          BY <5>1, OwnerInjective, SlotType
      <4>3. Owner(s) \in Path
        BY <2>5, LaneHead
      <4>4. QED
        BY <3>1, <4>1, <4>2, <4>3 DEF BufType
    <3>3. CASE accumulator # "inline"
      BY <1>11, <3>1, <3>3 DEF Merge
    <3>4. QED
      BY <3>2, <3>3
  <2> HIDE DEF Owner
  <2>6. QED
    BY <2>1, <2>2, <2>3, <2>4, <2>5
<1>12. CASE HandleError
  BY <1>12 DEF HandleError, Recoverable
<1>13. CASE HandleOom
  BY <1>13 DEF HandleOom, Recoverable
<1>14. CASE Synchronize
  BY <1>14 DEF Synchronize, DeviceIdle
<1>15. CASE HalveStreams
  <2>1. ~Working' /\ queue' = queue
    BY <1>15 DEF HalveStreams, Resume
  <2>2. \A s \in Slot : queue[s] = <<>>
    BY <1>15, SlotType DEF HalveStreams, PhaseInv
  <2>3. QED
    BY <2>1, <2>2
<1>16. CASE RefineTask
  <2>1. ~Working' /\ queue' = queue
    BY <1>16 DEF RefineTask, Resume
  <2>2. \A s \in Slot : queue[s] = <<>>
    BY <1>16, SlotType DEF RefineTask, PhaseInv
  <2>3. QED
    BY <2>1, <2>2
<1>17. CASE GiveUp
  BY <1>17 DEF GiveUp, Drained
<1>18. CASE LoopDone
  BY <1>18 DEF LoopDone
<1>19. CASE Return
  BY <1>19 DEF Return, Drained
<1>20. ASSUME NEW s \in Slot, DrainMerge(s) PROVE DataInv'
  BY <1>20 DEF DrainMerge, Collectable, Merged
<1>21. ASSUME NEW s \in Slot, JoinMerge(s) PROVE DataInv'
  BY <1>21 DEF JoinMerge, Collectable, Merged
<1>22. ASSUME NEW s \in Slot, CollectFails(s) PROVE DataInv'
  BY <1>22 DEF CollectFails, Collectable, MergeFailed
<1>23. CASE ComputeFails
  BY <1>23 DEF ComputeFails, Raise
<1>24. CASE MergeFails
  BY <1>24 DEF MergeFails, Raise
<1>25. CASE CallerDone
  BY <1>25 DEF CallerDone
<1>26. ASSUME NEW s \in Slot, Load(s) PROVE DataInv'
  <2> DEFINE p == Owner(s)
  <2>1. UNCHANGED <<host_resident, cur, pc, accumulator, slotDone, slot, nstreams, pinned>> /\ S' = S
    BY <1>26, SlotType DEF Load, Exec
  <2>2. \A r \in Slot : Owner(r)' = Owner(r)
    BY <2>1
  <2>3. p \in Path /\ p # None
    BY <1>26, LoadFacts
  <2>4. s \in Slot /\ queue'[s] = Tail(queue[s]) /\ \A r \in Slot : r # s => queue'[r] = queue[r]
    BY <1>26, LoadFacts, SlotType DEF QueueType
  <2>5. dev'[s] = p /\ \A r \in Slot : r # s => dev'[r] = dev[r]
    BY <1>26, LoadFacts DEF BufType
  <2>6. UNCHANGED <<result, out>>
    BY <1>26 DEF Load
  <2>7. queue'[s] = <<>> \/ Head(queue'[s]).op = "kernel"
    BY <1>26, <2>4, LoadFacts, ShortLists, OpFields
  <2>8. ~(s = S /\ Working /\ queue'[s] = <<>> /\ pc \in {"d2h", "merge"})
    <3>1. queue[s] # <<>> /\ Head(queue[s]).op = "load"
      BY <1>26 DEF Load, Exec
    <3>2. CASE s = S /\ Working /\ pc \in {"d2h", "merge"}
      <4>1. queue[s] \in Computing(cur, s) \cup Copying(cur, s)
        BY <3>2 DEF LaneInv, Issued
      <4>2. ASSUME queue[s] = <<Op("load", p, s)>> PROVE FALSE
        <5>1. Len(queue[s]) = 1 /\ queue[s][1].op = "load"
          BY <4>2, OpFields
        <5>2. queue[s] \in {<<Op("kernel", cur, s)>>, <<Op("d2h", cur, s)>>}
          BY <4>1, <5>1 DEF Computing, Copying
        <5>3. QED
          BY <5>1, <5>2, OpFields
      <4>3. QED
        BY <1>26, <2>4, <4>2, LoadFacts, ShortLists
    <3>3. QED
      BY <3>2
  <2>9. s = S /\ Working => p = cur
    OBVIOUS
  <2> HIDE DEF p
  <2>10. p = Owner(s)
    BY DEF p
  <2> HIDE DEF Owner
  <2>11. QED
    BY <2>1, <2>2, <2>4, <2>5, <2>6, <2>7, <2>8, <2>9, <2>10
<1>27. ASSUME NEW s \in Slot, Kernel(s) PROVE DataInv'
  <2> DEFINE p == Owner(s)
  <2>1. UNCHANGED <<host_resident, cur, pc, accumulator, slotDone, slot, nstreams, pinned>> /\ S' = S
    BY <1>27, SlotType DEF Kernel, Exec
  <2>2. \A r \in Slot : Owner(r)' = Owner(r)
    BY <2>1
  <2>3. p \in Path /\ p # None
    BY <1>27, KernelFacts
  <2>4. s \in Slot /\ queue'[s] = Tail(queue[s]) /\ \A r \in Slot : r # s => queue'[r] = queue[r]
    BY <1>27, KernelFacts, SlotType DEF QueueType
  <2>5. \A r \in Slot : r # s => dev'[r] = dev[r]
    BY <1>27, KernelFacts DEF BufType
  <2>6. result'[p] = p /\ \A q \in Path : q # p => result'[q] = result[q]
    BY <1>27, <2>3, KernelFacts DEF BufType
  <2>7. out' = out
    BY <1>27 DEF Kernel
  <2>8. queue'[s] = <<>> \/ Head(queue'[s]).op = "d2h"
    BY <1>27, <2>4, KernelFacts, ShortLists, OpFields
  <2>9. \A q \in Path : result[q] = q => result'[q] = q
    BY <2>6
  <2>10. ~(s = S /\ Working /\ queue'[s] = <<>> /\
            (pc = "launch" \/ (pc = "merge" /\ accumulator = "worker")))
    <3>1. queue[s] # <<>> /\ Head(queue[s]).op = "kernel"
      BY <1>27 DEF Kernel, Exec
    <3>2. CASE s = S /\ Working /\ (pc = "launch" \/ (pc = "merge" /\ accumulator = "worker"))
      <4>1. queue[s] \in Loading(cur, s) \cup Copying(cur, s)
        BY <3>2 DEF LaneInv, Issued
      <4>2. ASSUME queue[s] = <<Op("kernel", p, s)>> PROVE FALSE
        <5>1. Len(queue[s]) = 1 /\ queue[s][1].op = "kernel"
          BY <4>2, OpFields
        <5>2. queue[s] \in {<<>>, <<Op("load", cur, s)>>, <<Op("d2h", cur, s)>>}
          BY <4>1, <5>1 DEF Loading, Copying
        <5>3. QED
          BY <5>1, <5>2, OpFields
      <4>3. QED
        BY <1>27, <2>4, <4>2, KernelFacts, ShortLists
    <3>3. QED
      BY <3>2
  <2>11. \A r \in Slot : r # s /\ queue[r] # <<>> => Owner(r) \in Path
    BY LaneHead
  <2>12. Working => cur \in Path
    BY DEF HostType
  <2>13. s = S /\ Working => p = cur
    OBVIOUS
  <2> HIDE DEF p
  <2>14. p = Owner(s)
    BY DEF p
  <2> HIDE DEF Owner
  <2>15. ASSUME NEW r \in Slot, r # s PROVE DataAt(r)'
    BY <2>1, <2>2, <2>4, <2>5, <2>6, <2>7, <2>9, <2>11, <2>12, <2>15
  <2>16. DataAt(s)'
    BY <2>1, <2>2, <2>4, <2>6, <2>7, <2>8, <2>10, <2>13, <2>14
  <2>17. QED
    BY <2>15, <2>16 DEF DataInv
<1>28. ASSUME NEW s \in Slot, D2h(s) PROVE DataInv'
  <2> DEFINE p == Owner(s)
  <2>1. UNCHANGED <<host_resident, cur, pc, accumulator, slotDone, slot, nstreams, pinned>> /\ S' = S
    BY <1>28, SlotType DEF D2h, Exec
  <2>2. \A r \in Slot : Owner(r)' = Owner(r)
    BY <2>1
  <2>3. p \in Path /\ p # None
    BY <1>28, D2hFacts
  <2>4. s \in Slot /\ queue'[s] = Tail(queue[s]) /\ \A r \in Slot : r # s => queue'[r] = queue[r]
    BY <1>28, D2hFacts, SlotType DEF QueueType
  <2>5. out'[s] = p /\ \A r \in Slot : r # s => out'[r] = out[r]
    BY <1>28, D2hFacts DEF BufType
  <2>6. \A q \in Path : q # p => result'[q] = result[q]
    BY <1>28, <2>3, D2hFacts DEF BufType
  <2>7. dev' = dev
    BY <1>28 DEF D2h
  <2>8. queue'[s] = <<>>
    BY <1>28, <2>4, D2hFacts
  <2>9. \A r \in Slot : r # s => Owner(r) # p
    BY <2>3, OwnerInjective
  <2>10. s = S /\ Working => pc \notin {"launch", "d2h"} /\ (pc = "merge" => accumulator = "worker")
    <3>1. queue[s] = <<Op("d2h", p, s)>>
      BY <1>28, D2hFacts
    <3>2. CASE s = S /\ Working /\ (pc \in {"launch", "d2h"} \/ (pc = "merge" /\ accumulator # "worker"))
      <4>1. queue[s] \in Loading(cur, s) \cup Computing(cur, s)
        BY <3>2 DEF LaneInv, Issued
      <4>2. Len(queue[s]) = 1 /\ queue[s][1].op = "d2h"
        BY <3>1, OpFields
      <4>3. queue[s] \in {<<Op("load", cur, s)>>, <<Op("kernel", cur, s)>>}
        BY <4>1, <4>2 DEF Loading, Computing
      <4>4. QED
        BY <4>2, <4>3, OpFields
    <3>3. QED
      BY <3>2
  <2>11. \A r \in Slot : r # s /\ queue[r] # <<>> => Owner(r) \in Path
    BY LaneHead
  <2>12. Working => cur \in Path /\ Owner(S) = cur
    BY SlotType DEF HostType
  <2>13. s = S /\ Working => p = cur
    OBVIOUS
  <2> HIDE DEF p
  <2>14. p = Owner(s)
    BY DEF p
  <2> HIDE DEF Owner
  <2>15. QED
    BY <2>1, <2>2, <2>4, <2>5, <2>6, <2>7, <2>8, <2>9, <2>10, <2>11, <2>12, <2>13, <2>14
<1>29. CASE WaitCompute(MergeStream)
  <2>1. UNCHANGED <<host_resident, accumulator, cur, pc, slotDone, slot, nstreams>> /\ S' = S
    BY <1>29, SlotType DEF WaitCompute, Exec
  <2>2. \A s \in Slot : queue'[s] = queue[s]
    BY <1>29, PopType, SlotType DEF WaitCompute
  <2>3. UNCHANGED <<pinned, dev, out>>
    BY <1>29 DEF WaitCompute, Exec
  <2>4. result' = result
    BY <1>29 DEF WaitCompute, Exec
  <2>5. QED
    BY <2>1, <2>2, <2>3, <2>4
<1>30. CASE MergeRead(MergeStream)
  <2>1. UNCHANGED <<host_resident, accumulator, cur, pc, slotDone, slot, nstreams>> /\ S' = S
    BY <1>30, SlotType DEF MergeRead, Exec
  <2>2. \A s \in Slot : queue'[s] = queue[s]
    BY <1>30, PopType, SlotType DEF MergeRead
  <2>3. UNCHANGED <<pinned, dev, out>>
    BY <1>30 DEF MergeRead, Exec
  <2>4. result' = result
    BY <1>30 DEF MergeRead, Exec
  <2>5. QED
    BY <2>1, <2>2, <2>3, <2>4
<1>31. CASE MergeCommit(MergeStream)
  <2>1. UNCHANGED <<host_resident, accumulator, cur, pc, slotDone, slot, nstreams>> /\ S' = S
    BY <1>31, SlotType DEF MergeCommit, Exec
  <2>2. \A s \in Slot : queue'[s] = queue[s]
    BY <1>31, PopType, SlotType DEF MergeCommit
  <2>3. UNCHANGED <<pinned, dev, out>>
    BY <1>31 DEF MergeCommit, Exec
  <2>4. PICK p \in Path : /\ p = mq[1].task /\ result' = [result EXCEPT ![p] = None]
                          /\ mq # <<>> /\ mq[1].op = "commit" /\ mq[1].slot \in Slot
                          /\ slotDone[mq[1].slot] = p
    BY <1>31, CommitFacts
  <2>5. \A q \in Path : q # p => result'[q] = result[q]
    BY <2>4 DEF BufType
  <2>6. Working => cur # p /\ cur \in Path
    <3>1. Committing(p)
      <4>1. 1 \in DOMAIN mq
        BY <1>31, PopType, SlotType DEF MergeCommit, mq
      <4>2. QED
        BY <2>4, <4>1 DEF Committing
    <3>2. QED
      BY <3>1 DEF CustodyInv, CustodyPending, CustodyMerged, CustodySlot, Handed, HostType
  <2>7. queue[mq[1].slot] = <<>>
    BY <2>4 DEF MergeInv, MqHead
  <2>8. \A s \in Slot : queue[s] # <<>> => Owner(s) # p /\ Owner(s) \in Path
    <3> SUFFICES ASSUME NEW s \in Slot, queue[s] # <<>>, Owner(s) = p PROVE FALSE
      BY LaneHead
    <3>1. ~(s = S /\ Working)
      BY <2>6
    <3>2. slotDone[s] = slotDone[mq[1].slot] /\ slotDone[s] # None
      BY <2>4, <3>1, ForwardAssumption
    <3>3. s = mq[1].slot
      BY <2>4, <3>2 DEF CustodyInv, CustodyPending, CustodyMerged, CustodySlot
    <3>4. QED
      BY <2>7, <3>3
  <2>9. QED
    BY <2>1, <2>2, <2>3, <2>5, <2>6, <2>8
<1>32. CASE RecordDone(MergeStream)
  <2>1. UNCHANGED <<host_resident, accumulator, cur, pc, slotDone, slot, nstreams>> /\ S' = S
    BY <1>32, SlotType DEF RecordDone, Exec
  <2>2. \A s \in Slot : queue'[s] = queue[s]
    BY <1>32, PopType, SlotType DEF RecordDone
  <2>3. UNCHANGED <<pinned, dev, out>>
    BY <1>32 DEF RecordDone, Exec
  <2>4. result' = result
    BY <1>32 DEF RecordDone, Exec
  <2>5. QED
    BY <2>1, <2>2, <2>3, <2>4
<1>33. CASE WorkerStart
  BY <1>33 DEF WorkerStart
<1>34. CASE WorkerMerge
  BY <1>34 DEF WorkerMerge
<1>35. CASE WorkerFails
  BY <1>35 DEF WorkerFails, Fail
<1>36. CASE UNCHANGED vars
  BY <1>36 DEF vars, hostVars
<1>37. QED
  BY NextCases, <1>1, <1>2, <1>3, <1>4, <1>5, <1>6, <1>7, <1>8, <1>9, <1>10, <1>11,
     <1>12, <1>13, <1>14, <1>15, <1>16, <1>17, <1>18, <1>19, <1>20, <1>21, <1>22,
     <1>23, <1>24, <1>25, <1>26, <1>27, <1>28, <1>29, <1>30, <1>31, <1>32, <1>33,
     <1>34, <1>35, <1>36

-----------------------------------------------------------------------------
\* What the merge stream holds.
LEMMA MqType ==
    ASSUME TypeInv
    PROVE  /\ mq \in Seq(Operation) /\ Len(mq) \in Nat /\ DOMAIN mq = 1 .. Len(mq)
           /\ \A i \in DOMAIN mq : mq[i] \in Operation /\ mq[i].task \in Path
                                   /\ mq[i].slot \in Slot /\ mq[i].op \in Kind
           /\ mq # <<>> => 1 \in DOMAIN mq
<1>1. mq \in Seq(Operation)
  BY SlotType DEF TypeInv, QueueType, mq
<1>2. \A i \in DOMAIN mq : mq[i] \in Operation
  BY <1>1
<1>3. QED
  BY <1>1, <1>2, EmptySeq DEF Operation

\* Completing the operation at the head of the merge stream.
LEMMA MqPop ==
    ASSUME TypeInv, NEW kind, Exec(MergeStream, kind)
    PROVE  /\ mq # <<>> /\ 1 \in DOMAIN mq /\ mq[1].op = kind
           /\ Head(queue[MergeStream]) = mq[1]
           /\ Len(mq') = Len(mq) - 1 /\ Len(mq) \in Nat \ {0}
           /\ DOMAIN mq' = 1 .. Len(mq) - 1 /\ DOMAIN mq = 1 .. Len(mq)
           /\ \A i \in DOMAIN mq' : mq'[i] = mq[i+1] /\ i + 1 \in DOMAIN mq
           /\ mq' # <<>> => 1 \in DOMAIN mq'
           /\ \A s \in Slot : queue'[s] = queue[s]
           /\ UNCHANGED <<accumulator, slotDone, cur, pc, slot, nstreams, Working>> /\ S' = S
<1>1. UNCHANGED <<accumulator, slotDone, cur, pc, slot, nstreams>> /\ S' = S
  BY SlotType DEF Exec, hostVars, callVars, slotVars
<1>2. /\ queue[MergeStream] # <<>> /\ Head(queue[MergeStream]) = queue[MergeStream][1]
      /\ queue' \in [Stream -> Seq(Operation)]
      /\ 1 \in DOMAIN queue[MergeStream] /\ queue[MergeStream][1].op = kind
      /\ Len(queue'[MergeStream]) = Len(queue[MergeStream]) - 1
      /\ Len(queue[MergeStream]) \in Nat \ {0}
      /\ DOMAIN queue'[MergeStream] = 1 .. Len(queue[MergeStream]) - 1
      /\ DOMAIN queue[MergeStream] = 1 .. Len(queue[MergeStream])
      /\ \A i \in DOMAIN queue'[MergeStream] :
            queue'[MergeStream][i] = queue[MergeStream][i+1] /\ i + 1 \in DOMAIN queue[MergeStream]
      /\ \A r \in Stream \ {MergeStream} : queue'[r] = queue[r]
  BY PopType, SlotType
<1>3. queue'[MergeStream] # <<>> => 1 \in DOMAIN queue'[MergeStream]
  BY <1>2, SlotType, EmptySeq
<1>4. \A s \in Slot : queue'[s] = queue[s]
  BY <1>2, SlotType
<1>5. QED
  BY <1>1, <1>2, <1>3, <1>4 DEF mq, Working

\* Every action keeps the merge stream in order.
LEMMA MergeStep ==
    ASSUME IInv, [Next]_vars
    PROVE  MergeInv'
<1> USE SlotType DEF IInv, TypeInv, MergeInv, hostVars, callVars, slotVars, bufVars, gpuVars, jobVars
<1>1. CASE BuildLevel
  BY <1>1 DEF BuildLevel, MqGuard, MqOrder, MqHead, MqReady, mq, After, Working
<1>2. CASE StartLoop
  BY <1>2 DEF StartLoop, MqGuard, MqOrder, MqHead, MqReady, mq, After, Working
<1>3. CASE Pop
  <2>1. ~Working /\ ~Working' /\ UNCHANGED <<accumulator, queue, slotDone, result, rmw, acc>>
    BY <1>3 DEF Pop, PhaseInv, Working
  <2>2. QED
    BY <2>1 DEF MqGuard, MqOrder, MqHead, MqReady, mq, After
<1>4. CASE WaitSlot
  <2>1. UNCHANGED <<accumulator, queue, slotDone, result, rmw, acc>> /\ S' = S
    BY <1>4 DEF WaitSlot
  <2>2. ~Working /\ \A i \in DOMAIN mq : mq[i].slot # S
    BY <1>4, SlotFreeFacts DEF WaitSlot, Working
  <2>3. QED
    BY <2>1, <2>2 DEF MqGuard, MqOrder, MqHead, MqReady, mq, After
<1>5. CASE Gather
  <2>1. /\ UNCHANGED <<accumulator, slotDone, result, rmw, acc, mq>> /\ S' = S
        /\ Working /\ Working' /\ \A s \in Slot : s # S => queue'[s] = queue[s]
    BY <1>5, SlotType DEF Gather, QueueType, PhaseInv, Working, mq
  <2>2. \A i \in DOMAIN mq : mq[i].slot # S /\ mq[i].slot \in Slot
    BY <2>1, MqType DEF MqGuard
  <2>3. \A i \in DOMAIN mq : queue'[mq[i].slot] = queue[mq[i].slot]
    BY <2>1, <2>2
  <2>4. MqGuard' /\ MqOrder'
    BY <2>1 DEF MqGuard, MqOrder, After
  <2>5. MqHead' /\ MqReady'
    BY <2>1, <2>3, MqType DEF MqHead, MqReady
  <2>6. QED
    BY <2>4, <2>5
<1>6. CASE Launch
  <2>1. /\ UNCHANGED <<accumulator, slotDone, result, rmw, acc, mq>> /\ S' = S
        /\ Working /\ Working' /\ \A s \in Slot : s # S => queue'[s] = queue[s]
    BY <1>6, SlotType DEF Launch, QueueType, PhaseInv, Working, mq
  <2>2. \A i \in DOMAIN mq : mq[i].slot # S /\ mq[i].slot \in Slot
    BY <2>1, MqType DEF MqGuard
  <2>3. \A i \in DOMAIN mq : queue'[mq[i].slot] = queue[mq[i].slot]
    BY <2>1, <2>2
  <2>4. MqGuard' /\ MqOrder'
    BY <2>1 DEF MqGuard, MqOrder, After
  <2>5. MqHead' /\ MqReady'
    BY <2>1, <2>3, MqType DEF MqHead, MqReady
  <2>6. QED
    BY <2>4, <2>5
<1>7. CASE WaitMerge
  BY <1>7 DEF WaitMerge, Merged, MqGuard, MqOrder, MqHead, MqReady, mq, After, Working
<1>8. CASE WaitMergeFails
  BY <1>8 DEF WaitMergeFails, MergeFailed, MqGuard, MqOrder, MqHead, MqReady, mq, After, Working
<1>9. CASE StartD2h
  <2>1. /\ UNCHANGED <<accumulator, slotDone, result, rmw, acc, mq>> /\ S' = S
        /\ Working /\ Working' /\ \A s \in Slot : s # S => queue'[s] = queue[s]
    BY <1>9, SlotType DEF StartD2h, QueueType, PhaseInv, Working, mq
  <2>2. \A i \in DOMAIN mq : mq[i].slot # S /\ mq[i].slot \in Slot
    BY <2>1, MqType DEF MqGuard
  <2>3. \A i \in DOMAIN mq : queue'[mq[i].slot] = queue[mq[i].slot]
    BY <2>1, <2>2
  <2>4. MqGuard' /\ MqOrder'
    BY <2>1 DEF MqGuard, MqOrder, After
  <2>5. MqHead' /\ MqReady'
    BY <2>1, <2>3, MqType DEF MqHead, MqReady
  <2>6. QED
    BY <2>4, <2>5
<1>10. CASE BlockingD2h
  BY <1>10 DEF BlockingD2h, MqGuard, MqOrder, MqHead, MqReady, mq, After, Working
<1>11. CASE Merge
  <2> DEFINE n == Len(mq)
             k == IF accumulator = "gpu" THEN 4 ELSE 2
  <2>1. /\ n \in Nat /\ DOMAIN mq = 1 .. n
        /\ Len(mq') = n + k /\ DOMAIN mq' = 1 .. n + k
        /\ \A i \in 1 .. n : mq'[i] = mq[i]
        /\ mq'[n+1] = Op("wait", cur, S)
        /\ accumulator = "gpu" => mq'[n+2] = Op("read", cur, S) /\ mq'[n+3] = Op("commit", cur, S)
        /\ mq'[n+k] = Op("done", cur, S)
        /\ \A s \in Slot : queue'[s] = queue[s]
        /\ cur \in Path /\ cur # None
    BY <1>11, MergeFacts
  <2>2. /\ ~Working' /\ Working /\ accumulator' = accumulator /\ S \in Slot /\ pc = "merge"
        /\ slotDone'[S] = cur /\ \A s \in Slot : s # S => slotDone'[s] = slotDone[s]
    BY <1>11, SlotType DEF Merge, PhaseInv, JobType, Working
  <2>3. \A i \in 1 .. n : mq[i].slot \in Slot /\ mq[i].slot # S
    BY <2>1, <2>2, MqType DEF MqGuard
  <2>4. \A i \in 1 .. n + k : i \in 1 .. n \/ (/\ i \in {n+1, n+2, n+3, n+4} /\ mq'[i].slot = S
                                             /\ mq'[i].task = cur)
    <3> SUFFICES ASSUME NEW i \in 1 .. n + k, i \notin 1 .. n
                 PROVE  i \in {n+1, n+2, n+3, n+4} /\ mq'[i].slot = S /\ mq'[i].task = cur
      OBVIOUS
    <3>1. CASE accumulator = "gpu"
      <4>1. i \in {n+1, n+2, n+3, n+4} /\ k = 4
        BY <2>1, <3>1
      <4>2. \E kind : mq'[i] = Op(kind, cur, S)
        BY <2>1, <3>1, <4>1
      <4>3. QED
        BY <4>1, <4>2, OpFields
    <3>2. CASE accumulator # "gpu"
      <4>1. i \in {n+1, n+2} /\ k = 2
        BY <2>1, <3>2
      <4>2. \E kind : mq'[i] = Op(kind, cur, S)
        BY <2>1, <4>1
      <4>3. QED
        BY <4>1, <4>2, OpFields
    <3>3. QED
      BY <3>1, <3>2
  <2>5. /\ mq'[n+1].op = "wait" /\ mq'[n+k].op = "done"
        /\ accumulator = "gpu" => mq'[n+2].op = "read" /\ mq'[n+3].op = "commit"
    BY <2>1, OpFields
  <2>6. k = IF accumulator = "gpu" THEN 4 ELSE 2
    OBVIOUS
  <2> HIDE DEF Working, n, k
  <2>7. \A i \in 1 .. n + k : i \notin 1 .. n =>
           \/ i = n + 1 /\ mq'[i].op = "wait"
           \/ i = n + 2 /\ accumulator = "gpu" /\ mq'[i].op = "read"
           \/ i = n + 3 /\ accumulator = "gpu" /\ mq'[i].op = "commit"
           \/ i = n + k /\ mq'[i].op = "done"
    BY <2>1, <2>5, <2>6
  <2>8. MqGuard'
    <3> SUFFICES ASSUME NEW i \in 1 .. n + k
                 PROVE  /\ \/ mq'[i].op \in {"wait", "done"}
                           \/ (accumulator = "gpu" /\ mq'[i].op \in {"read", "commit"})
                        /\ mq'[i].task = slotDone'[mq'[i].slot]
      BY <2>1, <2>2 DEF MqGuard
    <3>1. CASE i \in 1 .. n
      BY <2>1, <2>2, <2>3, <3>1 DEF MqGuard
    <3>2. CASE i \notin 1 .. n
      BY <2>2, <2>4, <2>7, <3>2
    <3>3. QED
      BY <3>1, <3>2
  <2>9. MqOrder'
    <3>1. ASSUME NEW i \in 1 .. n + k, mq'[i].op = "done"
          PROVE  i = n + k \/ mq'[i+1].op = "wait"
      <4>1. CASE i \in 1 .. n
        <5>1. i = n \/ mq[i+1].op = "wait"
          BY <2>1, <3>1, <4>1 DEF MqOrder, n
        <5>2. i = n \/ i + 1 \in 1 .. n
          BY <2>1, <4>1
        <5>3. QED
          BY <2>1, <2>5, <5>1, <5>2
      <4>2. CASE i \notin 1 .. n
        BY <2>7, <3>1, <4>2
      <4>3. QED
        BY <4>1, <4>2
    <3>2. ASSUME NEW i \in 1 .. n + k, mq'[i].op # "done"
          PROVE  /\ i < n + k
                 /\ mq'[i+1].op = After(mq'[i].op)
                 /\ mq'[i+1].task = mq'[i].task /\ mq'[i+1].slot = mq'[i].slot
      <4>1. CASE i \in 1 .. n
        <5>1. /\ i < n /\ mq[i+1].op = After(mq[i].op)
              /\ mq[i+1].task = mq[i].task /\ mq[i+1].slot = mq[i].slot
          BY <2>1, <3>2, <4>1 DEF MqOrder, n
        <5>2. i + 1 \in 1 .. n /\ i < n + k
          BY <2>1, <2>6, <4>1, <5>1
        <5>3. QED
          BY <2>1, <4>1, <5>1, <5>2
      <4>2. CASE i \notin 1 .. n
        <5>1. i + 1 \in 1 .. n + k /\ i + 1 \notin 1 .. n /\ i < n + k
          BY <2>1, <2>6, <2>7, <3>2, <4>2
        <5>2. /\ mq'[i+1].task = cur /\ mq'[i+1].slot = S
              /\ mq'[i].task = cur /\ mq'[i].slot = S
          BY <2>4, <4>2, <5>1
        <5>3. mq'[i+1].op = After(mq'[i].op)
          BY <2>1, <2>5, <2>6, <2>7, <3>2, <4>2 DEF After
        <5>4. QED
          BY <5>1, <5>2, <5>3
      <4>3. QED
        BY <4>1, <4>2
    <3>3. ASSUME NEW i \in 1 .. n + k, NEW j \in 1 .. n + k,
                 mq'[i].op = mq'[j].op, mq'[i].slot = mq'[j].slot
          PROVE  i = j
      <4>1. CASE i \in 1 .. n /\ j \in 1 .. n
        BY <2>1, <3>3, <4>1 DEF MqOrder
      <4>2. CASE i \notin 1 .. n /\ j \notin 1 .. n
        BY <2>6, <2>7, <3>3, <4>2
      <4>3. QED
        BY <2>1, <2>3, <2>4, <3>3, <4>1, <4>2
    <3>4. \A x : After(x)' = After(x)
      BY <2>2 DEF After
    <3>5. QED
      BY <2>1, <2>2, <3>1, <3>2, <3>3, <3>4 DEF MqOrder, After
  <2>10. rmw' = rmw
    BY <1>11 DEF Merge
  <2>11. MqHead'
    <3>1. CASE n = 0
      BY <2>1, <2>5, <3>1 DEF MqHead
    <3>2. CASE n # 0
      <4>1. 1 \in 1 .. n /\ mq'[1] = mq[1] /\ mq # <<>>
        BY <2>1, <3>2
      <4>2. mq[1].op = "commit" => accumulator = "gpu"
        BY <2>1, <4>1 DEF MqGuard
      <4>3. accumulator = "gpu" => acc' = acc
        BY <1>11 DEF Merge
      <4>4. queue'[mq[1].slot] = queue[mq[1].slot]
        BY <2>1, <2>3, <4>1
      <4>5. QED
        BY <2>10, <4>1, <4>2, <4>3, <4>4 DEF MqHead
    <3>3. QED
      BY <3>1, <3>2
  <2>12. MqReady'
    <3>1. ASSUME NEW s \in Slot, queue'[s] # <<>>
          PROVE  \E i \in 1 .. n + k : mq'[i].op = "wait" /\ mq'[i].slot = s
      <4>1. CASE s = S
        <5>1. n + 1 \in 1 .. n + k /\ n + 1 \notin 1 .. n
          BY <2>1, <2>6
        <5>2. mq'[n+1].slot = S
          BY <2>4, <5>1
        <5>3. QED
          BY <2>5, <4>1, <5>1, <5>2
      <4>2. CASE s # S
        <5>1. PICK i \in 1 .. n : mq[i].op = "wait" /\ mq[i].slot = s
          BY <2>1, <3>1, <4>2 DEF MqReady
        <5>2. i \in 1 .. n + k
          BY <2>1, <2>6
        <5>3. QED
          BY <2>1, <5>1, <5>2
      <4>3. QED
        BY <4>1, <4>2
    <3>2. ASSUME NEW i \in 1 .. n + k, mq'[i].op = "commit", queue'[mq'[i].slot] = <<>>
          PROVE  result'[mq'[i].task] = mq'[i].task
      <4>1. accumulator = "gpu"
        BY <2>8, <2>1, <2>2, <3>2 DEF MqGuard
      <4>2. result' = result
        BY <1>11, <4>1 DEF Merge
      <4>3. CASE i \in 1 .. n
        BY <2>1, <2>3, <3>2, <4>2, <4>3 DEF MqReady
      <4>4. CASE i \notin 1 .. n
        <5>1. mq'[i].slot = S /\ mq'[i].task = cur
          BY <2>4, <4>4
        <5>2. queue[S] = <<>>
          BY <2>1, <2>2, <3>2, <5>1
        <5>3. result[cur] = cur
          BY <2>2, <4>1, <5>2 DEF DataInv, DataAt
        <5>4. QED
          BY <4>2, <5>1, <5>3
      <4>5. QED
        BY <4>3, <4>4
    <3>3. QED
      BY <2>1, <2>2, <3>1, <3>2 DEF MqReady
  <2>13. QED
    BY <2>8, <2>9, <2>11, <2>12
<1>12. CASE HandleError
  BY <1>12 DEF HandleError, Recoverable, MqGuard, MqOrder, MqHead, MqReady, mq, After, Working
<1>13. CASE HandleOom
  BY <1>13 DEF HandleOom, Recoverable, MqGuard, MqOrder, MqHead, MqReady, mq, After, Working
<1>14. CASE Synchronize
  BY <1>14 DEF Synchronize, DeviceIdle, MqGuard, MqOrder, MqHead, MqReady, mq, After, Working
<1>15. CASE HalveStreams
  <2>1. mq = <<>> /\ mq' = <<>> /\ \A s \in Slot : queue'[s] = <<>>
    BY <1>15, SlotType DEF HalveStreams, Resume, PhaseInv, mq
  <2>2. QED
    BY <2>1 DEF MqGuard, MqOrder, MqHead, MqReady
<1>16. CASE RefineTask
  <2>1. mq = <<>> /\ mq' = <<>> /\ \A s \in Slot : queue'[s] = <<>>
    BY <1>16, SlotType DEF RefineTask, Resume, PhaseInv, mq
  <2>2. QED
    BY <2>1 DEF MqGuard, MqOrder, MqHead, MqReady
<1>17. CASE GiveUp
  BY <1>17 DEF GiveUp, Drained, MqGuard, MqOrder, MqHead, MqReady, mq, After, Working
<1>18. CASE LoopDone
  BY <1>18 DEF LoopDone, MqGuard, MqOrder, MqHead, MqReady, mq, After, Working
<1>19. CASE Return
  BY <1>19 DEF Return, Drained, MqGuard, MqOrder, MqHead, MqReady, mq, After, Working
<1>20. ASSUME NEW s \in Slot, DrainMerge(s) PROVE MergeInv'
  BY <1>20 DEF DrainMerge, Collectable, Merged, MqGuard, MqOrder, MqHead, MqReady, mq, After, Working
<1>21. ASSUME NEW s \in Slot, JoinMerge(s) PROVE MergeInv'
  BY <1>21 DEF JoinMerge, Collectable, Merged, MqGuard, MqOrder, MqHead, MqReady, mq, After, Working
<1>22. ASSUME NEW s \in Slot, CollectFails(s) PROVE MergeInv'
  BY <1>22 DEF CollectFails, Collectable, MergeFailed, MqGuard, MqOrder, MqHead, MqReady, mq, After, Working
<1>23. CASE ComputeFails
  BY <1>23 DEF ComputeFails, Raise, MqGuard, MqOrder, MqHead, MqReady, mq, After, Working
<1>24. CASE MergeFails
  BY <1>24 DEF MergeFails, Raise, MqGuard, MqOrder, MqHead, MqReady, mq, After, Working
<1>25. CASE CallerDone
  <2>1. accumulator = "gpu" => acc' = acc
    BY <1>25 DEF CallerDone, PhaseInv
  <2>2. UNCHANGED <<accumulator, queue, slotDone, cur, pc, slot, nstreams, rmw, result>> /\ S' = S
    BY <1>25 DEF CallerDone
  <2>3. MqHead'
    BY <2>1, <2>2, MqType DEF MqHead, MqGuard, mq
  <2>4. QED
    BY <2>2, <2>3 DEF MqGuard, MqOrder, MqReady, mq, After, Working
<1>26. ASSUME NEW s \in Slot, Load(s) PROVE MergeInv'
  <2> DEFINE p == Owner(s)
  <2>1. /\ UNCHANGED <<accumulator, slotDone, cur, pc, slot, nstreams, rmw, acc, Working>> /\ S' = S
        /\ queue[s] # <<>>
    BY <1>26, SlotType DEF Load, Exec, Working
  <2>2. /\ p \in Path /\ p # None /\ queue'[s] = Tail(queue[s]) /\ mq' = mq
        /\ \A r \in Slot : r # s => queue'[r] = queue[r]
    BY <1>26, LoadFacts, SlotType DEF QueueType, mq
  <2>3. MqGuard' /\ MqOrder'
    BY <2>1, <2>2 DEF MqGuard, MqOrder, After
  <2>4. MqHead'
    BY <2>1, <2>2, MqType DEF MqHead
  <2>5. \A r \in Slot : queue'[r] # <<>> => queue[r] # <<>>
    BY <2>1, <2>2
  <2>6. ~(s = S /\ Working) => queue'[s] # <<>>
    <3>1. CASE ~(s = S /\ Working)
      <4>1. queue[s] \in Computing(p, s) \cup Copying(p, s)
        BY <2>1, <3>1 DEF LaneInv, Issued, Owner
      <4>2. ASSUME queue[s] = <<Op("load", p, s)>> PROVE FALSE
        <5>1. Len(queue[s]) = 1 /\ queue[s][1].op = "load"
          BY <4>2, OpFields
        <5>2. queue[s] \in {<<>>, <<Op("kernel", p, s)>>, <<Op("d2h", p, s)>>}
          BY <4>1, <5>1 DEF Computing, Copying
        <5>3. QED
          BY <5>1, <5>2, OpFields
      <4>3. QED
        <5>1. \/ queue[s] = <<Op("load", p, s)>>
              \/ Tail(queue[s]) = <<Op("kernel", p, s)>>
              \/ Tail(queue[s]) = <<Op("kernel", p, s), Op("d2h", p, s)>>
          BY <1>26, LoadFacts
        <5>2. Tail(queue[s]) # <<>>
          BY <4>2, <5>1, ShortLists
        <5>3. QED
          BY <2>2, <5>2
    <3>2. QED
      BY <3>1
  <2>7. \A i \in DOMAIN mq : mq[i].op = "commit" /\ queue'[mq[i].slot] = <<>> =>
           result'[mq[i].task] = mq[i].task
    <3>1. result' = result
      BY <1>26 DEF Load
    <3>2. ASSUME NEW i \in DOMAIN mq, mq[i].slot = s PROVE queue'[s] # <<>>
      BY <2>6, <3>2 DEF MqGuard
    <3>3. QED
      BY <2>2, <3>1, <3>2, MqType DEF MqReady
  <2>8. MqReady'
    BY <2>1, <2>2, <2>5, <2>7, MqType DEF MqReady
  <2>9. QED
    BY <2>3, <2>4, <2>8
<1>27. ASSUME NEW s \in Slot, Kernel(s) PROVE MergeInv'
  <2> DEFINE p == Owner(s)
  <2>1. /\ UNCHANGED <<accumulator, slotDone, cur, pc, slot, nstreams, rmw, acc, Working>> /\ S' = S
        /\ queue[s] # <<>>
    BY <1>27, SlotType DEF Kernel, Exec, Working
  <2>2. /\ p \in Path /\ p # None /\ queue'[s] = Tail(queue[s]) /\ mq' = mq
        /\ \A r \in Slot : r # s => queue'[r] = queue[r]
    BY <1>27, KernelFacts, SlotType DEF QueueType, mq
  <2>3. MqGuard' /\ MqOrder'
    BY <2>1, <2>2 DEF MqGuard, MqOrder, After
  <2>4. MqHead'
    BY <2>1, <2>2, MqType DEF MqHead
  <2>5. \A r \in Slot : queue'[r] # <<>> => queue[r] # <<>>
    BY <2>1, <2>2
  <2>6. result' = [result EXCEPT ![p] = p]
    BY <1>27, KernelFacts
  <2>7. \A i \in DOMAIN mq : mq[i].op = "commit" /\ queue'[mq[i].slot] = <<>> =>
           result'[mq[i].task] = mq[i].task
    <3> SUFFICES ASSUME NEW i \in DOMAIN mq, mq[i].op = "commit", queue'[mq[i].slot] = <<>>
                 PROVE  result'[mq[i].task] = mq[i].task
      OBVIOUS
    <3>1. CASE mq[i].slot = s
      <4>1. mq[i].task = slotDone[s] /\ ~(s = S /\ Working)
        BY <3>1 DEF MqGuard
      <4>2. mq[i].task = p
        BY <4>1 DEF Owner
      <4>3. QED
        BY <2>2, <2>6, <4>2 DEF BufType
    <3>2. CASE mq[i].slot # s
      <4>1. result[mq[i].task] = mq[i].task
        BY <2>2, <3>2, MqType DEF MqReady
      <4>2. QED
        BY <2>2, <2>6, <4>1, MqType DEF BufType
    <3>3. QED
      BY <3>1, <3>2
  <2>8. MqReady'
    BY <2>1, <2>2, <2>5, <2>7, MqType DEF MqReady
  <2>9. QED
    BY <2>3, <2>4, <2>8
<1>28. ASSUME NEW s \in Slot, D2h(s) PROVE MergeInv'
  <2> DEFINE p == Owner(s)
  <2>1. /\ UNCHANGED <<accumulator, slotDone, cur, pc, slot, nstreams, rmw, acc, Working>> /\ S' = S
        /\ queue[s] # <<>>
    BY <1>28, SlotType DEF D2h, Exec, Working
  <2>2. /\ p \in Path /\ p # None /\ queue'[s] = Tail(queue[s]) /\ mq' = mq
        /\ \A r \in Slot : r # s => queue'[r] = queue[r]
    <3>1. p \in Path /\ p # None /\ queue' = [queue EXCEPT ![s] = Tail(queue[s])]
      BY <1>28, D2hFacts
    <3>2. DOMAIN queue = Stream /\ s \in Stream /\ MergeStream \in Stream /\ MergeStream # s
      BY SlotType DEF QueueType
    <3>3. QED
      BY <3>1, <3>2, SlotType DEF mq
  <2>3. MqGuard' /\ MqOrder'
    BY <2>1, <2>2 DEF MqGuard, MqOrder, After
  <2>4. MqHead'
    BY <2>1, <2>2, MqType DEF MqHead
  <2>5. \A r \in Slot : queue'[r] # <<>> => queue[r] # <<>>
    BY <2>1, <2>2
  <2>6. accumulator # "gpu"
    <3>1. queue[s] = <<Op("d2h", p, s)>>
      BY <1>28, D2hFacts
    <3>2. CASE accumulator = "gpu"
      <4>1. queue[s] \in Loading(p, s) \cup Computing(p, s)
        BY <2>1, <3>2 DEF LaneInv, Issued, Owner
      <4>2. Len(queue[s]) = 1 /\ queue[s][1].op = "d2h"
        BY <3>1, OpFields
      <4>3. queue[s] \in {<<>>, <<Op("kernel", p, s)>>, <<Op("load", p, s)>>}
        BY <4>1, <4>2 DEF Loading, Computing
      <4>4. QED
        BY <4>2, <4>3, OpFields
    <3>3. QED
      BY <3>2
  <2>7. \A i \in DOMAIN mq : mq[i].op = "commit" /\ queue'[mq[i].slot] = <<>> =>
           result'[mq[i].task] = mq[i].task
    BY <2>6 DEF MqGuard
  <2>8. MqReady'
    BY <2>1, <2>2, <2>5, <2>7, MqType DEF MqReady
  <2>9. QED
    BY <2>3, <2>4, <2>8
<1>29. CASE WaitCompute(MergeStream)
  <2>1. /\ mq # <<>> /\ 1 \in DOMAIN mq /\ mq[1].op = "wait"
        /\ Head(queue[MergeStream]) = mq[1]
        /\ Len(mq') = Len(mq) - 1 /\ Len(mq) \in Nat \ {0}
        /\ DOMAIN mq' = 1 .. Len(mq) - 1 /\ DOMAIN mq = 1 .. Len(mq)
        /\ \A i \in DOMAIN mq' : mq'[i] = mq[i+1] /\ i + 1 \in DOMAIN mq
        /\ mq' # <<>> => 1 \in DOMAIN mq'
        /\ \A s \in Slot : queue'[s] = queue[s]
        /\ UNCHANGED <<accumulator, slotDone, cur, pc, slot, nstreams, Working>> /\ S' = S
    BY <1>29, MqPop DEF WaitCompute
  <2> HIDE DEF Working
  <2>2. MqGuard'
    BY <2>1 DEF MqGuard
  <2>3. MqOrder'
    <3>1. ASSUME NEW i \in DOMAIN mq', mq'[i].op = "done" PROVE i = Len(mq') \/ mq'[i+1].op = "wait"
      <4>1. i + 1 = Len(mq) \/ (mq[i+1+1].op = "wait" /\ i + 1 # Len(mq))
        BY <2>1, <3>1 DEF MqOrder
      <4>2. QED
        BY <2>1, <4>1
    <3>2. ASSUME NEW i \in DOMAIN mq', mq'[i].op # "done"
          PROVE  /\ i < Len(mq')
                 /\ mq'[i+1].op = After(mq'[i].op)
                 /\ mq'[i+1].task = mq'[i].task /\ mq'[i+1].slot = mq'[i].slot
      <4>1. /\ i + 1 < Len(mq) /\ mq[i+1+1].op = After(mq[i+1].op)
            /\ mq[i+1+1].task = mq[i+1].task /\ mq[i+1+1].slot = mq[i+1].slot
        BY <2>1, <3>2 DEF MqOrder
      <4>2. i \in Nat /\ i < Len(mq') /\ i + 1 \in DOMAIN mq'
        BY <2>1, <4>1
      <4>3. mq'[i+1] = mq[i+1+1] /\ mq'[i] = mq[i+1]
        BY <2>1, <4>2
      <4>4. QED
        BY <2>1, <4>1, <4>2, <4>3
    <3>3. ASSUME NEW i \in DOMAIN mq', NEW j \in DOMAIN mq',
                 mq'[i].op = mq'[j].op, mq'[i].slot = mq'[j].slot
          PROVE  i = j
      <4>1. i + 1 = j + 1
        BY <2>1, <3>3 DEF MqOrder
      <4>2. QED
        BY <2>1, <4>1
    <3>4. \A x : After(x)' = After(x)
      BY <2>1 DEF After
    <3>5. QED
      BY <3>1, <3>2, <3>3, <3>4 DEF MqOrder, After
  <2>6. queue[mq[1].slot] = <<>>
    <3> DEFINE s == mq[1].slot
    <3>1. s \in Slot /\ mq[1].task = slotDone[s] /\ ~(s = S /\ Working) /\ s # MergeStream
      BY <2>1, MqType, SlotType DEF MqGuard
    <3>2. \A i \in DOMAIN queue[s] : queue[s][i].task # mq[1].task
      BY <1>29, <2>1, <3>1 DEF WaitCompute
    <3> HIDE DEF s
    <3>3. CASE queue[s] # <<>>
      <4>1. Owner(s) = slotDone[s]
        BY <3>1 DEF Owner
      <4>2. \A i \in DOMAIN queue[s] : queue[s][i].task = slotDone[s]
        BY <3>1, <3>3, <4>1, LaneHead
      <4>3. 1 \in DOMAIN queue[s]
        <5>1. queue[s] \in Seq(Operation)
          BY <3>1, SlotType DEF QueueType
        <5>2. QED
          BY <3>3, <5>1, EmptySeq
      <4>4. QED
        BY <3>1, <3>2, <4>2, <4>3
    <3>4. QED
      BY <3>3 DEF s
  <2>4. MqHead'
    <3>1. mq' # <<>> => /\ mq'[1] = mq[2] /\ mq[1+1].slot = mq[1].slot
                       /\ mq[1+1].op = After("wait")
      BY <2>1 DEF MqOrder
    <3>2. mq' # <<>> => mq'[1].slot = mq[1].slot /\ mq'[1].op # "commit"
      BY <3>1 DEF After
    <3>3. mq' # <<>> => queue'[mq'[1].slot] = <<>>
      BY <2>1, <2>6, <3>2, MqType
    <3>4. QED
      BY <3>2, <3>3 DEF MqHead
  <2>5. MqReady'
    <3>1. ASSUME NEW s \in Slot, queue'[s] # <<>>, ~(s = S /\ Working)
          PROVE  \E i \in DOMAIN mq' : mq'[i].op = "wait" /\ mq'[i].slot = s
      <4>1. PICK i \in DOMAIN mq : mq[i].op = "wait" /\ mq[i].slot = s
        BY <2>1, <3>1 DEF MqReady
      <4>2. i # 1
        BY <2>1, <2>6, <3>1, <4>1
      <4>3. i - 1 \in DOMAIN mq' /\ (i - 1) + 1 = i
        BY <2>1, <4>2
      <4>4. QED
        BY <2>1, <4>1, <4>3
    <3>2. ASSUME NEW i \in DOMAIN mq', mq'[i].op = "commit", queue'[mq'[i].slot] = <<>>
          PROVE  result'[mq'[i].task] = mq'[i].task
      BY <1>29, <2>1, <3>2, MqType DEF MqReady, WaitCompute
    <3>3. QED
      BY <2>1, <3>1, <3>2 DEF MqReady
  <2>9. QED
    BY <2>2, <2>3, <2>4, <2>5
<1>30. CASE MergeRead(MergeStream)
  <2>1. /\ mq # <<>> /\ 1 \in DOMAIN mq /\ mq[1].op = "read"
        /\ Head(queue[MergeStream]) = mq[1]
        /\ Len(mq') = Len(mq) - 1 /\ Len(mq) \in Nat \ {0}
        /\ DOMAIN mq' = 1 .. Len(mq) - 1 /\ DOMAIN mq = 1 .. Len(mq)
        /\ \A i \in DOMAIN mq' : mq'[i] = mq[i+1] /\ i + 1 \in DOMAIN mq
        /\ mq' # <<>> => 1 \in DOMAIN mq'
        /\ \A s \in Slot : queue'[s] = queue[s]
        /\ UNCHANGED <<accumulator, slotDone, cur, pc, slot, nstreams, Working>> /\ S' = S
    BY <1>30, MqPop DEF MergeRead
  <2> HIDE DEF Working
  <2>2. MqGuard'
    BY <2>1 DEF MqGuard
  <2>3. MqOrder'
    <3>1. ASSUME NEW i \in DOMAIN mq', mq'[i].op = "done" PROVE i = Len(mq') \/ mq'[i+1].op = "wait"
      <4>1. i + 1 = Len(mq) \/ (mq[i+1+1].op = "wait" /\ i + 1 # Len(mq))
        BY <2>1, <3>1 DEF MqOrder
      <4>2. QED
        BY <2>1, <4>1
    <3>2. ASSUME NEW i \in DOMAIN mq', mq'[i].op # "done"
          PROVE  /\ i < Len(mq')
                 /\ mq'[i+1].op = After(mq'[i].op)
                 /\ mq'[i+1].task = mq'[i].task /\ mq'[i+1].slot = mq'[i].slot
      <4>1. /\ i + 1 < Len(mq) /\ mq[i+1+1].op = After(mq[i+1].op)
            /\ mq[i+1+1].task = mq[i+1].task /\ mq[i+1+1].slot = mq[i+1].slot
        BY <2>1, <3>2 DEF MqOrder
      <4>2. i \in Nat /\ i < Len(mq') /\ i + 1 \in DOMAIN mq'
        BY <2>1, <4>1
      <4>3. mq'[i+1] = mq[i+1+1] /\ mq'[i] = mq[i+1]
        BY <2>1, <4>2
      <4>4. QED
        BY <2>1, <4>1, <4>2, <4>3
    <3>3. ASSUME NEW i \in DOMAIN mq', NEW j \in DOMAIN mq',
                 mq'[i].op = mq'[j].op, mq'[i].slot = mq'[j].slot
          PROVE  i = j
      <4>1. i + 1 = j + 1
        BY <2>1, <3>3 DEF MqOrder
      <4>2. QED
        BY <2>1, <4>1
    <3>4. \A x : After(x)' = After(x)
      BY <2>1 DEF After
    <3>5. QED
      BY <3>1, <3>2, <3>3, <3>4 DEF MqOrder, After
  <2>4. MqHead'
    <3>1. mq' # <<>> => /\ mq'[1] = mq[2] /\ mq[1+1].slot = mq[1].slot
                       /\ mq[1+1].op = After("read")
      BY <2>1 DEF MqOrder
    <3>2. queue[mq[1].slot] = <<>>
      BY <2>1 DEF MqHead
    <3>3. mq' # <<>> => queue'[mq'[1].slot] = <<>>
      BY <2>1, <3>1, <3>2, MqType
    <3>4. mq' # <<>> /\ mq'[1].op = "commit" => rmw'[MergeStream] = acc'
      BY <1>30, SlotType DEF MergeRead, BufType
    <3>5. QED
      BY <3>3, <3>4 DEF MqHead
  <2>5. MqReady'
    <3>1. ASSUME NEW s \in Slot, queue'[s] # <<>>, ~(s = S /\ Working)
          PROVE  \E i \in DOMAIN mq' : mq'[i].op = "wait" /\ mq'[i].slot = s
      <4>1. PICK i \in DOMAIN mq : mq[i].op = "wait" /\ mq[i].slot = s
        BY <2>1, <3>1 DEF MqReady
      <4>2. i # 1
        BY <2>1, <4>1
      <4>3. i - 1 \in DOMAIN mq' /\ (i - 1) + 1 = i
        BY <2>1, <4>2
      <4>4. QED
        BY <2>1, <4>1, <4>3
    <3>2. ASSUME NEW i \in DOMAIN mq', mq'[i].op = "commit", queue'[mq'[i].slot] = <<>>
          PROVE  result'[mq'[i].task] = mq'[i].task
      BY <1>30, <2>1, <3>2, MqType DEF MqReady, MergeRead
    <3>3. QED
      BY <2>1, <3>1, <3>2 DEF MqReady
  <2>9. QED
    BY <2>2, <2>3, <2>4, <2>5
<1>31. CASE MergeCommit(MergeStream)
  <2>1. /\ mq # <<>> /\ 1 \in DOMAIN mq /\ mq[1].op = "commit"
        /\ Head(queue[MergeStream]) = mq[1]
        /\ Len(mq') = Len(mq) - 1 /\ Len(mq) \in Nat \ {0}
        /\ DOMAIN mq' = 1 .. Len(mq) - 1 /\ DOMAIN mq = 1 .. Len(mq)
        /\ \A i \in DOMAIN mq' : mq'[i] = mq[i+1] /\ i + 1 \in DOMAIN mq
        /\ mq' # <<>> => 1 \in DOMAIN mq'
        /\ \A s \in Slot : queue'[s] = queue[s]
        /\ UNCHANGED <<accumulator, slotDone, cur, pc, slot, nstreams, Working>> /\ S' = S
    BY <1>31, MqPop DEF MergeCommit
  <2> HIDE DEF Working
  <2>2. MqGuard'
    BY <2>1 DEF MqGuard
  <2>3. MqOrder'
    <3>1. ASSUME NEW i \in DOMAIN mq', mq'[i].op = "done" PROVE i = Len(mq') \/ mq'[i+1].op = "wait"
      <4>1. i + 1 = Len(mq) \/ (mq[i+1+1].op = "wait" /\ i + 1 # Len(mq))
        BY <2>1, <3>1 DEF MqOrder
      <4>2. QED
        BY <2>1, <4>1
    <3>2. ASSUME NEW i \in DOMAIN mq', mq'[i].op # "done"
          PROVE  /\ i < Len(mq')
                 /\ mq'[i+1].op = After(mq'[i].op)
                 /\ mq'[i+1].task = mq'[i].task /\ mq'[i+1].slot = mq'[i].slot
      <4>1. /\ i + 1 < Len(mq) /\ mq[i+1+1].op = After(mq[i+1].op)
            /\ mq[i+1+1].task = mq[i+1].task /\ mq[i+1+1].slot = mq[i+1].slot
        BY <2>1, <3>2 DEF MqOrder
      <4>2. i \in Nat /\ i < Len(mq') /\ i + 1 \in DOMAIN mq'
        BY <2>1, <4>1
      <4>3. mq'[i+1] = mq[i+1+1] /\ mq'[i] = mq[i+1]
        BY <2>1, <4>2
      <4>4. QED
        BY <2>1, <4>1, <4>2, <4>3
    <3>3. ASSUME NEW i \in DOMAIN mq', NEW j \in DOMAIN mq',
                 mq'[i].op = mq'[j].op, mq'[i].slot = mq'[j].slot
          PROVE  i = j
      <4>1. i + 1 = j + 1
        BY <2>1, <3>3 DEF MqOrder
      <4>2. QED
        BY <2>1, <4>1
    <3>4. \A x : After(x)' = After(x)
      BY <2>1 DEF After
    <3>5. QED
      BY <3>1, <3>2, <3>3, <3>4 DEF MqOrder, After
  <2>4. MqHead'
    <3>1. mq' # <<>> => /\ mq'[1] = mq[2] /\ mq[1+1].slot = mq[1].slot
                       /\ mq[1+1].op = After("commit")
      BY <2>1 DEF MqOrder
    <3>2. queue[mq[1].slot] = <<>>
      BY <2>1 DEF MqHead
    <3>3. mq' # <<>> => queue'[mq'[1].slot] = <<>>
      BY <2>1, <3>1, <3>2, MqType
    <3>4. mq' # <<>> /\ mq'[1].op = "commit" => rmw'[MergeStream] = acc'
      BY <3>1 DEF After
    <3>5. QED
      BY <3>3, <3>4 DEF MqHead
  <2>5. MqReady'
    <3>1. ASSUME NEW s \in Slot, queue'[s] # <<>>, ~(s = S /\ Working)
          PROVE  \E i \in DOMAIN mq' : mq'[i].op = "wait" /\ mq'[i].slot = s
      <4>1. PICK i \in DOMAIN mq : mq[i].op = "wait" /\ mq[i].slot = s
        BY <2>1, <3>1 DEF MqReady
      <4>2. i # 1
        BY <2>1, <4>1
      <4>3. i - 1 \in DOMAIN mq' /\ (i - 1) + 1 = i
        BY <2>1, <4>2
      <4>4. QED
        BY <2>1, <4>1, <4>3
    <3>2. ASSUME NEW i \in DOMAIN mq', mq'[i].op = "commit", queue'[mq'[i].slot] = <<>>
          PROVE  result'[mq'[i].task] = mq'[i].task
      <4> DEFINE p == mq[1].task
      <4>1. result' = [result EXCEPT ![p] = None] /\ p = slotDone[mq[1].slot] /\ p # None
        BY <1>31, CommitFacts, ForwardAssumption
      <4>2. mq[i+1].op = "commit" /\ queue[mq[i+1].slot] = <<>> /\ i + 1 \in DOMAIN mq /\ i + 1 # 1
        BY <2>1, <3>2, MqType
      <4>3. result[mq[i+1].task] = mq[i+1].task
        BY <4>2 DEF MqReady
      <4>4. mq[i+1].slot # mq[1].slot
        BY <2>1, <4>2 DEF MqOrder
      <4>5. mq[i+1].task # p
        BY <2>1, <4>1, <4>2, <4>4, MqType DEF MqGuard, CustodyInv, CustodySlot
      <4> HIDE DEF p
      <4>6. result'[mq[i+1].task] = mq[i+1].task
        BY <4>1, <4>2, <4>3, <4>5, MqType DEF BufType
      <4>7. QED
        BY <2>1, <4>6
    <3>3. QED
      BY <2>1, <3>1, <3>2 DEF MqReady
  <2>9. QED
    BY <2>2, <2>3, <2>4, <2>5
<1>32. CASE RecordDone(MergeStream)
  <2>1. /\ mq # <<>> /\ 1 \in DOMAIN mq /\ mq[1].op = "done"
        /\ Head(queue[MergeStream]) = mq[1]
        /\ Len(mq') = Len(mq) - 1 /\ Len(mq) \in Nat \ {0}
        /\ DOMAIN mq' = 1 .. Len(mq) - 1 /\ DOMAIN mq = 1 .. Len(mq)
        /\ \A i \in DOMAIN mq' : mq'[i] = mq[i+1] /\ i + 1 \in DOMAIN mq
        /\ mq' # <<>> => 1 \in DOMAIN mq'
        /\ \A s \in Slot : queue'[s] = queue[s]
        /\ UNCHANGED <<accumulator, slotDone, cur, pc, slot, nstreams, Working>> /\ S' = S
    BY <1>32, MqPop DEF RecordDone
  <2> HIDE DEF Working
  <2>2. MqGuard'
    BY <2>1 DEF MqGuard
  <2>3. MqOrder'
    <3>1. ASSUME NEW i \in DOMAIN mq', mq'[i].op = "done" PROVE i = Len(mq') \/ mq'[i+1].op = "wait"
      <4>1. i + 1 = Len(mq) \/ (mq[i+1+1].op = "wait" /\ i + 1 # Len(mq))
        BY <2>1, <3>1 DEF MqOrder
      <4>2. QED
        BY <2>1, <4>1
    <3>2. ASSUME NEW i \in DOMAIN mq', mq'[i].op # "done"
          PROVE  /\ i < Len(mq')
                 /\ mq'[i+1].op = After(mq'[i].op)
                 /\ mq'[i+1].task = mq'[i].task /\ mq'[i+1].slot = mq'[i].slot
      <4>1. /\ i + 1 < Len(mq) /\ mq[i+1+1].op = After(mq[i+1].op)
            /\ mq[i+1+1].task = mq[i+1].task /\ mq[i+1+1].slot = mq[i+1].slot
        BY <2>1, <3>2 DEF MqOrder
      <4>2. i \in Nat /\ i < Len(mq') /\ i + 1 \in DOMAIN mq'
        BY <2>1, <4>1
      <4>3. mq'[i+1] = mq[i+1+1] /\ mq'[i] = mq[i+1]
        BY <2>1, <4>2
      <4>4. QED
        BY <2>1, <4>1, <4>2, <4>3
    <3>3. ASSUME NEW i \in DOMAIN mq', NEW j \in DOMAIN mq',
                 mq'[i].op = mq'[j].op, mq'[i].slot = mq'[j].slot
          PROVE  i = j
      <4>1. i + 1 = j + 1
        BY <2>1, <3>3 DEF MqOrder
      <4>2. QED
        BY <2>1, <4>1
    <3>4. \A x : After(x)' = After(x)
      BY <2>1 DEF After
    <3>5. QED
      BY <3>1, <3>2, <3>3, <3>4 DEF MqOrder, After
  <2>4. MqHead'
    <3>1. mq' # <<>> => mq'[1] = mq[2] /\ mq[1+1].op = "wait"
      BY <2>1 DEF MqOrder
    <3>2. QED
      BY <3>1 DEF MqHead
  <2>5. MqReady'
    <3>1. ASSUME NEW s \in Slot, queue'[s] # <<>>, ~(s = S /\ Working)
          PROVE  \E i \in DOMAIN mq' : mq'[i].op = "wait" /\ mq'[i].slot = s
      <4>1. PICK i \in DOMAIN mq : mq[i].op = "wait" /\ mq[i].slot = s
        BY <2>1, <3>1 DEF MqReady
      <4>2. i # 1
        BY <2>1, <4>1
      <4>3. i - 1 \in DOMAIN mq' /\ (i - 1) + 1 = i
        BY <2>1, <4>2
      <4>4. QED
        BY <2>1, <4>1, <4>3
    <3>2. ASSUME NEW i \in DOMAIN mq', mq'[i].op = "commit", queue'[mq'[i].slot] = <<>>
          PROVE  result'[mq'[i].task] = mq'[i].task
      BY <1>32, <2>1, <3>2, MqType DEF MqReady, RecordDone
    <3>3. QED
      BY <2>1, <3>1, <3>2 DEF MqReady
  <2>9. QED
    BY <2>2, <2>3, <2>4, <2>5
<1>33. CASE WorkerStart
  BY <1>33 DEF WorkerStart, MqGuard, MqOrder, MqHead, MqReady, mq, After, Working
<1>34. CASE WorkerMerge
  <2>1. accumulator = "worker"
    BY <1>34, WorkerFacts
  <2>2. UNCHANGED <<accumulator, queue, slotDone, cur, pc, slot, nstreams, rmw, result>> /\ S' = S
    BY <1>34 DEF WorkerMerge
  <2>3. MqHead'
    BY <2>1, <2>2, MqType DEF MqHead, MqGuard, mq
  <2>4. QED
    BY <2>2, <2>3 DEF MqGuard, MqOrder, MqReady, mq, After, Working
<1>35. CASE WorkerFails
  BY <1>35 DEF WorkerFails, Fail, MqGuard, MqOrder, MqHead, MqReady, mq, After, Working
<1>36. CASE UNCHANGED vars
  BY <1>36 DEF vars, hostVars, MqGuard, MqOrder, MqHead, MqReady, mq, After, Working
<1>37. QED
  BY NextCases, <1>1, <1>2, <1>3, <1>4, <1>5, <1>6, <1>7, <1>8, <1>9, <1>10, <1>11,
     <1>12, <1>13, <1>14, <1>15, <1>16, <1>17, <1>18, <1>19, <1>20, <1>21, <1>22,
     <1>23, <1>24, <1>25, <1>26, <1>27, <1>28, <1>29, <1>30, <1>31, <1>32, <1>33,
     <1>34, <1>35, <1>36

-----------------------------------------------------------------------------
\* What a job is.
LEMMA JobRecord ==
    ASSUME TypeInv
    PROVE  /\ \A i \in DOMAIN jobs : jobs[i] \in Job /\ jobs[i].task \in Path
                                     /\ jobs[i].slot \in Slot /\ jobs[i].task # None
           /\ running # None => running \in Job /\ running.task \in Path
                                /\ running.slot \in Slot /\ running.task # None
           /\ \A x, y \in Job : x.task = y.task /\ x.slot = y.slot => x = y
           /\ \A x \in Job : x # None
<1>1. jobs \in Seq(Job) /\ running \in Job \cup {None}
  BY DEF TypeInv, JobType
<1>2. \A i \in DOMAIN jobs : jobs[i] \in Job
  BY <1>1
<1>3. \A x \in Job : x.task \in Path /\ x.slot \in Slot /\ x # None /\ x.task # None
  BY ForwardAssumption DEF Job, Slot
<1>4. \A x, y \in Job : x.task = y.task /\ x.slot = y.slot => x = y
  BY DEF Job
<1>5. QED
  BY <1>1, <1>2, <1>3, <1>4

\* A slot with an uncollected future has its whole last subproblem behind it: what
\* its stream has left ends in the copy to the slot's output.
LEMMA JobSlotFacts ==
    ASSUME IInv, NEW s \in Slot, slotMerge[s] # None
    PROVE  /\ accumulator = "worker" /\ slotDone[s] = slotMerge[s] /\ slotMerge[s] \in Path
           /\ ~(Working /\ s = S) => /\ Owner(s) = slotMerge[s]
                                     /\ queue[s] \in Copying(slotMerge[s], s)
           /\ Working /\ s = S => queue[s] \in Loading(cur, s) \cup Computing(cur, s)
<1>1. accumulator = "worker" /\ slotDone[s] = slotMerge[s] /\ slotMerge[s] \in Path
  BY DEF IInv, JobInv, JobKind, JobSlot, TypeInv, JobType
<1>2. CASE ~(Working /\ s = S)
  BY <1>1, <1>2, ForwardAssumption DEF IInv, LaneInv, Issued, Owner
<1>3. CASE Working /\ s = S
  BY <1>1, <1>3 DEF IInv, LaneInv, JobInv, JobSlot
<1>4. QED
  BY <1>1, <1>2, <1>3

\* A stream that works for a slot's last subproblem keeps work until the copy to the
\* slot's output is done, and that copy brings the subproblem's rows.
LEMMA LaneKeeps ==
    ASSUME IInv, NEW s \in Slot, Load(s) \/ Kernel(s) \/ D2h(s), NEW r \in Slot, slotMerge[r] # None
    PROVE  /\ out[r] = slotMerge[r] => out'[r] = slotMerge[r]
           /\ queue[r] # <<>> /\ ~(Working /\ S = r) => queue'[r] # <<>> \/ out'[r] = slotMerge[r]
<1> DEFINE p == Owner(s)
<1> USE DEF IInv
<1>1. queue' = [queue EXCEPT ![s] = Tail(queue[s])] /\ queue[s] # <<>>
  BY DEF Load, Kernel, D2h, Exec
<1>2. CASE r # s
  <2>1. queue'[r] = queue[r]
    BY <1>1, <1>2, SlotType DEF TypeInv, QueueType
  <2>2. out'[r] = out[r]
    BY <1>2, D2hFacts DEF Load, Kernel, TypeInv, BufType
  <2>3. QED
    BY <2>1, <2>2
<1>3. CASE r = s /\ D2h(s)
  <2>1. queue[s] = <<Op("d2h", p, s)>> /\ out' = [out EXCEPT ![s] = p]
    BY <1>3, D2hFacts
  <2>2. out'[s] = p
    BY <2>1 DEF TypeInv, BufType
  <2>3. ~(Working /\ s = S)
    <3>1. Len(queue[s]) = 1 /\ queue[s][1].op = "d2h"
      BY <2>1, OpFields
    <3>2. ASSUME Working, s = S PROVE FALSE
      <4>1. queue[s] \in {<<>>, <<Op("load", cur, s)>>, <<Op("kernel", cur, s)>>}
        BY <1>3, <3>1, <3>2, JobSlotFacts DEF Loading, Computing
      <4>2. QED
        BY <3>1, <4>1, OpFields
    <3>3. QED
      BY <3>2
  <2>4. QED
    BY <1>3, <2>2, <2>3, JobSlotFacts
<1>4. CASE r = s /\ ~D2h(s)
  <2>1. out' = out
    BY <1>4 DEF Load, Kernel
  <2>2. ASSUME ~(Working /\ s = S) PROVE queue'[s] # <<>>
    <3>1. queue[s] \in Copying(slotMerge[s], s) /\ Head(queue[s]).op # "d2h"
      BY <1>4, <2>2, JobSlotFacts DEF Load, Kernel, Exec
    <3> DEFINE m == slotMerge[s]
    <3>2. \/ queue[s] = <<Op("kernel", m, s), Op("d2h", m, s)>>
          \/ queue[s] = <<Op("load", m, s), Op("kernel", m, s), Op("d2h", m, s)>>
          \/ queue[s] = <<Op("d2h", m, s)>>
      BY <1>1, <3>1 DEF Copying
    <3>3. queue[s] # <<Op("d2h", m, s)>>
      BY <3>1, OpFields, ShortLists
    <3>4. Tail(queue[s]) # <<>>
      <4>1. CASE queue[s] = <<Op("kernel", m, s), Op("d2h", m, s)>>
        BY <4>1, ShortLists
      <4>2. CASE queue[s] = <<Op("load", m, s), Op("kernel", m, s), Op("d2h", m, s)>>
        BY <4>2, ShortLists
      <4>3. QED
        BY <3>2, <3>3, <4>1, <4>2
    <3>5. QED
      BY <1>1, <3>4, SlotType DEF TypeInv, QueueType
  <2>3. QED
    BY <1>4, <2>1, <2>2
<1>5. QED
  BY <1>2, <1>3, <1>4

\* When the stream has done its work for a job's subproblem, the rows are in the
\* slot's output.
LEMMA JobReady ==
    ASSUME IInv, NEW i \in DOMAIN jobs, WorkDone(jobs[i].task)
    PROVE  out[jobs[i].slot] = jobs[i].task
<1> DEFINE s == jobs[i].slot
           p == jobs[i].task
<1> USE DEF IInv
<1>1. s \in Slot /\ p # None /\ slotMerge[s] = p
  BY JobRecord DEF JobInv, JobQueue
<1>2. ASSUME queue[s] # <<>>, ~(Working /\ S = s) PROVE FALSE
  <2>1. Owner(s) = p
    BY <1>1, <1>2, JobSlotFacts
  <2>2. queue[s] \in Seq(Operation)
    BY <1>1, SlotType DEF TypeInv, QueueType
  <2>3. 1 \in DOMAIN queue[s]
    BY <1>2, <2>2, EmptySeq
  <2>4. queue[s][1].task = p
    BY <1>1, <1>2, <2>1, <2>3, LaneHead
  <2>5. QED
    BY <1>1, <2>3, <2>4 DEF WorkDone
<1>3. QED
  BY <1>2 DEF JobInv, JobQueue

\* Without an uncollected future there is no job and no failed future.
LEMMA NoFuture ==
    ASSUME IInv, \A s \in Slot : slotMerge[s] = None
    PROVE  jobs = <<>> /\ running = None /\ \A p \in Path : future[p] \in {"none", "done"}
<1> USE DEF IInv, JobInv
<1>1. running = None
  BY JobRecord DEF JobRunning
<1>2. DOMAIN jobs = {}
  BY JobRecord DEF JobQueue
<1>3. jobs = <<>>
  BY <1>2, EmptySeq DEF TypeInv, JobType
<1>4. \A p \in Path : ~Failed(p)
  BY ForwardAssumption DEF JobSlot
<1>5. \A p \in Path : future[p] # "queued"
  BY <1>1, <1>2 DEF JobFuture
<1>6. QED
  BY <1>1, <1>3, <1>4, <1>5 DEF TypeInv, JobType, FutureState, Failed

\* Every action keeps the merge jobs with their slots and futures.
LEMMA JobStep ==
    ASSUME IInv, [Next]_vars
    PROVE  JobInv'
<1> USE SlotType DEF IInv, TypeInv, JobInv, hostVars, callVars, slotVars, bufVars, gpuVars, jobVars
<1>1. CASE BuildLevel
  BY <1>1 DEF BuildLevel, JobKind, JobQueue, JobRunning, JobFuture, JobSlot, JobDirty, Working, Failed
<1>2. CASE StartLoop
  BY <1>2 DEF StartLoop, JobKind, JobQueue, JobRunning, JobFuture, JobSlot, JobDirty, Working, Failed
<1>3. CASE Pop
  BY <1>3 DEF Pop, JobKind, JobQueue, JobRunning, JobFuture, JobSlot, JobDirty, Working, Failed
<1>4. CASE WaitSlot
  <2>1. UNCHANGED <<accumulator, jobs, running, future, slotMerge, slotDone, out, queue, dirty, outcome>> /\ S' = S
    BY <1>4 DEF WaitSlot
  <2>2. queue[S] = <<>> /\ ~Working /\ pc' = "gather"
    BY <1>4, SlotFreeFacts DEF WaitSlot, Working
  <2>3. JobQueue'
    <3> SUFFICES ASSUME NEW i \in DOMAIN jobs
                 PROVE \/ out[jobs[i].slot] = jobs[i].task
                       \/ queue[jobs[i].slot] # <<>> /\ ~(S = jobs[i].slot)
      BY <2>1 DEF JobQueue
    <3>1. QED
      BY <2>2 DEF JobQueue
  <2>4. QED
    BY <1>4, <2>1, <2>2, <2>3 DEF JobKind, JobRunning, JobFuture, JobSlot, JobDirty, Failed, WaitSlot
<1>5. CASE Gather
  <2>1. UNCHANGED <<accumulator, jobs, running, future, slotMerge, slotDone, out, dirty, outcome>> /\ S' = S
    BY <1>5 DEF Gather
  <2>2. Working /\ Working' /\ pc \notin {"except", "end"} /\ pc' # "merge"
    BY <1>5 DEF Gather, PhaseInv, Working
  <2>3. \A s \in Slot : s # S => queue'[s] = queue[s]
    BY <1>5, SlotType DEF Gather, QueueType
  <2>4. JobQueue'
    BY <2>1, <2>2, <2>3, JobRecord DEF JobQueue
  <2>5. QED
    BY <1>5, <2>1, <2>2, <2>4 DEF JobKind, JobRunning, JobFuture, JobSlot, JobDirty, Failed
<1>6. CASE Launch
  <2>1. UNCHANGED <<accumulator, jobs, running, future, slotMerge, slotDone, out, dirty, outcome>> /\ S' = S
    BY <1>6 DEF Launch
  <2>2. Working /\ Working' /\ pc \notin {"except", "end"} /\ pc' # "merge"
    BY <1>6 DEF Launch, PhaseInv, Working
  <2>3. \A s \in Slot : s # S => queue'[s] = queue[s]
    BY <1>6, SlotType DEF Launch, QueueType
  <2>4. JobQueue'
    BY <2>1, <2>2, <2>3, JobRecord DEF JobQueue
  <2>5. QED
    BY <1>6, <2>1, <2>2, <2>4 DEF JobKind, JobRunning, JobFuture, JobSlot, JobDirty, Failed
<1>7. CASE WaitMerge
  <2>1. UNCHANGED <<accumulator, jobs, running, future, slotDone, out, queue, dirty, outcome, pc, Working>> /\ S' = S
    BY <1>7 DEF WaitMerge, Working
  <2>2. S \in Slot /\ slotMerge[S] \in Path /\ future[slotMerge[S]] = "done" /\ pc # "merge"
    BY <1>7, SlotType DEF WaitMerge, Merged, JobType
  <2>3. /\ slotMerge'[S] = None
        /\ \A s \in Slot : s # S => slotMerge'[s] = slotMerge[s]
    BY <1>7, <2>2 DEF WaitMerge, JobType
  <2> HIDE DEF Working
  <2>4. JobQueue'
    <3>1. \A i \in DOMAIN jobs : jobs[i].slot # S
      BY <2>2 DEF JobQueue
    <3>2. QED
      BY <2>1, <2>3, <3>1, JobRecord DEF JobQueue
  <2>5. JobRunning'
    BY <2>1, <2>2, <2>3, JobRecord DEF JobRunning
  <2>6. JobSlot'
    <3>1. ASSUME NEW p \in Path, Failed(p) PROVE \E s \in Slot : slotMerge'[s] = p
      <4>1. PICK s \in Slot : slotMerge[s] = p
        BY <3>1 DEF JobSlot
      <4>2. s # S
        BY <2>2, <3>1, <4>1 DEF Failed
      <4>3. QED
        BY <2>3, <4>1, <4>2
    <3>2. QED
      BY <2>1, <2>2, <2>3, <3>1 DEF JobSlot, Failed
  <2>7. QED
    BY <2>1, <2>2, <2>3, <2>4, <2>5, <2>6 DEF JobKind, JobFuture, JobDirty, Failed
<1>8. CASE WaitMergeFails
  BY <1>8 DEF WaitMergeFails, MergeFailed, JobKind, JobQueue, JobRunning, JobFuture, JobSlot, JobDirty, Working, Failed
<1>9. CASE StartD2h
  <2>1. UNCHANGED <<accumulator, jobs, running, future, slotMerge, slotDone, out, dirty, outcome>> /\ S' = S
    BY <1>9 DEF StartD2h
  <2>2. Working /\ Working' /\ pc \notin {"except", "end"} /\ pc' = "merge" /\ slotMerge[S] = None
    BY <1>9 DEF StartD2h, PhaseInv, Working, OutputFree
  <2>3. \A s \in Slot : s # S => queue'[s] = queue[s]
    BY <1>9, SlotType DEF StartD2h, QueueType
  <2>4. JobQueue'
    BY <2>1, <2>2, <2>3, JobRecord DEF JobQueue
  <2>5. QED
    BY <1>9, <2>1, <2>2, <2>4 DEF JobKind, JobRunning, JobFuture, JobSlot, JobDirty, Failed
<1>10. CASE BlockingD2h
  <2>1. accumulator # "worker" /\ pc \notin {"except", "end"}
    BY <1>10 DEF BlockingD2h
  <2>2. slotMerge[S] = None
    BY <2>1 DEF JobKind
  <2>3. QED
    BY <1>10, <2>1, <2>2 DEF BlockingD2h, JobKind, JobQueue, JobRunning, JobFuture, JobSlot, JobDirty, Failed
<1>11. CASE Merge
  <2>1. /\ UNCHANGED <<accumulator, running, out, dirty, outcome>> /\ pc = "merge" /\ pc' = "loop" /\ ~Working'
        /\ cur \in Path /\ cur # None /\ Working /\ S \in Slot
    BY <1>11, SlotType DEF Merge, PhaseInv, HostType, Working
  <2>2. /\ \A s \in Slot : queue'[s] = queue[s]
        /\ slotDone'[S] = cur /\ \A s \in Slot : s # S => slotDone'[s] = slotDone[s]
    BY <1>11, <2>1, MergeFacts DEF Merge, JobType
  <2>3. slotMerge[S] = None /\ (dirty => \E p \in Path : Failed(p))
    BY <2>1 DEF JobSlot, JobDirty
  <2> HIDE DEF Working
  <2>4. CASE accumulator # "worker"
    <3>1. UNCHANGED <<jobs, future, slotMerge>> /\ jobs = <<>> /\ running = None /\ \A s \in Slot : slotMerge[s] = None
      BY <1>11, <2>4 DEF Merge, JobKind
    <3>2. DOMAIN jobs = {}
      BY <3>1
    <3>3. QED
      BY <2>1, <2>3, <2>4, <3>1, <3>2 DEF JobKind, JobQueue, JobRunning, JobFuture, JobSlot, JobDirty, Failed
  <2>5. CASE accumulator = "worker"
    <3> DEFINE n == Len(jobs)
               job == [task |-> cur, slot |-> S]
    <3>1. /\ jobs' = Append(jobs, job) /\ job \in Job /\ job.task = cur /\ job.slot = S
          /\ future'[cur] = "queued" /\ \A p \in Path : p # cur => future'[p] = future[p]
          /\ slotMerge'[S] = cur /\ \A s \in Slot : s # S => slotMerge'[s] = slotMerge[s]
      BY <1>11, <2>1, <2>5 DEF Merge, Job, JobType
    <3> HIDE DEF job
    <3>2. /\ n \in Nat /\ DOMAIN jobs = 1 .. n /\ DOMAIN jobs' = 1 .. n + 1
          /\ \A i \in 1 .. n : jobs'[i] = jobs[i] /\ jobs'[n+1] = job
      BY <3>1, AppendProperties DEF JobType
    <3>3. jobs'[n+1] = job
      BY <3>1, AppendProperties DEF JobType
    <3> HIDE DEF n
    <3>4. future[cur] = "none"
      BY <2>1 DEF CustodyInv, CustodyPending, Handed
    <3>5. \A i \in 1 .. n : /\ jobs[i].slot # S /\ jobs[i].task # cur /\ jobs[i].slot \in Slot
                            /\ jobs[i].task \in Path /\ jobs[i] # job
      BY <2>3, <3>1, <3>2, <3>4, JobRecord DEF JobQueue
    <3>6. running # None => running.slot # S /\ running.task # cur /\ running # job
      BY <2>3, <3>1, <3>4, JobRecord DEF JobRunning
    <3>7. out[S] = cur \/ queue[S] # <<>>
      BY <2>1, <2>5 DEF DataInv, DataAt
    <3>8. JobQueue'
      <4>1. ASSUME NEW i \in 1 .. n + 1
            PROVE /\ slotMerge'[jobs'[i].slot] = jobs'[i].task /\ future'[jobs'[i].task] = "queued"
                  /\ jobs'[i] # running
                  /\ \/ out[jobs'[i].slot] = jobs'[i].task
                     \/ queue[jobs'[i].slot] # <<>>
        <5>1. CASE i \in 1 .. n
          BY <3>1, <3>2, <3>5, <5>1 DEF JobQueue
        <5>2. CASE i = n + 1
          BY <2>1, <3>1, <3>3, <3>6, <3>7, <5>2, JobRecord
        <5>3. QED
          BY <3>2, <5>1, <5>2
      <4>2. ASSUME NEW i \in 1 .. n + 1, NEW j \in 1 .. n + 1, jobs'[i] = jobs'[j]
            PROVE  i = j
        <5>1. CASE i \in 1 .. n /\ j \in 1 .. n
          BY <3>2, <4>2, <5>1 DEF JobQueue
        <5>2. CASE i = n + 1 /\ j = n + 1
          BY <5>2
        <5>3. QED
          BY <3>2, <3>3, <3>5, <4>2, <5>1, <5>2
      <4>3. \A i \in 1 .. n + 1 : jobs'[i].slot \in Slot
        BY <2>1, <3>1, <3>2, <3>3, <3>5
      <4>4. QED
        BY <2>1, <2>2, <3>2, <4>1, <4>2, <4>3 DEF JobQueue
    <3>9. JobRunning'
      BY <2>1, <3>1, <3>6, JobRecord DEF JobRunning
    <3>10. JobFuture'
      <4> SUFFICES ASSUME NEW p \in Path, future'[p] = "queued"
                   PROVE  (\E i \in 1 .. n + 1 : jobs'[i].task = p) \/ (running # None /\ running.task = p)
        BY <2>1, <3>2 DEF JobFuture
      <4>1. CASE p = cur
        <5>1. n + 1 \in 1 .. n + 1
          BY <3>2
        <5>2. QED
          BY <3>1, <3>3, <4>1, <5>1
      <4>2. CASE p # cur
        <5>1. (\E i \in 1 .. n : jobs[i].task = p) \/ (running # None /\ running.task = p)
          BY <3>1, <3>2, <4>2 DEF JobFuture
        <5>2. 1 .. n \subseteq 1 .. n + 1
          BY <3>2
        <5>3. QED
          BY <3>2, <5>1, <5>2
      <4>3. QED
        BY <4>1, <4>2
    <3>11. JobSlot'
      <4>1. ASSUME NEW p \in Path, Failed(p)' PROVE \E s \in Slot : slotMerge'[s] = p
        <5>1. p # cur /\ Failed(p)
          BY <3>1, <4>1 DEF Failed
        <5>2. QED
          BY <2>3, <3>1, <5>1, ForwardAssumption DEF JobSlot
      <4>2. ASSUME NEW s \in Slot, slotMerge'[s] # None
            PROVE  slotMerge'[s] = slotDone'[s] /\ future'[slotMerge'[s]] # "none"
        BY <2>2, <3>1, <4>2 DEF JobSlot, JobType
      <4>3. QED
        BY <2>1, <4>1, <4>2 DEF JobSlot
    <3>12. JobDirty'
      BY <2>1, <2>3, <3>1, <3>4 DEF JobDirty, Failed
    <3>13. QED
      BY <2>1, <2>5, <3>8, <3>9, <3>10, <3>11, <3>12 DEF JobKind
  <2>6. QED
    BY <2>4, <2>5
<1>12. CASE HandleError
  BY <1>12 DEF HandleError, Recoverable, JobKind, JobQueue, JobRunning, JobFuture, JobSlot, JobDirty, Working, Failed
<1>13. CASE HandleOom
  BY <1>13 DEF HandleOom, Recoverable, JobKind, JobQueue, JobRunning, JobFuture, JobSlot, JobDirty, Working, Failed
<1>14. CASE Synchronize
  BY <1>14 DEF Synchronize, DeviceIdle, JobKind, JobQueue, JobRunning, JobFuture, JobSlot, JobDirty, Working, Failed
<1>15. CASE HalveStreams
  <2>1. /\ UNCHANGED <<accumulator, jobs, running, future, slotMerge, out, dirty>>
        /\ \A s \in Slot : slotMerge[s] = None /\ pc = "drain" /\ pc' # "merge"
    BY <1>15 DEF HalveStreams, Resume, Drained
  <2>2. jobs = <<>> /\ running = None
    <3>1. running = None
      BY <2>1, JobRecord DEF JobRunning
    <3>2. DOMAIN jobs = {}
      BY <2>1, JobRecord DEF JobQueue
    <3>3. QED
      BY <3>1, <3>2, EmptySeq DEF JobType
  <2>3. \A p \in Path : ~Failed(p)
    BY <2>1, ForwardAssumption DEF JobSlot
  <2>4. DOMAIN jobs = {} /\ ~dirty
    BY <2>1, <2>2, <2>3, SlotType DEF JobDirty
  <2>5. QED
    BY <2>1, <2>2, <2>3, <2>4, SlotType DEF JobKind, JobQueue, JobRunning, JobFuture, JobSlot, JobDirty, Failed
<1>16. CASE RefineTask
  <2>1. /\ UNCHANGED <<accumulator, jobs, running, future, slotMerge, out, dirty>>
        /\ \A s \in Slot : slotMerge[s] = None /\ pc = "drain" /\ pc' # "merge"
    BY <1>16 DEF RefineTask, Resume, Drained
  <2>2. jobs = <<>> /\ running = None
    <3>1. running = None
      BY <2>1, JobRecord DEF JobRunning
    <3>2. DOMAIN jobs = {}
      BY <2>1, JobRecord DEF JobQueue
    <3>3. QED
      BY <3>1, <3>2, EmptySeq DEF JobType
  <2>3. \A p \in Path : ~Failed(p)
    BY <2>1, ForwardAssumption DEF JobSlot
  <2>4. DOMAIN jobs = {} /\ ~dirty
    BY <2>1, <2>2, <2>3, SlotType DEF JobDirty
  <2>5. QED
    BY <2>1, <2>2, <2>3, <2>4, SlotType DEF JobKind, JobQueue, JobRunning, JobFuture, JobSlot, JobDirty, Failed
<1>17. CASE GiveUp
  BY <1>17 DEF GiveUp, Drained, JobKind, JobQueue, JobRunning, JobFuture, JobSlot, JobDirty, Working, Failed
<1>18. CASE LoopDone
  BY <1>18 DEF LoopDone, JobKind, JobQueue, JobRunning, JobFuture, JobSlot, JobDirty, Working, Failed
<1>19. CASE Return
  BY <1>19 DEF Return, Drained, JobKind, JobQueue, JobRunning, JobFuture, JobSlot, JobDirty, Working, Failed
<1>20. ASSUME NEW s \in Slot, DrainMerge(s) PROVE JobInv'
  <2>1. UNCHANGED <<accumulator, jobs, running, future, slotDone, out, queue, dirty, outcome, pc, Working>> /\ S' = S
    BY <1>20 DEF DrainMerge, Working
  <2>2. s \in Slot /\ slotMerge[s] \in Path /\ future[slotMerge[s]] = "done" /\ pc # "merge"
    BY <1>20, SlotType DEF DrainMerge, Merged, Collectable, JobType
  <2>3. /\ slotMerge'[s] = None
        /\ \A r \in Slot : r # s => slotMerge'[r] = slotMerge[r]
    BY <1>20, <2>2 DEF DrainMerge, JobType
  <2> HIDE DEF Working
  <2>4. JobQueue'
    <3>1. \A i \in DOMAIN jobs : jobs[i].slot # s
      BY <2>2 DEF JobQueue
    <3>2. QED
      BY <2>1, <2>3, <3>1, JobRecord DEF JobQueue
  <2>5. JobRunning'
    BY <2>1, <2>2, <2>3, JobRecord DEF JobRunning
  <2>6. JobSlot'
    <3>1. ASSUME NEW p \in Path, Failed(p) PROVE \E r \in Slot : slotMerge'[r] = p
      <4>1. PICK r \in Slot : slotMerge[r] = p
        BY <3>1 DEF JobSlot
      <4>2. r # s
        BY <2>2, <3>1, <4>1 DEF Failed
      <4>3. QED
        BY <2>3, <4>1, <4>2
    <3>2. QED
      BY <2>1, <2>2, <2>3, <3>1 DEF JobSlot, Failed
  <2>7. QED
    BY <2>1, <2>2, <2>3, <2>4, <2>5, <2>6 DEF JobKind, JobFuture, JobDirty, Failed
<1>21. ASSUME NEW s \in Slot, JoinMerge(s) PROVE JobInv'
  <2>1. UNCHANGED <<accumulator, jobs, running, future, slotDone, out, queue, dirty, outcome, pc, Working>> /\ S' = S
    BY <1>21 DEF JoinMerge, Working
  <2>2. s \in Slot /\ slotMerge[s] \in Path /\ future[slotMerge[s]] = "done" /\ pc # "merge"
    BY <1>21, SlotType DEF JoinMerge, Merged, Collectable, JobType
  <2>3. /\ slotMerge'[s] = None
        /\ \A r \in Slot : r # s => slotMerge'[r] = slotMerge[r]
    BY <1>21, <2>2 DEF JoinMerge, JobType
  <2> HIDE DEF Working
  <2>4. JobQueue'
    <3>1. \A i \in DOMAIN jobs : jobs[i].slot # s
      BY <2>2 DEF JobQueue
    <3>2. QED
      BY <2>1, <2>3, <3>1, JobRecord DEF JobQueue
  <2>5. JobRunning'
    BY <2>1, <2>2, <2>3, JobRecord DEF JobRunning
  <2>6. JobSlot'
    <3>1. ASSUME NEW p \in Path, Failed(p) PROVE \E r \in Slot : slotMerge'[r] = p
      <4>1. PICK r \in Slot : slotMerge[r] = p
        BY <3>1 DEF JobSlot
      <4>2. r # s
        BY <2>2, <3>1, <4>1 DEF Failed
      <4>3. QED
        BY <2>3, <4>1, <4>2
    <3>2. QED
      BY <2>1, <2>2, <2>3, <3>1 DEF JobSlot, Failed
  <2>7. QED
    BY <2>1, <2>2, <2>3, <2>4, <2>5, <2>6 DEF JobKind, JobFuture, JobDirty, Failed
<1>22. ASSUME NEW s \in Slot, CollectFails(s) PROVE JobInv'
  BY <1>22 DEF CollectFails, Collectable, MergeFailed, JobKind, JobQueue, JobRunning, JobFuture, JobSlot, JobDirty, Working, Failed
<1>23. CASE ComputeFails
  BY <1>23 DEF ComputeFails, Raise, JobKind, JobQueue, JobRunning, JobFuture, JobSlot, JobDirty, Working, Failed
<1>24. CASE MergeFails
  BY <1>24 DEF MergeFails, Raise, JobKind, JobQueue, JobRunning, JobFuture, JobSlot, JobDirty, Working, Failed
<1>25. CASE CallerDone
  BY <1>25 DEF CallerDone, JobKind, JobQueue, JobRunning, JobFuture, JobSlot, JobDirty, Working, Failed
<1>26. ASSUME NEW s \in Slot, Load(s) PROVE JobInv'
  <2>1. UNCHANGED <<accumulator, jobs, running, future, slotMerge, slotDone, dirty, outcome, pc, Working>> /\ S' = S
    BY <1>26 DEF Load, Exec, Working
  <2> HIDE DEF Working
  <2>2. \A r \in Slot : slotMerge[r] # None =>
           /\ out[r] = slotMerge[r] => out'[r] = slotMerge[r]
           /\ queue[r] # <<>> /\ ~(Working /\ S = r) => queue'[r] # <<>> \/ out'[r] = slotMerge[r]
    BY <1>26, LaneKeeps DEF CustodyInv
  <2>3. JobQueue'
    <3>1. \A i \in DOMAIN jobs : slotMerge[jobs[i].slot] = jobs[i].task /\ jobs[i].task # None
                                 /\ jobs[i].slot \in Slot
      BY JobRecord DEF JobQueue
    <3>2. QED
      BY <2>1, <2>2, <3>1 DEF JobQueue
  <2>4. JobRunning'
    BY <2>1, <2>2, JobRecord DEF JobRunning
  <2>5. QED
    BY <2>1, <2>3, <2>4 DEF JobKind, JobFuture, JobSlot, JobDirty, Failed
<1>27. ASSUME NEW s \in Slot, Kernel(s) PROVE JobInv'
  <2>1. UNCHANGED <<accumulator, jobs, running, future, slotMerge, slotDone, dirty, outcome, pc, Working>> /\ S' = S
    BY <1>27 DEF Kernel, Exec, Working
  <2> HIDE DEF Working
  <2>2. \A r \in Slot : slotMerge[r] # None =>
           /\ out[r] = slotMerge[r] => out'[r] = slotMerge[r]
           /\ queue[r] # <<>> /\ ~(Working /\ S = r) => queue'[r] # <<>> \/ out'[r] = slotMerge[r]
    BY <1>27, LaneKeeps DEF CustodyInv
  <2>3. JobQueue'
    <3>1. \A i \in DOMAIN jobs : slotMerge[jobs[i].slot] = jobs[i].task /\ jobs[i].task # None
                                 /\ jobs[i].slot \in Slot
      BY JobRecord DEF JobQueue
    <3>2. QED
      BY <2>1, <2>2, <3>1 DEF JobQueue
  <2>4. JobRunning'
    BY <2>1, <2>2, JobRecord DEF JobRunning
  <2>5. QED
    BY <2>1, <2>3, <2>4 DEF JobKind, JobFuture, JobSlot, JobDirty, Failed
<1>28. ASSUME NEW s \in Slot, D2h(s) PROVE JobInv'
  <2>1. UNCHANGED <<accumulator, jobs, running, future, slotMerge, slotDone, dirty, outcome, pc, Working>> /\ S' = S
    BY <1>28 DEF D2h, Exec, Working
  <2> HIDE DEF Working
  <2>2. \A r \in Slot : slotMerge[r] # None =>
           /\ out[r] = slotMerge[r] => out'[r] = slotMerge[r]
           /\ queue[r] # <<>> /\ ~(Working /\ S = r) => queue'[r] # <<>> \/ out'[r] = slotMerge[r]
    BY <1>28, LaneKeeps DEF CustodyInv
  <2>3. JobQueue'
    <3>1. \A i \in DOMAIN jobs : slotMerge[jobs[i].slot] = jobs[i].task /\ jobs[i].task # None
                                 /\ jobs[i].slot \in Slot
      BY JobRecord DEF JobQueue
    <3>2. QED
      BY <2>1, <2>2, <3>1 DEF JobQueue
  <2>4. JobRunning'
    BY <2>1, <2>2, JobRecord DEF JobRunning
  <2>5. QED
    BY <2>1, <2>3, <2>4 DEF JobKind, JobFuture, JobSlot, JobDirty, Failed
<1>29. CASE WaitCompute(MergeStream)
  <2>1. UNCHANGED <<accumulator, jobs, running, future, slotMerge, slotDone, dirty, outcome, pc, out, Working>> /\ S' = S
    BY <1>29 DEF WaitCompute, Exec, Working
  <2> HIDE DEF Working
  <2>2. \A r \in Slot : queue'[r] = queue[r]
    BY <1>29, MqPop DEF WaitCompute
  <2>3. QED
    BY <2>1, <2>2, JobRecord DEF JobKind, JobQueue, JobRunning, JobFuture, JobSlot, JobDirty, Failed
<1>30. CASE MergeRead(MergeStream)
  <2>1. UNCHANGED <<accumulator, jobs, running, future, slotMerge, slotDone, dirty, outcome, pc, out, Working>> /\ S' = S
    BY <1>30 DEF MergeRead, Exec, Working
  <2> HIDE DEF Working
  <2>2. \A r \in Slot : queue'[r] = queue[r]
    BY <1>30, MqPop DEF MergeRead
  <2>3. QED
    BY <2>1, <2>2, JobRecord DEF JobKind, JobQueue, JobRunning, JobFuture, JobSlot, JobDirty, Failed
<1>31. CASE MergeCommit(MergeStream)
  <2>1. UNCHANGED <<accumulator, jobs, running, future, slotMerge, slotDone, dirty, outcome, pc, out, Working>> /\ S' = S
    BY <1>31 DEF MergeCommit, Exec, Working
  <2> HIDE DEF Working
  <2>2. \A r \in Slot : queue'[r] = queue[r]
    BY <1>31, MqPop DEF MergeCommit
  <2>3. QED
    BY <2>1, <2>2, JobRecord DEF JobKind, JobQueue, JobRunning, JobFuture, JobSlot, JobDirty, Failed
<1>32. CASE RecordDone(MergeStream)
  <2>1. UNCHANGED <<accumulator, jobs, running, future, slotMerge, slotDone, dirty, outcome, pc, out, Working>> /\ S' = S
    BY <1>32 DEF RecordDone, Exec, Working
  <2> HIDE DEF Working
  <2>2. \A r \in Slot : queue'[r] = queue[r]
    BY <1>32, MqPop DEF RecordDone
  <2>3. QED
    BY <2>1, <2>2, JobRecord DEF JobKind, JobQueue, JobRunning, JobFuture, JobSlot, JobDirty, Failed
<1>33. CASE WorkerStart
  <2> DEFINE n == Len(jobs)
  <2>1. /\ UNCHANGED <<accumulator, future, slotMerge, slotDone, dirty, outcome, pc, out, queue, Working>> /\ S' = S
        /\ running = None /\ running' = Head(jobs) /\ jobs' = Tail(jobs) /\ WorkDone(Head(jobs).task)
    BY <1>33 DEF WorkerStart, Working
  <2>2. /\ n \in Nat /\ 1 \in DOMAIN jobs /\ Head(jobs) = jobs[1] /\ DOMAIN jobs = 1 .. n /\ DOMAIN jobs' = 1 .. n - 1
        /\ \A i \in 1 .. n - 1 : jobs'[i] = jobs[i+1] /\ i + 1 \in DOMAIN jobs
    BY <1>33, EmptySeq DEF WorkerStart, JobType
  <2> HIDE DEF Working, n
  <2>3. out[jobs[1].slot] = jobs[1].task
    BY <2>1, <2>2, JobReady DEF CustodyInv
  <2>4. JobQueue'
    <3>1. \A i, j \in 1 .. n - 1 : jobs[i+1] = jobs[j+1] => i = j
      BY <2>2 DEF JobQueue
    <3>2. \A i \in 1 .. n - 1 : jobs[i+1] # jobs[1]
      BY <2>2 DEF JobQueue
    <3>3. \A i \in 1 .. n - 1 : i + 1 \in DOMAIN jobs
      BY <2>2
    <3>4. QED
      BY <2>1, <2>2, <3>1, <3>2, <3>3 DEF JobQueue
  <2>5. JobRunning'
    BY <2>1, <2>2, <2>3 DEF JobRunning, JobQueue
  <2>6. JobFuture'
    <3> SUFFICES ASSUME NEW p \in Path, future[p] = "queued"
                 PROVE  (\E i \in 1 .. n - 1 : jobs'[i].task = p) \/ jobs[1].task = p
      BY <2>1, <2>2, JobRecord DEF JobFuture
    <3>1. PICK i \in 1 .. n : jobs[i].task = p
      BY <2>1, <2>2 DEF JobFuture
    <3>2. CASE i = 1
      BY <3>1, <3>2
    <3>3. CASE i # 1
      <4>1. i - 1 \in 1 .. n - 1 /\ (i - 1) + 1 = i
        BY <2>2, <3>3
      <4>2. QED
        BY <2>2, <3>1, <4>1
    <3>4. QED
      BY <3>2, <3>3
  <2>7. JobKind'
    BY <2>1, <2>2 DEF JobKind
  <2>8. QED
    BY <2>1, <2>4, <2>5, <2>6, <2>7 DEF JobSlot, JobDirty, Failed
<1>34. CASE WorkerMerge
  <2> DEFINE p == running.task
  <2>1. /\ UNCHANGED <<accumulator, jobs, slotMerge, slotDone, outcome, pc, out, queue, Working>> /\ S' = S
        /\ running # None /\ running' = None
    BY <1>34 DEF WorkerMerge, Working
  <2>2. /\ p \in Path /\ p # None /\ running.slot \in Slot /\ slotMerge[running.slot] = p
        /\ future[p] = "queued"
    BY <2>1, JobRecord DEF JobRunning
  <2>3. \A q \in Path : q # p => future'[q] = future[q]
    BY <1>34, <2>2 DEF WorkerMerge, JobType, Fail
  <2>4. future'[p] \in {"done"}
    BY <1>34, <2>2 DEF WorkerMerge, JobType, Fail
  <2> HIDE DEF Working
  <2>5. \A i \in DOMAIN jobs : jobs[i].task # p
    <3> SUFFICES ASSUME NEW i \in DOMAIN jobs, jobs[i].task = p PROVE FALSE
      OBVIOUS
    <3>1. jobs[i].slot \in Slot /\ slotMerge[jobs[i].slot] = p
      BY JobRecord DEF JobQueue
    <3>2. slotDone[jobs[i].slot] = p /\ slotDone[running.slot] = p
      BY <2>2, <3>1 DEF JobSlot
    <3>3. jobs[i].slot = running.slot
      BY <2>2, <3>1, <3>2 DEF CustodyInv, CustodySlot
    <3>4. jobs[i] = running
      BY <2>1, <3>3, JobRecord
    <3>5. QED
      BY <3>4 DEF JobQueue
  <2> HIDE DEF p
  <2>6. JobQueue'
    BY <2>1, <2>3, <2>5, JobRecord DEF JobQueue
  <2>7. JobFuture'
    <3> SUFFICES ASSUME NEW q \in Path, future'[q] = "queued" PROVE \E i \in DOMAIN jobs : jobs[i].task = q
      BY <2>1 DEF JobFuture
    <3>1. q # p /\ future[q] = "queued"
      BY <2>3, <2>4
    <3>2. QED
      BY <3>1 DEF JobFuture, p
  <2>8. JobSlot'
    <3>1. ASSUME NEW q \in Path, Failed(q)' PROVE \E s \in Slot : slotMerge[s] = q
      BY <2>2, <2>3, <3>1 DEF JobSlot, Failed
    <3>2. ASSUME NEW s \in Slot, slotMerge[s] # None
          PROVE  slotMerge[s] = slotDone[s] /\ future'[slotMerge[s]] # "none"
      BY <2>2, <2>3, <2>4, <3>2 DEF JobSlot, JobType
    <3>3. QED
      BY <2>1, <3>1, <3>2 DEF JobSlot
  <2>9. JobDirty'
    <3>1. dirty' = dirty
      BY <1>34 DEF WorkerMerge
    <3>2. \A q \in Path : Failed(q) => Failed(q)'
      BY <2>2, <2>3 DEF Failed
    <3>3. QED
      BY <2>1, <3>1, <3>2 DEF JobDirty
  <2>10. JobKind' /\ JobRunning'
    BY <2>1 DEF JobKind, JobRunning
  <2>11. QED
    BY <2>6, <2>7, <2>8, <2>9, <2>10
<1>35. CASE WorkerFails
  <2> DEFINE p == running.task
  <2>1. /\ UNCHANGED <<accumulator, jobs, slotMerge, slotDone, outcome, pc, out, queue, Working>> /\ S' = S
        /\ running # None /\ running' = None
    BY <1>35 DEF WorkerFails, Working
  <2>2. /\ p \in Path /\ p # None /\ running.slot \in Slot /\ slotMerge[running.slot] = p
        /\ future[p] = "queued"
    BY <2>1, JobRecord DEF JobRunning
  <2>3. \A q \in Path : q # p => future'[q] = future[q]
    BY <1>35, <2>2 DEF WorkerFails, JobType, Fail
  <2>4. future'[p] \in {"oom", "error"}
    BY <1>35, <2>2 DEF WorkerFails, JobType, Fail
  <2> HIDE DEF Working
  <2>5. \A i \in DOMAIN jobs : jobs[i].task # p
    <3> SUFFICES ASSUME NEW i \in DOMAIN jobs, jobs[i].task = p PROVE FALSE
      OBVIOUS
    <3>1. jobs[i].slot \in Slot /\ slotMerge[jobs[i].slot] = p
      BY JobRecord DEF JobQueue
    <3>2. slotDone[jobs[i].slot] = p /\ slotDone[running.slot] = p
      BY <2>2, <3>1 DEF JobSlot
    <3>3. jobs[i].slot = running.slot
      BY <2>2, <3>1, <3>2 DEF CustodyInv, CustodySlot
    <3>4. jobs[i] = running
      BY <2>1, <3>3, JobRecord
    <3>5. QED
      BY <3>4 DEF JobQueue
  <2> HIDE DEF p
  <2>6. JobQueue'
    BY <2>1, <2>3, <2>5, JobRecord DEF JobQueue
  <2>7. JobFuture'
    <3> SUFFICES ASSUME NEW q \in Path, future'[q] = "queued" PROVE \E i \in DOMAIN jobs : jobs[i].task = q
      BY <2>1 DEF JobFuture
    <3>1. q # p /\ future[q] = "queued"
      BY <2>3, <2>4
    <3>2. QED
      BY <3>1 DEF JobFuture, p
  <2>8. JobSlot'
    <3>1. ASSUME NEW q \in Path, Failed(q)' PROVE \E s \in Slot : slotMerge[s] = q
      BY <2>2, <2>3, <3>1 DEF JobSlot, Failed
    <3>2. ASSUME NEW s \in Slot, slotMerge[s] # None
          PROVE  slotMerge[s] = slotDone[s] /\ future'[slotMerge[s]] # "none"
      BY <2>2, <2>3, <2>4, <3>2 DEF JobSlot, JobType
    <3>3. QED
      BY <2>1, <3>1, <3>2 DEF JobSlot
  <2>9. JobDirty'
    BY <2>1, <2>2, <2>4 DEF JobDirty, Failed
  <2>10. JobKind' /\ JobRunning'
    BY <2>1 DEF JobKind, JobRunning
  <2>11. QED
    BY <2>6, <2>7, <2>8, <2>9, <2>10
<1>36. CASE UNCHANGED vars
  BY <1>36 DEF vars, hostVars, JobKind, JobQueue, JobRunning, JobFuture, JobSlot, JobDirty, Working, Failed
<1>37. QED
  BY NextCases, <1>1, <1>2, <1>3, <1>4, <1>5, <1>6, <1>7, <1>8, <1>9, <1>10, <1>11,
     <1>12, <1>13, <1>14, <1>15, <1>16, <1>17, <1>18, <1>19, <1>20, <1>21, <1>22,
     <1>23, <1>24, <1>25, <1>26, <1>27, <1>28, <1>29, <1>30, <1>31, <1>32, <1>33,
     <1>34, <1>35, <1>36

-----------------------------------------------------------------------------
\* Completing an operation of the merge stream ends the commit it was.
LEMMA PopCommits ==
    ASSUME IInv, NEW kind, Exec(MergeStream, kind), NEW p \in Path
    PROVE  Committing(p)' <=> Committing(p) /\ ~(kind = "commit" /\ p = mq[1].task)
<1> USE DEF IInv
<1>1. /\ 1 \in DOMAIN mq /\ mq[1].op = kind
      /\ DOMAIN mq' = 1 .. Len(mq) - 1 /\ DOMAIN mq = 1 .. Len(mq) /\ Len(mq) \in Nat
      /\ \A i \in DOMAIN mq' : mq'[i] = mq[i+1] /\ i + 1 \in DOMAIN mq
  BY MqPop
<1>2. ASSUME NEW i \in DOMAIN mq, i # 1 PROVE i - 1 \in DOMAIN mq' /\ mq'[i-1] = mq[i]
  <2>1. i - 1 \in 1 .. Len(mq) - 1 /\ (i - 1) + 1 = i
    BY <1>1, <1>2
  <2>2. QED
    BY <1>1, <2>1
<1>3. ASSUME NEW i \in DOMAIN mq, i # 1, mq[i].op = "commit", mq[1].op = "commit"
      PROVE  mq[i].task # mq[1].task
  <2>1. mq[i].slot # mq[1].slot
    BY <1>1, <1>3 DEF MergeInv, MqOrder
  <2>2. QED
    BY <1>1, <2>1, MqType, ForwardAssumption DEF MergeInv, MqGuard, CustodyInv, CustodySlot
<1>4. ASSUME Committing(p)' PROVE Committing(p) /\ ~(kind = "commit" /\ p = mq[1].task)
  <2>1. PICK i \in DOMAIN mq' : mq'[i].op = "commit" /\ mq'[i].task = p
    BY <1>4 DEF Committing
  <2>2. i + 1 \in DOMAIN mq /\ i + 1 # 1 /\ mq[i+1].op = "commit" /\ mq[i+1].task = p
    BY <1>1, <2>1
  <2>3. QED
    BY <1>1, <1>3, <2>2 DEF Committing
<1>5. ASSUME Committing(p), ~(kind = "commit" /\ p = mq[1].task) PROVE Committing(p)'
  <2>1. PICK i \in DOMAIN mq : mq[i].op = "commit" /\ mq[i].task = p
    BY <1>5 DEF Committing
  <2>2. i # 1
    BY <1>1, <1>5, <2>1
  <2>3. QED
    BY <1>2, <2>1, <2>2 DEF Committing
<1>6. QED
  BY <1>4, <1>5

\* Only a merge of the host hands a subproblem over, and nothing takes it back.
LEMMA HandedStep ==
    ASSUME IInv, [Next]_vars, slot' = slot
    PROVE  \A p \in Path : Handed(p)' <=> Handed(p)
<1> USE SlotType DEF IInv, TypeInv, hostVars, callVars, slotVars, bufVars, gpuVars, jobVars
<1>1. CASE BuildLevel
  BY <1>1 DEF BuildLevel, Handed, Committing, mq
<1>2. CASE StartLoop
  BY <1>2 DEF StartLoop, Handed, Committing, mq
<1>3. CASE Pop
  BY <1>3 DEF Pop, Handed, Committing, mq
<1>4. CASE WaitSlot
  BY <1>4 DEF WaitSlot, SlotFree, Handed, Committing, mq
<1>5. CASE Gather
  <2>1. UNCHANGED <<acc, future>> /\ \E o : queue' = [queue EXCEPT ![S] = Append(@, o)]
    BY <1>5 DEF Gather
  <2>2. mq' = mq
    BY <2>1, SlotType DEF QueueType, mq
  <2>3. QED
    BY <2>1, <2>2 DEF Handed, Committing
<1>6. CASE Launch
  <2>1. UNCHANGED <<acc, future>> /\ \E o : queue' = [queue EXCEPT ![S] = Append(@, o)]
    BY <1>6 DEF Launch
  <2>2. mq' = mq
    BY <2>1, SlotType DEF QueueType, mq
  <2>3. QED
    BY <2>1, <2>2 DEF Handed, Committing
<1>7. CASE WaitMerge
  BY <1>7 DEF WaitMerge, Merged, Handed, Committing, mq
<1>8. CASE WaitMergeFails
  BY <1>8 DEF WaitMergeFails, MergeFailed, Handed, Committing, mq
<1>9. CASE StartD2h
  <2>1. UNCHANGED <<acc, future>> /\ \E o : queue' = [queue EXCEPT ![S] = Append(@, o)]
    BY <1>9 DEF StartD2h
  <2>2. mq' = mq
    BY <2>1, SlotType DEF QueueType, mq
  <2>3. QED
    BY <2>1, <2>2 DEF Handed, Committing
<1>10. CASE BlockingD2h
  BY <1>10 DEF BlockingD2h, Handed, Committing, mq
<1>11. CASE Merge
  <2>1. slot \in Nat /\ slot' = slot + 1 /\ slot' = slot
    BY <1>11 DEF Merge, HostType
  <2>2. QED
    BY <2>1
<1>12. CASE HandleError
  BY <1>12 DEF HandleError, Recoverable, Handed, Committing, mq
<1>13. CASE HandleOom
  BY <1>13 DEF HandleOom, Recoverable, Handed, Committing, mq
<1>14. CASE Synchronize
  BY <1>14 DEF Synchronize, DeviceIdle, Handed, Committing, mq
<1>15. CASE HalveStreams
  <2>1. UNCHANGED <<queue, acc, future>>
    BY <1>15 DEF HalveStreams, Resume
  <2>2. QED
    BY <2>1 DEF Handed, Committing, mq
<1>16. CASE RefineTask
  <2>1. UNCHANGED <<queue, acc, future>>
    BY <1>16 DEF RefineTask, Resume
  <2>2. QED
    BY <2>1 DEF Handed, Committing, mq
<1>17. CASE GiveUp
  BY <1>17 DEF GiveUp, Drained, Handed, Committing, mq
<1>18. CASE LoopDone
  BY <1>18 DEF LoopDone, Handed, Committing, mq
<1>19. CASE Return
  BY <1>19 DEF Return, Drained, Handed, Committing, mq
<1>20. ASSUME NEW s \in Slot, DrainMerge(s) PROVE \A p \in Path : Handed(p)' <=> Handed(p)
  BY <1>20 DEF DrainMerge, Collectable, Merged, Handed, Committing, mq
<1>21. ASSUME NEW s \in Slot, JoinMerge(s) PROVE \A p \in Path : Handed(p)' <=> Handed(p)
  BY <1>21 DEF JoinMerge, Collectable, Merged, Handed, Committing, mq
<1>22. ASSUME NEW s \in Slot, CollectFails(s) PROVE \A p \in Path : Handed(p)' <=> Handed(p)
  BY <1>22 DEF CollectFails, Collectable, MergeFailed, Handed, Committing, mq
<1>23. CASE ComputeFails
  BY <1>23 DEF ComputeFails, Raise, Handed, Committing, mq
<1>24. CASE MergeFails
  BY <1>24 DEF MergeFails, Raise, Handed, Committing, mq
<1>25. CASE CallerDone
  <2>1. acc' = acc
    BY <1>25 DEF CallerDone, PhaseInv
  <2>2. UNCHANGED <<queue, future>>
    BY <1>25 DEF CallerDone
  <2>3. QED
    BY <2>1, <2>2 DEF Handed, Committing, mq
<1>26. ASSUME NEW s \in Slot, Load(s) PROVE \A p \in Path : Handed(p)' <=> Handed(p)
  <2>1. UNCHANGED <<acc, future>> /\ queue' = [queue EXCEPT ![s] = Tail(@)]
    BY <1>26 DEF Load, Exec
  <2>2. mq' = mq
    BY <2>1, SlotType DEF QueueType, mq
  <2>3. QED
    BY <2>1, <2>2 DEF Handed, Committing
<1>27. ASSUME NEW s \in Slot, Kernel(s) PROVE \A p \in Path : Handed(p)' <=> Handed(p)
  <2>1. UNCHANGED <<acc, future>> /\ queue' = [queue EXCEPT ![s] = Tail(@)]
    BY <1>27 DEF Kernel, Exec
  <2>2. mq' = mq
    BY <2>1, SlotType DEF QueueType, mq
  <2>3. QED
    BY <2>1, <2>2 DEF Handed, Committing
<1>28. ASSUME NEW s \in Slot, D2h(s) PROVE \A p \in Path : Handed(p)' <=> Handed(p)
  <2>1. UNCHANGED <<acc, future>> /\ queue' = [queue EXCEPT ![s] = Tail(@)]
    BY <1>28 DEF D2h, Exec
  <2>2. mq' = mq
    BY <2>1, SlotType DEF QueueType, mq
  <2>3. QED
    BY <2>1, <2>2 DEF Handed, Committing
<1>29. CASE WaitCompute(MergeStream)
  <2>1. UNCHANGED <<acc, future>>
    BY <1>29 DEF WaitCompute, Exec
  <2>2. \A p \in Path : Committing(p)' <=> Committing(p)
    BY <1>29, PopCommits, MqPop DEF WaitCompute
  <2>3. QED
    BY <2>1, <2>2 DEF Handed
<1>30. CASE MergeRead(MergeStream)
  <2>1. UNCHANGED <<acc, future>>
    BY <1>30 DEF MergeRead, Exec
  <2>2. \A p \in Path : Committing(p)' <=> Committing(p)
    BY <1>30, PopCommits, MqPop DEF MergeRead
  <2>3. QED
    BY <2>1, <2>2 DEF Handed
<1>31. CASE MergeCommit(MergeStream)
  <2> DEFINE q == mq[1].task
  <2>1. /\ q \in Path /\ acc' = [acc EXCEPT ![q] = 1] /\ 1 \in DOMAIN mq /\ mq[1].op = "commit"
    BY <1>31, CommitFacts, MqPop DEF MergeCommit
  <2>2. future' = future
    BY <1>31 DEF MergeCommit, Exec
  <2>3. \A p \in Path : Committing(p)' <=> Committing(p) /\ p # q
    BY <1>31, PopCommits, MqPop DEF MergeCommit
  <2>4. Committing(q)
    BY <2>1 DEF Committing
  <2> HIDE DEF q
  <2>5. acc'[q] = 1 /\ \A p \in Path : p # q => acc'[p] = acc[p]
    BY <2>1 DEF BufType
  <2>6. QED
    BY <2>2, <2>3, <2>4, <2>5 DEF Handed
<1>32. CASE RecordDone(MergeStream)
  <2>1. UNCHANGED <<acc, future>>
    BY <1>32 DEF RecordDone, Exec
  <2>2. \A p \in Path : Committing(p)' <=> Committing(p)
    BY <1>32, PopCommits, MqPop DEF RecordDone
  <2>3. QED
    BY <2>1, <2>2 DEF Handed
<1>33. CASE WorkerStart
  BY <1>33 DEF WorkerStart, Handed, Committing, mq
<1>34. CASE WorkerMerge
  <2> DEFINE q == running.task
  <2>1. q \in Path /\ acc' = [acc EXCEPT ![q] = 1] /\ future[q] = "queued"
    BY <1>34, WorkerFacts
  <2>2. future' = [future EXCEPT ![q] = "done"] /\ mq' = mq
    BY <1>34 DEF WorkerMerge, mq
  <2> HIDE DEF q
  <2>3. /\ acc'[q] = 1 /\ \A p \in Path : p # q => acc'[p] = acc[p]
        /\ future'[q] = "done" /\ \A p \in Path : p # q => future'[p] = future[p]
    BY <2>1, <2>2 DEF BufType, JobType
  <2>4. QED
    BY <2>1, <2>2, <2>3 DEF Handed, Committing
<1>35. CASE WorkerFails
  <2> DEFINE q == running.task
  <2>1. q \in Path /\ future[q] = "queued"
    BY <1>35, JobRecord DEF WorkerFails, JobInv, JobRunning
  <2>2. acc' = acc /\ mq' = mq
    BY <1>35 DEF WorkerFails, mq
  <2>3. PICK kind \in {"oom", "error"} : future' = [future EXCEPT ![q] = kind]
    BY <1>35 DEF WorkerFails, Fail
  <2> HIDE DEF q
  <2>4. future'[q] = kind /\ \A p \in Path : p # q => future'[p] = future[p]
    BY <2>1, <2>3 DEF JobType
  <2>5. QED
    BY <2>1, <2>2, <2>4 DEF Handed, Committing
<1>36. CASE UNCHANGED vars
  BY <1>36 DEF vars, hostVars, Handed, Committing, mq
<1>37. QED
  BY NextCases, <1>1, <1>2, <1>3, <1>4, <1>5, <1>6, <1>7, <1>8, <1>9, <1>10, <1>11,
     <1>12, <1>13, <1>14, <1>15, <1>16, <1>17, <1>18, <1>19, <1>20, <1>21, <1>22,
     <1>23, <1>24, <1>25, <1>26, <1>27, <1>28, <1>29, <1>30, <1>31, <1>32, <1>33,
     <1>34, <1>35, <1>36

\* A merge of the host hands over the subproblem in its hands.
LEMMA HandedMerge ==
    ASSUME IInv, Merge
    PROVE  /\ \A p \in Path : Handed(p)' <=> Handed(p) \/ p = cur
           /\ \A p \in Path : Committing(p)' <=> Committing(p) \/ (p = cur /\ accumulator = "gpu")
           /\ cur \in Path /\ ~Handed(cur)
<1> DEFINE n == Len(mq)
           k == IF accumulator = "gpu" THEN 4 ELSE 2
<1> USE DEF IInv
<1>1. /\ n \in Nat /\ DOMAIN mq = 1 .. n
      /\ Len(mq') = n + k /\ DOMAIN mq' = 1 .. n + k
      /\ \A i \in 1 .. n : mq'[i] = mq[i]
      /\ mq'[n+1] = Op("wait", cur, S)
      /\ accumulator = "gpu" => mq'[n+2] = Op("read", cur, S) /\ mq'[n+3] = Op("commit", cur, S)
      /\ mq'[n+k] = Op("done", cur, S)
      /\ cur \in Path /\ cur # None
  BY MergeFacts
<1>2. ~Handed(cur)
  BY <1>1 DEF CustodyInv, CustodyPending
<1>3. /\ mq'[n+1].op = "wait" /\ mq'[n+k].op = "done"
      /\ accumulator = "gpu" => mq'[n+2].op = "read" /\ mq'[n+3].op = "commit" /\ mq'[n+3].task = cur
  BY <1>1, OpFields
<1>4. k = IF accumulator = "gpu" THEN 4 ELSE 2
  OBVIOUS
<1> HIDE DEF n, k
<1>5. ASSUME NEW p \in Path PROVE Committing(p)' <=> Committing(p) \/ (p = cur /\ accumulator = "gpu")
  <2>1. ASSUME NEW i \in 1 .. n + k, mq'[i].op = "commit", i \notin 1 .. n
        PROVE  accumulator = "gpu" /\ i = n + 3
    <3>1. i \in {n+1, n+2, n+3, n+4} /\ (accumulator # "gpu" => i \in {n+1, n+2})
      BY <1>1, <1>4, <2>1
    <3>2. QED
      BY <1>3, <1>4, <2>1, <3>1
  <2>2. 1 .. n \subseteq 1 .. n + k /\ (accumulator = "gpu" => n + 3 \in 1 .. n + k)
    BY <1>1, <1>4
  <2>3. QED
    BY <1>1, <1>3, <2>1, <2>2 DEF Committing
<1>6. CASE accumulator = "gpu"
  <2>1. UNCHANGED <<acc, future>>
    BY <1>6 DEF Merge
  <2>2. QED
    BY <1>1, <1>2, <1>5, <1>6, <2>1 DEF Handed
<1>7. CASE accumulator = "worker"
  <2>1. acc' = acc /\ future' = [future EXCEPT ![cur] = "queued"]
    BY <1>7 DEF Merge
  <2>2. future'[cur] = "queued" /\ \A p \in Path : p # cur => future'[p] = future[p]
    BY <1>1, <2>1 DEF TypeInv, JobType
  <2>3. QED
    BY <1>1, <1>2, <1>5, <1>7, <2>1, <2>2 DEF Handed
<1>8. CASE accumulator = "inline"
  <2>1. acc' = [acc EXCEPT ![cur] = 1] /\ future' = future
    BY <1>8, InlineFacts DEF Merge
  <2>2. acc'[cur] = 1 /\ \A p \in Path : p # cur => acc'[p] = acc[p]
    BY <1>1, <2>1 DEF TypeInv, BufType
  <2>3. QED
    BY <1>1, <1>2, <1>5, <1>8, <2>1, <2>2 DEF Handed
<1>9. QED
  BY <1>1, <1>2, <1>5, <1>6, <1>7, <1>8 DEF TypeInv, HostType, Accumulator

-----------------------------------------------------------------------------
\* The task queue holds paths, and no path is None.
LEMMA PendingType ==
    ASSUME TypeInv
    PROVE  /\ pending \in Seq(Path) /\ \A i \in DOMAIN pending : pending[i] \in Path /\ pending[i] # None
           /\ Range(pending) \subseteq Path /\ None \notin Path
           /\ Range(pending) = {pending[i] : i \in DOMAIN pending}
<1>1. pending \in Seq(Path)
  BY DEF TypeInv, HostType
<1>2. \A i \in DOMAIN pending : pending[i] \in Path
  BY <1>1
<1>3. QED
  BY <1>1, <1>2, ForwardAssumption DEF Range

\* A subproblem put back, or its children, at the head of the queue.
LEMMA PutBack ==
    ASSUME IInv, NEW list \in Seq(Path), Distinct(list), cur \in Path,
           \A q \in Range(list) : q = cur \/ q \notin Held,
           pending' = list \o pending, cur' = None, \A p \in Path : Handed(p)' <=> Handed(p)
    PROVE  CustodyPending' /\ Range(pending') = Range(list) \cup Range(pending)
<1> USE DEF IInv
<1>1. pending \in Seq(Path) /\ Distinct(pending)
  BY PendingType DEF CustodyInv, CustodyPending
<1>2. cur \notin Range(pending)
  BY PendingType DEF CustodyInv, CustodyPending
<1>3. \A q \in Range(list) : q \notin Range(pending) /\ ~Handed(q) /\ q \in Path
  <2> SUFFICES ASSUME NEW q \in Range(list) PROVE q \notin Range(pending) /\ ~Handed(q) /\ q \in Path
    OBVIOUS
  <2>1. q \in Path
    BY DEF Range
  <2>2. CASE q = cur
    BY <1>2, <2>2, PendingType DEF CustodyInv, CustodyPending
  <2>3. CASE q \notin Held
    BY <2>1, <2>3 DEF Held
  <2>4. QED
    BY <2>1, <2>2, <2>3
<1>4. Range(list) \cap Range(pending) = {}
  BY <1>3
<1>5. /\ pending' \in Seq(Path) /\ Distinct(pending')
      /\ Range(pending') = Range(list) \cup Range(pending)
  BY <1>1, <1>4, ConcatDistinct
<1>6. \A q \in Range(pending) : q \in Path /\ ~Handed(q)
  BY PendingType DEF CustodyInv, CustodyPending
<1>7. \A i \in DOMAIN pending' : pending'[i] \in Range(pending')
  BY <1>5 DEF Range
<1>8. \A i \in DOMAIN pending' : pending'[i] \in Path /\ ~Handed(pending'[i])
  BY <1>3, <1>5, <1>6, <1>7
<1>9. \A i \in DOMAIN pending' : pending'[i] # None
  BY <1>8, PendingType
<1>10. (\A i \in DOMAIN pending : ~Handed(pending[i]))'
  BY <1>8
<1>11. QED
  BY <1>5, <1>9, <1>10 DEF CustodyPending

\* Parts of CustodyInv that an action keeps when it leaves what they are about alone.
LEMMA PendingKeeps ==
    ASSUME IInv, UNCHANGED <<pending, cur>>, \A p \in Path : Handed(p)' <=> Handed(p)
    PROVE  CustodyPending'
<1>1. cur \in Path \cup {None}
  BY DEF IInv, TypeInv, HostType
<1>2. QED
  BY <1>1, PendingType DEF IInv, CustodyInv, CustodyPending

\* What was merged is known by acc and the futures alone.
LEMMA MergedKeeps ==
    ASSUME IInv, UNCHANGED <<acc, future, accumulator>>, \A p \in Path : Committing(p)' => Committing(p)
    PROVE  CustodyMerged'
  BY DEF IInv, CustodyInv, CustodyMerged

\* A slot's last subproblem stays handed over.
LEMMA SlotKeeps ==
    ASSUME IInv, UNCHANGED slotDone, \A p \in Path : Handed(p)' <=> Handed(p)
    PROVE  CustodySlot'
<1>1. \A s \in Slot : slotDone[s] \in Path \cup {None}
  BY DEF IInv, TypeInv, JobType
<1>2. QED
  BY <1>1 DEF IInv, CustodyInv, CustodySlot

\* Committing without the device accumulator.
LEMMA CommitsGpu ==
    ASSUME IInv, NEW p, Committing(p)
    PROVE  accumulator = "gpu"
  BY DEF IInv, MergeInv, MqGuard, Committing

\* Every action keeps each subproblem in one place.
LEMMA CustodyStep ==
    ASSUME IInv, [Next]_vars
    PROVE  CustodyInv'
<1> USE SlotType DEF IInv, TypeInv, hostVars, callVars, slotVars, bufVars, gpuVars, jobVars
<1>1. CASE BuildLevel
  <2>1. UNCHANGED <<slot, cur, slotDone, acc, future, accumulator, mq>>
    BY <1>1 DEF BuildLevel, mq
  <2>2. \A p \in Path : Handed(p)' <=> Handed(p)
    BY <2>1, HandedStep
  <2>3. \A p \in Path : ~Handed(p)
    BY <1>1, SlotType DEF BuildLevel, PhaseInv, Handed, Committing, mq
  <2>4. cur = None
    BY <1>1 DEF BuildLevel, PhaseInv
  <2>5. pending' \in Seq(Path) /\ Distinct(pending')
    BY <1>1, BuildFacts
  <2>6. \A i \in DOMAIN pending' : pending'[i] \in Path
    BY <2>5
  <2>7. CustodyPending'
    BY <2>1, <2>2, <2>3, <2>4, <2>5, <2>6, PendingType DEF CustodyPending
  <2>8. QED
    BY <2>1, <2>2, <2>7, MergedKeeps, SlotKeeps DEF CustodyInv, Committing
<1>2. CASE StartLoop
  <2>1. UNCHANGED <<pending, cur, slot, slotDone, acc, future, accumulator, mq>>
    BY <1>2 DEF StartLoop, mq
  <2>2. \A p \in Path : Handed(p)' <=> Handed(p)
    BY <2>1, HandedStep
  <2>3. QED
    BY <2>1, <2>2, PendingKeeps, MergedKeeps, SlotKeeps DEF CustodyInv, Committing
<1>3. CASE Pop
  <2> DEFINE n == Len(pending)
  <2>1. UNCHANGED <<slot, slotDone, acc, future, accumulator, mq>> /\ cur' = Head(pending) /\ pending' = Tail(pending)
    BY <1>3 DEF Pop, mq
  <2>2. \A p \in Path : Handed(p)' <=> Handed(p)
    BY <2>1, HandedStep
  <2>3. /\ n \in Nat /\ DOMAIN pending = 1 .. n /\ DOMAIN pending' = 1 .. n - 1
        /\ 1 \in 1 .. n /\ cur' = pending[1]
        /\ \A i \in 1 .. n - 1 : pending'[i] = pending[i+1] /\ i + 1 \in 1 .. n
    BY <1>3, <2>1, EmptySeq, PendingType DEF Pop
  <2> HIDE DEF n
  <2>4. \A i \in 1 .. n : pending[i] \in Path /\ ~Handed(pending[i])
    BY <2>3, PendingType DEF CustodyInv, CustodyPending
  <2>5. \A i, j \in 1 .. n - 1 : pending[i+1] = pending[j+1] => i + 1 = j + 1
    BY <2>3 DEF CustodyInv, CustodyPending, Distinct
  <2>6. \A i, j \in 1 .. n - 1 : pending[i+1] = pending[j+1] => i = j
    BY <2>3, <2>5
  <2>7. \A i \in 1 .. n - 1 : pending[i+1] # pending[1]
    BY <2>3 DEF CustodyInv, CustodyPending, Distinct
  <2>8. CustodyPending'
    BY <2>2, <2>3, <2>4, <2>6, <2>7 DEF CustodyPending, Distinct
  <2>9. QED
    BY <2>1, <2>2, <2>8, MergedKeeps, SlotKeeps DEF CustodyInv, Committing
<1>4. CASE WaitSlot
  <2>1. UNCHANGED <<pending, cur, slot, slotDone, acc, future, accumulator, mq>>
    BY <1>4 DEF WaitSlot, mq
  <2>2. \A p \in Path : Handed(p)' <=> Handed(p)
    BY <2>1, HandedStep
  <2>3. QED
    BY <2>1, <2>2, PendingKeeps, MergedKeeps, SlotKeeps DEF CustodyInv, Committing
<1>5. CASE Gather
  <2>1. UNCHANGED <<pending, cur, slot, slotDone, acc, future, accumulator, mq>>
    BY <1>5, SlotType DEF Gather, QueueType, mq, Exec
  <2>2. \A p \in Path : Handed(p)' <=> Handed(p)
    BY <2>1, HandedStep
  <2>3. QED
    BY <2>1, <2>2, PendingKeeps, MergedKeeps, SlotKeeps DEF CustodyInv, Committing
<1>6. CASE Launch
  <2>1. UNCHANGED <<pending, cur, slot, slotDone, acc, future, accumulator, mq>>
    BY <1>6, SlotType DEF Launch, QueueType, mq, Exec
  <2>2. \A p \in Path : Handed(p)' <=> Handed(p)
    BY <2>1, HandedStep
  <2>3. QED
    BY <2>1, <2>2, PendingKeeps, MergedKeeps, SlotKeeps DEF CustodyInv, Committing
<1>7. CASE WaitMerge
  <2>1. UNCHANGED <<pending, cur, slot, slotDone, acc, future, accumulator, mq>>
    BY <1>7 DEF WaitMerge, mq
  <2>2. \A p \in Path : Handed(p)' <=> Handed(p)
    BY <2>1, HandedStep
  <2>3. QED
    BY <2>1, <2>2, PendingKeeps, MergedKeeps, SlotKeeps DEF CustodyInv, Committing
<1>8. CASE WaitMergeFails
  <2>1. UNCHANGED <<pending, cur, slot, slotDone, acc, future, accumulator, mq>>
    BY <1>8 DEF WaitMergeFails, mq
  <2>2. \A p \in Path : Handed(p)' <=> Handed(p)
    BY <2>1, HandedStep
  <2>3. QED
    BY <2>1, <2>2, PendingKeeps, MergedKeeps, SlotKeeps DEF CustodyInv, Committing
<1>9. CASE StartD2h
  <2>1. UNCHANGED <<pending, cur, slot, slotDone, acc, future, accumulator, mq>>
    BY <1>9, SlotType DEF StartD2h, QueueType, mq, Exec
  <2>2. \A p \in Path : Handed(p)' <=> Handed(p)
    BY <2>1, HandedStep
  <2>3. QED
    BY <2>1, <2>2, PendingKeeps, MergedKeeps, SlotKeeps DEF CustodyInv, Committing
<1>10. CASE BlockingD2h
  <2>1. UNCHANGED <<pending, cur, slot, slotDone, acc, future, accumulator, mq>>
    BY <1>10 DEF BlockingD2h, mq
  <2>2. \A p \in Path : Handed(p)' <=> Handed(p)
    BY <2>1, HandedStep
  <2>3. QED
    BY <2>1, <2>2, PendingKeeps, MergedKeeps, SlotKeeps DEF CustodyInv, Committing
<1>11. CASE Merge
  <2>1. /\ \A p \in Path : Handed(p)' <=> Handed(p) \/ p = cur
        /\ \A p \in Path : Committing(p)' <=> Committing(p) \/ (p = cur /\ accumulator = "gpu")
        /\ cur \in Path /\ ~Handed(cur)
    BY <1>11, HandedMerge
  <2>2. cur' = None /\ UNCHANGED <<pending, accumulator>>
    BY <1>11 DEF Merge
  <2>3. slotDone'[S] = cur /\ \A s \in Slot : s # S => slotDone'[s] = slotDone[s]
    BY <1>11 DEF Merge, JobType
  <2>4. CustodyPending'
    BY <2>1, <2>2, PendingType DEF CustodyInv, CustodyPending
  <2>5. CustodySlot'
    <3>1. \A s \in Slot : slotDone[s] # None => slotDone[s] \in Path /\ slotDone[s] # cur
      BY <2>1 DEF CustodyInv, CustodySlot, JobType
    <3>2. QED
      BY <2>1, <2>3, <3>1 DEF CustodyInv, CustodySlot
  <2>6. CustodyMerged'
    <3>1. acc[cur] # 1 /\ future[cur] = "none" /\ ~Committing(cur)
      BY <2>1 DEF Handed
    <3>2. CASE accumulator = "gpu"
      <4>1. UNCHANGED <<acc, future>>
        BY <1>11, <3>2 DEF Merge
      <4>2. QED
        BY <2>1, <2>2, <3>1, <4>1 DEF CustodyInv, CustodyMerged
    <3>3. CASE accumulator = "worker"
      <4>1. acc' = acc /\ future'[cur] = "queued" /\ \A p \in Path : p # cur => future'[p] = future[p]
        BY <1>11, <2>1, <3>3 DEF Merge, JobType
      <4>2. QED
        BY <2>1, <2>2, <3>1, <3>3, <4>1 DEF CustodyInv, CustodyMerged
    <3>4. CASE accumulator = "inline"
      <4>1. acc' = [acc EXCEPT ![cur] = 1] /\ future' = future
        BY <1>11, <3>4, InlineFacts DEF Merge
      <4>2. acc'[cur] = 1 /\ \A p \in Path : p # cur => acc'[p] = acc[p]
        BY <2>1, <4>1 DEF BufType
      <4>3. QED
        BY <2>1, <2>2, <3>1, <3>4, <4>1, <4>2 DEF CustodyInv, CustodyMerged
    <3>5. QED
      BY <3>2, <3>3, <3>4 DEF HostType, Accumulator
  <2>7. QED
    BY <2>4, <2>5, <2>6 DEF CustodyInv
<1>12. CASE HandleError
  <2>1. UNCHANGED <<pending, cur, slot, slotDone, acc, future, accumulator, mq>>
    BY <1>12 DEF HandleError, mq
  <2>2. \A p \in Path : Handed(p)' <=> Handed(p)
    BY <2>1, HandedStep
  <2>3. QED
    BY <2>1, <2>2, PendingKeeps, MergedKeeps, SlotKeeps DEF CustodyInv, Committing
<1>13. CASE HandleOom
  <2>1. UNCHANGED <<pending, cur, slot, slotDone, acc, future, accumulator, mq>>
    BY <1>13 DEF HandleOom, mq
  <2>2. \A p \in Path : Handed(p)' <=> Handed(p)
    BY <2>1, HandedStep
  <2>3. QED
    BY <2>1, <2>2, PendingKeeps, MergedKeeps, SlotKeeps DEF CustodyInv, Committing
<1>14. CASE Synchronize
  <2>1. UNCHANGED <<pending, cur, slot, slotDone, acc, future, accumulator, mq>>
    BY <1>14 DEF Synchronize, mq
  <2>2. \A p \in Path : Handed(p)' <=> Handed(p)
    BY <2>1, HandedStep
  <2>3. QED
    BY <2>1, <2>2, PendingKeeps, MergedKeeps, SlotKeeps DEF CustodyInv, Committing
<1>15. CASE HalveStreams
  <2>1. /\ UNCHANGED <<slot, acc, future, accumulator, mq>> /\ cur' = None
        /\ slotDone' = [s \in Slot |-> None] /\ cur \in Path
    BY <1>15 DEF HalveStreams, Resume, mq, PhaseInv, HostType
  <2>2. \A p \in Path : Handed(p)' <=> Handed(p)
    BY <1>15, <2>1, HandedStep
  <2>3. /\ pending' = <<cur>> \o pending /\ <<cur>> \in Seq(Path) /\ Distinct(<<cur>>)
        /\ Range(<<cur>>) = {cur}
    BY <1>15, <2>1 DEF HalveStreams, Retry, Distinct, Range
  <2>4. CustodyPending'
    BY <2>1, <2>2, <2>3, PutBack
  <2>5. CustodySlot'
    BY <2>1 DEF CustodySlot
  <2>6. QED
    BY <2>1, <2>4, <2>5, MergedKeeps DEF CustodyInv, Committing
<1>16. CASE RefineTask
  <2>1. /\ UNCHANGED <<slot, acc, future, accumulator, mq>> /\ cur' = None
        /\ slotDone' = [s \in Slot |-> None] /\ cur \in Path
    BY <1>16 DEF RefineTask, Resume, mq, PhaseInv, HostType
  <2>2. \A p \in Path : Handed(p)' <=> Handed(p)
    BY <1>16, <2>1, HandedStep
  <2>3. /\ pending' = Kids(cur) \o pending /\ Kids(cur) \in Seq(Path) /\ Distinct(Kids(cur))
        /\ \A q \in Range(Kids(cur)) : q \notin Held
    BY <1>16, RefineFacts DEF RefineTask, Replace
  <2>4. CustodyPending'
    BY <2>1, <2>2, <2>3, PutBack
  <2>5. CustodySlot'
    BY <2>1 DEF CustodySlot
  <2>6. QED
    BY <2>1, <2>4, <2>5, MergedKeeps DEF CustodyInv, Committing
<1>17. CASE GiveUp
  <2>1. UNCHANGED <<pending, cur, slot, slotDone, acc, future, accumulator, mq>>
    BY <1>17 DEF GiveUp, mq
  <2>2. \A p \in Path : Handed(p)' <=> Handed(p)
    BY <2>1, HandedStep
  <2>3. QED
    BY <2>1, <2>2, PendingKeeps, MergedKeeps, SlotKeeps DEF CustodyInv, Committing
<1>18. CASE LoopDone
  <2>1. UNCHANGED <<pending, cur, slot, slotDone, acc, future, accumulator, mq>>
    BY <1>18 DEF LoopDone, mq
  <2>2. \A p \in Path : Handed(p)' <=> Handed(p)
    BY <2>1, HandedStep
  <2>3. QED
    BY <2>1, <2>2, PendingKeeps, MergedKeeps, SlotKeeps DEF CustodyInv, Committing
<1>19. CASE Return
  <2>1. UNCHANGED <<pending, cur, slot, slotDone, acc, future, accumulator, mq>>
    BY <1>19 DEF Return, mq
  <2>2. \A p \in Path : Handed(p)' <=> Handed(p)
    BY <2>1, HandedStep
  <2>3. QED
    BY <2>1, <2>2, PendingKeeps, MergedKeeps, SlotKeeps DEF CustodyInv, Committing
<1>20. ASSUME NEW s \in Slot, DrainMerge(s) PROVE CustodyInv'
  <2>1. UNCHANGED <<pending, cur, slot, slotDone, acc, future, accumulator, mq>>
    BY <1>20 DEF DrainMerge, mq
  <2>2. \A p \in Path : Handed(p)' <=> Handed(p)
    BY <2>1, HandedStep
  <2>3. QED
    BY <2>1, <2>2, PendingKeeps, MergedKeeps, SlotKeeps DEF CustodyInv, Committing
<1>21. ASSUME NEW s \in Slot, JoinMerge(s) PROVE CustodyInv'
  <2>1. UNCHANGED <<pending, cur, slot, slotDone, acc, future, accumulator, mq>>
    BY <1>21 DEF JoinMerge, mq
  <2>2. \A p \in Path : Handed(p)' <=> Handed(p)
    BY <2>1, HandedStep
  <2>3. QED
    BY <2>1, <2>2, PendingKeeps, MergedKeeps, SlotKeeps DEF CustodyInv, Committing
<1>22. ASSUME NEW s \in Slot, CollectFails(s) PROVE CustodyInv'
  <2>1. UNCHANGED <<pending, cur, slot, slotDone, acc, future, accumulator, mq>>
    BY <1>22 DEF CollectFails, mq
  <2>2. \A p \in Path : Handed(p)' <=> Handed(p)
    BY <2>1, HandedStep
  <2>3. QED
    BY <2>1, <2>2, PendingKeeps, MergedKeeps, SlotKeeps DEF CustodyInv, Committing
<1>23. CASE ComputeFails
  <2>1. UNCHANGED <<pending, cur, slot, slotDone, acc, future, accumulator, mq>>
    BY <1>23 DEF ComputeFails, Raise, mq
  <2>2. \A p \in Path : Handed(p)' <=> Handed(p)
    BY <2>1, HandedStep
  <2>3. QED
    BY <2>1, <2>2, PendingKeeps, MergedKeeps, SlotKeeps DEF CustodyInv, Committing
<1>24. CASE MergeFails
  <2>1. UNCHANGED <<pending, cur, slot, slotDone, acc, future, accumulator, mq>>
    BY <1>24 DEF MergeFails, Raise, mq
  <2>2. \A p \in Path : Handed(p)' <=> Handed(p)
    BY <2>1, HandedStep
  <2>3. QED
    BY <2>1, <2>2, PendingKeeps, MergedKeeps, SlotKeeps DEF CustodyInv, Committing
<1>25. CASE CallerDone
  <2>1. UNCHANGED <<pending, cur, slot, slotDone, acc, future, accumulator, mq>>
    BY <1>25 DEF CallerDone, PhaseInv, mq
  <2>2. \A p \in Path : Handed(p)' <=> Handed(p)
    BY <2>1, HandedStep
  <2>3. QED
    BY <2>1, <2>2, PendingKeeps, MergedKeeps, SlotKeeps DEF CustodyInv, Committing
<1>26. ASSUME NEW s \in Slot, Load(s) PROVE CustodyInv'
  <2>1. UNCHANGED <<pending, cur, slot, slotDone, acc, future, accumulator, mq>>
    BY <1>26, SlotType DEF Load, QueueType, mq, Exec
  <2>2. \A p \in Path : Handed(p)' <=> Handed(p)
    BY <2>1, HandedStep
  <2>3. QED
    BY <2>1, <2>2, PendingKeeps, MergedKeeps, SlotKeeps DEF CustodyInv, Committing
<1>27. ASSUME NEW s \in Slot, Kernel(s) PROVE CustodyInv'
  <2>1. UNCHANGED <<pending, cur, slot, slotDone, acc, future, accumulator, mq>>
    BY <1>27, SlotType DEF Kernel, QueueType, mq, Exec
  <2>2. \A p \in Path : Handed(p)' <=> Handed(p)
    BY <2>1, HandedStep
  <2>3. QED
    BY <2>1, <2>2, PendingKeeps, MergedKeeps, SlotKeeps DEF CustodyInv, Committing
<1>28. ASSUME NEW s \in Slot, D2h(s) PROVE CustodyInv'
  <2>1. UNCHANGED <<pending, cur, slot, slotDone, acc, future, accumulator, mq>>
    BY <1>28, SlotType DEF D2h, QueueType, mq, Exec
  <2>2. \A p \in Path : Handed(p)' <=> Handed(p)
    BY <2>1, HandedStep
  <2>3. QED
    BY <2>1, <2>2, PendingKeeps, MergedKeeps, SlotKeeps DEF CustodyInv, Committing
<1>29. CASE WaitCompute(MergeStream)
  <2>1. UNCHANGED <<pending, cur, slot, slotDone, acc, future, accumulator>>
    BY <1>29 DEF WaitCompute, Exec
  <2>2. \A p \in Path : Handed(p)' <=> Handed(p)
    BY <2>1, HandedStep
  <2>3. \A p \in Path : Committing(p)' => Committing(p)
    BY <1>29, PopCommits DEF WaitCompute
  <2>4. QED
    BY <2>1, <2>2, <2>3, PendingKeeps, MergedKeeps, SlotKeeps DEF CustodyInv
<1>30. CASE MergeRead(MergeStream)
  <2>1. UNCHANGED <<pending, cur, slot, slotDone, acc, future, accumulator>>
    BY <1>30 DEF MergeRead, Exec
  <2>2. \A p \in Path : Handed(p)' <=> Handed(p)
    BY <2>1, HandedStep
  <2>3. \A p \in Path : Committing(p)' => Committing(p)
    BY <1>30, PopCommits DEF MergeRead
  <2>4. QED
    BY <2>1, <2>2, <2>3, PendingKeeps, MergedKeeps, SlotKeeps DEF CustodyInv
<1>31. CASE MergeCommit(MergeStream)
  <2> DEFINE q == mq[1].task
  <2>1. UNCHANGED <<pending, cur, slot, slotDone, future, accumulator>>
    BY <1>31 DEF MergeCommit, Exec
  <2>2. \A p \in Path : Handed(p)' <=> Handed(p)
    BY <2>1, HandedStep
  <2>3. \A p \in Path : Committing(p)' <=> Committing(p) /\ p # q
    BY <1>31, PopCommits, MqPop DEF MergeCommit
  <2>4. q \in Path /\ future[q] = "none" /\ acc' = [acc EXCEPT ![q] = 1]
    BY <1>31, CommitFacts
  <2> HIDE DEF q
  <2>5. acc'[q] = 1 /\ \A p \in Path : p # q => acc'[p] = acc[p]
    BY <2>4 DEF BufType
  <2>6. CustodyMerged'
    BY <2>1, <2>3, <2>4, <2>5 DEF CustodyInv, CustodyMerged
  <2>7. QED
    BY <2>1, <2>2, <2>6, PendingKeeps, SlotKeeps DEF CustodyInv
<1>32. CASE RecordDone(MergeStream)
  <2>1. UNCHANGED <<pending, cur, slot, slotDone, acc, future, accumulator>>
    BY <1>32 DEF RecordDone, Exec
  <2>2. \A p \in Path : Handed(p)' <=> Handed(p)
    BY <2>1, HandedStep
  <2>3. \A p \in Path : Committing(p)' => Committing(p)
    BY <1>32, PopCommits DEF RecordDone
  <2>4. QED
    BY <2>1, <2>2, <2>3, PendingKeeps, MergedKeeps, SlotKeeps DEF CustodyInv
<1>33. CASE WorkerStart
  <2>1. UNCHANGED <<pending, cur, slot, slotDone, acc, future, accumulator, mq>>
    BY <1>33 DEF WorkerStart, mq
  <2>2. \A p \in Path : Handed(p)' <=> Handed(p)
    BY <2>1, HandedStep
  <2>3. QED
    BY <2>1, <2>2, PendingKeeps, MergedKeeps, SlotKeeps DEF CustodyInv, Committing
<1>34. CASE WorkerMerge
  <2> DEFINE q == running.task
  <2>1. UNCHANGED <<pending, cur, slot, slotDone, accumulator, mq>> /\ future' = [future EXCEPT ![q] = "done"]
    BY <1>34 DEF WorkerMerge, mq
  <2>2. \A p \in Path : Handed(p)' <=> Handed(p)
    BY <2>1, HandedStep
  <2>3. q \in Path /\ accumulator = "worker" /\ acc' = [acc EXCEPT ![q] = 1]
    BY <1>34, WorkerFacts
  <2>4. \A p \in Path : ~Committing(p)'
    BY <2>1, <2>3, CommitsGpu DEF Committing
  <2> HIDE DEF q
  <2>5. /\ acc'[q] = 1 /\ \A p \in Path : p # q => acc'[p] = acc[p]
        /\ future'[q] = "done" /\ \A p \in Path : p # q => future'[p] = future[p]
    BY <2>1, <2>3 DEF BufType, JobType
  <2>6. CustodyMerged'
    BY <2>1, <2>3, <2>4, <2>5 DEF CustodyInv, CustodyMerged
  <2>7. QED
    BY <2>1, <2>2, <2>6, PendingKeeps, SlotKeeps DEF CustodyInv
<1>35. CASE WorkerFails
  <2> DEFINE q == running.task
  <2>1. UNCHANGED <<pending, cur, slot, slotDone, accumulator, mq, acc>>
    BY <1>35 DEF WorkerFails, mq
  <2>2. \A p \in Path : Handed(p)' <=> Handed(p)
    BY <2>1, HandedStep
  <2>3. q \in Path /\ future[q] = "queued"
    BY <1>35, JobRecord DEF WorkerFails, JobInv, JobRunning
  <2>4. PICK kind \in {"oom", "error"} : future' = [future EXCEPT ![q] = kind]
    BY <1>35 DEF WorkerFails, Fail
  <2> HIDE DEF q
  <2>5. future'[q] = kind /\ \A p \in Path : p # q => future'[p] = future[p]
    BY <2>3, <2>4 DEF JobType
  <2>6. acc[q] # 1 /\ accumulator = "worker"
    BY <2>3 DEF CustodyInv, CustodyMerged
  <2>7. CustodyMerged'
    BY <2>1, <2>5, <2>6 DEF CustodyInv, CustodyMerged, Committing
  <2>8. QED
    BY <2>1, <2>2, <2>7, PendingKeeps, SlotKeeps DEF CustodyInv
<1>36. CASE UNCHANGED vars
  <2>1. UNCHANGED <<pending, cur, slot, slotDone, acc, future, accumulator, mq>>
    BY <1>36 DEF vars, mq
  <2>2. \A p \in Path : Handed(p)' <=> Handed(p)
    BY <2>1, HandedStep
  <2>3. QED
    BY <2>1, <2>2, PendingKeeps, MergedKeeps, SlotKeeps DEF CustodyInv, Committing
<1>37. QED
  BY NextCases, <1>1, <1>2, <1>3, <1>4, <1>5, <1>6, <1>7, <1>8, <1>9, <1>10, <1>11,
     <1>12, <1>13, <1>14, <1>15, <1>16, <1>17, <1>18, <1>19, <1>20, <1>21, <1>22,
     <1>23, <1>24, <1>25, <1>26, <1>27, <1>28, <1>29, <1>30, <1>31, <1>32, <1>33,
     <1>34, <1>35, <1>36

-----------------------------------------------------------------------------
\* What is held: the queue, the subproblem in hand and those handed over,
LEMMA HeldIs ==
    ASSUME TypeInv
    PROVE  \A p : p \in Held <=> p \in Path /\ (p = cur \/ Handed(p) \/ p \in Range(pending))
  BY PendingType DEF Held

\* also after the step.
LEMMA HeldIsNext ==
    ASSUME TypeInv'
    PROVE  \A p : p \in Held' <=> p \in Path /\ (p = cur' \/ Handed(p)' \/ p \in Range(pending'))
<1>1. pending' \in Seq(Path)
  BY DEF TypeInv, HostType
<1>2. Range(pending') \subseteq Path
  BY <1>1 DEF Range
<1>3. QED
  BY <1>2 DEF Held

\* Building a level replaces every subproblem by its children: all have the same
\* length, so that none descends from another, and every leaf descends from one.
LEMMA BuildCovers ==
    ASSUME IInv, BuildLevel, [Next]_vars, TypeInv'
    PROVE  CoverInv'
<1> USE DEF IInv
<1> DEFINE next == Range(pending')
<1>1. \A p \in Path : ~Handed(p)
  BY SlotType DEF BuildLevel, PhaseInv, Handed, Committing, mq
<1>2. cur = None /\ cur' = None /\ slot' = slot
  BY DEF BuildLevel, PhaseInv
<1>3. \A p \in Path : ~Handed(p)'
  BY <1>1, <1>2, HandedStep
<1>4. \A p : p \in Held <=> p \in Range(pending)
  BY <1>1, <1>2, HeldIs, PendingType
<1>5. \A p : p \in Held' <=> p \in Path /\ p \in next
  BY <1>2, <1>3, HeldIsNext, PendingType
<1>6. /\ pending' \in Seq(Path) /\ next = UNION {Range(Kids(pending[i])) : i \in DOMAIN pending}
      /\ \A i \in DOMAIN pending' : Len(pending'[i]) = level' /\ level \in Nat /\ level < Deepest
  BY BuildFacts
<1>7. \A p \in next : Len(p) = level'
  BY <1>6 DEF Range
<1>8. \A i \in DOMAIN pending : Len(pending[i]) = level
  BY DEF PhaseInv, BuildLevel
<1>9. level \in Nat /\ level < Deepest
  BY BuildFacts
<1>10. ASSUME NEW p \in Held', NEW q \in Held', q \in Ancestors(p) PROVE q = p
  <2>1. p \in Seq(Chunk) /\ Len(q) = Len(p)
    BY <1>5, <1>7, <1>10, PathIs
  <2>2. QED
    BY <1>10, <2>1, AncestorsIs
<1>11. ASSUME NEW p \in Leaf PROVE \E q \in Ancestors(p) : q \in Held'
  <2>1. PICK q \in Ancestors(p) : q \in Held
    BY <1>11 DEF CoverInv
  <2>2. PICK i \in DOMAIN pending : pending[i] = q
    BY <1>4, <2>1, PendingType
  <2>3. Len(q) = level /\ q \in Path /\ Len(q) < Deepest
    BY <1>8, <1>9, <2>2, PendingType
  <2>4. p \in Path /\ Len(p) = Deepest /\ p \in Seq(Chunk)
    BY LeafAncestors, PathIs DEF Leaf
  <2>5. PICK j \in Chunk : Append(q, j) \in Ancestors(p)
    BY <2>1, <2>3, <2>4, AncestorsIs
  <2>6. Append(q, j) \in Nonempty /\ Append(q, j) \in Path
    BY <2>5, LeafAncestors
  <2>7. Append(q, j) \in Range(Kids(pending[i]))
    BY <2>2, <2>3, <2>6, KidsIs
  <2>8. Append(q, j) \in Held'
    BY <1>5, <1>6, <2>6, <2>7
  <2>9. QED
    BY <2>5, <2>8
<1>12. QED
  BY <1>10, <1>11 DEF CoverInv

\* Refining replaces one subproblem by its children: neither do these descend from
\* what is held nor does what is held descend from them, and the leaves below the
\* subproblem are below its children.
LEMMA RefineCovers ==
    ASSUME IInv, RefineTask, [Next]_vars, TypeInv'
    PROVE  CoverInv'
<1> USE DEF IInv
<1> DEFINE kids == Range(Kids(cur))
<1>1. /\ cur \in Path /\ Len(cur) < Deepest /\ Kids(cur) \in Seq(Path) /\ Distinct(Kids(cur))
      /\ kids = {Append(cur, j) : j \in Chunk} \cap Nonempty
      /\ \A q \in kids : q \in Path /\ q \notin Held /\ q # cur
  BY RefineFacts
<1>2. /\ UNCHANGED <<slot, acc, future, accumulator, mq>> /\ cur' = None
      /\ pending' = Kids(cur) \o pending
  BY DEF RefineTask, Replace, Resume, mq, hostVars, callVars, slotVars, gpuVars, bufVars, jobVars
<1>3. \A p \in Path : Handed(p)' <=> Handed(p)
  BY <1>2, HandedStep
<1>4. Range(pending') = kids \cup Range(pending)
  BY <1>1, <1>2, <1>3, PutBack
<1>5. ~Handed(cur) /\ cur \notin Range(pending)
  BY <1>1, PendingType DEF CustodyInv, CustodyPending
<1> HIDE DEF kids
<1>6. \A p : p \in Held' <=> p \in kids \/ (p \in Held /\ p # cur)
  BY <1>1, <1>2, <1>3, <1>4, <1>5, HeldIs, HeldIsNext, PendingType
<1>7. cur \in Held /\ cur \in Seq(Chunk)
  BY <1>1, HeldIs, PathIs
<1>8. \A p \in Held : p \in Path /\ p \in Seq(Chunk)
  BY HeldIs, PathIs
<1>9. ASSUME NEW p \in kids
      PROVE  /\ Ancestors(p) = Ancestors(cur) \cup {p} /\ cur \in Ancestors(p) /\ Len(p) = Len(cur) + 1
             /\ p \in Seq(Chunk) /\ Len(cur) \in Nat
  <2>1. PICK j \in Chunk : p = Append(cur, j)
    BY <1>1 DEF kids
  <2>2. Ancestors(p) = Ancestors(cur) \cup {p} /\ cur \in Ancestors(cur)
    BY <1>7, <2>1, ChildAncestors, AncestorsIs
  <2>3. QED
    BY <1>7, <2>1, <2>2, AppendProperties
<1>10. ASSUME NEW p \in Held', NEW q \in Held', q \in Ancestors(p) PROVE q = p
  <2>1. CASE p \in kids
    <3>1. q \in Ancestors(cur) \/ q = p
      BY <1>9, <1>10, <2>1
    <3>2. CASE q \in Ancestors(cur)
      <4>1. q \notin kids
        BY <1>7, <1>9, <3>2, AncestorsIs
      <4>2. q \in Held /\ q # cur
        BY <1>6, <1>10, <4>1
      <4>3. QED
        BY <1>7, <3>2, <4>2 DEF CoverInv
    <3>3. QED
      BY <3>1, <3>2
  <2>2. CASE p \in Held /\ p # cur
    <3>1. CASE q \in kids
      <4>1. cur \in Ancestors(q) /\ Len(cur) <= Len(q)
        BY <1>9, <3>1
      <4>2. cur \in Ancestors(p)
        <5>1. PICK j \in Chunk : q = Append(cur, j)
          BY <1>1, <3>1 DEF kids
        <5>2. QED
          BY <1>7, <1>8, <1>10, <2>2, <5>1, AncestorsIs
      <4>3. QED
        BY <1>7, <2>2, <4>2 DEF CoverInv
    <3>2. CASE q \in Held
      BY <1>10, <2>2, <3>2 DEF CoverInv
    <3>3. QED
      BY <1>6, <1>10, <3>1, <3>2
  <2>3. QED
    BY <1>6, <1>10, <2>1, <2>2
<1>11. ASSUME NEW p \in Leaf PROVE \E q \in Ancestors(p) : q \in Held'
  <2>1. PICK q \in Ancestors(p) : q \in Held
    BY <1>11 DEF CoverInv
  <2>2. CASE q # cur
    BY <1>6, <2>1, <2>2
  <2>3. CASE q = cur
    <3>1. p \in Path /\ Len(p) = Deepest /\ p \in Seq(Chunk)
      BY LeafAncestors, PathIs DEF Leaf
    <3>2. PICK j \in Chunk : Append(cur, j) \in Ancestors(p)
      BY <1>1, <2>1, <2>3, <3>1, AncestorsIs
    <3>3. Append(cur, j) \in Nonempty
      BY <3>2, LeafAncestors
    <3>4. Append(cur, j) \in kids
      BY <1>1, <3>3 DEF kids
    <3>5. QED
      BY <1>6, <3>2, <3>4
  <2>4. QED
    BY <2>2, <2>3
<1>12. QED
  BY <1>10, <1>11 DEF CoverInv

\* Every action but building a level and refining leaves what is held as it is.
LEMMA HeldStep ==
    ASSUME IInv, [Next]_vars, TypeInv', ~BuildLevel, ~RefineTask
    PROVE  \A p : p \in Held' <=> p \in Held
<1> USE SlotType DEF IInv, TypeInv, hostVars, callVars, slotVars, bufVars, gpuVars, jobVars
<1>1. CASE BuildLevel
  BY <1>1
<1>2. CASE StartLoop
  <2>1. UNCHANGED <<pending, cur, slot>>
    BY <1>2 DEF StartLoop
  <2>2. \A p \in Path : Handed(p)' <=> Handed(p)
    BY <2>1, HandedStep
  <2>3. QED
    BY <2>1, <2>2, HeldIs, HeldIsNext
<1>3. CASE Pop
  <2>1. slot' = slot /\ cur' = Head(pending) /\ pending' = Tail(pending) /\ cur = None
    BY <1>3 DEF Pop, PhaseInv
  <2>2. \A p \in Path : Handed(p)' <=> Handed(p)
    BY <2>1, HandedStep
  <2>3. Range(pending) = {cur'} \cup Range(pending')
    <3> DEFINE n == Len(pending)
    <3>1. /\ n \in Nat /\ DOMAIN pending = 1 .. n /\ DOMAIN pending' = 1 .. n - 1
          /\ 1 \in 1 .. n /\ cur' = pending[1]
          /\ \A i \in 1 .. n - 1 : pending'[i] = pending[i+1] /\ i + 1 \in 1 .. n
      BY <1>3, <2>1, EmptySeq, PendingType DEF Pop
    <3> HIDE DEF n
    <3>2. ASSUME NEW i \in 1 .. n, i # 1 PROVE pending[i] \in Range(pending')
      <4>1. i - 1 \in 1 .. n - 1 /\ (i - 1) + 1 = i
        BY <3>1, <3>2
      <4>2. QED
        BY <3>1, <4>1 DEF Range
    <3>3. QED
      BY <3>1, <3>2 DEF Range
  <2>4. cur' \in Path /\ cur \notin Path
    BY <2>1, <2>3, PendingType
  <2>5. QED
    BY <2>2, <2>3, <2>4, HeldIs, HeldIsNext
<1>4. CASE WaitSlot
  <2>1. UNCHANGED <<pending, cur, slot>>
    BY <1>4 DEF WaitSlot
  <2>2. \A p \in Path : Handed(p)' <=> Handed(p)
    BY <2>1, HandedStep
  <2>3. QED
    BY <2>1, <2>2, HeldIs, HeldIsNext
<1>5. CASE Gather
  <2>1. UNCHANGED <<pending, cur, slot>>
    BY <1>5 DEF Gather
  <2>2. \A p \in Path : Handed(p)' <=> Handed(p)
    BY <2>1, HandedStep
  <2>3. QED
    BY <2>1, <2>2, HeldIs, HeldIsNext
<1>6. CASE Launch
  <2>1. UNCHANGED <<pending, cur, slot>>
    BY <1>6 DEF Launch
  <2>2. \A p \in Path : Handed(p)' <=> Handed(p)
    BY <2>1, HandedStep
  <2>3. QED
    BY <2>1, <2>2, HeldIs, HeldIsNext
<1>7. CASE WaitMerge
  <2>1. UNCHANGED <<pending, cur, slot>>
    BY <1>7 DEF WaitMerge
  <2>2. \A p \in Path : Handed(p)' <=> Handed(p)
    BY <2>1, HandedStep
  <2>3. QED
    BY <2>1, <2>2, HeldIs, HeldIsNext
<1>8. CASE WaitMergeFails
  <2>1. UNCHANGED <<pending, cur, slot>>
    BY <1>8 DEF WaitMergeFails
  <2>2. \A p \in Path : Handed(p)' <=> Handed(p)
    BY <2>1, HandedStep
  <2>3. QED
    BY <2>1, <2>2, HeldIs, HeldIsNext
<1>9. CASE StartD2h
  <2>1. UNCHANGED <<pending, cur, slot>>
    BY <1>9 DEF StartD2h
  <2>2. \A p \in Path : Handed(p)' <=> Handed(p)
    BY <2>1, HandedStep
  <2>3. QED
    BY <2>1, <2>2, HeldIs, HeldIsNext
<1>10. CASE BlockingD2h
  <2>1. UNCHANGED <<pending, cur, slot>>
    BY <1>10 DEF BlockingD2h
  <2>2. \A p \in Path : Handed(p)' <=> Handed(p)
    BY <2>1, HandedStep
  <2>3. QED
    BY <2>1, <2>2, HeldIs, HeldIsNext
<1>11. CASE Merge
  <2>1. cur' = None /\ pending' = pending
    BY <1>11 DEF Merge
  <2>2. \A p \in Path : Handed(p)' <=> Handed(p) \/ p = cur
    BY <1>11, HandedMerge
  <2>3. QED
    BY <2>1, <2>2, HeldIs, HeldIsNext, PendingType
<1>12. CASE HandleError
  <2>1. UNCHANGED <<pending, cur, slot>>
    BY <1>12 DEF HandleError
  <2>2. \A p \in Path : Handed(p)' <=> Handed(p)
    BY <2>1, HandedStep
  <2>3. QED
    BY <2>1, <2>2, HeldIs, HeldIsNext
<1>13. CASE HandleOom
  <2>1. UNCHANGED <<pending, cur, slot>>
    BY <1>13 DEF HandleOom
  <2>2. \A p \in Path : Handed(p)' <=> Handed(p)
    BY <2>1, HandedStep
  <2>3. QED
    BY <2>1, <2>2, HeldIs, HeldIsNext
<1>14. CASE Synchronize
  <2>1. UNCHANGED <<pending, cur, slot>>
    BY <1>14 DEF Synchronize
  <2>2. \A p \in Path : Handed(p)' <=> Handed(p)
    BY <2>1, HandedStep
  <2>3. QED
    BY <2>1, <2>2, HeldIs, HeldIsNext
<1>15. CASE HalveStreams
  <2>1. slot' = slot /\ cur' = None /\ pending' = <<cur>> \o pending /\ cur \in Path
    BY <1>15 DEF HalveStreams, Resume, Retry, PhaseInv, HostType
  <2>2. \A p \in Path : Handed(p)' <=> Handed(p)
    BY <2>1, HandedStep
  <2>3. <<cur>> \in Seq(Path) /\ Distinct(<<cur>>) /\ Range(<<cur>>) = {cur}
    BY <2>1 DEF Distinct, Range
  <2>4. Range(pending') = {cur} \cup Range(pending)
    BY <2>1, <2>2, <2>3, PutBack
  <2>5. QED
    BY <2>1, <2>2, <2>4, HeldIs, HeldIsNext, PendingType
<1>16. CASE RefineTask
  BY <1>16
<1>17. CASE GiveUp
  <2>1. UNCHANGED <<pending, cur, slot>>
    BY <1>17 DEF GiveUp
  <2>2. \A p \in Path : Handed(p)' <=> Handed(p)
    BY <2>1, HandedStep
  <2>3. QED
    BY <2>1, <2>2, HeldIs, HeldIsNext
<1>18. CASE LoopDone
  <2>1. UNCHANGED <<pending, cur, slot>>
    BY <1>18 DEF LoopDone
  <2>2. \A p \in Path : Handed(p)' <=> Handed(p)
    BY <2>1, HandedStep
  <2>3. QED
    BY <2>1, <2>2, HeldIs, HeldIsNext
<1>19. CASE Return
  <2>1. UNCHANGED <<pending, cur, slot>>
    BY <1>19 DEF Return
  <2>2. \A p \in Path : Handed(p)' <=> Handed(p)
    BY <2>1, HandedStep
  <2>3. QED
    BY <2>1, <2>2, HeldIs, HeldIsNext
<1>20. ASSUME NEW s \in Slot, DrainMerge(s) PROVE \A p : p \in Held' <=> p \in Held
  <2>1. UNCHANGED <<pending, cur, slot>>
    BY <1>20 DEF DrainMerge
  <2>2. \A p \in Path : Handed(p)' <=> Handed(p)
    BY <2>1, HandedStep
  <2>3. QED
    BY <2>1, <2>2, HeldIs, HeldIsNext
<1>21. ASSUME NEW s \in Slot, JoinMerge(s) PROVE \A p : p \in Held' <=> p \in Held
  <2>1. UNCHANGED <<pending, cur, slot>>
    BY <1>21 DEF JoinMerge
  <2>2. \A p \in Path : Handed(p)' <=> Handed(p)
    BY <2>1, HandedStep
  <2>3. QED
    BY <2>1, <2>2, HeldIs, HeldIsNext
<1>22. ASSUME NEW s \in Slot, CollectFails(s) PROVE \A p : p \in Held' <=> p \in Held
  <2>1. UNCHANGED <<pending, cur, slot>>
    BY <1>22 DEF CollectFails
  <2>2. \A p \in Path : Handed(p)' <=> Handed(p)
    BY <2>1, HandedStep
  <2>3. QED
    BY <2>1, <2>2, HeldIs, HeldIsNext
<1>23. CASE ComputeFails
  <2>1. UNCHANGED <<pending, cur, slot>>
    BY <1>23 DEF ComputeFails, Raise
  <2>2. \A p \in Path : Handed(p)' <=> Handed(p)
    BY <2>1, HandedStep
  <2>3. QED
    BY <2>1, <2>2, HeldIs, HeldIsNext
<1>24. CASE MergeFails
  <2>1. UNCHANGED <<pending, cur, slot>>
    BY <1>24 DEF MergeFails, Raise
  <2>2. \A p \in Path : Handed(p)' <=> Handed(p)
    BY <2>1, HandedStep
  <2>3. QED
    BY <2>1, <2>2, HeldIs, HeldIsNext
<1>25. CASE CallerDone
  <2>1. UNCHANGED <<pending, cur, slot>>
    BY <1>25 DEF CallerDone
  <2>2. \A p \in Path : Handed(p)' <=> Handed(p)
    BY <2>1, HandedStep
  <2>3. QED
    BY <2>1, <2>2, HeldIs, HeldIsNext
<1>26. ASSUME NEW s \in Slot, Load(s) PROVE \A p : p \in Held' <=> p \in Held
  <2>1. UNCHANGED <<pending, cur, slot>>
    BY <1>26 DEF Load, Exec
  <2>2. \A p \in Path : Handed(p)' <=> Handed(p)
    BY <2>1, HandedStep
  <2>3. QED
    BY <2>1, <2>2, HeldIs, HeldIsNext
<1>27. ASSUME NEW s \in Slot, Kernel(s) PROVE \A p : p \in Held' <=> p \in Held
  <2>1. UNCHANGED <<pending, cur, slot>>
    BY <1>27 DEF Kernel, Exec
  <2>2. \A p \in Path : Handed(p)' <=> Handed(p)
    BY <2>1, HandedStep
  <2>3. QED
    BY <2>1, <2>2, HeldIs, HeldIsNext
<1>28. ASSUME NEW s \in Slot, D2h(s) PROVE \A p : p \in Held' <=> p \in Held
  <2>1. UNCHANGED <<pending, cur, slot>>
    BY <1>28 DEF D2h, Exec
  <2>2. \A p \in Path : Handed(p)' <=> Handed(p)
    BY <2>1, HandedStep
  <2>3. QED
    BY <2>1, <2>2, HeldIs, HeldIsNext
<1>29. CASE WaitCompute(MergeStream)
  <2>1. UNCHANGED <<pending, cur, slot>>
    BY <1>29 DEF WaitCompute, Exec
  <2>2. \A p \in Path : Handed(p)' <=> Handed(p)
    BY <2>1, HandedStep
  <2>3. QED
    BY <2>1, <2>2, HeldIs, HeldIsNext
<1>30. CASE MergeRead(MergeStream)
  <2>1. UNCHANGED <<pending, cur, slot>>
    BY <1>30 DEF MergeRead, Exec
  <2>2. \A p \in Path : Handed(p)' <=> Handed(p)
    BY <2>1, HandedStep
  <2>3. QED
    BY <2>1, <2>2, HeldIs, HeldIsNext
<1>31. CASE MergeCommit(MergeStream)
  <2>1. UNCHANGED <<pending, cur, slot>>
    BY <1>31 DEF MergeCommit, Exec
  <2>2. \A p \in Path : Handed(p)' <=> Handed(p)
    BY <2>1, HandedStep
  <2>3. QED
    BY <2>1, <2>2, HeldIs, HeldIsNext
<1>32. CASE RecordDone(MergeStream)
  <2>1. UNCHANGED <<pending, cur, slot>>
    BY <1>32 DEF RecordDone, Exec
  <2>2. \A p \in Path : Handed(p)' <=> Handed(p)
    BY <2>1, HandedStep
  <2>3. QED
    BY <2>1, <2>2, HeldIs, HeldIsNext
<1>33. CASE WorkerStart
  <2>1. UNCHANGED <<pending, cur, slot>>
    BY <1>33 DEF WorkerStart
  <2>2. \A p \in Path : Handed(p)' <=> Handed(p)
    BY <2>1, HandedStep
  <2>3. QED
    BY <2>1, <2>2, HeldIs, HeldIsNext
<1>34. CASE WorkerMerge
  <2>1. UNCHANGED <<pending, cur, slot>>
    BY <1>34 DEF WorkerMerge
  <2>2. \A p \in Path : Handed(p)' <=> Handed(p)
    BY <2>1, HandedStep
  <2>3. QED
    BY <2>1, <2>2, HeldIs, HeldIsNext
<1>35. CASE WorkerFails
  <2>1. UNCHANGED <<pending, cur, slot>>
    BY <1>35 DEF WorkerFails
  <2>2. \A p \in Path : Handed(p)' <=> Handed(p)
    BY <2>1, HandedStep
  <2>3. QED
    BY <2>1, <2>2, HeldIs, HeldIsNext
<1>36. CASE UNCHANGED vars
  <2>1. UNCHANGED <<pending, cur, slot>>
    BY <1>36 DEF vars
  <2>2. \A p \in Path : Handed(p)' <=> Handed(p)
    BY <2>1, HandedStep
  <2>3. QED
    BY <2>1, <2>2, HeldIs, HeldIsNext
<1>37. QED
  BY NextCases, <1>1, <1>2, <1>3, <1>4, <1>5, <1>6, <1>7, <1>8, <1>9, <1>10, <1>11,
     <1>12, <1>13, <1>14, <1>15, <1>16, <1>17, <1>18, <1>19, <1>20, <1>21, <1>22,
     <1>23, <1>24, <1>25, <1>26, <1>27, <1>28, <1>29, <1>30, <1>31, <1>32, <1>33,
     <1>34, <1>35, <1>36

\* Every action keeps the subproblems held a cover of the leaves.
LEMMA CoverStep ==
    ASSUME IInv, [Next]_vars
    PROVE  CoverInv'
<1>1. TypeInv'
  BY TypeStep
<1>2. CASE BuildLevel
  BY <1>1, <1>2, BuildCovers
<1>3. CASE RefineTask
  BY <1>1, <1>3, RefineCovers
<1>4. CASE ~BuildLevel /\ ~RefineTask
  <2>1. \A p : p \in Held' <=> p \in Held
    BY <1>1, <1>4, HeldStep
  <2>2. CoverInv
    BY DEF IInv
  <2>3. QED
    BY <2>1, <2>2 DEF CoverInv
<1>5. QED
  BY <1>2, <1>3, <1>4

-----------------------------------------------------------------------------
\* The invariant holds of the initial states.
LEMMA InitInv ==
    ASSUME Init
    PROVE  IInv
<1> USE DEF Init
<1>1. /\ <<>> \in Path /\ None \notin Path /\ NPar \in Nat \ {0} /\ Itr \in Nat
      /\ slot = 0 /\ accumulator \in Accumulator
  BY PathStep, ForwardAssumption, DeepestType
<1>2. ~Working /\ mq = <<>> /\ DOMAIN mq = {} /\ DOMAIN jobs = {} /\ \A s \in Slot : queue[s] = <<>>
  BY DEF Working, mq, Slot, Stream, MergeStream
<1>3. pending = <<(<<>>)>> /\ Len(pending) = 1 /\ DOMAIN pending = {1} /\ pending[1] = <<>>
  BY DEF Init
<1>4. TypeInv
  <2>1. pending \in Seq(Path)
    BY <1>1
  <2>2. HostType
    <3>1. level \in 0 .. Itr /\ nstreams \in 1 .. NPar /\ slot \in Nat
      BY <1>1
    <3>2. host_resident \in BOOLEAN /\ allow_escalation \in BOOLEAN /\ dirty \in BOOLEAN
      OBVIOUS
    <3>3. accumulator \in Accumulator /\ pc \in Control /\ cur \in Path \cup {None}
      BY <1>1 DEF Control
    <3>4. QED
      BY <2>1, <3>1, <3>2, <3>3 DEF HostType
  <2>3. QueueType
    BY EmptySeq DEF QueueType
  <2>4. BufType /\ JobType
    BY <1>1, EmptySeq DEF BufType, JobType, FutureState
  <2>5. QED
    BY <2>2, <2>3, <2>4 DEF TypeInv
<1>5. PhaseInv
  BY <1>1, <1>3 DEF PhaseInv
<1>6. SlotInv /\ LaneInv /\ DataInv
  BY <1>2 DEF SlotInv, LaneInv, DataInv, DataAt
<1>7. MergeInv
  BY <1>2 DEF MergeInv, MqGuard, MqOrder, MqHead, MqReady
<1>8. JobInv
  BY <1>1, <1>2 DEF JobInv, JobKind, JobQueue, JobRunning, JobFuture, JobSlot, JobDirty, Failed
<1>9. \A p \in Path : ~Handed(p)
  BY <1>2 DEF Handed, Committing
<1>10. CustodyInv
  <2>1. CustodyPending
    BY <1>1, <1>3, <1>9 DEF CustodyPending, Distinct
  <2>2. CustodyMerged /\ CustodySlot
    BY <1>1 DEF CustodyMerged, CustodySlot
  <2>3. QED
    BY <2>1, <2>2 DEF CustodyInv
<1>11. CoverInv
  <2>1. Range(pending) = {<<>>}
    BY <1>3 DEF Range
  <2>2. \A p : p \in Held <=> p = <<>>
    BY <1>1, <1>9, <2>1 DEF Held
  <2>3. \A p \in Leaf : <<>> \in Ancestors(p)
    BY LeafAncestors, PathIs, AncestorsIs
  <2>4. QED
    BY <2>2, <2>3 DEF CoverInv
<1>12. QED
  BY <1>4, <1>5, <1>6, <1>7, <1>8, <1>10, <1>11 DEF IInv

\* Every action preserves it.
LEMMA Inductive == IInv /\ [Next]_vars => IInv'
  BY TypeStep, PhaseStep, SlotStep, LaneStep, DataStep, MergeStep, JobStep, CustodyStep, CoverStep
     DEF IInv

\* The invariant holds in every state.
LEMMA Invariant == Spec => []IInv
<1>1. Init => IInv
  BY InitInv
<1>2. QED
  BY <1>1, Inductive, PTL DEF Spec

-----------------------------------------------------------------------------
\* Queues and buffers hold subproblems of the call, and the number of streams stays
\* at least one (the divisor of run_one's slot) and at most the number allocated.
THEOREM TypeCorrect == Spec => []TypeOK
<1>1. IInv => TypeOK
  <2>1. {0, 1} \subseteq Nat
    OBVIOUS
  <2>2. QED
    BY <2>1 DEF IInv, TypeInv, HostType, BufType, JobType, TypeOK
<1>2. QED
  BY <1>1, Invariant, PTL

\* Reuse of a pinned staging buffer waits until the asynchronous copy has read it.
THEOREM StagingSafe == Spec => []StagingOwned
<1>1. ASSUME IInv PROVE StagingOwned
  <2> USE <1>1 DEF IInv
  <2> SUFFICES ASSUME host_resident, NEW s \in Slot, NEW i \in DOMAIN queue[s],
                      queue[s][i].op = "load"
               PROVE  pinned[queue[s][i].slot] = queue[s][i].task
    BY DEF StagingOwned
  <2> DEFINE p == Owner(s)
  <2>1. queue[s] \in Seq(Operation)
    BY SlotType DEF TypeInv, QueueType
  <2>2. queue[s] # <<>>
    BY <2>1
  <2>3. queue[s][i].task = p /\ queue[s][i].slot = s
    BY <2>2, LaneHead
  <2>4. Head(queue[s]).op = "load"
    <3>1. \/ queue[s] = <<Op("load", p, s)>>
          \/ queue[s] = <<Op("load", p, s), Op("kernel", p, s)>>
          \/ queue[s] = <<Op("load", p, s), Op("kernel", p, s), Op("d2h", p, s)>>
          \/ queue[s] = <<Op("kernel", p, s)>>
          \/ queue[s] = <<Op("kernel", p, s), Op("d2h", p, s)>>
          \/ queue[s] = <<Op("d2h", p, s)>>
      BY <2>2, LaneHead
    <3>2. CASE \/ queue[s] = <<Op("kernel", p, s)>>
               \/ queue[s] = <<Op("kernel", p, s), Op("d2h", p, s)>>
               \/ queue[s] = <<Op("d2h", p, s)>>
      <4>1. \A j \in DOMAIN queue[s] : queue[s][j].op # "load"
        BY <3>2, OpFields
      <4>2. QED
        BY <4>1
    <3>3. QED
      BY <3>1, <3>2, ShortLists, OpFields
  <2>5. pinned[s] = p
    BY <2>2, <2>4 DEF DataInv, DataAt
  <2>6. QED
    BY <2>3, <2>5
<1>2. QED
  BY <1>1, Invariant, PTL

\* A pinned output buffer keeps its rows until the merge job has read them.
THEOREM OutputSafe == Spec => []OutputOwned
<1>1. ASSUME IInv PROVE OutputOwned
  <2> USE <1>1 DEF IInv
  <2> SUFFICES ASSUME NEW j \in Range(jobs) \cup ({running} \ {None}), WorkDone(j.task)
               PROVE  out[j.slot] = j.task
    BY DEF OutputOwned
  <2>1. CASE j \in Range(jobs)
    BY <2>1, JobReady DEF Range
  <2>2. CASE j = running /\ running # None
    BY <2>2 DEF JobInv, JobRunning
  <2>3. QED
    BY <2>1, <2>2
<1>2. QED
  BY <1>1, Invariant, PTL

\* The subproblems in flight are never more than the streams in use, also after a
\* halving: each is the one the backpressure of its slot waits for.
THEOREM BackpressureSafe == Spec => []BoundedInFlight
<1>1. ASSUME IInv PROVE BoundedInFlight
  <2> USE <1>1 DEF IInv
  <2> DEFINE T == {o.task : o \in UNION {Range(queue[s]) : s \in Stream}}
             used == 1 .. nstreams
             owner == [s \in used |-> Owner(s)]
             owners == {owner[s] : s \in used}
  <2>1. nstreams \in Nat /\ nstreams >= 1 /\ nstreams <= NPar /\ NPar \in Nat
    BY ForwardAssumption DEF TypeInv, HostType
  <2>2. used \subseteq Slot /\ \A s \in Slot : s > nstreams \/ s \in used
    BY <2>1 DEF Slot
  <2>3. ASSUME NEW s \in Slot, NEW i \in DOMAIN queue[s] PROVE queue[s][i].task \in owners
    <3>1. queue[s] \in Seq(Operation)
      BY SlotType DEF TypeInv, QueueType
    <3>2. queue[s] # <<>>
      BY <3>1
    <3>3. queue[s][i].task = Owner(s) /\ Owner(s) # None
      BY <3>2, LaneHead
    <3>4. ASSUME s = S PROVE s \in used
      BY <2>1, <2>2, <3>4, SlotType DEF Slot
    <3>5. ASSUME s # S PROVE s \in used
      <4>1. slotDone[s] # None
        BY <3>3, <3>5 DEF Owner
      <4>2. QED
        BY <2>2, <4>1 DEF SlotInv
    <3>6. s \in used
      BY <3>4, <3>5
    <3>7. QED
      BY <3>3, <3>6
  <2>4. ASSUME NEW i \in DOMAIN mq PROVE mq[i].task \in owners
    <3>1. mq[i].slot \in Slot /\ mq[i].task = slotDone[mq[i].slot] /\ mq[i].task # None
          /\ (Working => mq[i].slot # S)
      BY MqType, ForwardAssumption DEF MergeInv, MqGuard
    <3>2. Owner(mq[i].slot) = mq[i].task
      BY <3>1 DEF Owner
    <3>3. mq[i].slot \in used
      BY <2>2, <3>1 DEF SlotInv
    <3>4. QED
      BY <3>2, <3>3
  <2>5. T \subseteq owners
    <3> HIDE DEF owners
    <3> SUFFICES ASSUME NEW s \in Stream, NEW o \in Range(queue[s]) PROVE o.task \in owners
      OBVIOUS
    <3>1. PICK i \in DOMAIN queue[s] : queue[s][i] = o
      BY DEF Range
    <3>2. s \in Slot \/ s = MergeStream
      BY DEF Stream
    <3>3. QED
      BY <2>3, <2>4, <3>1, <3>2 DEF mq
  <2>6. IsFiniteSet(owners) /\ Cardinality(owners) <= Cardinality(used) /\ Cardinality(used) = nstreams
    <3>1. IsFiniteSet(used) /\ Cardinality(used) = nstreams
      BY <2>1, FS_Interval
    <3>2. owner \in Surjection(used, owners)
      BY DEF Surjection
    <3> HIDE DEF used, owner, owners
    <3>3. QED
      BY <3>1, <3>2, FS_Surjection
  <2>7. IsFiniteSet(T) /\ Cardinality(T) <= Cardinality(owners)
    <3> HIDE DEF T, owners
    <3>1. QED
      BY <2>5, <2>6, FS_Subset
  <2>8. Cardinality(T) \in Nat /\ Cardinality(owners) \in Nat
    <3> HIDE DEF T, owners
    <3>1. QED
      BY <2>6, <2>7, FS_CardinalityType
  <2> HIDE DEF T, owners
  <2>9. Cardinality(T) <= nstreams
    BY <2>1, <2>6, <2>7, <2>8
  <2>10. QED
    BY <2>9 DEF T, BoundedInFlight
<1>2. QED
  BY <1>1, Invariant, PTL

\* Nothing is in flight when a failed subproblem is put back or replaced.
THEOREM RecoveryQuiescent == Spec => []QuiescentRecovery
<1>1. IInv => QuiescentRecovery
  BY NoFuture DEF IInv, PhaseInv, QuiescentRecovery, Drained
<1>2. QED
  BY <1>1, Invariant, PTL

\* What is owed is what is held and was not merged.
LEMMA OutstandingIs ==
    ASSUME IInv
    PROVE  \A p : p \in Outstanding <=> p \in Held /\ acc[p] = 0
<1> USE DEF IInv
<1> DEFINE commits == {o.task : o \in {x \in UNION {Range(queue[s]) : s \in Stream} : x.op = "commit"}}
<1>1. ASSUME NEW p PROVE p \in commits <=> Committing(p)
  <2>1. ASSUME Committing(p) PROVE p \in commits
    <3>1. PICK i \in DOMAIN mq : mq[i].op = "commit" /\ mq[i].task = p
      BY <2>1 DEF Committing
    <3>2. mq[i] \in Range(queue[MergeStream]) /\ MergeStream \in Stream
      BY SlotType DEF Range, mq
    <3>3. QED
      BY <3>1, <3>2
  <2>2. ASSUME p \in commits PROVE Committing(p)
    <3>0. PICK s \in Stream : \E o \in Range(queue[s]) : o.op = "commit" /\ o.task = p
      BY <2>2
    <3>1. PICK o \in Range(queue[s]) : o.op = "commit" /\ o.task = p
      BY <3>0
    <3>2. PICK i \in DOMAIN queue[s] : queue[s][i] = o
      BY DEF Range
    <3>3. CASE s = MergeStream
      BY <3>1, <3>2, <3>3 DEF Committing, mq
    <3>4. CASE s # MergeStream
      <4>1. s \in Slot /\ queue[s] \in Seq(Operation)
        BY <3>4 DEF Stream, TypeInv, QueueType
      <4>2. queue[s] # <<>>
        BY <3>2, <4>1
      <4> DEFINE q == Owner(s)
      <4>3. \/ queue[s] = <<Op("load", q, s)>>
            \/ queue[s] = <<Op("load", q, s), Op("kernel", q, s)>>
            \/ queue[s] = <<Op("load", q, s), Op("kernel", q, s), Op("d2h", q, s)>>
            \/ queue[s] = <<Op("kernel", q, s)>>
            \/ queue[s] = <<Op("kernel", q, s), Op("d2h", q, s)>>
            \/ queue[s] = <<Op("d2h", q, s)>>
        BY <4>1, <4>2, LaneHead
      <4>4. queue[s][i].op # "commit"
        BY <3>2, <4>3, OpFields
      <4>5. QED
        BY <3>1, <3>2, <4>4
    <3>5. QED
      BY <3>3, <3>4
  <2>3. QED
    BY <2>1, <2>2
<1>2. \A p : Committing(p) => p \in Path
  BY MqType DEF Committing
<1>3. \A p : p \in Outstanding <=> \/ p \in Range(pending) \/ (p = cur /\ cur # None)
                                   \/ p \in Path /\ future[p] \in {"queued", "oom", "error"}
                                   \/ Committing(p)
  BY <1>1 DEF Outstanding
<1>4. \A p : p \in Held <=> p \in Path /\ (p = cur \/ Handed(p) \/ p \in Range(pending))
  BY HeldIs
<1>5. \A p \in Path : future[p] \in {"none", "done", "queued", "oom", "error"} /\ acc[p] \in {0, 1}
  BY DEF TypeInv, JobType, BufType, FutureState
<1>6. \A p \in Range(pending) \cup ({cur} \ {None}) : p \in Path /\ ~Handed(p)
  BY PendingType DEF CustodyInv, CustodyPending, TypeInv, HostType
<1>7. \A p \in Path : acc[p] = 1 => ~Committing(p) /\ future[p] \in {"none", "done"}
  BY DEF CustodyInv, CustodyMerged
<1>8. \A p \in Path : future[p] = "done" => acc[p] = 1
  BY DEF CustodyInv, CustodyMerged
<1>9. None \notin Path
  BY ForwardAssumption
<1> HIDE DEF IInv
<1>10. QED
  BY <1>2, <1>3, <1>4, <1>5, <1>6, <1>7, <1>8, <1>9 DEF Handed

\* On every finest decomposition path exactly one subproblem is owed or was merged,
\* and merged once, through halvings, refinements and failed merges.
THEOREM NothingLostOrDoubled == Spec => []HeldOnce
<1>1. ASSUME IInv PROVE HeldOnce
  <2> USE <1>1
  <2> SUFFICES ASSUME NEW p \in Leaf
               PROVE  \E q \in Ancestors(p) :
                         /\ (q \in Outstanding /\ acc[q] = 0) \/ (q \notin Outstanding /\ acc[q] = 1)
                         /\ \A r \in Ancestors(p) \ {q} : r \notin Outstanding /\ acc[r] = 0
    BY DEF HeldOnce
  <2>1. PICK q \in Ancestors(p) : q \in Held
    BY DEF IInv, CoverInv
  <2>2. p \in Seq(Chunk) /\ \A r \in Ancestors(p) : r \in Path /\ r \in Seq(Chunk)
    BY LeafAncestors, PathIs
  <2>3. \A r \in Path : acc[r] \in {0, 1} /\ (acc[r] = 1 => r \in Held)
    BY HeldIs DEF IInv, TypeInv, BufType, Handed
  <2>4. ASSUME NEW r \in Ancestors(p), r \in Held PROVE r = q
    <3>1. Len(q) \in Nat /\ Len(r) \in Nat
      BY <2>1, <2>2
    <3>2. q \in Ancestors(r) \/ r \in Ancestors(q)
      BY <2>1, <2>2, <2>4, <3>1, AncestorsNest
    <3>3. QED
      BY <2>1, <2>4, <3>2 DEF IInv, CoverInv
  <2>5. QED
    BY <2>1, <2>2, <2>3, <2>4, OutstandingIs
<1>2. QED
  BY <1>1, Invariant, PTL

\* A call that returns owes nothing and applied no merge halfway.
THEOREM ReturnsExact == Spec => []ReturnedExact
<1>1. ASSUME IInv, outcome = "returned" PROVE Outstanding = {} /\ ~dirty
  <2> USE <1>1
  <2>1. /\ pending = <<>> /\ cur = None /\ ~dirty /\ \A s \in Slot : slotMerge[s] = None
        /\ \A s \in Stream : queue[s] = <<>>
    BY DEF IInv, PhaseInv
  <2>2. \A p \in Path : future[p] \in {"none", "done"}
    BY <2>1, NoFuture
  <2>3. Range(pending) = {} /\ \A s \in Stream : Range(queue[s]) = {}
    BY <2>1 DEF Range
  <2>4. QED
    BY <2>1, <2>2, <2>3 DEF Outstanding
<1>2. IInv => ReturnedExact
  BY <1>1 DEF ReturnedExact
<1>3. QED
  BY <1>2, Invariant, PTL

-----------------------------------------------------------------------------
(* The engine implements the hybrid schedules of HybridCover.                 *)

\* The operators of the abstract specification are those of the engine.
LEMMA SameOperators ==
    /\ Cover!Chunk = Chunk /\ Cover!Token = Token /\ Cover!Root = Root
    /\ \A t : Cover!Children(t) = Children(t)
    /\ \A t : Cover!Kept(t) = Kept(t)
    /\ Cover!Pair = Token \X Token
    /\ Cover!MaxDepth = MaxDepth
<1>1. Cover!Chunk = Chunk /\ Cover!Token = Token
  BY DEF Cover!Chunk, Chunk, Cover!Token, Token
<1>2. Cover!Root = Root
  BY DEF Cover!Root, Root, Cover!Token, Token
<1>3. \A t : Cover!Kept(t) = Kept(t)
  BY DEF Cover!Kept, Kept
<1>4. Cover!MaxDepth = MaxDepth
  BY Zenon DEF Cover!MaxDepth, MaxDepth
<1>5. Cover!Pair = Token \X Token
  BY <1>1 DEF Cover!Pair
<1>6. \A t : Cover!Children(t) = Children(t)
  <2>1. \A L, p : Cover!ChunkAt(L, p) = ChunkAt(L, p)
    BY Zenon DEF Cover!ChunkAt, ChunkAt, Cover!ChunkStart, ChunkStart, Cover!ChunkEnd, ChunkEnd,
       Cover!Chunk, Chunk
  <2>2. \A t, u : Cover!Label(t, u) = Label(t, u)
    <3>1. \A T : Cover!Cardinality(T) = Cardinality(T)
      BY Zenon DEF Cover!Cardinality, Cardinality, Cover!IsFiniteSet, IsFiniteSet
    <3>2. \A T, u : Cover!Rank(T, u) = Rank(T, u)
      BY <3>1 DEF Cover!Rank, Rank
    <3>3. QED
      BY <2>1, <3>1, <3>2 DEF Cover!Label, Label
  <2>3. \A j : Cover!QuorumChunks(j) = QuorumChunks(j)
    BY DEF Cover!QuorumChunks, QuorumChunks
  <2>4. \A t, j : Cover!Child(t, j) = Child(t, j)
    BY <2>2, <2>3 DEF Cover!Child, Child
  <2>5. QED
    BY <1>1, <2>4 DEF Cover!Children, Children
<1>7. QED
  BY <1>1, <1>2, <1>3, <1>4, <1>5, <1>6

-----------------------------------------------------------------------------
\* The state of the abstract specification.
Tasked == {TaskOf[p] : p \in Outstanding}
Attended == [x \in Token \X Token |-> Count(acc, x)]

\* The actions of HybridCover on the mapped state.
LEMMA Mapping ==
    /\ Cover!Init <=> level = 0 /\ Tasked = {Root} /\ Attended = [x \in Token \X Token |-> 0]
    /\ Cover!Deepen <=> /\ level < Itr /\ level' = level + 1
                        /\ Tasked' = UNION {Children(t) : t \in Tasked}
                        /\ Attended' = Attended
    /\ \A t : Cover!Refine(t) <=> /\ level = Itr /\ Len(t.path) < MaxDepth
                                  /\ Tasked' = (Tasked \ {t}) \cup Children(t)
                                  /\ level' = level /\ Attended' = Attended
    /\ \A t : Cover!Merge(t) <=>
          /\ level = Itr /\ Tasked' = Tasked \ {t} /\ level' = level
          /\ Attended' = [x \in Token \X Token |->
                             Attended[x] + (IF x \in Kept(t) THEN 1 ELSE 0)]
    /\ Cover!Next <=> \/ Cover!Deepen
                      \/ \E t \in Tasked : Cover!Refine(t)
                      \/ \E t \in Tasked : Cover!Merge(t)
    /\ UNCHANGED Cover!vars <=> UNCHANGED <<level, Tasked, Attended>>
<1> USE SameOperators
<1>1. Cover!Init <=> level = 0 /\ Tasked = {Root} /\ Attended = [x \in Token \X Token |-> 0]
  BY DEF Cover!Init, Tasked, Attended, Count
<1>2. Cover!Deepen <=> /\ level < Itr /\ level' = level + 1
                       /\ Tasked' = UNION {Children(t) : t \in Tasked}
                       /\ Attended' = Attended
  BY DEF Cover!Deepen, Tasked, Attended, Count
<1>3. \A t : Cover!Refine(t) <=> /\ level = Itr /\ Len(t.path) < MaxDepth
                                 /\ Tasked' = (Tasked \ {t}) \cup Children(t)
                                 /\ level' = level /\ Attended' = Attended
  BY DEF Cover!Refine, Tasked, Attended, Count
<1>4. \A t : Cover!Merge(t) <=>
          /\ level = Itr /\ Tasked' = Tasked \ {t} /\ level' = level
          /\ Attended' = [x \in Token \X Token |->
                             Attended[x] + (IF x \in Kept(t) THEN 1 ELSE 0)]
  BY DEF Cover!Merge, Tasked, Attended, Count
<1>5. Cover!Next <=> \/ Cover!Deepen
                     \/ \E t \in Tasked : Cover!Refine(t)
                     \/ \E t \in Tasked : Cover!Merge(t)
  BY DEF Cover!Next, Tasked
<1>6. UNCHANGED Cover!vars <=> UNCHANGED <<level, Tasked, Attended>>
  BY DEF Cover!vars, Tasked, Attended, Count
<1>7. QED
  BY <1>1, <1>2, <1>3, <1>4, <1>5, <1>6

-----------------------------------------------------------------------------
\* Steps.

\* What is owed, before and after a step.
OwedInv == \A p : p \in Outstanding <=> p \in Held /\ acc[p] = 0

\* What is owed is held and was not added.
LEMMA Owed == IInv => OwedInv
  BY OutstandingIs DEF OwedInv

\* A subproblem that is held and was not merged is added.
Adds == \E p \in Path : p \in Held /\ acc[p] = 0 /\ acc' = [acc EXCEPT ![p] = 1] /\ level = Itr

\* A step adds one subproblem that is held and was not merged, or none.
LEMMA AccStep ==
    ASSUME IInv, [Next]_vars, ~BuildLevel
    PROVE  level' = level /\ (acc' = acc \/ Adds)
<1> USE SlotType DEF IInv, TypeInv, hostVars, callVars, slotVars, bufVars, gpuVars, jobVars
<1>1. CASE BuildLevel
  BY <1>1
<1>2. CASE StartLoop
  BY <1>2 DEF StartLoop
<1>3. CASE Pop
  BY <1>3 DEF Pop
<1>4. CASE WaitSlot
  BY <1>4 DEF WaitSlot, SlotFree
<1>5. CASE Gather
  BY <1>5 DEF Gather
<1>6. CASE Launch
  BY <1>6 DEF Launch
<1>7. CASE WaitMerge
  BY <1>7 DEF WaitMerge, Merged
<1>8. CASE WaitMergeFails
  BY <1>8 DEF WaitMergeFails, MergeFailed
<1>9. CASE StartD2h
  BY <1>9 DEF StartD2h, OutputFree
<1>10. CASE BlockingD2h
  BY <1>10 DEF BlockingD2h
<1>11. CASE Merge
  <2>1. level' = level
    BY <1>11 DEF Merge
  <2>2. CASE accumulator # "inline"
    BY <1>11, <2>1, <2>2 DEF Merge
  <2>3. CASE accumulator = "inline"
    <3>1. cur \in Path /\ acc[cur] = 0 /\ acc' = [acc EXCEPT ![cur] = 1]
      BY <1>11, <2>3, InlineFacts
    <3>2. level = Itr
      BY <1>11 DEF Merge, PhaseInv
    <3>3. cur \in Held
      BY <3>1, HeldIs
    <3>4. QED
      BY <2>1, <3>1, <3>2, <3>3 DEF Adds
  <2>4. QED
    BY <2>2, <2>3
<1>12. CASE HandleError
  BY <1>12 DEF HandleError, Recoverable
<1>13. CASE HandleOom
  BY <1>13 DEF HandleOom, Recoverable
<1>14. CASE Synchronize
  BY <1>14 DEF Synchronize, DeviceIdle
<1>15. CASE HalveStreams
  BY <1>15 DEF HalveStreams, Resume, Retry, Drained
<1>16. CASE RefineTask
  BY <1>16 DEF RefineTask, Resume, Replace, Drained
<1>17. CASE GiveUp
  BY <1>17 DEF GiveUp, Drained
<1>18. CASE LoopDone
  BY <1>18 DEF LoopDone
<1>19. CASE Return
  BY <1>19 DEF Return, Drained
<1>20. ASSUME NEW s \in Slot, DrainMerge(s) PROVE level' = level /\ (acc' = acc \/ Adds)
  BY <1>20 DEF DrainMerge, Collectable, Merged
<1>21. ASSUME NEW s \in Slot, JoinMerge(s) PROVE level' = level /\ (acc' = acc \/ Adds)
  BY <1>21 DEF JoinMerge, Collectable, Merged
<1>22. ASSUME NEW s \in Slot, CollectFails(s) PROVE level' = level /\ (acc' = acc \/ Adds)
  BY <1>22 DEF CollectFails, Collectable, MergeFailed
<1>23. CASE ComputeFails
  BY <1>23 DEF ComputeFails, Raise
<1>24. CASE MergeFails
  BY <1>24 DEF MergeFails, Raise
<1>25. CASE CallerDone
  <2>1. level' = level
    BY <1>25 DEF CallerDone
  <2>2. acc' = acc
    BY <1>25 DEF CallerDone, PhaseInv
  <2>3. QED
    BY <2>1, <2>2
<1>26. ASSUME NEW s \in Slot, Load(s) PROVE level' = level /\ (acc' = acc \/ Adds)
  BY <1>26 DEF Load, Exec
<1>27. ASSUME NEW s \in Slot, Kernel(s) PROVE level' = level /\ (acc' = acc \/ Adds)
  BY <1>27 DEF Kernel, Exec
<1>28. ASSUME NEW s \in Slot, D2h(s) PROVE level' = level /\ (acc' = acc \/ Adds)
  BY <1>28 DEF D2h, Exec
<1>29. CASE WaitCompute(MergeStream)
  BY <1>29 DEF WaitCompute, Exec
<1>30. CASE MergeRead(MergeStream)
  BY <1>30 DEF MergeRead, Exec
<1>31. CASE MergeCommit(MergeStream)
  <2> DEFINE p == mq[1].task
  <2>1. /\ p \in Path /\ acc[p] = 0 /\ acc' = [acc EXCEPT ![p] = 1] /\ mq # <<>>
        /\ 1 \in DOMAIN mq /\ mq[1].op = "commit"
    BY <1>31, CommitFacts, MqPop DEF MergeCommit
  <2>2. Committing(p)
    BY <2>1 DEF Committing
  <2>3. p \in Held
    BY <2>1, <2>2, HeldIs DEF Handed
  <2>4. level = Itr /\ level' = level
    BY <1>31, <2>1 DEF PhaseInv, mq, Stream, MergeCommit, Exec
  <2>5. QED
    BY <2>1, <2>3, <2>4 DEF Adds
<1>32. CASE RecordDone(MergeStream)
  BY <1>32 DEF RecordDone, Exec
<1>33. CASE WorkerStart
  BY <1>33 DEF WorkerStart
<1>34. CASE WorkerMerge
  <2> DEFINE p == running.task
  <2>1. p \in Path /\ acc[p] = 0 /\ future[p] = "queued" /\ acc' = [acc EXCEPT ![p] = 1]
    BY <1>34, WorkerFacts
  <2>2. p \in Held
    BY <2>1, HeldIs DEF Handed
  <2>3. level = Itr /\ level' = level
    BY <1>34, <2>1 DEF PhaseInv, WorkerMerge
  <2>4. QED
    BY <2>1, <2>2, <2>3 DEF Adds
<1>35. CASE WorkerFails
  BY <1>35 DEF WorkerFails, Fail
<1>36. CASE UNCHANGED vars
  BY <1>36 DEF vars, hostVars
<1>37. QED
  BY NextCases, <1>1, <1>2, <1>3, <1>4, <1>5, <1>6, <1>7, <1>8, <1>9, <1>10, <1>11,
     <1>12, <1>13, <1>14, <1>15, <1>16, <1>17, <1>18, <1>19, <1>20, <1>21, <1>22,
     <1>23, <1>24, <1>25, <1>26, <1>27, <1>28, <1>29, <1>30, <1>31, <1>32, <1>33,
     <1>34, <1>35, <1>36

Finite == IsFiniteSet({p \in Path : acc[p] # 0})

\* build_tasks deepens.
LEMMA BuildMaps ==
    ASSUME IInv, [Next]_vars, IInv', BuildLevel
    PROVE  Cover!Deepen /\ acc' = acc
<1>1. OwedInv /\ OwedInv'
  <2>1. IInv' => OwedInv'
    BY Owed, PTL
  <2>2. QED
    BY <2>1, Owed
<1>2. /\ UNCHANGED <<slot, acc, future, queue>> /\ cur' = cur /\ cur = None /\ level < Itr /\ level' = level + 1
      /\ acc = [p \in Path |-> 0] /\ acc' = acc
  BY DEF BuildLevel, IInv, PhaseInv, callVars, slotVars, gpuVars, bufVars, jobVars
<1>3. TypeInv /\ TypeInv'
  BY DEF IInv
<1>4. \A p \in Path : ~Handed(p)
  BY <1>3, SlotType DEF BuildLevel, IInv, PhaseInv, Handed, Committing, mq
<1>5. \A p \in Path : ~Handed(p)'
  BY <1>2, <1>4, HandedStep
<1>6. \A p : p \in Held <=> p \in Range(pending)
  BY <1>2, <1>3, <1>4, HeldIs, PendingType
<1>7. /\ pending' \in Seq(Path) /\ Range(pending') = UNION {Range(Kids(pending[i])) : i \in DOMAIN pending}
      /\ level \in Nat /\ level < Deepest
  BY BuildFacts
<1>8. \A p \in Range(pending') : p \in Path
  BY <1>7 DEF Range
<1>9. \A p : p \in Held' <=> p \in Range(pending')
  BY <1>2, <1>3, <1>5, <1>8, HeldIsNext, ForwardAssumption
<1>10. /\ \A p : p \in Outstanding <=> p \in Range(pending)
       /\ \A p : p \in Outstanding' <=> p \in Range(pending')
  <2>1. \A p \in Range(pending) : p \in Path
    BY <1>3, PendingType
  <2>2. \A p \in Path : acc[p] = 0 /\ acc'[p] = 0
    BY <1>2
  <2>3. QED
    BY <1>1, <1>6, <1>8, <1>9, <2>1, <2>2 DEF OwedInv
<1>11. \A i \in DOMAIN pending : /\ pending[i] \in Path /\ Len(pending[i]) < Deepest
                                 /\ pending[i] \in Range(pending)
  BY <1>3, <1>7, PendingType DEF IInv, PhaseInv, BuildLevel
<1>12. Tasked' = UNION {Children(t) : t \in Tasked}
  <2>1. Tasked = {TaskOf[pending[i]] : i \in DOMAIN pending}
    BY <1>3, <1>10, PendingType DEF Tasked
  <2>2. Tasked' = {TaskOf[p] : p \in Range(pending')}
    BY <1>10 DEF Tasked
  <2>3. Tasked' = UNION {{TaskOf[q] : q \in Range(Kids(pending[i]))} : i \in DOMAIN pending}
    BY <1>7, <2>2
  <2>4. \A i \in DOMAIN pending : {TaskOf[q] : q \in Range(Kids(pending[i]))} = Children(TaskOf[pending[i]])
    BY <1>11, TaskFacts
  <2>5. Tasked' = UNION {Children(TaskOf[pending[i]]) : i \in DOMAIN pending}
    BY <2>3, <2>4
  <2>6. QED
    BY <2>1, <2>5
<1>13. Attended' = Attended
  BY <1>2 DEF Attended
<1>14. QED
  BY <1>2, <1>12, <1>13, Mapping

\* refine_task refines.
LEMMA RefineMaps ==
    ASSUME IInv, [Next]_vars, IInv', RefineTask
    PROVE  (\E t \in Tasked : Cover!Refine(t)) /\ acc' = acc
<1> DEFINE kids == Range(Kids(cur))
<1>1. OwedInv /\ OwedInv'
  <2>1. IInv' => OwedInv'
    BY Owed, PTL
  <2>2. QED
    BY <2>1, Owed
<1>2. /\ UNCHANGED <<slot, acc, future, queue, level>> /\ cur' = None /\ level = Itr
      /\ pending' = Kids(cur) \o pending /\ Len(cur) < MaxDepth
  BY DEF RefineTask, Replace, Resume, IInv, PhaseInv, callVars, gpuVars, bufVars, jobVars
<1>3. TypeInv /\ TypeInv'
  BY DEF IInv
<1>4. /\ cur \in Path /\ Len(cur) < Deepest /\ Kids(cur) \in Seq(Path) /\ Distinct(Kids(cur))
      /\ \A q \in kids : q \in Path /\ q \notin Held /\ q # cur
  BY RefineFacts
<1>5. \A p \in Path : Handed(p)' <=> Handed(p)
  BY <1>2, HandedStep
<1>6. Range(pending') = kids \cup Range(pending)
  BY <1>2, <1>4, <1>5, PutBack
<1>7. ~Handed(cur) /\ cur \notin Range(pending)
  BY <1>3, <1>4, PendingType DEF IInv, CustodyInv, CustodyPending
<1> HIDE DEF kids
<1>8. \A p : p \in Held' <=> p \in kids \/ (p \in Held /\ p # cur)
  BY <1>2, <1>3, <1>4, <1>5, <1>6, <1>7, HeldIs, HeldIsNext, PendingType
<1>9. \A p \in kids : acc[p] = 0
  BY <1>3, <1>4, HeldIs DEF TypeInv, BufType, Handed
<1>10. cur \in Outstanding
  BY <1>1, <1>3, <1>4, <1>7, HeldIs DEF OwedInv, Handed, TypeInv, BufType
<1>11. \A p : p \in Outstanding' <=> p \in kids \/ (p \in Outstanding /\ p # cur)
  BY <1>1, <1>2, <1>8, <1>9 DEF OwedInv
<1>12. \A p \in Outstanding : p \in Path
  BY <1>1, <1>3, HeldIs DEF OwedInv
<1>0. PICK c \in Path : c = cur
  BY <1>4
<1> DEFINE t == TaskOf[c]
<1>13. Tasked' = (Tasked \ {t}) \cup {TaskOf[q] : q \in kids}
  <2>1. \A p \in Outstanding : p # cur => TaskOf[p] # t
    BY <1>0, <1>12, TaskFacts
  <2>2. \A x : x \in Tasked' <=> \E p \in Outstanding' : x = TaskOf[p]
    BY DEF Tasked
  <2>3. \A x : x \in Tasked <=> \E p \in Outstanding : x = TaskOf[p]
    BY DEF Tasked
  <2> HIDE DEF t
  <2>4. \A x : x \in Tasked' <=> (\E p \in Outstanding : p # cur /\ x = TaskOf[p]) \/ \E q \in kids : x = TaskOf[q]
    BY <1>11, <2>2
  <2>5. \A x : (\E p \in Outstanding : p # cur /\ x = TaskOf[p]) <=> x \in Tasked \ {t}
    BY <1>0, <2>1, <2>3 DEF t
  <2>6. QED
    BY <2>4, <2>5
<1>14. {TaskOf[q] : q \in kids} = Children(t) /\ t.path = cur
  BY <1>0, <1>4, TaskFacts DEF kids
<1>15. t \in Tasked
  BY <1>0, <1>10 DEF Tasked
<1>16. Attended' = Attended
  BY <1>2 DEF Attended
<1> HIDE DEF t
<1>17. Cover!Refine(t)
  <2>1. Tasked' = (Tasked \ {t}) \cup Children(t) /\ Len(t.path) < MaxDepth
    BY <1>2, <1>13, <1>14
  <2>2. level = Itr /\ level' = level
    BY <1>2
  <2>3. QED
    BY <1>16, <2>1, <2>2, Mapping
<1>18. QED
  BY <1>2, <1>15, <1>17

\* A merge that is applied merges; every other step changes nothing.
LEMMA MergeMaps ==
    ASSUME IInv, [Next]_vars, IInv', Finite, ~BuildLevel, ~RefineTask
    PROVE  ((\E t \in Tasked : Cover!Merge(t)) \/ UNCHANGED Cover!vars) /\ Finite'
<1>1. OwedInv /\ OwedInv'
  <2>1. IInv' => OwedInv'
    BY Owed, PTL
  <2>2. QED
    BY <2>1, Owed
<1>2. TypeInv /\ TypeInv'
  BY DEF IInv
<1>3. \A p : p \in Held' <=> p \in Held
  BY <1>2, HeldStep
<1>4. level' = level /\ (acc' = acc \/ Adds)
  BY AccStep
<1>5. CASE acc' = acc
  <2>1. \A p : p \in Outstanding' <=> p \in Outstanding
    BY <1>1, <1>3, <1>5 DEF OwedInv
  <2>2. Outstanding' = Outstanding
    BY <2>1
  <2>3. Tasked' = Tasked
    BY <2>2 DEF Tasked
  <2>4. Attended' = Attended
    BY <1>5 DEF Attended
  <2>5. UNCHANGED Cover!vars
    BY <1>4, <2>3, <2>4, Mapping
  <2>6. QED
    BY <1>5, <2>5 DEF Finite
<1>6. CASE Adds
  <2>1. PICK p \in Path : p \in Held /\ acc[p] = 0 /\ acc' = [acc EXCEPT ![p] = 1] /\ level = Itr
    BY <1>6 DEF Adds
  <2>2. acc \in [Path -> {0, 1}] /\ acc'[p] = 1 /\ \A q \in Path : q # p => acc'[q] = acc[q]
    BY <1>2, <2>1 DEF TypeInv, BufType
  <2>3. \A q \in Held : q \in Path
    BY <1>2, HeldIs
  <2>4. \A q : q \in Outstanding' <=> q \in Outstanding /\ q # p
    BY <1>1, <1>3, <2>1, <2>2, <2>3 DEF OwedInv
  <2>5. p \in Outstanding /\ \A q \in Outstanding : q \in Path
    BY <1>1, <2>1, <2>3 DEF OwedInv
  <2> DEFINE t == TaskOf[p]
  <2>6. Tasked' = Tasked \ {t}
    <3>1. \A q \in Outstanding : q # p => TaskOf[q] # t
      BY <2>1, <2>5, TaskFacts
    <3>2. \A x : x \in Tasked' <=> \E q \in Outstanding' : x = TaskOf[q]
      BY DEF Tasked
    <3>3. \A x : x \in Tasked <=> \E q \in Outstanding : x = TaskOf[q]
      BY DEF Tasked
    <3> HIDE DEF t
    <3>4. \A x : x \in Tasked' <=> \E q \in Outstanding : q # p /\ x = TaskOf[q]
      BY <2>4, <3>2
    <3>5. \A x : (\E q \in Outstanding : q # p /\ x = TaskOf[q]) <=> x \in Tasked \ {t}
      BY <3>1, <3>3 DEF t
    <3>6. QED
      BY <3>4, <3>5
  <2>7. \A x : Count(acc', x) = Count(acc, x) + (IF x \in Kept(t) THEN 1 ELSE 0)
    <3>1. KeptOf[p] = Kept(t)
      BY TaskFacts
    <3>2. \A x : Count([acc EXCEPT ![p] = 1], x) = Count(acc, x) + (IF x \in KeptOf[p] THEN 1 ELSE 0)
      BY <2>1, <2>2, CountStep DEF Finite
    <3>3. QED
      BY <2>1, <3>1, <3>2
  <2>8. Attended' = [x \in Token \X Token |-> Attended[x] + (IF x \in Kept(t) THEN 1 ELSE 0)]
    <3>1. Attended' = [x \in Token \X Token |-> Count(acc', x)]
      BY DEF Attended
    <3>2. \A x \in Token \X Token : Attended[x] = Count(acc, x)
      BY DEF Attended
    <3> HIDE DEF t
    <3>3. QED
      BY <2>7, <3>1, <3>2
  <2>9. t \in Tasked
    BY <2>5 DEF Tasked
  <2>10. Cover!Merge(t)
    BY <1>4, <2>1, <2>6, <2>8, Mapping
  <2>11. Finite'
    <3>1. {q \in Path : acc'[q] # 0} = {q \in Path : acc[q] # 0} \cup {p}
      BY <2>2
    <3>2. QED
      BY <3>1, FS_AddElement DEF Finite
  <2>12. QED
    BY <2>9, <2>10, <2>11
<1>7. QED
  BY <1>4, <1>5, <1>6

\* Every step of the engine is a step of a hybrid schedule or changes nothing there.
LEMMA StepMaps ==
    ASSUME IInv, [Next]_vars, IInv', Finite
    PROVE  [Cover!Next]_(Cover!vars) /\ Finite'
<1>1. CASE BuildLevel
  BY <1>1, BuildMaps, Mapping DEF Finite
<1>2. CASE RefineTask
  BY <1>2, RefineMaps, Mapping DEF Finite
<1>3. CASE ~BuildLevel /\ ~RefineTask
  BY <1>3, MergeMaps, Mapping
<1>4. QED
  BY <1>1, <1>2, <1>3

\* Nothing is owed but the whole sequence at the start, and nothing was merged.
LEMMA InitMaps ==
    ASSUME Init
    PROVE  Cover!Init /\ Finite
<1>1. IInv /\ OwedInv
  BY InitInv, Owed
<1>2. level = 0 /\ acc = [p \in Path |-> 0] /\ pending = <<(<<>>)>> /\ cur = None /\ <<>> \in Path
  BY PathStep DEF Init
<1>3. {q \in Path : acc[q] # 0} = {}
  BY <1>2
<1>4. Finite
  BY <1>3, FS_EmptySet DEF Finite
<1>5. Range(pending) = {<<>>}
  <2>1. DOMAIN pending = {1} /\ pending[1] = <<>>
    BY <1>2
  <2>2. QED
    BY <2>1 DEF Range
<1>6. \A p \in Path : ~Handed(p)
  <2>1. queue[MergeStream] = <<>>
    BY DEF Init, Stream
  <2>2. DOMAIN mq = {}
    BY <2>1 DEF mq
  <2>3. QED
    BY <2>2 DEF Init, Handed, Committing
<1>7. \A p : p \in Outstanding <=> p = <<>>
  BY <1>1, <1>2, <1>5, <1>6, HeldIs, ForwardAssumption DEF OwedInv, IInv
<1>8. Tasked = {Root}
  BY <1>7, TaskOfIs DEF Tasked
<1>9. Attended = [x \in Token \X Token |-> 0]
  <2>1. \A x : Count(acc, x) = 0
    BY <1>3, FS_EmptySet DEF Count
  <2>2. QED
    BY <2>1 DEF Attended
<1>10. QED
  BY <1>2, <1>4, <1>8, <1>9, Mapping

-----------------------------------------------------------------------------
\* The engine implements the hybrid schedules: whatever the interleaving of the host,
\* the streams and the merge worker, and whatever runs out of memory, a subproblem is
\* merged once or replaced by its children before it contributed.
THEOREM Implements == Spec => ImplementsCover
<1>1. Init => Cover!Init /\ Finite
  BY InitMaps
<1>2. IInv /\ IInv' /\ [Next]_vars /\ Finite => [Cover!Next]_(Cover!vars) /\ Finite'
  BY StepMaps
<1>3. QED
  BY <1>1, <1>2, Invariant, PTL DEF Spec, ImplementsCover, Cover!Spec

-----------------------------------------------------------------------------
(* What an execution of the abstract schedules keeps.                        *)

\* Each ordered token pair is owed by exactly one subproblem or was attended once, and
\* nothing is attended while levels are still being built.
ScheduleInv ==
    /\ \A t \in Tasked : WellFormed(t)
    /\ \A x \in Token \X Token :
          \/ Attended[x] = 1 /\ \A t \in Tasked : x \notin Kept(t)
          \/ Attended[x] = 0 /\ OneKeeper(Tasked, x)
    /\ level < Itr => \A x \in Token \X Token : Attended[x] = 0

\* The whole sequence owes every pair.
LEMMA ScheduleStarts ==
    ASSUME Cover!Init
    PROVE  ScheduleInv
<1>1. Tasked = {Root} /\ Attended = [x \in Token \X Token |-> 0]
  BY Mapping
<1> HIDE DEF Tasked, Attended
<1>2. QED
  BY <1>1, RootKept DEF ScheduleInv, OneKeeper

\* One more level of the uniform build, a refinement and a merge keep it.
LEMMA ScheduleStays ==
    ASSUME ScheduleInv, [Cover!Next]_(Cover!vars)
    PROVE  ScheduleInv'
<1> DEFINE Split == \A x \in Token \X Token :
                       \/ Attended[x] = 1 /\ \A t \in Tasked : x \notin Kept(t)
                       \/ Attended[x] = 0 /\ OneKeeper(Tasked, x)
<1>0. (\A t \in Tasked : WellFormed(t)) /\ Split
      /\ (level < Itr => \A x \in Token \X Token : Attended[x] = 0)
  BY DEF ScheduleInv
<1>1. CASE Cover!Deepen
  <2>1. /\ level < Itr /\ level' = level + 1 /\ Attended' = Attended
        /\ Tasked' = UNION {Children(t) : t \in Tasked}
    BY <1>1, Mapping
  <2> HIDE DEF Tasked, Attended
  <2>2. \A t \in Tasked' : WellFormed(t)
    BY <1>0, <2>1, ChildrenWellFormed
  <2>3. ASSUME NEW x \in Token \X Token PROVE Attended'[x] = 0 /\ OneKeeper(Tasked', x)
    <3>1. Attended[x] = 0 /\ OneKeeper(Tasked, x)
      BY <1>0, <2>1
    <3>2. OneKeeper(UNION {Children(t) : t \in Tasked}, x)
      BY <1>0, <3>1, DeepenKeepers
    <3>3. QED
      BY <2>1, <3>1, <3>2
  <2>4. QED
    BY <2>2, <2>3 DEF ScheduleInv, OneKeeper
<1>2. ASSUME NEW t \in Tasked, Cover!Refine(t) PROVE ScheduleInv'
  <2>1. /\ level = Itr /\ level' = level /\ Attended' = Attended
        /\ Tasked' = (Tasked \ {t}) \cup Children(t)
    BY <1>2, Mapping
  <2> HIDE DEF Tasked, Attended
  <2>2. \A s \in Tasked' : WellFormed(s)
    BY <1>0, <2>1, ChildrenWellFormed
  <2>3. ASSUME NEW x \in Token \X Token
        PROVE  \/ Attended'[x] = 1 /\ \A s \in Tasked' : x \notin Kept(s)
               \/ Attended'[x] = 0 /\ OneKeeper(Tasked', x)
    BY <1>0, <2>1, <2>3, RefineKeepers
  <2>4. ~(level' < Itr)
    BY <2>1, ItrAssumption
  <2>5. QED
    BY <2>2, <2>3, <2>4 DEF ScheduleInv, OneKeeper
<1>3. ASSUME NEW t \in Tasked, Cover!Merge(t) PROVE ScheduleInv'
  <2>1. /\ level = Itr /\ level' = level /\ Tasked' = Tasked \ {t}
        /\ \A x \in Token \X Token :
              Attended'[x] = Attended[x] + (IF x \in Kept(t) THEN 1 ELSE 0)
    BY <1>3, Mapping
  <2> HIDE DEF Tasked, Attended
  <2>2. \A s \in Tasked' : WellFormed(s)
    BY <1>0, <2>1
  <2>3. ASSUME NEW x \in Token \X Token
        PROVE  \/ Attended'[x] = 1 /\ \A s \in Tasked' : x \notin Kept(s)
               \/ Attended'[x] = 0 /\ OneKeeper(Tasked', x)
    <3>1. CASE x \in Kept(t)
      <4>1. Attended[x] = 0 /\ \A s \in Tasked : x \in Kept(s) => s = t
        BY <1>0, <3>1 DEF OneKeeper
      <4>2. QED
        BY <2>1, <3>1, <4>1
    <3>2. CASE x \notin Kept(t)
      <4>1. Attended'[x] = Attended[x]
        BY <1>0, <2>1, <3>2
      <4>2. QED
        BY <1>0, <2>1, <3>2, <4>1 DEF OneKeeper
    <3>3. QED
      BY <3>1, <3>2
  <2>4. ~(level' < Itr)
    BY <2>1, ItrAssumption
  <2>5. QED
    BY <2>2, <2>3, <2>4 DEF ScheduleInv, OneKeeper
<1>4. CASE UNCHANGED Cover!vars
  <2>1. level' = level /\ Tasked' = Tasked /\ Attended' = Attended
    BY <1>4, Mapping
  <2> HIDE DEF Tasked, Attended
  <2>2. QED
    BY <2>1 DEF ScheduleInv, OneKeeper
<1>5. QED
  BY <1>1, <1>2, <1>3, <1>4, Mapping

\* Whatever the schedule, the failures and the interleaving: each ordered token pair is
\* in what is owed once, or was attended once.
THEOREM PairsExactlyOnce == Spec => []Cover!ExactlyOnce
<1>1. Cover!Init => ScheduleInv
  BY ScheduleStarts
<1>2. ScheduleInv /\ [Cover!Next]_(Cover!vars) => ScheduleInv'
  BY ScheduleStays
<1>3. ScheduleInv => Cover!ExactlyOnce
  <2> HIDE DEF Tasked, Attended
  <2>1. Cover!ExactlyOnce <=>
          \A x \in Token \X Token :
             \/ Attended[x] = 1 /\ \A t \in Tasked : x \notin Kept(t)
             \/ Attended[x] = 0 /\ \E t \in Tasked :
                   /\ x \in Kept(t)
                   /\ \A s \in Tasked : x \in Kept(s) => s = t
    BY SameOperators DEF Cover!ExactlyOnce, Tasked, Attended, Count
  <2>2. QED
    BY <2>1 DEF ScheduleInv, OneKeeper
<1>4. QED
  BY <1>1, <1>2, <1>3, Implements, PTL DEF ImplementsCover, Cover!Spec

\* A call that returns attended every ordered token pair exactly once.
ReturnsAttention ==
    outcome = "returned" => \A x \in Token \X Token : Count(acc, x) = 1

\* When the call returns, whatever ran out of memory on the way, every query has
\* attended every key exactly once.
THEOREM AttentionExact == Spec => []ReturnsAttention
<1>1. Cover!ExactlyOnce /\ ReturnedExact => ReturnsAttention
  <2> SUFFICES ASSUME Cover!ExactlyOnce, ReturnedExact, outcome = "returned",
                      NEW x \in Token \X Token
               PROVE  Count(acc, x) = 1
    BY DEF ReturnsAttention
  <2>1. Tasked = {} /\ Attended = [y \in Token \X Token |-> Count(acc, y)]
    BY DEF ReturnedExact, Tasked, Attended
  <2>2. Attended[x] = 1
    BY <2>1, SameOperators DEF Cover!ExactlyOnce, Tasked, Attended, Count
  <2> HIDE DEF Attended, Count
  <2>3. QED
    BY <2>1, <2>2
<1>2. QED
  BY <1>1, PairsExactlyOnce, ReturnsExact, PTL
=============================================================================
