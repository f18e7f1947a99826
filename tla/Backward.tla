------------------------------- MODULE Backward -------------------------------
(***************************************************************************)
(* stream_cqsa_backward: one call, on the host path or on the device path. *)
(***************************************************************************)
EXTENDS BackwardDevice, BackwardHost

vars == <<callVars, pc, exc, outcome, deviceVars, hostVars>>

Init == CallInit /\ DeviceInit /\ HostInit

\* The call has ended.
Ended ==
    /\ pc = "end"
    /\ UNCHANGED vars

DevicePath ==
    /\ ~host_resident
    /\ DeviceStep \/ DeviceFails
    /\ UNCHANGED <<callVars, hostVars>>

HostPath ==
    /\ host_resident
    /\ \/ HostStep \/ HostFails \/ CallerDone
       \/ \E s \in Slot : StreamStep(s)
       \/ \E d \in Depth : Scatter(d)
    /\ UNCHANGED deviceVars

Next == DevicePath \/ HostPath \/ Ended

\* The calling thread, the caller's stream, the streams and the workers keep
\* running; failures are never required to happen.
Fairness ==
    /\ WF_vars(~host_resident /\ DeviceStep /\ UNCHANGED hostVars)
    /\ WF_vars(host_resident /\ HostStep /\ UNCHANGED deviceVars)
    /\ WF_vars(CallerDone /\ UNCHANGED deviceVars)
    /\ \A s \in Slot : WF_vars(StreamStep(s) /\ UNCHANGED deviceVars)
    /\ \A d \in Depth : WF_vars(Scatter(d) /\ UNCHANGED deviceVars)

Spec == Init /\ [][Next]_vars /\ Fairness

-----------------------------------------------------------------------------
(* Properties of both paths.                                                 *)

\* Queues, slots and accumulators hold subproblems, on the host path those of the
\* attempt's depth, and no subproblem is started once the dirty flag is set.
TypeOK ==
    /\ exc \in {"none", "oom", "error"}
    /\ pending \in Seq(Path) /\ cur \in Path \cup {None}
    /\ grad \in [Gradient -> [Path -> Nat]]
    /\ retries \in 0 .. Budget + 1
    /\ dirty \in BOOLEAN /\ (dirty => pc \in {"except", "end"})
    /\ depth \in Depth /\ tasks \in Seq([1 .. depth -> Chunk]) /\ i \in 0 .. Len(tasks)
    /\ \A s \in Slot : {slot_state[s], slot_scatter[s], stage_in[s]} \subseteq Path \cup {None}
    /\ \A d \in Depth : \A j \in Range(jobs[d]) : j.task \in Path /\ j.slot \in Slot
    /\ added \in [Depth -> [Path -> Nat]]

\* When the call returns, each gradient counts every ordered pair of tokens of the
\* shard exactly once and no other pair, whatever was refined on the way and at
\* whatever depth the call ended up, and the three gradients are sums over the same
\* subproblems: partial gradients of ranks that escalated and of ranks that did not
\* add up to the whole ("the caller adds the partials").
ReturnedExact ==
    outcome = "returned" =>
        /\ grad["dq"] = grad["dk"] /\ grad["dk"] = grad["dv"]
        /\ \A x \in Token \X Token :
              Counted(x, IF host_resident THEN added[depth] ELSE grad["dq"])
                  = Cardinality({p \in shard : x \in KeptOf[p]})

\* The call returns or raises, whatever fails and in whatever thread.
Terminates == <>(pc = "end")
=============================================================================
