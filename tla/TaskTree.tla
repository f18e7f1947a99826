------------------------------ MODULE TaskTree ------------------------------
(***************************************************************************)
(* The subproblems of a call by path, and the task lists the engines work  *)
(* through: build_tasks makes all subproblems of one depth, refine_task    *)
(* the children of one.                                                    *)
(***************************************************************************)
EXTENDS Decomposition, SequencesExt

\* The deepest level a call can reach.
Deepest == IF MaxDepth > Itr THEN MaxDepth ELSE Itr

Path == UNION {[1 .. d -> Chunk] : d \in 0 .. Deepest}

\* f itself: TLC tabulates a function when it compares it.
Table(f) == CHOOSE g \in {f} : g = f

\* group_bits_for_path walks the path from the whole sequence.
TaskOf ==
    LET task[p \in Path] == IF p = <<>> THEN Root ELSE Child(task[Front(p)], Last(p))
    IN  Table([p \in Path |-> task[p]])

KeptOf == Table([p \in Path |-> Kept(TaskOf[p])])

Nonempty == {p \in Path : TaskOf[p].tokens # {}}

\* The elements of a list to keep, in the order of the list.
Selected(list, Keep(_)) ==
    FlattenSeq([i \in DOMAIN list |-> IF Keep(list[i]) THEN <<list[i]>> ELSE <<>>])

\* refine_task: the children in order of their index, empty ones skipped.
Kids(p) == Selected([j \in 1 .. C |-> Append(p, j-1)], LAMBDA q : q \in Nonempty)

\* build_tasks: the non-empty subproblems of depth d, in all_paths order.
Tasks ==
    LET tasks[d \in 0 .. Deepest] ==
            IF d = 0 THEN <<(<<>>)>>
            ELSE FlattenSeq([i \in DOMAIN tasks[d-1] |-> Kids(tasks[d-1][i])])
    IN  Table([d \in 0 .. Deepest |-> tasks[d]])

\* The subproblems no refinement can replace, and what one descends from.
Leaf == {p \in Path : Len(p) = Deepest /\ TaskOf[p].tokens # {}}

Ancestors(p) == {SubSeq(p, 1, d) : d \in 0 .. Len(p)}
=============================================================================
