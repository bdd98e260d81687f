------------------------------ MODULE TaskDag ------------------------------
(***************************************************************************)
(* kahn_core of crates/quest-engine/src/dag.rs, the check every new quest  *)
(* goes through (validate_dag) and the order its tasks are shown in        *)
(* (topological_order), as a machine that pops one task id per step.  The  *)
(* input is any list of tasks: ids may repeat, dependencies may name the   *)
(* task itself, a task that does not exist, or the same task twice.        *)
(***************************************************************************)
EXTENDS Integers, Sequences, FiniteSets, Ordering

CONSTANTS
    TaskId,        \* ids, ordered like the strings they stand for
    NumTasks,      \* bound: length of the list
    Repeats        \* how often a dependency may be listed by one task

ASSUME DagAssumption ==
    TaskId \subseteq Nat /\ IsFiniteSet(TaskId) /\ NumTasks \in Nat /\ Repeats \subseteq Nat \ {0}

VARIABLES
    idOf,          \* tasks[i].task_id
    depsOf,        \* tasks[i].dependencies, as a set
    times,         \* how often each of them is listed
    degree,        \* in_degree
    ready,         \* the queue
    sorted,        \* the order built so far
    verdict        \* busy, or what kahn_core returns

dagVars == <<idOf, depsOf, times, degree, ready, sorted, verdict>>

Index    == 1..NumTasks
Present  == {idOf[i] : i \in Index}

\* task_ids lacks a dependency of some task.
Dangling == \E i \in Index : ~(depsOf[i] \subseteq Present)

\* How often the tasks called x list d.
Edges(x, d) == times * Cardinality({i \in Index : idOf[i] = x /\ d \in depsOf[i]})

\* in_degree after the second loop.
Degrees ==
    [x \in Present |-> times * Cardinality({e \in Index \X TaskId :
                           idOf[e[1]] = x /\ e[2] \in depsOf[e[1]]})]

DagInit ==
    /\ idOf \in [Index -> TaskId]
    /\ depsOf \in [Index -> SUBSET TaskId]
    /\ times \in Repeats
    /\ degree = <<>> /\ ready = <<>> /\ sorted = <<>>
    /\ verdict = "start"

\* The dangling check, the degrees and the initial queue.
Prepare ==
    /\ verdict = "start"
    /\ IF Dangling
       THEN verdict' = "dangling" /\ UNCHANGED <<degree, ready>>
       ELSE /\ degree' = Degrees
            /\ ready' = Ascending({x \in Present : Degrees[x] = 0})
            /\ verdict' = "busy"
    /\ UNCHANGED <<idOf, depsOf, times, sorted>>

\* The decrement reached zero.
NewlyReady(x, left) == left < degree[x] /\ left = 0

\* One turn of the loop.
PopReady ==
    /\ verdict = "busy" /\ ready # <<>>
    /\ LET id   == Head(ready)
           left == [x \in Present |-> degree[x] - Edges(x, id)]
       IN  /\ sorted' = Append(sorted, id)
           /\ degree' = left
           /\ ready' = Tail(ready) \o Ascending({x \in Present : NewlyReady(x, left[x])})
    /\ UNCHANGED <<idOf, depsOf, times, verdict>>

\* Mutant: the comparison is off by one.
ShortByTwo == Len(sorted) + 1 < NumTasks

\* The order is shorter than the list.
Short == Len(sorted) < NumTasks

\* The loop is over: a short order is taken for a cycle.
Judge ==
    /\ verdict = "busy" /\ ready = <<>>
    /\ verdict' = IF Short THEN "cyclic" ELSE "ok"
    /\ UNCHANGED <<idOf, depsOf, times, degree, ready, sorted>>

DagNext == Prepare \/ PopReady \/ Judge

DagSpec == DagInit /\ [][DagNext]_dagVars

-----------------------------------------------------------------------------
(* Properties.                                                             *)

\* The degrees never wrap below zero (they are usize), and nothing is queued
\* or ordered that is not a task.
DagTypeOK ==
    /\ idOf \in [Index -> TaskId] /\ depsOf \in [Index -> SUBSET TaskId] /\ times \in Repeats
    /\ verdict \in {"start", "dangling", "busy", "cyclic", "ok"}
    /\ verdict \notin {"start", "dangling"} => degree \in [Present -> Nat]
    /\ ready \in Seq(Present) /\ sorted \in Seq(Present)

Listed(s) == {s[k] : k \in DOMAIN s}

\* The loop invariant that kahn_core rests on: a degree is the number of listed
\* dependencies that are not yet in the order, the queue and the order together
\* hold each task without one exactly once, and so every turn makes progress
\* and the loop ends on every input.
DagLoop ==
    verdict = "busy" =>
        /\ \A x \in Present :
               degree[x] = times * Cardinality({e \in Index \X TaskId :
                   idOf[e[1]] = x /\ e[2] \in depsOf[e[1]] \ Listed(sorted)})
        /\ Listed(sorted) \cup Listed(ready) = {x \in Present : degree[x] = 0}
        /\ Len(sorted) + Len(ready) = Cardinality({x \in Present : degree[x] = 0})

\* Reference definitions: a set of tasks each of which waits for another one of
\* the set is what a cycle comes to, and an order is good when every task is
\* there once and after all its dependencies.
Cyclic ==
    \E S \in SUBSET Present : S # {} /\ \A x \in S : \E d \in S : Edges(x, d) > 0
Distinct == \A i, j \in Index : idOf[i] = idOf[j] => i = j
GoodOrder(s) ==
    /\ Len(s) = NumTasks /\ Listed(s) = Present
    /\ \A k, l \in DOMAIN s : Edges(s[k], s[l]) > 0 => l < k

\* kahn_core answers what the reference says, on every list: an order exactly
\* when there is one, the dangling dependency before anything else, and
\* CyclicDependency for a cycle and also for an id that occurs twice.
DagVerdict ==
    /\ verdict = "dangling" => Dangling
    /\ verdict = "cyclic" => ~Dangling /\ (Cyclic \/ ~Distinct)
    /\ verdict = "ok" => GoodOrder(sorted) /\ ~Cyclic /\ ~Dangling
=============================================================================
