------------------------------ MODULE ForkJoin ------------------------------
(***************************************************************************)
(* What a heartbeat-scheduled program promises, whoever runs what: a tree  *)
(* of tasks in which every task runs once, after its parent began, and is  *)
(* finished only when everything it forked is finished.  In the end the    *)
(* root is finished.                                                       *)
(***************************************************************************)
EXTENDS Integers

CONSTANTS
    Node,               \* the tasks
    Root,               \* the task the program starts with
    Children(_)         \* the tasks a task forks

VARIABLES
    runs,               \* how often each task began
    finished            \* the tasks that are finished

vars == <<runs, finished>>

Init ==
    /\ runs = [n \in Node |-> 0]
    /\ finished = {}

Begin(n) ==
    /\ runs[n] = 0
    /\ n = Root \/ \E p \in Node : n \in Children(p) /\ runs[p] = 1
    /\ runs' = [runs EXCEPT ![n] = 1]
    /\ UNCHANGED finished

Finish(n) ==
    /\ runs[n] = 1
    /\ Children(n) \subseteq finished
    /\ finished' = finished \cup {n}
    /\ UNCHANGED runs

Next == \E n \in Node : Begin(n) \/ Finish(n)

Spec == Init /\ [][Next]_vars
=============================================================================
