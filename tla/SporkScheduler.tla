--------------------------- MODULE SporkScheduler ---------------------------
(***************************************************************************)
(* The workers together (scheduler.hpp, spork.hpp, par.hpp, and parfor.hpp *)
(* as far as it uses jobs): a program of nested forks run on the workers'  *)
(* call stacks, the heartbeats that promote its open slots into jobs, the  *)
(* per-worker job deques, and the joins that take a job back or wait.      *)
(*                                                                         *)
(* A program is a tree of tasks.  A fork has a body, run first, and the    *)
(* tasks its promotion would spawn: one (par, spork) or two (parfor: the   *)
(* right half of the remaining iterations, then the left).  Not promoted,  *)
(* the same worker goes on to run them itself.                             *)
(*                                                                         *)
(* Each worker's slot list is the stack of flags that SporkDeque           *)
(* implements, so a slot is opened, promoted or closed in one step here.   *)
(***************************************************************************)
EXTENDS Integers, Sequences, SequencesExt

CONSTANTS
    Worker,
    Main,                   \* the worker that runs the program's main thread
    Node, Root,             \* the tasks, and the one main() starts
    Body,                   \* Body[n]: the task a fork runs in place
    Spawned,                \* Spawned[n]: what its promotion enqueues, in order
    TOKENS_PER_HEARTBEAT,
    MAX_HEARTBEAT_TOKENS

VARIABLES
    stack,                  \* per worker, the frames of its call stack
    heartbeat_tokens,       \* per worker
    armed,                  \* per worker: is its heartbeat timer running?
    handling,               \* per worker: is it inside heartbeat_handler?
    deque,                  \* per worker, its jobs, the oldest first
    promoted,               \* per fork, its slot's flag
    hbt, done,              \* per spawned task, its job's tokens and done flag
    runs, finished          \* history: see ForkJoin

vars == <<stack, heartbeat_tokens, armed, handling, deque, promoted, hbt, done,
          runs, finished>>

Fork == {n \in Node : Spawned[n] # <<>>}

Children(n) == IF n \in Fork THEN {Body[n]} \cup Range(Spawned[n]) ELSE {}

\* The tasks form a tree: a task is an activation, begun by one fork at one place.
ASSUME ProgramAssumption ==
    /\ Main \in Worker
    /\ Root \in Node
    /\ Body \in [Node -> Node]
    /\ Spawned \in [Node -> Seq(Node)]
    /\ \A n \in Fork :
        /\ Len(Spawned[n]) <= 2
        /\ \A j, k \in 1..Len(Spawned[n]) : j # k => Spawned[n][j] # Spawned[n][k]
        /\ Body[n] \notin Range(Spawned[n])
        /\ Root \notin Children(n)
        /\ \A m \in Fork : m # n => Children(m) \cap Children(n) = {}

ASSUME TokensAssumption ==
    TOKENS_PER_HEARTBEAT \in Nat /\ MAX_HEARTBEAT_TOKENS \in Nat

-----------------------------------------------------------------------------
(***************************************************************************)
(* A frame is a task, where its code stands, and how many of its spawned   *)
(* tasks are still to be run or joined (the last one spawned comes first). *)
(* A "job" frame is WorkStealingJob::operator() below the task it runs.    *)
(***************************************************************************)
Frame(n, at) == [node |-> n, at |-> at, left |-> 0]

Top(w) == Last(stack[w])

\* Worker w is executing, not interrupted, and its innermost frame stands at `at`.
At(w, at) == /\ ~handling[w]
             /\ stack[w] # <<>>
             /\ Top(w).at = at

\* The innermost frame of w becomes f, or becomes f and calls g.
Goto(w, f)    == stack' = [stack EXCEPT ![w] = Append(Front(@), f)]
Call(w, f, g) == stack' = [stack EXCEPT ![w] = Front(@) \o <<f, g>>]

\* w's timer, of its own thread, is set running or stopped.
start_heartbeats(w) == armed' = [armed EXCEPT ![w] = TRUE]
pause_heartbeats(w) == armed' = [armed EXCEPT ![w] = FALSE]

Init ==
    /\ stack = [w \in Worker |-> IF w = Main THEN <<Frame(Root, "enter")>> ELSE <<>>]
    /\ heartbeat_tokens = [w \in Worker |-> 0]
    /\ armed = [w \in Worker |-> w = Main]
    /\ handling = [w \in Worker |-> FALSE]
    /\ deque = [w \in Worker |-> <<>>]
    /\ promoted = [n \in Node |-> FALSE]
    /\ hbt = [n \in Node |-> 0]
    /\ done = [n \in Node |-> FALSE]
    /\ runs = [n \in Node |-> 0]
    /\ finished = {}

\* The frames whose slot is open.
IsOpen(f) == f.at \in {"test", "body", "close"}

\* Where on worker w's stack the slots are that a promotion could take.
Promotable(w) ==
    {k \in DOMAIN stack[w] : IsOpen(stack[w][k]) /\ ~promoted[stack[w][k].node]}

\* Mutant: the left job is given what was left before the right one's share.
GivenTwice(n, t) ==
    IF Len(Spawned[n]) = 1 THEN <<t \div 2>> ELSE <<(t + 1) \div 2, t>>

\* The tokens given to each job when a promotion leaves t: par and spork give
\* half to their job, parfor half rounded up to the right and the rest to the left.
\* That a parfor with little left gives one job or none is in SporkDeque and
\* ParforLoop; here a promotion gives all the jobs of its fork.
Given(n, t) ==
    IF Len(Spawned[n]) = 1 THEN <<t \div 2>>
    ELSE <<(t + 1) \div 2, t - (t + 1) \div 2>>

\* promote(), and enqueue() of each job by the promotion handler: one token for
\* the promotion, the jobs' tokens, and the jobs at the young end of w's deque.
Promote(w, n) ==
    LET given == Given(n, heartbeat_tokens[w] - 1)
        spent == 1 + (IF Len(given) = 1 THEN given[1] ELSE given[1] + given[2])
    IN  /\ promoted' = [promoted EXCEPT ![n] = TRUE]
        /\ heartbeat_tokens' = [heartbeat_tokens EXCEPT ![w] = @ - spent]
        /\ hbt' = [c \in Node |-> IF c \in Range(Spawned[n])
                                  THEN given[CHOOSE k \in DOMAIN given : Spawned[n][k] = c]
                                  ELSE hbt[c]]
        /\ deque' = [deque EXCEPT ![w] = @ \o Spawned[n]]

-----------------------------------------------------------------------------
(* The code of a task.                                                     *)

\* A task without forks does its work.
Work(w) ==
    /\ At(w, "enter")
    /\ Top(w).node \notin Fork
    /\ runs' = [runs EXCEPT ![Top(w).node] = @ + 1]
    /\ Goto(w, [Top(w) EXCEPT !.at = "ret"])
    /\ UNCHANGED <<heartbeat_tokens, armed, handling, deque, promoted, hbt, done,
                   finished>>

\* A fork opens its slot: SporkSlot slot(&promfn).
OpenSlot(w) ==
    /\ At(w, "enter")
    /\ Top(w).node \in Fork
    /\ runs' = [runs EXCEPT ![Top(w).node] = @ + 1]
    /\ promoted' = [promoted EXCEPT ![Top(w).node] = FALSE]
    /\ Goto(w, [Top(w) EXCEPT !.at = "test"])
    /\ UNCHANGED <<heartbeat_tokens, armed, handling, deque, hbt, done, finished>>

\* with_prom_handler has tokens: eager_promote, heartbeats disabled.
EagerPromote(w) ==
    /\ At(w, "test")
    /\ heartbeat_tokens[w] > 0
    /\ ~promoted[Top(w).node]
    /\ Promote(w, Top(w).node)
    /\ UNCHANGED <<stack, armed, handling, done, runs, finished>>

\* It has none, or the slot is promoted already: the body is called.
CallBody(w) ==
    /\ At(w, "test")
    /\ heartbeat_tokens[w] = 0 \/ promoted[Top(w).node]
    /\ Call(w, [Top(w) EXCEPT !.at = "body"], Frame(Body[Top(w).node], "enter"))
    /\ UNCHANGED <<heartbeat_tokens, armed, handling, deque, promoted, hbt, done,
                   runs, finished>>

\* slot.close(): promoted, the fork joins its jobs; unpromoted, it runs their
\* tasks itself.
Close(w) ==
    /\ At(w, "close")
    /\ LET n == Top(w).node
       IN  Goto(w, [node |-> n, left |-> Len(Spawned[n]),
                    at |-> IF promoted[n] THEN "sync" ELSE "inline"])
    /\ UNCHANGED <<heartbeat_tokens, armed, handling, deque, promoted, hbt, done,
                   runs, finished>>

RunInline(w) ==
    /\ At(w, "inline")
    /\ Top(w).left > 0
    /\ Call(w, [Top(w) EXCEPT !.left = @ - 1],
               Frame(Spawned[Top(w).node][Top(w).left], "enter"))
    /\ UNCHANGED <<heartbeat_tokens, armed, handling, deque, promoted, hbt, done,
                   runs, finished>>

\* A task is at its end: its work is done, or all it spawned is run or joined.
AtEnd(w) ==
    \/ At(w, "ret")
    \/ (At(w, "sync") \/ At(w, "inline")) /\ Top(w).left = 0

\* It returns to the frame that called it: a fork's body to the close, a job's
\* task to the job; otherwise the caller goes on where it stands.
Return(w) ==
    /\ AtEnd(w)
    /\ finished' = finished \cup {Top(w).node}
    /\ LET callers == Front(stack[w])
           caller  == Last(callers)
           resumed == IF caller.at = "body" THEN "close"
                      ELSE IF caller.at = "job" THEN "finish"
                      ELSE caller.at
       IN  stack' = [stack EXCEPT ![w] =
                        IF callers = <<>> THEN <<>>
                        ELSE Append(Front(callers), [caller EXCEPT !.at = resumed])]
    /\ UNCHANGED <<heartbeat_tokens, armed, handling, deque, promoted, hbt, done, runs>>

-----------------------------------------------------------------------------
(* WorkStealingJob::sync and wait.                                         *)

\* The job a joining frame is after.
Awaited(w) == Spawned[Top(w).node][Top(w).left]

\* parfor's left job, the second it spawns, is joined with reclaim_tokens.
Reclaims(f) == f.left = 2

\* Mutant: the join dequeues at the old end of the deque.
SyncOldest(w) ==
    /\ At(w, "sync")
    /\ Top(w).left > 0
    /\ deque[w] # <<>>
    /\ deque' = [deque EXCEPT ![w] = Tail(@)]
    /\ heartbeat_tokens' = IF Reclaims(Top(w))
                           THEN [heartbeat_tokens EXCEPT ![w] = @ + hbt[Awaited(w)]]
                           ELSE heartbeat_tokens
    /\ Call(w, [Top(w) EXCEPT !.left = @ - 1], Frame(Awaited(w), "enter"))
    /\ UNCHANGED <<armed, handling, promoted, hbt, done, runs, finished>>

\* try_dequeue() finds a job at the young end of the worker's own deque, and
\* fast_clone runs the awaited task in place, whichever job was dequeued.
SyncUnstolen(w) ==
    /\ At(w, "sync")
    /\ Top(w).left > 0
    /\ deque[w] # <<>>
    /\ deque' = [deque EXCEPT ![w] = Front(@)]
    /\ heartbeat_tokens' = IF Reclaims(Top(w))
                           THEN [heartbeat_tokens EXCEPT ![w] = @ + hbt[Awaited(w)]]
                           ELSE heartbeat_tokens
    /\ Call(w, [Top(w) EXCEPT !.left = @ - 1], Frame(Awaited(w), "enter"))
    /\ UNCHANGED <<armed, handling, promoted, hbt, done, runs, finished>>

\* Mutant: a stolen job is taken for a finished one.
SyncUnfinished(w) ==
    /\ At(w, "sync")
    /\ Top(w).left > 0
    /\ deque[w] = <<>>
    /\ Goto(w, [Top(w) EXCEPT !.left = @ - 1])
    /\ UNCHANGED <<heartbeat_tokens, armed, handling, deque, promoted, hbt, done,
                   runs, finished>>

\* The deque is empty and the stolen job is finished already.
SyncFinished(w) ==
    /\ At(w, "sync")
    /\ Top(w).left > 0
    /\ deque[w] = <<>>
    /\ done[Awaited(w)]
    /\ Goto(w, [Top(w) EXCEPT !.left = @ - 1])
    /\ UNCHANGED <<heartbeat_tokens, armed, handling, deque, promoted, hbt, done,
                   runs, finished>>

\* Mutant: the heartbeats go on while the worker waits.
SyncWaitArmed(w) ==
    /\ At(w, "sync")
    /\ Top(w).left > 0
    /\ deque[w] = <<>>
    /\ ~done[Awaited(w)]
    /\ Goto(w, [Top(w) EXCEPT !.at = "wait"])
    /\ UNCHANGED <<heartbeat_tokens, armed, handling, deque, promoted, hbt, done,
                   runs, finished>>

\* It is not: wait() pauses the heartbeats.
SyncWait(w) ==
    /\ At(w, "sync")
    /\ Top(w).left > 0
    /\ deque[w] = <<>>
    /\ ~done[Awaited(w)]
    /\ pause_heartbeats(w)
    /\ Goto(w, [Top(w) EXCEPT !.at = "wait"])
    /\ UNCHANGED <<heartbeat_tokens, handling, deque, promoted, hbt, done, runs, finished>>

\* wait_until sees the job done, and the heartbeats start again.
EndWait(w) ==
    /\ At(w, "wait")
    /\ done[Awaited(w)]
    /\ start_heartbeats(w)
    /\ Goto(w, [node |-> Top(w).node, at |-> "sync", left |-> Top(w).left - 1])
    /\ UNCHANGED <<heartbeat_tokens, handling, deque, promoted, hbt, done, runs, finished>>

-----------------------------------------------------------------------------
(* parlay's work loop, and WorkStealingJob::operator().                    *)

\* A worker that looks for a job: an idle one, or one in wait_until, whose
\* last look at the awaited job may be stale by now.
Looking(w) ==
    \/ stack[w] = <<>> /\ w # Main /\ ~handling[w]
    \/ At(w, "wait")

\* The deques with a job that w would take: its own first, then any.
Victims(w) ==
    LET nonempty == {v \in Worker : deque[v] # <<>>}
    IN  IF w \in nonempty THEN {w} ELSE nonempty

\* get_own_job takes the youngest job, a steal the oldest.  operator() takes
\* over the job's tokens, starts the heartbeats and runs the task.
StartJob(w) ==
    /\ Looking(w)
    /\ \E v \in Victims(w) :
        LET c == IF v = w THEN Last(deque[v]) ELSE Head(deque[v])
        IN  /\ deque' = [deque EXCEPT ![v] = IF v = w THEN Front(@) ELSE Tail(@)]
            /\ heartbeat_tokens' = [heartbeat_tokens EXCEPT ![w] = hbt[c]]
            /\ stack' = [stack EXCEPT ![w] = @ \o <<Frame(c, "job"), Frame(c, "enter")>>]
    /\ start_heartbeats(w)
    /\ UNCHANGED <<handling, promoted, hbt, done, runs, finished>>

\* Mutant: the done flag is never set.
FinishJobSilently(w) ==
    /\ At(w, "finish")
    /\ pause_heartbeats(w)
    /\ stack' = [stack EXCEPT ![w] = Front(@)]
    /\ UNCHANGED <<heartbeat_tokens, handling, deque, promoted, hbt, done, runs, finished>>

\* operator() ends: heartbeats paused, then done set.
FinishJob(w) ==
    /\ At(w, "finish")
    /\ pause_heartbeats(w)
    /\ done' = [done EXCEPT ![Top(w).node] = TRUE]
    /\ stack' = [stack EXCEPT ![w] = Front(@)]
    /\ UNCHANGED <<heartbeat_tokens, handling, deque, promoted, hbt, runs, finished>>

-----------------------------------------------------------------------------
(* heartbeat_handler.  A heartbeat that neither changes the tokens nor     *)
(* finds anything to promote is a stuttering step.                         *)

Refilled(t) == IF t + TOKENS_PER_HEARTBEAT > MAX_HEARTBEAT_TOKENS
               THEN MAX_HEARTBEAT_TOKENS ELSE t + TOKENS_PER_HEARTBEAT

Heartbeat(w) ==
    /\ armed[w]
    /\ ~handling[w]
    /\ Refilled(heartbeat_tokens[w]) # heartbeat_tokens[w] \/ Promotable(w) # {}
    /\ heartbeat_tokens' = [heartbeat_tokens EXCEPT ![w] = Refilled(@)]
    /\ handling' = [handling EXCEPT ![w] = TRUE]
    /\ UNCHANGED <<stack, armed, deque, promoted, hbt, done, runs, finished>>

\* Mutant: the innermost slot is promoted first.
PromoteBack(w) ==
    /\ handling[w]
    /\ heartbeat_tokens[w] > 0
    /\ Promotable(w) # {}
    /\ Promote(w, stack[w][Max(Promotable(w))].node)
    /\ UNCHANGED <<stack, armed, handling, done, runs, finished>>

\* promote_front: the outermost unpromoted slot, while tokens last.
PromoteFront(w) ==
    /\ handling[w]
    /\ heartbeat_tokens[w] > 0
    /\ Promotable(w) # {}
    /\ Promote(w, stack[w][Min(Promotable(w))].node)
    /\ UNCHANGED <<stack, armed, handling, done, runs, finished>>

\* Mutant: the handler returns with tokens it could have spent.
EndHeartbeatEarly(w) ==
    /\ handling[w]
    /\ handling' = [handling EXCEPT ![w] = FALSE]
    /\ UNCHANGED <<stack, heartbeat_tokens, armed, deque, promoted, hbt, done,
                   runs, finished>>

\* `while (heartbeat_tokens)` ends, or the walk has reached the back.
EndHeartbeat(w) ==
    /\ handling[w]
    /\ heartbeat_tokens[w] = 0 \/ Promotable(w) = {}
    /\ handling' = [handling EXCEPT ![w] = FALSE]
    /\ UNCHANGED <<stack, heartbeat_tokens, armed, deque, promoted, hbt, done,
                   runs, finished>>

-----------------------------------------------------------------------------
\* What worker w does by itself, signals aside.
Step(w) ==
    \/ Work(w) \/ OpenSlot(w) \/ EagerPromote(w) \/ CallBody(w) \/ Close(w)
    \/ RunInline(w) \/ Return(w)
    \/ SyncUnstolen(w) \/ SyncFinished(w) \/ SyncWait(w) \/ EndWait(w)
    \/ StartJob(w) \/ FinishJob(w)
    \/ PromoteFront(w) \/ EndHeartbeat(w)

\* The program is over: main() has returned and no worker finds a job.
Terminated ==
    /\ \A w \in Worker : stack[w] = <<>> /\ deque[w] = <<>>
    /\ UNCHANGED vars

Next == (\E w \in Worker : Step(w) \/ Heartbeat(w)) \/ Terminated

Spec == Init /\ [][Next]_vars

\* Every worker is a thread the operating system keeps running.
FairSpec == Spec /\ \A w \in Worker : WF_vars(Step(w))
-----------------------------------------------------------------------------
(* Properties.                                                             *)

Places == {"enter", "test", "body", "close", "inline", "sync", "wait", "ret",
           "job", "finish"}

FrameType == [node : Node, at : Places, left : 0..2]

\* Every variable keeps its type; the token counters never wrap below zero.
TypeOK ==
    /\ stack \in [Worker -> Seq(FrameType)]
    /\ heartbeat_tokens \in [Worker -> Nat]
    /\ armed \in [Worker -> BOOLEAN]
    /\ handling \in [Worker -> BOOLEAN]
    /\ deque \in [Worker -> Seq(Node)]
    /\ promoted \in [Node -> BOOLEAN]
    /\ hbt \in [Node -> Nat]
    /\ done \in [Node -> BOOLEAN]
    /\ runs \in [Node -> Nat]
    /\ finished \subseteq Node

\* The jobs frame f has enqueued and not yet joined, in the order enqueued.
Pending(f) ==
    IF IsOpen(f) /\ promoted[f.node] THEN Spawned[f.node]
    ELSE IF f.at \in {"sync", "wait"} THEN SubSeq(Spawned[f.node], 1, f.left)
    ELSE <<>>

PendingOf(w) == FlattenSeq([k \in DOMAIN stack[w] |-> Pending(stack[w][k])])

\* A worker's deque holds the youngest of the jobs its frames have still to
\* join, in the order those frames will join them: jobs leave at the old end
\* by theft and at the young end by the join they belong to.  So the deque never
\* holds more than two jobs per fork on the stack, which is all that keeps it
\* below the 1000 that enqueue() leaves to the program.
DequeMatchesFrames == \A w \in Worker : IsSuffix(deque[w], PendingOf(w))

\* try_dequeue() throws away what it dequeues and the caller runs its own job
\* instead: the two must be the same job, or one task is lost and another
\* runs twice.
SyncDequeuesItsOwnJob ==
    [][\A w \in Worker :
        At(w, "sync") /\ stack'[w] # stack[w] /\ deque'[w] # deque[w] =>
            deque[w] = Append(deque'[w], Awaited(w))]_vars

\* A worker that waits, or is idle, has nothing left that a heartbeat could
\* promote, no job of its own to offer, and its timer paused: the comment in
\* wait() that all potential parallelism is promoted by then.
WaitsFullyPromoted ==
    \A w \in Worker :
        (stack[w] = <<>> /\ w # Main) \/ (stack[w] # <<>> /\ Top(w).at = "wait") =>
            Promotable(w) = {} /\ deque[w] = <<>> /\ ~armed[w] /\ ~handling[w]

\* parlay's deque is not reentrant: a heartbeat that interrupts a worker inside
\* try_dequeue() or while it looks for jobs enqueues nothing.
NoEnqueueInsideDequeOperation ==
    [][\A w \in Worker :
        Len(deque'[w]) > Len(deque[w]) =>
            stack[w] # <<>> /\ Top(w).at \notin {"sync", "wait", "finish"}]_vars

\* Whatever is promoted, stolen or waited for, the workers together run the
\* program: each task once, and a fork is finished only after all it spawned.
Program == INSTANCE ForkJoin

ImplementsForkJoin == Program!Spec

\* No worker waits for ever: the program comes to its end.
ProgramFinishes == <>(Root \in finished)

=============================================================================
