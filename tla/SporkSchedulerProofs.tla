------------------------ MODULE SporkSchedulerProofs ------------------------
(***************************************************************************)
(* What SporkScheduler keeps for every program, any number of workers and  *)
(* any token constants.  The invariant that every step preserves relates   *)
(* the frames of the workers' stacks                                       *)
(*   - to each other: a fork's frame below its body's, a job's above a wait *)
(*     or at the bottom of an idle worker's stack (Shape), and slots        *)
(*     promoted from the outside in (PromotedOutsideIn);                   *)
(*   - to the tasks: a task is in one frame or one deque or none, and what *)
(*     a fork has not yet begun or enqueued is nowhere (Owners);           *)
(*   - to what is finished (Joins);                                        *)
(*   - to the deques: each is the youngest part of what its worker's frames *)
(*     above the last wait have still to join (Jobs).                      *)
(***************************************************************************)
EXTENDS SporkScheduler, WellFoundedInduction, TLAPS

-----------------------------------------------------------------------------
(* Sets of natural numbers.                                                *)

Smaller == {p \in Nat \X Nat : p[1] < p[2]}

LEMMA SmallerWellFounded == IsWellFoundedOn(Smaller, Nat)
<1>1. OpToRel(<, Nat) = Smaller
  BY Zenon DEF OpToRel, Smaller
<1> QED
  BY <1>1, NatLessThanWellFounded, Zenon

\* A set of natural numbers has a least element.
LEMMA NatLeast ==
    ASSUME NEW S, S \subseteq Nat, S # {}
    PROVE  \E x \in S : \A y \in S : x <= y
<1>1. PICK x \in S : \A y \in S : <<y, x>> \notin Smaller
  BY SmallerWellFounded, WFMin, Zenon
<1>2. ASSUME NEW y \in S PROVE x <= y
  <2>1. <<y, x>> \in Nat \X Nat => y >= x
    BY <1>1 DEF Smaller
  <2> QED
    BY <2>1
<1> QED
  BY <1>2

\* Induction up to a bound.
LEMMA SetInduction ==
    ASSUME NEW n \in Nat, NEW S,
           0 \in S, \A k \in 0..(n - 1) : k \in S => k + 1 \in S
    PROVE  \A k \in 0..n : k \in S
<1> SUFFICES ASSUME NEW j \in 0..n, j \notin S PROVE FALSE
  OBVIOUS
<1> DEFINE T == {k \in 0..n : k \notin S}
<1>1. PICK x \in T : \A y \in T : x <= y
  <2>1. T \subseteq Nat /\ T # {}
    OBVIOUS
  <2> HIDE DEF T
  <2> QED
    BY <2>1, NatLeast
<1>2. x \in 0..n /\ x # 0 /\ x \notin S
  OBVIOUS
<1>3. x - 1 \in 0..(n - 1) /\ x - 1 \in 0..n
  BY <1>2
<1>4. x - 1 \in S
  BY <1>1, <1>2, <1>3
<1>5. x \in S
  BY <1>2, <1>3, <1>4
<1> QED
  BY <1>2, <1>5


-----------------------------------------------------------------------------
(* The invariant.                                                          *)

Depth(w) == 1..Len(stack[w])

\* A frame that runs its task; the others are jobs', below the task they run.
IsTask(f) == f.at \notin {"job", "finish"}

AtFork == {"test", "body", "close", "inline", "sync", "wait"}

\* How many jobs a frame has left fits its fork, and where it stands its task.
FitsTask(f) ==
    /\ f.left <= Len(Spawned[f.node])
    /\ f.at = "wait" => f.left > 0
    /\ f.at \in AtFork => f.node \in Fork
    /\ f.at = "ret" => f.node \notin Fork

Lefts == \A w \in Worker : \A k \in Depth(w) : FitsTask(stack[w][k])

\* Where the innermost frame and the frames that have called one may stand.
Innermost == {"enter", "test", "close", "inline", "sync", "wait", "ret", "finish"}
Calling == {"body", "inline", "sync", "job", "wait"}

\* Exactly the frames above a wait, and the outermost one of a worker that is
\* not the main one, are jobs.
Shape ==
    \A w \in Worker : \A k \in Depth(w) :
        /\ stack[w][k].at \in (IF k = Len(stack[w]) THEN Innermost ELSE Calling)
        /\ IsTask(stack[w][k]) <=> IF k = 1 THEN w = Main ELSE stack[w][k - 1].at # "wait"

\* Slots are promoted from the outside in: below a promoted slot, and below a
\* join, there is no unpromoted one.
PromotedOutsideIn ==
    \A w \in Worker : \A j, k \in Depth(w) :
        /\ j < k
        /\ IsOpen(stack[w][j])
        /\ \/ stack[w][k].at \in {"sync", "wait"}
           \/ IsOpen(stack[w][k]) /\ promoted[stack[w][k].node]
        => promoted[stack[w][j].node]

\* Tokens are left over only when nothing but a slot just opened is unpromoted.
TokensSpent ==
    \A w \in Worker : \A k \in Depth(w) :
        /\ heartbeat_tokens[w] > 0
        /\ ~handling[w]
        /\ IsOpen(stack[w][k])
        /\ ~promoted[stack[w][k].node]
        => k = Len(stack[w]) /\ stack[w][k].at = "test"

\* A worker with nothing to run has no timer, and without it no handler.
Timer ==
    \A w \in Worker :
        /\ handling[w] => armed[w]
        /\ stack[w] = <<>> /\ w # Main => ~armed[w]
        /\ stack[w] # <<>> /\ Top(w).at = "wait" => ~armed[w]

Held(c) == \E w \in Worker : \E k \in Depth(w) :
                IsTask(stack[w][k]) /\ stack[w][k].node = c

Queued(c) == \E w \in Worker : \E k \in 1..Len(deque[w]) : deque[w][k] = c

\* Task c is still to come: nobody runs it, has run it or could steal it.
Fresh(c) == runs[c] = 0 /\ ~Held(c) /\ ~Queued(c)

IsChild(c) == \E p \in Fork : c \in Children(p)

\* A task is in one frame,
OneFrame ==
    \A w \in Worker : \A k \in Depth(w) : IsTask(stack[w][k]) =>
        \A v \in Worker : \A j \in Depth(v) :
            IsTask(stack[v][j]) /\ stack[v][j].node = stack[w][k].node => v = w /\ j = k

\* which has begun it unless it stands at its entry.
Begun ==
    \A w \in Worker : \A k \in Depth(w) : IsTask(stack[w][k]) =>
        runs[stack[w][k].node] = IF stack[w][k].at = "enter" THEN 0 ELSE 1

Forked ==
    \A w \in Worker : \A k \in Depth(w) : IsTask(stack[w][k]) =>
        stack[w][k].node = Root \/ IsChild(stack[w][k].node)

\* An enqueued task is in one place of one deque, and nobody runs it.
QueuedOnce ==
    \A w \in Worker : \A k \in 1..Len(deque[w]) :
        /\ \A v \in Worker : \A j \in 1..Len(deque[v]) :
              deque[v][j] = deque[w][k] => v = w /\ j = k
        /\ runs[deque[w][k]] = 0
        /\ ~Held(deque[w][k])
        /\ IsChild(deque[w][k])

\* All of a fork to come is to come; so are the body of a fork at its test, the
\* jobs of an unpromoted one, and what an unpromoted join has still to run.
TasksToCome == \A p \in Fork : runs[p] = 0 => \A c \in Children(p) : Fresh(c)

FrameToCome(f) ==
    /\ f.at = "test" => Fresh(Body[f.node])
    /\ IsOpen(f) /\ ~promoted[f.node] =>
          \A j \in 1..Len(Spawned[f.node]) : Fresh(Spawned[f.node][j])
    /\ f.at = "inline" => \A j \in 1..f.left : Fresh(Spawned[f.node][j])

FramesToCome == \A w \in Worker : \A k \in Depth(w) : FrameToCome(stack[w][k])

Owners ==
    /\ runs \in [Node -> {0, 1}]
    /\ OneFrame /\ Begun /\ Forked /\ QueuedOnce /\ TasksToCome /\ FramesToCome

\* The task of the frame that w's k-th frame has called.
Above(w, k) == IF k < Len(stack[w]) THEN {stack[w][k + 1].node} ELSE {}

\* What frame f has behind it is finished, up to what the frame above it runs.
Joined(f, above, ended) ==
    /\ f.at = "job" => f.node \in above
    /\ f.at = "finish" => f.node \in ended
    /\ f.at = "body" => Body[f.node] \in above
    /\ f.at \in {"close", "inline", "sync", "wait"} => Body[f.node] \in ended
    /\ f.at \in {"inline", "sync", "wait"} =>
         \A j \in (f.left + 1)..Len(Spawned[f.node]) :
            \/ Spawned[f.node][j] \in ended
            \/ f.at # "wait" /\ j = f.left + 1 /\ Spawned[f.node][j] \in above

Joins ==
    /\ \A c \in Node : done[c] => c \in finished
    /\ \A w \in Worker : \A k \in Depth(w) : Joined(stack[w][k], Above(w, k), finished)

\* What each frame of w could still find in w's deque: nothing below a wait,
\* for w waits only when its deque is empty.
Owed(w) ==
    [k \in 1..Len(stack[w]) |->
        IF \E j \in k..Len(stack[w]) : stack[w][j].at = "wait" THEN <<>>
        ELSE Pending(stack[w][k])]

\* d is the end of s.
Ends(d, s) ==
    /\ Len(d) <= Len(s)
    /\ \A k \in 1..Len(d) : d[k] = s[Len(s) - Len(d) + k]

Jobs == \A w \in Worker : Ends(deque[w], FlattenSeq(Owed(w)))

Inv ==
    /\ TypeOK /\ Lefts /\ Shape
    /\ PromotedOutsideIn /\ TokensSpent /\ Timer
    /\ Owners /\ Joins /\ Jobs

-----------------------------------------------------------------------------
(* What each way of changing a stack does, frame by frame.                 *)

\* Only worker w's stack changes, above its m-th frame.
Kept(w, m) ==
    /\ stack' \in [Worker -> Seq(FrameType)]
    /\ \A v \in Worker : v # w => stack'[v] = stack[v]
    /\ m \in 0..Len(stack[w])
    /\ m <= Len(stack'[w])
    /\ \A k \in 1..m : stack'[w][k] = stack[w][k]

LEMMA FirstsAre ==
    ASSUME NEW S, NEW s \in Seq(S), NEW n \in Nat, n <= Len(s)
    PROVE  /\ SubSeq(s, 1, n) \in Seq(S) /\ Len(SubSeq(s, 1, n)) = n
           /\ \A k \in 1..n : SubSeq(s, 1, n)[k] = s[k]
OBVIOUS

LEMMA FrontIs ==
    ASSUME NEW S, NEW s \in Seq(S), s # <<>>
    PROVE  /\ Len(s) \in Nat /\ Len(s) > 0
           /\ Front(s) \in Seq(S) /\ Len(Front(s)) = Len(s) - 1
           /\ \A k \in 1..(Len(s) - 1) : Front(s)[k] = s[k]
           /\ Last(s) = s[Len(s)] /\ Last(s) \in S
<1>1. Len(s) \in Nat /\ Len(s) > 0
  OBVIOUS
<1>2. s[Len(s)] \in S
  BY <1>1
<1>3. Len(s) - 1 \in Nat /\ Len(s) - 1 <= Len(s)
  BY <1>1
<1> DEFINE n == Len(s) - 1
<1> HIDE DEF n
<1>4. /\ SubSeq(s, 1, n) \in Seq(S) /\ Len(SubSeq(s, 1, n)) = n
      /\ \A k \in 1..n : SubSeq(s, 1, n)[k] = s[k]
  <2>1. n \in Nat /\ n <= Len(s)
    BY <1>3 DEF n
  <2> QED
    BY <2>1, FirstsAre
<1> QED
  BY <1>1, <1>2, <1>4 DEF Front, Last, n

LEMMA TopIs ==
    ASSUME TypeOK, NEW w \in Worker, stack[w] # <<>>
    PROVE  /\ Len(stack[w]) \in Nat /\ Len(stack[w]) > 0
           /\ Top(w) = stack[w][Len(stack[w])] /\ Top(w) \in FrameType
<1>1. stack[w] \in Seq(FrameType)
  BY DEF TypeOK
<1> QED
  BY <1>1 DEF Top, Last

\* Two frames on top of others.
LEMMA TwoMore ==
    ASSUME NEW S, NEW s \in Seq(S), NEW f \in S, NEW g \in S
    PROVE  /\ s \o <<f, g>> \in Seq(S)
           /\ Len(s \o <<f, g>>) = Len(s) + 2
           /\ \A k \in 1..Len(s) : (s \o <<f, g>>)[k] = s[k]
           /\ (s \o <<f, g>>)[Len(s) + 1] = f
           /\ (s \o <<f, g>>)[Len(s) + 2] = g
<1>1. /\ Len(s) \in Nat /\ <<f, g>> \in Seq(S)
      /\ Len(<<f, g>>) = 2 /\ <<f, g>>[1] = f /\ <<f, g>>[2] = g
  OBVIOUS
<1> QED
  BY <1>1

LEMMA GotoEffect ==
    ASSUME TypeOK, NEW w \in Worker, stack[w] # <<>>, NEW f \in FrameType, Goto(w, f)
    PROVE  /\ Kept(w, Len(stack[w]) - 1)
           /\ Len(stack'[w]) = Len(stack[w])
           /\ stack'[w][Len(stack[w])] = f
<1>1. stack \in [Worker -> Seq(FrameType)] /\ stack[w] \in Seq(FrameType)
  BY DEF TypeOK
<1>2. stack' = [stack EXCEPT ![w] = Append(Front(stack[w]), f)]
  BY <1>1 DEF Goto
<1>3. /\ Len(stack[w]) \in Nat /\ Len(stack[w]) > 0
      /\ Front(stack[w]) \in Seq(FrameType) /\ Len(Front(stack[w])) = Len(stack[w]) - 1
      /\ \A k \in 1..(Len(stack[w]) - 1) : Front(stack[w])[k] = stack[w][k]
  BY <1>1, FrontIs
<1> QED
  BY <1>1, <1>2, <1>3 DEF Kept

LEMMA CallEffect ==
    ASSUME TypeOK, NEW w \in Worker, stack[w] # <<>>, NEW f \in FrameType,
           NEW g \in FrameType, Call(w, f, g)
    PROVE  /\ Kept(w, Len(stack[w]) - 1)
           /\ Len(stack'[w]) = Len(stack[w]) + 1
           /\ stack'[w][Len(stack[w])] = f
           /\ stack'[w][Len(stack[w]) + 1] = g
<1>1. stack \in [Worker -> Seq(FrameType)] /\ stack[w] \in Seq(FrameType)
  BY DEF TypeOK
<1>2. stack' = [stack EXCEPT ![w] = Front(stack[w]) \o <<f, g>>]
  BY <1>1 DEF Call
<1>3. /\ Len(stack[w]) \in Nat /\ Len(stack[w]) > 0
      /\ Front(stack[w]) \in Seq(FrameType) /\ Len(Front(stack[w])) = Len(stack[w]) - 1
      /\ \A k \in 1..(Len(stack[w]) - 1) : Front(stack[w])[k] = stack[w][k]
  BY <1>1, FrontIs
<1> DEFINE front == Front(stack[w])
<1> HIDE DEF front
<1>4. /\ front \o <<f, g>> \in Seq(FrameType)
      /\ Len(front \o <<f, g>>) = Len(front) + 2
      /\ \A k \in 1..Len(front) : (front \o <<f, g>>)[k] = front[k]
      /\ (front \o <<f, g>>)[Len(front) + 1] = f
      /\ (front \o <<f, g>>)[Len(front) + 2] = g
  <2>1. front \in Seq(FrameType)
    BY <1>3 DEF front
  <2> QED
    BY <2>1, TwoMore
<1> QED
  BY <1>1, <1>2, <1>3, <1>4 DEF Kept, front

LEMMA ReturnEffect ==
    ASSUME TypeOK, NEW w \in Worker, Return(w)
    PROVE  /\ Len(stack[w]) = 1 => Kept(w, 0) /\ stack'[w] = <<>>
           /\ Len(stack[w]) # 1 =>
                LET n == Len(stack[w]) - 1
                    at == stack[w][n].at
                IN  /\ Kept(w, n - 1)
                    /\ n > 0
                    /\ Len(stack'[w]) = n
                    /\ stack'[w][n].node = stack[w][n].node
                    /\ stack'[w][n].left = stack[w][n].left
                    /\ stack'[w][n].at = IF at = "body" THEN "close"
                                         ELSE IF at = "job" THEN "finish" ELSE at
<1>1. /\ stack \in [Worker -> Seq(FrameType)] /\ stack[w] \in Seq(FrameType)
      /\ stack[w] # <<>>
  BY DEF TypeOK, Return, AtEnd, At
<1> DEFINE callers == Front(stack[w])
           caller == Last(callers)
           back == [caller EXCEPT !.at = IF caller.at = "body" THEN "close"
                                         ELSE IF caller.at = "job" THEN "finish"
                                         ELSE caller.at]
<1>2. /\ callers \in Seq(FrameType) /\ Len(callers) = Len(stack[w]) - 1
      /\ \A k \in 1..(Len(stack[w]) - 1) : callers[k] = stack[w][k]
      /\ Len(stack[w]) \in Nat /\ Len(stack[w]) > 0
  BY <1>1, FrontIs
<1>3. stack' = [stack EXCEPT ![w] = IF callers = <<>> THEN <<>> ELSE Append(Front(callers), back)]
  BY DEF Return
<1>4. CASE Len(stack[w]) = 1
  <2>1. callers = <<>>
    BY <1>2, <1>4
  <2>2. stack' = [stack EXCEPT ![w] = <<>>]
    BY <2>1, <1>3
  <2> QED
    BY <1>1, <1>4, <2>2 DEF Kept
<1>5. CASE Len(stack[w]) # 1
  <2> HIDE DEF callers
  <2>0. Len(stack[w]) \in Nat /\ Len(stack[w]) > 1 /\ Len(callers) = Len(stack[w]) - 1
    <3>1. /\ Len(stack[w]) \in Nat /\ Len(stack[w]) > 0 /\ Len(stack[w]) # 1
          /\ Len(callers) = Len(stack[w]) - 1
      BY <1>2, <1>5
    <3>2. \A m \in Nat : m > 0 /\ m # 1 => m > 1
      OBVIOUS
    <3> QED
      BY <3>1, <3>2
  <2>1. callers # <<>> /\ Len(stack[w]) - 1 \in 1..(Len(stack[w]) - 1)
    BY <2>0, <1>2
  <2>2. /\ Front(callers) \in Seq(FrameType) /\ Len(Front(callers)) = Len(callers) - 1
        /\ \A k \in 1..(Len(callers) - 1) : Front(callers)[k] = callers[k]
        /\ caller = callers[Len(callers)] /\ caller \in FrameType
    BY <1>2, <2>1, FrontIs
  <2>3. caller = stack[w][Len(stack[w]) - 1]
    BY <1>2, <2>1, <2>2
  <2> HIDE DEF caller
  <2>4. /\ back \in FrameType
        /\ back.node = caller.node /\ back.left = caller.left
        /\ back.at = IF caller.at = "body" THEN "close"
                     ELSE IF caller.at = "job" THEN "finish" ELSE caller.at
    BY <2>2 DEF FrameType, Places
  <2> HIDE DEF back
  <2>5. stack' = [stack EXCEPT ![w] = Append(Front(callers), back)]
    BY <1>3, <2>1
  <2>6. /\ Len(stack'[w]) = Len(stack[w]) - 1
        /\ stack'[w][Len(stack[w]) - 1] = back
        /\ Kept(w, Len(stack[w]) - 2)
    BY <1>1, <1>2, <2>1, <2>2, <2>4, <2>5 DEF Kept
  <2> DEFINE n == Len(stack[w]) - 1
  <2>7. n > 0 /\ n - 1 = Len(stack[w]) - 2
    BY <2>0
  <2>8. caller = stack[w][n] /\ stack'[w][n] = back /\ Len(stack'[w]) = n
    BY <2>3, <2>6
  <2>9. Kept(w, n - 1)
    BY <2>6, <2>7
  <2> HIDE DEF n
  <2>10. /\ stack'[w][n].node = stack[w][n].node
         /\ stack'[w][n].left = stack[w][n].left
         /\ stack'[w][n].at = IF stack[w][n].at = "body" THEN "close"
                              ELSE IF stack[w][n].at = "job" THEN "finish"
                              ELSE stack[w][n].at
    BY <2>4, <2>8
  <2> QED
    BY <1>5, <2>7, <2>8, <2>9, <2>10 DEF n
<1> QED
  BY <1>4, <1>5

LEMMA PopEffect ==
    ASSUME TypeOK, NEW w \in Worker, stack[w] # <<>>,
           stack' = [stack EXCEPT ![w] = Front(@)]
    PROVE  Kept(w, Len(stack[w]) - 1) /\ Len(stack'[w]) = Len(stack[w]) - 1
<1>1. stack \in [Worker -> Seq(FrameType)] /\ stack[w] \in Seq(FrameType)
  BY DEF TypeOK
<1>2. /\ Len(stack[w]) \in Nat /\ Len(stack[w]) > 0
      /\ Front(stack[w]) \in Seq(FrameType) /\ Len(Front(stack[w])) = Len(stack[w]) - 1
      /\ \A k \in 1..(Len(stack[w]) - 1) : Front(stack[w])[k] = stack[w][k]
  BY <1>1, FrontIs
<1> QED
  BY <1>1, <1>2 DEF Kept

LEMMA PushEffect ==
    ASSUME TypeOK, NEW w \in Worker, NEW f \in FrameType, NEW g \in FrameType,
           stack' = [stack EXCEPT ![w] = @ \o <<f, g>>]
    PROVE  /\ Kept(w, Len(stack[w]))
           /\ Len(stack'[w]) = Len(stack[w]) + 2
           /\ stack'[w][Len(stack[w]) + 1] = f
           /\ stack'[w][Len(stack[w]) + 2] = g
<1>1. stack \in [Worker -> Seq(FrameType)] /\ stack[w] \in Seq(FrameType)
  BY DEF TypeOK
<1> QED
  BY <1>1, TwoMore DEF Kept

-----------------------------------------------------------------------------
(* The types.                                                              *)

LEMMA OfAFork ==
    ASSUME NEW n \in Fork
    PROVE  /\ n \in Node /\ Body[n] \in Node /\ Spawned[n] \in Seq(Node)
           /\ Len(Spawned[n]) \in {1, 2}
           /\ Body[n] \in Children(n)
           /\ \A k \in 1..Len(Spawned[n]) : Spawned[n][k] \in Node /\ Spawned[n][k] \in Children(n)
           /\ \A c \in Children(n) : c = Body[n] \/ \E k \in 1..Len(Spawned[n]) : c = Spawned[n][k]
           /\ \A k \in 1..Len(Spawned[n]) : Spawned[n][k] # Body[n]
           /\ \A j, k \in 1..Len(Spawned[n]) : Spawned[n][j] = Spawned[n][k] => j = k
           /\ \A m \in Fork : \A c \in Children(n) : c \in Children(m) => m = n
           /\ Root \notin Children(n)
<1>1. n \in Node /\ Spawned[n] # <<>> /\ Spawned[n] \in Seq(Node) /\ Body[n] \in Node
  BY ProgramAssumption DEF Fork
<1>2. DOMAIN Spawned[n] = 1..Len(Spawned[n]) /\ Len(Spawned[n]) \in Nat /\ Len(Spawned[n]) # 0
  BY <1>1
<1>3. Len(Spawned[n]) \in {1, 2}
  <2>1. Len(Spawned[n]) <= 2
    BY ProgramAssumption
  <2>2. \A m \in Nat : m # 0 /\ m <= 2 => m \in {1, 2}
    OBVIOUS
  <2> QED
    BY <1>2, <2>1, <2>2
<1>4. Range(Spawned[n]) = {Spawned[n][k] : k \in 1..Len(Spawned[n])}
  BY <1>2 DEF Range
<1>5. Children(n) = {Body[n]} \cup {Spawned[n][k] : k \in 1..Len(Spawned[n])}
  BY <1>4 DEF Children
<1>6. \A k \in 1..Len(Spawned[n]) : Spawned[n][k] \in Node
  BY <1>1
<1>7. \A k \in 1..Len(Spawned[n]) : Spawned[n][k] # Body[n]
  BY <1>4, ProgramAssumption
<1>8. \A j, k \in 1..Len(Spawned[n]) : Spawned[n][j] = Spawned[n][k] => j = k
  BY ProgramAssumption
<1>9. \A m \in Fork : \A c \in Children(n) : c \in Children(m) => m = n
  BY ProgramAssumption
<1>10. Root \notin Children(n)
  BY ProgramAssumption
<1> QED
  BY <1>1, <1>3, <1>5, <1>6, <1>7, <1>8, <1>9, <1>10

\* The tokens a promotion gives away are tokens the worker has.
LEMMA GivenIs ==
    ASSUME NEW n \in Fork, NEW t \in Nat
    PROVE  /\ DOMAIN Given(n, t) = 1..Len(Spawned[n])
           /\ Len(Given(n, t)) = Len(Spawned[n])
           /\ \A k \in 1..Len(Spawned[n]) : Given(n, t)[k] \in Nat
           /\ Len(Spawned[n]) = 1 => Given(n, t)[1] <= t
           /\ Len(Spawned[n]) = 2 => Given(n, t)[1] + Given(n, t)[2] <= t
<1>1. CASE Len(Spawned[n]) = 1
  <2>1. Given(n, t) = <<t \div 2>> /\ t \div 2 \in Nat /\ t \div 2 <= t
    BY <1>1 DEF Given
  <2> QED
    BY <1>1, <2>1
<1>2. CASE Len(Spawned[n]) = 2
  <2>1. /\ Given(n, t) = <<(t + 1) \div 2, t - (t + 1) \div 2>>
        /\ (t + 1) \div 2 \in Nat /\ t - (t + 1) \div 2 \in Nat
        /\ (t + 1) \div 2 + (t - (t + 1) \div 2) <= t
    BY <1>2 DEF Given
  <2> QED
    BY <1>2, <2>1
<1> QED
  BY <1>1, <1>2, OfAFork

LEMMA PromoteTypes ==
    ASSUME TypeOK, NEW w \in Worker, NEW n \in Fork, heartbeat_tokens[w] > 0, Promote(w, n)
    PROVE  /\ heartbeat_tokens' \in [Worker -> Nat]
           /\ hbt' \in [Node -> Nat]
           /\ promoted' \in [Node -> BOOLEAN]
           /\ deque' \in [Worker -> Seq(Node)]
<1> DEFINE t == heartbeat_tokens[w] - 1
           given == Given(n, t)
<1>1. heartbeat_tokens \in [Worker -> Nat] /\ t \in Nat
  BY DEF TypeOK
<1>2. /\ DOMAIN given = 1..Len(Spawned[n]) /\ Len(given) = Len(Spawned[n])
      /\ \A k \in 1..Len(Spawned[n]) : given[k] \in Nat
      /\ Len(Spawned[n]) = 1 => given[1] <= t
      /\ Len(Spawned[n]) = 2 => given[1] + given[2] <= t
  BY <1>1, GivenIs
<1>3. Spawned[n] \in Seq(Node) /\ Len(Spawned[n]) \in {1, 2} /\ DOMAIN Spawned[n] = 1..Len(Spawned[n])
  BY OfAFork
<1>4. hbt' \in [Node -> Nat]
  <2>1. ASSUME NEW c \in Node, c \in Range(Spawned[n])
        PROVE  given[CHOOSE k \in DOMAIN given : Spawned[n][k] = c] \in Nat
    <3>1. \E k \in DOMAIN given : Spawned[n][k] = c
      BY <1>2, <1>3, <2>1 DEF Range
    <3> DEFINE j == CHOOSE k \in DOMAIN given : Spawned[n][k] = c
    <3>2. j \in DOMAIN given
      BY <3>1
    <3> HIDE DEF j, given
    <3>3. given[j] \in Nat
      BY <1>2, <3>2
    <3> QED
      BY <3>3 DEF j
  <2>2. hbt' = [c \in Node |-> IF c \in Range(Spawned[n])
                               THEN given[CHOOSE k \in DOMAIN given : Spawned[n][k] = c]
                               ELSE hbt[c]]
    BY DEF Promote
  <2> HIDE DEF given
  <2> QED
    BY <2>1, <2>2 DEF TypeOK
<1>5. heartbeat_tokens' \in [Worker -> Nat]
  <2>1. heartbeat_tokens' = [heartbeat_tokens EXCEPT ![w] = @ -
            (1 + (IF Len(given) = 1 THEN given[1] ELSE given[1] + given[2]))]
    BY DEF Promote
  <2> HIDE DEF given
  <2>2. heartbeat_tokens[w] - (1 + (IF Len(given) = 1 THEN given[1] ELSE given[1] + given[2])) \in Nat
    <3>1. CASE Len(Spawned[n]) = 1
      BY <1>1, <1>2, <3>1
    <3>2. CASE Len(Spawned[n]) = 2
      BY <1>1, <1>2, <3>2
    <3> QED
      BY <1>3, <3>1, <3>2
  <2> QED
    BY <1>1, <2>1, <2>2
<1>6. promoted' \in [Node -> BOOLEAN] /\ deque' \in [Worker -> Seq(Node)]
  BY <1>3, OfAFork DEF Promote, TypeOK
<1> QED
  BY <1>4, <1>5, <1>6


\* Step(w) changes only the top frame: where it stands and what it has left.
Moves(w, at, left) ==
    LET n == Len(stack[w])
    IN  /\ Kept(w, n - 1)
        /\ Len(stack'[w]) = n
        /\ stack'[w][n].node = stack[w][n].node
        /\ stack'[w][n].at = at
        /\ stack'[w][n].left = left

\* The same, and it calls task c.
Calls(w, at, left, c) ==
    LET n == Len(stack[w])
    IN  /\ Kept(w, n - 1)
        /\ Len(stack'[w]) = n + 1
        /\ stack'[w][n].node = stack[w][n].node
        /\ stack'[w][n].at = at
        /\ stack'[w][n].left = left
        /\ stack'[w][n + 1].node = c
        /\ stack'[w][n + 1].at = "enter"
        /\ stack'[w][n + 1].left = 0

LEMMA MovesType ==
    ASSUME TypeOK, NEW w \in Worker, stack[w] # <<>>, NEW f \in FrameType, Goto(w, f),
           f.node = Top(w).node
    PROVE  Moves(w, f.at, f.left) /\ stack' \in [Worker -> Seq(FrameType)]
BY GotoEffect, TopIs DEF Moves, Kept

LEMMA CallsType ==
    ASSUME TypeOK, NEW w \in Worker, stack[w] # <<>>, NEW f \in FrameType,
           NEW c \in Node, Call(w, f, Frame(c, "enter")), f.node = Top(w).node
    PROVE  Calls(w, f.at, f.left, c) /\ stack' \in [Worker -> Seq(FrameType)]
<1>1. Frame(c, "enter") \in FrameType
  BY DEF Frame, FrameType, Places
<1>2. /\ Frame(c, "enter").node = c /\ Frame(c, "enter").at = "enter"
      /\ Frame(c, "enter").left = 0
  BY DEF Frame
<1> QED
  BY <1>1, <1>2, CallEffect, TopIs DEF Calls, Kept

\* What each action does to the stack, from where, and that types are kept.
LEMMA WorkStep ==
    ASSUME TypeOK, NEW w \in Worker, Work(w)
    PROVE  /\ TypeOK'
           /\ stack[w] # <<>> /\ Top(w).at = "enter" /\ Top(w).node \notin Fork
           /\ Moves(w, "ret", Top(w).left)
<1>1. stack[w] # <<>> /\ Top(w) \in FrameType /\ Top(w).at = "enter" /\ Top(w).node \notin Fork
  BY TopIs DEF Work, At
<1> DEFINE f == [Top(w) EXCEPT !.at = "ret"]
<1>2. f \in FrameType /\ f.node = Top(w).node /\ f.at = "ret" /\ f.left = Top(w).left
  BY <1>1 DEF FrameType, Places
<1>3. Goto(w, f)
  BY DEF Work
<1> HIDE DEF f
<1>4. Moves(w, "ret", Top(w).left) /\ stack' \in [Worker -> Seq(FrameType)]
  BY <1>1, <1>2, <1>3, MovesType
<1>5. runs' \in [Node -> Nat]
  BY <1>1 DEF TypeOK, Work, FrameType
<1> QED
  BY <1>1, <1>4, <1>5 DEF TypeOK, Work

LEMMA OpenSlotStep ==
    ASSUME TypeOK, NEW w \in Worker, OpenSlot(w)
    PROVE  /\ TypeOK'
           /\ stack[w] # <<>> /\ Top(w).at = "enter" /\ Top(w).node \in Fork
           /\ Moves(w, "test", Top(w).left)
<1>1. stack[w] # <<>> /\ Top(w) \in FrameType /\ Top(w).at = "enter" /\ Top(w).node \in Fork
  BY TopIs DEF OpenSlot, At
<1> DEFINE f == [Top(w) EXCEPT !.at = "test"]
<1>2. f \in FrameType /\ f.node = Top(w).node /\ f.at = "test" /\ f.left = Top(w).left
  BY <1>1 DEF FrameType, Places
<1>3. Goto(w, f)
  BY DEF OpenSlot
<1> HIDE DEF f
<1>4. Moves(w, "test", Top(w).left) /\ stack' \in [Worker -> Seq(FrameType)]
  BY <1>1, <1>2, <1>3, MovesType
<1>5. runs' \in [Node -> Nat] /\ promoted' \in [Node -> BOOLEAN]
  BY <1>1 DEF TypeOK, OpenSlot, FrameType
<1> QED
  BY <1>1, <1>4, <1>5 DEF TypeOK, OpenSlot

LEMMA EagerPromoteStep ==
    ASSUME TypeOK, Lefts, NEW w \in Worker, EagerPromote(w)
    PROVE  /\ TypeOK'
           /\ stack[w] # <<>> /\ Top(w).at = "test" /\ Top(w).node \in Fork
           /\ stack' = stack
<1>1. /\ stack[w] # <<>> /\ Top(w).at = "test"
      /\ Len(stack[w]) \in Depth(w) /\ Top(w) = stack[w][Len(stack[w])]
  BY TopIs DEF EagerPromote, At, Depth
<1>2. Top(w).node \in Fork
  BY <1>1 DEF FitsTask, Lefts, FitsTask, AtFork
<1> QED
  BY <1>1, <1>2, PromoteTypes DEF TypeOK, EagerPromote

LEMMA CallBodyStep ==
    ASSUME TypeOK, Lefts, NEW w \in Worker, CallBody(w)
    PROVE  /\ TypeOK'
           /\ stack[w] # <<>> /\ Top(w).at = "test" /\ Top(w).node \in Fork
           /\ Calls(w, "body", Top(w).left, Body[Top(w).node])
<1>1. /\ stack[w] # <<>> /\ Top(w).at = "test" /\ Top(w) \in FrameType
      /\ Len(stack[w]) \in Depth(w) /\ Top(w) = stack[w][Len(stack[w])]
  BY TopIs DEF CallBody, At, Depth
<1>2. Top(w).node \in Fork /\ Body[Top(w).node] \in Node
  BY <1>1, OfAFork DEF FitsTask, Lefts, FitsTask, AtFork
<1> DEFINE f == [Top(w) EXCEPT !.at = "body"]
<1>3. f \in FrameType /\ f.node = Top(w).node /\ f.at = "body" /\ f.left = Top(w).left
  BY <1>1 DEF FrameType, Places
<1>4. Call(w, f, Frame(Body[Top(w).node], "enter"))
  BY DEF CallBody
<1> HIDE DEF f
<1>5. /\ Calls(w, "body", Top(w).left, Body[Top(w).node])
      /\ stack' \in [Worker -> Seq(FrameType)]
  BY <1>1, <1>2, <1>3, <1>4, CallsType
<1> QED
  BY <1>1, <1>2, <1>5 DEF TypeOK, CallBody

LEMMA CloseStep ==
    ASSUME TypeOK, Lefts, NEW w \in Worker, Close(w)
    PROVE  /\ TypeOK'
           /\ stack[w] # <<>> /\ Top(w).at = "close" /\ Top(w).node \in Fork
           /\ Moves(w, IF promoted[Top(w).node] THEN "sync" ELSE "inline",
                    Len(Spawned[Top(w).node]))
<1>1. /\ stack[w] # <<>> /\ Top(w).at = "close" /\ Top(w) \in FrameType
      /\ Len(stack[w]) \in Depth(w) /\ Top(w) = stack[w][Len(stack[w])]
  BY TopIs DEF Close, At, Depth
<1>2. Top(w).node \in Fork /\ Len(Spawned[Top(w).node]) \in {1, 2}
  BY <1>1, OfAFork DEF FitsTask, Lefts, FitsTask, AtFork
<1> DEFINE f == [node |-> Top(w).node, left |-> Len(Spawned[Top(w).node]),
                 at |-> IF promoted[Top(w).node] THEN "sync" ELSE "inline"]
<1>3. /\ f \in FrameType /\ f.node = Top(w).node
      /\ f.at = IF promoted[Top(w).node] THEN "sync" ELSE "inline"
      /\ f.left = Len(Spawned[Top(w).node])
  BY <1>1, <1>2 DEF FrameType, Places
<1>4. Goto(w, f)
  BY DEF Close
<1> HIDE DEF f
<1>5. Moves(w, f.at, f.left) /\ stack' \in [Worker -> Seq(FrameType)]
  BY <1>1, <1>3, <1>4, MovesType
<1> QED
  BY <1>1, <1>2, <1>3, <1>5 DEF TypeOK, Close

LEMMA RunInlineStep ==
    ASSUME TypeOK, Lefts, NEW w \in Worker, RunInline(w)
    PROVE  /\ TypeOK'
           /\ stack[w] # <<>> /\ Top(w).at = "inline" /\ Top(w).node \in Fork
           /\ Top(w).left \in 1..Len(Spawned[Top(w).node])
           /\ Calls(w, "inline", Top(w).left - 1, Spawned[Top(w).node][Top(w).left])
<1>1. /\ stack[w] # <<>> /\ Top(w).at = "inline" /\ Top(w) \in FrameType /\ Top(w).left > 0
      /\ Len(stack[w]) \in Depth(w) /\ Top(w) = stack[w][Len(stack[w])]
  BY TopIs DEF RunInline, At, Depth
<1>2. Top(w).node \in Fork /\ Top(w).left \in 1..2 /\ Top(w).left <= Len(Spawned[Top(w).node])
  BY <1>1 DEF FitsTask, Lefts, FitsTask, AtFork, FrameType
<1>3. /\ Top(w).left \in 1..Len(Spawned[Top(w).node])
      /\ Spawned[Top(w).node][Top(w).left] \in Node
  BY <1>2, OfAFork
<1> DEFINE f == [Top(w) EXCEPT !.left = @ - 1]
<1>4. f \in FrameType /\ f.node = Top(w).node /\ f.at = "inline" /\ f.left = Top(w).left - 1
  BY <1>1, <1>2 DEF FrameType, Places
<1>5. Call(w, f, Frame(Spawned[Top(w).node][Top(w).left], "enter"))
  BY DEF RunInline
<1> HIDE DEF f
<1>6. /\ Calls(w, "inline", Top(w).left - 1, Spawned[Top(w).node][Top(w).left])
      /\ stack' \in [Worker -> Seq(FrameType)]
  BY <1>1, <1>3, <1>4, <1>5, CallsType
<1> QED
  BY <1>1, <1>2, <1>3, <1>6 DEF TypeOK, RunInline


LEMMA ReturnStep ==
    ASSUME TypeOK, NEW w \in Worker, Return(w)
    PROVE  /\ TypeOK'
           /\ stack[w] # <<>>
           /\ Top(w).at = "ret" \/ (Top(w).at \in {"sync", "inline"} /\ Top(w).left = 0)
<1>1. /\ stack[w] # <<>> /\ Top(w) \in FrameType
      /\ Top(w).at = "ret" \/ (Top(w).at \in {"sync", "inline"} /\ Top(w).left = 0)
  BY TopIs DEF Return, AtEnd, At
<1>2. stack' \in [Worker -> Seq(FrameType)]
  BY ReturnEffect DEF Kept
<1>3. finished' \subseteq Node
  BY <1>1 DEF Return, TypeOK, FrameType
<1> QED
  BY <1>1, <1>2, <1>3 DEF TypeOK, Return

\* Where a joining frame stands: what it awaits is a task of its fork.
LEMMA AwaitedIs ==
    ASSUME TypeOK, Lefts, NEW w \in Worker, stack[w] # <<>>, Top(w).at \in {"sync", "wait"},
           Top(w).left > 0
    PROVE  /\ Top(w) \in FrameType /\ Top(w).node \in Fork
           /\ Top(w).left \in 1..Len(Spawned[Top(w).node]) /\ Top(w).left \in 1..2
           /\ Awaited(w) \in Node
<1>1. /\ Top(w) \in FrameType
      /\ Len(stack[w]) \in Depth(w) /\ Top(w) = stack[w][Len(stack[w])]
  BY TopIs DEF Depth
<1>2. Top(w).node \in Fork /\ Top(w).left \in 1..2 /\ Top(w).left <= Len(Spawned[Top(w).node])
  BY <1>1 DEF FitsTask, Lefts, FitsTask, AtFork, FrameType
<1> QED
  BY <1>1, <1>2, OfAFork DEF Awaited

LEMMA SyncUnstolenStep ==
    ASSUME TypeOK, Lefts, NEW w \in Worker, SyncUnstolen(w)
    PROVE  /\ TypeOK'
           /\ stack[w] # <<>> /\ Top(w).at = "sync" /\ Top(w).left > 0 /\ deque[w] # <<>>
           /\ Calls(w, "sync", Top(w).left - 1, Awaited(w))
<1>1. stack[w] # <<>> /\ Top(w).at = "sync" /\ Top(w).left > 0 /\ deque[w] # <<>>
  BY DEF SyncUnstolen, At
<1>2. Top(w) \in FrameType /\ Top(w).left \in 1..2 /\ Awaited(w) \in Node
  BY <1>1, AwaitedIs
<1> DEFINE f == [Top(w) EXCEPT !.left = @ - 1]
<1>3. f \in FrameType /\ f.node = Top(w).node /\ f.at = "sync" /\ f.left = Top(w).left - 1
  BY <1>1, <1>2 DEF FrameType, Places
<1>4. Call(w, f, Frame(Awaited(w), "enter"))
  BY DEF SyncUnstolen
<1> HIDE DEF f
<1>5. /\ Calls(w, "sync", Top(w).left - 1, Awaited(w))
      /\ stack' \in [Worker -> Seq(FrameType)]
  BY <1>1, <1>2, <1>3, <1>4, CallsType
<1>6. deque' \in [Worker -> Seq(Node)]
  <2>1. deque[w] \in Seq(Node)
    BY DEF TypeOK
  <2>2. Front(deque[w]) \in Seq(Node)
    BY <1>1, <2>1, FrontIs
  <2> QED
    BY <2>2 DEF TypeOK, SyncUnstolen
<1>7. heartbeat_tokens' \in [Worker -> Nat]
  BY <1>2 DEF TypeOK, SyncUnstolen
<1> QED
  BY <1>1, <1>5, <1>6, <1>7 DEF TypeOK, SyncUnstolen

LEMMA SyncFinishedStep ==
    ASSUME TypeOK, Lefts, NEW w \in Worker, SyncFinished(w)
    PROVE  /\ TypeOK'
           /\ stack[w] # <<>> /\ Top(w).at = "sync" /\ Top(w).left > 0 /\ deque[w] = <<>>
           /\ Moves(w, "sync", Top(w).left - 1)
<1>1. stack[w] # <<>> /\ Top(w).at = "sync" /\ Top(w).left > 0 /\ deque[w] = <<>>
  BY DEF SyncFinished, At
<1>2. Top(w) \in FrameType /\ Top(w).left \in 1..2
  BY <1>1, AwaitedIs
<1> DEFINE f == [Top(w) EXCEPT !.left = @ - 1]
<1>3. f \in FrameType /\ f.node = Top(w).node /\ f.at = "sync" /\ f.left = Top(w).left - 1
  BY <1>1, <1>2 DEF FrameType, Places
<1>4. Goto(w, f)
  BY DEF SyncFinished
<1> HIDE DEF f
<1>5. Moves(w, "sync", Top(w).left - 1) /\ stack' \in [Worker -> Seq(FrameType)]
  BY <1>1, <1>3, <1>4, MovesType
<1> QED
  BY <1>1, <1>5 DEF TypeOK, SyncFinished

LEMMA SyncWaitStep ==
    ASSUME TypeOK, Lefts, NEW w \in Worker, SyncWait(w)
    PROVE  /\ TypeOK'
           /\ stack[w] # <<>> /\ Top(w).at = "sync" /\ Top(w).left > 0 /\ deque[w] = <<>>
           /\ Moves(w, "wait", Top(w).left)
<1>1. stack[w] # <<>> /\ Top(w).at = "sync" /\ Top(w).left > 0 /\ deque[w] = <<>>
  BY DEF SyncWait, At
<1>2. Top(w) \in FrameType
  BY <1>1, AwaitedIs
<1> DEFINE f == [Top(w) EXCEPT !.at = "wait"]
<1>3. f \in FrameType /\ f.node = Top(w).node /\ f.at = "wait" /\ f.left = Top(w).left
  BY <1>1, <1>2 DEF FrameType, Places
<1>4. Goto(w, f)
  BY DEF SyncWait
<1> HIDE DEF f
<1>5. Moves(w, "wait", Top(w).left) /\ stack' \in [Worker -> Seq(FrameType)]
  BY <1>1, <1>3, <1>4, MovesType
<1> QED
  BY <1>1, <1>5 DEF TypeOK, SyncWait, pause_heartbeats

LEMMA EndWaitStep ==
    ASSUME TypeOK, Lefts, NEW w \in Worker, EndWait(w)
    PROVE  /\ TypeOK'
           /\ stack[w] # <<>> /\ Top(w).at = "wait" /\ Top(w).left > 0
           /\ Moves(w, "sync", Top(w).left - 1)
<1>1. stack[w] # <<>> /\ Top(w).at = "wait"
  BY DEF EndWait, At
<1>2. Top(w).left > 0
  <2>1. Len(stack[w]) \in Depth(w) /\ Top(w) = stack[w][Len(stack[w])]
    BY <1>1, TopIs DEF Depth
  <2> QED
    BY <1>1, <2>1 DEF FitsTask, Lefts
<1>3. Top(w) \in FrameType /\ Top(w).left \in 1..2
  BY <1>1, <1>2, AwaitedIs
<1> DEFINE f == [node |-> Top(w).node, at |-> "sync", left |-> Top(w).left - 1]
<1>4. f \in FrameType /\ f.node = Top(w).node /\ f.at = "sync" /\ f.left = Top(w).left - 1
  BY <1>3 DEF FrameType, Places
<1>5. Goto(w, f)
  BY DEF EndWait
<1> HIDE DEF f
<1>6. Moves(w, "sync", Top(w).left - 1) /\ stack' \in [Worker -> Seq(FrameType)]
  BY <1>1, <1>4, <1>5, MovesType
<1> QED
  BY <1>1, <1>2, <1>6 DEF TypeOK, EndWait, start_heartbeats

\* The job that worker w takes from v.
Taken(v, w) == IF v = w THEN Last(deque[v]) ELSE Head(deque[v])

LEMMA StartJobStep ==
    ASSUME TypeOK, NEW w \in Worker, StartJob(w)
    PROVE  /\ TypeOK'
           /\ (stack[w] = <<>> /\ w # Main /\ ~handling[w]) \/ At(w, "wait")
           /\ \E v \in Worker :
                /\ deque[v] # <<>>
                /\ deque[w] # <<>> => v = w
                /\ Taken(v, w) \in Node
                /\ deque' = [deque EXCEPT ![v] = IF v = w THEN Front(@) ELSE Tail(@)]
                /\ heartbeat_tokens' = [heartbeat_tokens EXCEPT ![w] = hbt[Taken(v, w)]]
                /\ LET n == Len(stack[w])
                   IN  /\ Kept(w, n)
                       /\ Len(stack'[w]) = n + 2
                       /\ stack'[w][n + 1].node = Taken(v, w)
                       /\ stack'[w][n + 1].at = "job"
                       /\ stack'[w][n + 1].left = 0
                       /\ stack'[w][n + 2].node = Taken(v, w)
                       /\ stack'[w][n + 2].at = "enter"
                       /\ stack'[w][n + 2].left = 0
<1>1. PICK v \in Victims(w) :
        /\ deque' = [deque EXCEPT ![v] = IF v = w THEN Front(@) ELSE Tail(@)]
        /\ heartbeat_tokens' = [heartbeat_tokens EXCEPT ![w] = hbt[Taken(v, w)]]
        /\ stack' = [stack EXCEPT ![w] = @ \o <<Frame(Taken(v, w), "job"),
                                               Frame(Taken(v, w), "enter")>>]
  BY DEF StartJob, Taken
<1>2. v \in Worker /\ deque[v] # <<>> /\ deque[v] \in Seq(Node)
  BY DEF Victims, TypeOK
<1>3. deque[w] # <<>> => v = w
  BY DEF Victims
<1>4. Taken(v, w) \in Node
  BY <1>2, FrontIs DEF Taken
<1>5. /\ Frame(Taken(v, w), "job") \in FrameType /\ Frame(Taken(v, w), "enter") \in FrameType
      /\ Frame(Taken(v, w), "job").node = Taken(v, w)
      /\ Frame(Taken(v, w), "job").at = "job" /\ Frame(Taken(v, w), "job").left = 0
      /\ Frame(Taken(v, w), "enter").node = Taken(v, w)
      /\ Frame(Taken(v, w), "enter").at = "enter" /\ Frame(Taken(v, w), "enter").left = 0
  BY <1>4 DEF Frame, FrameType, Places
<1>6. /\ Kept(w, Len(stack[w]))
      /\ Len(stack'[w]) = Len(stack[w]) + 2
      /\ stack'[w][Len(stack[w]) + 1] = Frame(Taken(v, w), "job")
      /\ stack'[w][Len(stack[w]) + 2] = Frame(Taken(v, w), "enter")
  BY <1>1, <1>5, PushEffect
<1>7. deque' \in [Worker -> Seq(Node)]
  <2>1. Front(deque[v]) \in Seq(Node)
    BY <1>2, FrontIs
  <2>2. Tail(deque[v]) \in Seq(Node)
    BY <1>2
  <2> QED
    BY <1>1, <1>2, <2>1, <2>2 DEF TypeOK
<1>8. heartbeat_tokens' \in [Worker -> Nat]
  BY <1>1, <1>4 DEF TypeOK
<1>9. TypeOK'
  BY <1>6, <1>7, <1>8 DEF TypeOK, StartJob, start_heartbeats, Kept
<1>10. (stack[w] = <<>> /\ w # Main /\ ~handling[w]) \/ At(w, "wait")
  BY DEF StartJob, Looking
<1> QED
  BY <1>1, <1>2, <1>3, <1>4, <1>5, <1>6, <1>9, <1>10

LEMMA FinishJobStep ==
    ASSUME TypeOK, NEW w \in Worker, FinishJob(w)
    PROVE  /\ TypeOK'
           /\ stack[w] # <<>> /\ Top(w).at = "finish" /\ Top(w).node \in Node
           /\ Kept(w, Len(stack[w]) - 1) /\ Len(stack'[w]) = Len(stack[w]) - 1
<1>1. stack[w] # <<>> /\ Top(w).at = "finish" /\ Top(w) \in FrameType
  BY TopIs DEF FinishJob, At
<1>2. Kept(w, Len(stack[w]) - 1) /\ Len(stack'[w]) = Len(stack[w]) - 1
  BY <1>1, PopEffect DEF FinishJob
<1>3. Top(w).node \in Node
  BY <1>1 DEF FrameType
<1> QED
  BY <1>1, <1>2, <1>3 DEF TypeOK, FinishJob, pause_heartbeats, Kept

LEMMA HeartbeatStep ==
    ASSUME TypeOK, NEW w \in Worker, Heartbeat(w)
    PROVE  TypeOK'
<1>1. Refilled(heartbeat_tokens[w]) \in Nat
  BY TokensAssumption DEF Refilled, TypeOK
<1> QED
  BY <1>1 DEF TypeOK, Heartbeat

\* The frame whose slot promote_front takes.
LEMMA PromotableIs ==
    ASSUME TypeOK, Lefts, NEW w \in Worker, Promotable(w) # {}
    PROVE  LET k == Min(Promotable(w))
           IN  /\ k \in Depth(w) /\ IsOpen(stack[w][k]) /\ ~promoted[stack[w][k].node]
               /\ stack[w][k].node \in Fork
               /\ \A j \in Depth(w) : IsOpen(stack[w][j]) /\ ~promoted[stack[w][j].node] => k <= j
<1>1. DOMAIN stack[w] = Depth(w) /\ Depth(w) \subseteq Nat
  BY DEF TypeOK, Depth
<1>2. Promotable(w) \subseteq Nat
  BY <1>1 DEF Promotable
<1>3. \E x \in Promotable(w) : \A y \in Promotable(w) : x <= y
  BY <1>2, NatLeast
<1>4. /\ Min(Promotable(w)) \in Promotable(w)
      /\ \A y \in Promotable(w) : Min(Promotable(w)) <= y
  BY <1>3, Zenon DEF Min
<1> DEFINE k == Min(Promotable(w))
<1> HIDE DEF k
<1>5. k \in Promotable(w) /\ \A y \in Promotable(w) : k <= y
  BY <1>4 DEF k
<1>6. k \in Depth(w) /\ IsOpen(stack[w][k]) /\ ~promoted[stack[w][k].node]
  BY <1>1, <1>5 DEF Promotable
<1>7. stack[w][k].node \in Fork
  BY <1>6 DEF IsOpen, Lefts, FitsTask, AtFork
<1>8. \A j \in Depth(w) : IsOpen(stack[w][j]) /\ ~promoted[stack[w][j].node] => k <= j
  BY <1>1, <1>5 DEF Promotable
<1> QED
  BY <1>6, <1>7, <1>8 DEF k

LEMMA PromoteFrontStep ==
    ASSUME TypeOK, Lefts, NEW w \in Worker, PromoteFront(w)
    PROVE  TypeOK'
<1> DEFINE n == stack[w][Min(Promotable(w))].node
<1>1. n \in Fork
  BY PromotableIs DEF PromoteFront
<1>2. Promote(w, n) /\ heartbeat_tokens[w] > 0
  BY DEF PromoteFront
<1> HIDE DEF n
<1>3. /\ heartbeat_tokens' \in [Worker -> Nat] /\ hbt' \in [Node -> Nat]
      /\ promoted' \in [Node -> BOOLEAN] /\ deque' \in [Worker -> Seq(Node)]
  BY <1>1, <1>2, PromoteTypes
<1> QED
  BY <1>3 DEF TypeOK, PromoteFront

LEMMA EndHeartbeatStep ==
    ASSUME TypeOK, NEW w \in Worker, EndHeartbeat(w)
    PROVE  TypeOK'
BY DEF TypeOK, EndHeartbeat


-----------------------------------------------------------------------------
(* The shape of the stacks.                                                *)

\* Nothing of a worker that takes part in no step changes.
LEMMA LeftsKept ==
    ASSUME TypeOK, Lefts, NEW w \in Worker, NEW m, Kept(w, m),
           \A k \in (m + 1)..Len(stack'[w]) : FitsTask(stack'[w][k])
    PROVE  Lefts'
<1> SUFFICES ASSUME NEW v \in Worker, NEW k \in 1..Len(stack'[v])
             PROVE  FitsTask(stack'[v][k])
  BY DEF Lefts, Depth, FitsTask
<1>1. m \in Nat /\ stack'[w] \in Seq(FrameType) /\ stack[w] \in Seq(FrameType)
      /\ m <= Len(stack[w])
  BY DEF Kept, TypeOK
<1>2. CASE v # w
  BY <1>2 DEF Kept, Lefts, Depth
<1>3. CASE v = w /\ k <= m
  BY <1>1, <1>3 DEF Kept, Lefts, Depth
<1>4. CASE v = w /\ k > m
  BY <1>1, <1>4
<1> QED
  BY <1>1, <1>2, <1>3, <1>4


LEMMA KeptIs ==
    ASSUME TypeOK, NEW w \in Worker, NEW m, Kept(w, m)
    PROVE  /\ m \in Nat /\ m <= Len(stack[w]) /\ m <= Len(stack'[w])
           /\ Len(stack[w]) \in Nat /\ Len(stack'[w]) \in Nat
           /\ \A k \in 1..m : /\ k \in Nat /\ k \in 1..Len(stack[w]) /\ k \in 1..Len(stack'[w])
                              /\ stack'[w][k] = stack[w][k]
                              /\ k # 1 => k - 1 \in 1..m /\ stack'[w][k - 1] = stack[w][k - 1]
           /\ \A k \in 1..Len(stack[w]) : stack[w][k] \in FrameType
           /\ \A k \in 1..Len(stack'[w]) : stack'[w][k] \in FrameType
<1>1. /\ m \in Nat /\ stack'[w] \in Seq(FrameType) /\ stack[w] \in Seq(FrameType)
      /\ m <= Len(stack[w]) /\ m <= Len(stack'[w])
      /\ \A k \in 1..m : stack'[w][k] = stack[w][k]
  BY DEF Kept, TypeOK
<1>2. Len(stack[w]) \in Nat /\ Len(stack'[w]) \in Nat
  BY <1>1
<1>3. \A k \in 1..m : k # 1 => k - 1 \in 1..m
  BY <1>1
<1> QED
  BY <1>1, <1>2, <1>3

LEMMA ShapeKept ==
    ASSUME TypeOK, Shape, NEW w \in Worker, NEW m, Kept(w, m),
           \A k \in 1..Len(stack'[w]) :
              k > m \/ k = Len(stack'[w]) \/ k = Len(stack[w]) =>
                stack'[w][k].at \in (IF k = Len(stack'[w]) THEN Innermost ELSE Calling),
           \A k \in (m + 1)..Len(stack'[w]) :
              IsTask(stack'[w][k]) <=>
                IF k = 1 THEN w = Main ELSE stack'[w][k - 1].at # "wait"
    PROVE  Shape'
<1> SUFFICES ASSUME NEW v \in Worker, NEW k \in 1..Len(stack'[v])
             PROVE  /\ stack'[v][k].at \in (IF k = Len(stack'[v]) THEN Innermost ELSE Calling)
                    /\ IsTask(stack'[v][k]) <=>
                         IF k = 1 THEN v = Main ELSE stack'[v][k - 1].at # "wait"
  BY DEF Shape, Depth, IsTask
<1>1. m \in Nat /\ m <= Len(stack[w]) /\ Len(stack'[w]) \in Nat
  BY KeptIs
<1>2. CASE v # w
  BY <1>2 DEF Kept, Shape, Depth
<1>3. CASE v = w /\ k <= m
  <2>1. /\ k \in 1..m /\ k \in Depth(w) /\ stack'[w][k] = stack[w][k]
        /\ k # 1 => stack'[w][k - 1] = stack[w][k - 1]
    BY <1>1, <1>3, KeptIs DEF Depth
  <2>2. IsTask(stack'[w][k]) <=> IF k = 1 THEN w = Main ELSE stack'[w][k - 1].at # "wait"
    BY <2>1 DEF Shape
  <2>3. CASE k = Len(stack'[w]) \/ k = Len(stack[w])
    BY <1>3, <2>2, <2>3
  <2>4. CASE k # Len(stack'[w]) /\ k # Len(stack[w])
    BY <1>3, <2>1, <2>2, <2>4 DEF Shape
  <2> QED
    BY <2>3, <2>4
<1>4. CASE v = w /\ k > m
  BY <1>1, <1>4
<1> QED
  BY <1>1, <1>2, <1>3, <1>4

LEMMA ShapeMoves ==
    ASSUME TypeOK, Shape, NEW w \in Worker, stack[w] # <<>>, NEW at, NEW left,
           Moves(w, at, left), at \in Innermost \ {"finish"}, IsTask(Top(w))
    PROVE  Shape'
<1> DEFINE n == Len(stack[w])
<1>1. n \in Nat /\ n > 0 /\ Top(w) = stack[w][n] /\ n \in Depth(w)
  BY TopIs DEF Depth
<1>2. /\ Kept(w, n - 1) /\ Len(stack'[w]) = n /\ stack'[w][n].at = at
  BY DEF Moves
<1>3. IsTask(stack'[w][n]) /\ at \in Innermost
  BY <1>2 DEF IsTask, Innermost
<1>4. IF n = 1 THEN w = Main ELSE stack[w][n - 1].at # "wait"
  BY <1>1 DEF Shape
<1> HIDE DEF n
<1>5. n # 1 => stack'[w][n - 1] = stack[w][n - 1]
  <2>1. n # 1 => n - 1 \in 1..(n - 1)
    BY <1>1
  <2> QED
    BY <1>2, <2>1 DEF Kept
<1>6. \A k \in 1..n : k > n - 1 \/ k = n => k = n
  BY <1>1
<1>7. \A k \in ((n - 1) + 1)..n : k = n
  BY <1>1
<1> QED
  BY <1>2, <1>3, <1>4, <1>5, <1>6, <1>7, ShapeKept DEF n

LEMMA ShapeCalls ==
    ASSUME TypeOK, Shape, NEW w \in Worker, stack[w] # <<>>, NEW at, NEW left, NEW c,
           Calls(w, at, left, c), at \in Calling \ {"job", "wait"}, IsTask(Top(w))
    PROVE  Shape'
<1> DEFINE n == Len(stack[w])
<1>1. n \in Nat /\ n > 0 /\ Top(w) = stack[w][n] /\ n \in Depth(w)
  BY TopIs DEF Depth
<1>2. /\ Kept(w, n - 1) /\ Len(stack'[w]) = n + 1 /\ stack'[w][n].at = at
      /\ stack'[w][n + 1].at = "enter"
  BY DEF Calls
<1>3. /\ IsTask(stack'[w][n]) /\ IsTask(stack'[w][n + 1])
      /\ stack'[w][n].at # "wait" /\ stack'[w][n].at \in Calling
      /\ stack'[w][n + 1].at \in Innermost
  BY <1>2 DEF IsTask, Innermost, Calling
<1>4. IF n = 1 THEN w = Main ELSE stack[w][n - 1].at # "wait"
  BY <1>1 DEF Shape
<1> HIDE DEF n
<1>5. n # 1 => stack'[w][n - 1] = stack[w][n - 1]
  <2>1. n # 1 => n - 1 \in 1..(n - 1)
    BY <1>1
  <2> QED
    BY <1>2, <2>1 DEF Kept
<1>6. \A k \in 1..(n + 1) : k > n - 1 \/ k = n + 1 \/ k = n => k = n \/ k = n + 1
  BY <1>1
<1>7. \A k \in ((n - 1) + 1)..(n + 1) : k = n \/ k = n + 1
  BY <1>1
<1>8. n + 1 # 1 /\ (n + 1) - 1 = n /\ n # n + 1
  BY <1>1
<1>9. \A k \in 1..Len(stack'[w]) :
        k > n - 1 \/ k = Len(stack'[w]) \/ k = n =>
          stack'[w][k].at \in (IF k = Len(stack'[w]) THEN Innermost ELSE Calling)
  BY <1>2, <1>3, <1>6, <1>8
<1>10. \A k \in ((n - 1) + 1)..Len(stack'[w]) :
         IsTask(stack'[w][k]) <=> IF k = 1 THEN w = Main ELSE stack'[w][k - 1].at # "wait"
  BY <1>2, <1>3, <1>4, <1>5, <1>7, <1>8
<1> QED
  BY <1>2, <1>9, <1>10, ShapeKept DEF n


LEMMA ShapeReturn ==
    ASSUME TypeOK, Shape, NEW w \in Worker, Return(w)
    PROVE  Shape'
<1>1. /\ stack[w] # <<>> /\ IsTask(Top(w))
      /\ Len(stack[w]) \in Nat /\ Len(stack[w]) > 0 /\ Len(stack[w]) \in Depth(w)
      /\ Top(w) = stack[w][Len(stack[w])]
  BY ReturnStep, TopIs DEF IsTask, Depth
<1>2. CASE Len(stack[w]) = 1
  <2>1. Kept(w, 0) /\ Len(stack'[w]) = 0
    BY <1>2, ReturnEffect
  <2> QED
    BY <2>1, ShapeKept
<1>3. CASE Len(stack[w]) # 1
  <2> DEFINE n == Len(stack[w]) - 1
  <2>1. /\ Kept(w, n - 1) /\ n > 0 /\ Len(stack'[w]) = n
        /\ stack'[w][n].at = IF stack[w][n].at = "body" THEN "close"
                            ELSE IF stack[w][n].at = "job" THEN "finish"
                            ELSE stack[w][n].at
    BY <1>3, ReturnEffect
  <2>2. n \in Nat /\ n \in Depth(w) /\ n # Len(stack[w]) /\ n + 1 = Len(stack[w])
    BY <1>1, <2>1 DEF Depth
  <2>3. stack[w][n].at # "wait"
    BY <1>1, <1>3 DEF Shape
  <2> HIDE DEF n
  <2>4. stack[w][n].at \in Calling
    BY <2>2 DEF Shape
  <2>5. stack'[w][n].at \in Innermost /\ (IsTask(stack'[w][n]) <=> IsTask(stack[w][n]))
    BY <2>1, <2>3, <2>4 DEF Calling, Innermost, IsTask
  <2>6. IsTask(stack[w][n]) <=> IF n = 1 THEN w = Main ELSE stack[w][n - 1].at # "wait"
    BY <2>2 DEF Shape
  <2>7. n # 1 => stack'[w][n - 1] = stack[w][n - 1]
    <3>1. n # 1 => n - 1 \in 1..(n - 1)
      BY <2>1, <2>2
    <3> QED
      BY <2>1, <3>1 DEF Kept
  <2>8. \A k \in 1..Len(stack'[w]) :
          k > n - 1 \/ k = Len(stack'[w]) \/ k = Len(stack[w]) =>
            stack'[w][k].at \in (IF k = Len(stack'[w]) THEN Innermost ELSE Calling)
    <3>1. \A k \in 1..n : k > n - 1 \/ k = n \/ k = n + 1 => k = n
      BY <2>1, <2>2
    <3> QED
      BY <2>1, <2>2, <2>5, <3>1
  <2>9. \A k \in ((n - 1) + 1)..Len(stack'[w]) :
          IsTask(stack'[w][k]) <=> IF k = 1 THEN w = Main ELSE stack'[w][k - 1].at # "wait"
    <3>1. \A k \in ((n - 1) + 1)..n : k = n
      BY <2>1, <2>2
    <3> QED
      BY <2>1, <2>5, <2>6, <2>7, <3>1
  <2> QED
    BY <2>1, <2>8, <2>9, ShapeKept
<1> QED
  BY <1>2, <1>3

LEMMA ShapeFinishJob ==
    ASSUME TypeOK, Shape, NEW w \in Worker, FinishJob(w)
    PROVE  /\ Shape'
           /\ Len(stack[w]) = 1 => w # Main
           /\ Len(stack[w]) # 1 => stack[w][Len(stack[w]) - 1].at = "wait"
<1> DEFINE n == Len(stack[w])
<1>1. /\ stack[w] # <<>> /\ Top(w).at = "finish"
      /\ Kept(w, n - 1) /\ Len(stack'[w]) = n - 1
  BY FinishJobStep
<1>2. n \in Nat /\ n > 0 /\ n \in Depth(w) /\ Top(w) = stack[w][n]
  BY <1>1, TopIs DEF Depth
<1>3. IF n = 1 THEN w # Main ELSE stack[w][n - 1].at = "wait"
  BY <1>1, <1>2 DEF Shape, IsTask
<1> HIDE DEF n
<1>4. \A k \in 1..Len(stack'[w]) :
        k > n - 1 \/ k = Len(stack'[w]) \/ k = n =>
          stack'[w][k].at \in (IF k = Len(stack'[w]) THEN Innermost ELSE Calling)
  <2>1. \A k \in 1..(n - 1) : k > n - 1 \/ k = n - 1 \/ k = n => k = n - 1 /\ n # 1
    BY <1>2
  <2>2. n # 1 => stack'[w][n - 1] = stack[w][n - 1]
    <3>1. n # 1 => n - 1 \in 1..(n - 1)
      BY <1>2
    <3> QED
      BY <1>1, <3>1 DEF Kept
  <2>3. n # 1 => stack'[w][n - 1].at \in Innermost
    BY <1>3, <2>2 DEF Innermost
  <2> QED
    BY <1>1, <2>1, <2>3
<1>5. \A k \in ((n - 1) + 1)..Len(stack'[w]) :
        IsTask(stack'[w][k]) <=> IF k = 1 THEN w = Main ELSE stack'[w][k - 1].at # "wait"
  <2>1. \A k \in ((n - 1) + 1)..(n - 1) : FALSE
    BY <1>2
  <2> QED
    BY <1>1, <2>1
<1> QED
  BY <1>1, <1>3, <1>4, <1>5, ShapeKept DEF n

LEMMA ShapeStartJob ==
    ASSUME TypeOK, Shape, NEW w \in Worker, StartJob(w)
    PROVE  Shape'
<1> DEFINE n == Len(stack[w])
<1>1. /\ Kept(w, n) /\ Len(stack'[w]) = n + 2
      /\ stack'[w][n + 1].at = "job" /\ stack'[w][n + 2].at = "enter"
  BY StartJobStep
<1>2. IF n = 0 THEN w # Main ELSE stack[w][n].at = "wait"
  <2>1. CASE stack[w] = <<>> /\ w # Main
    BY <2>1
  <2>2. CASE At(w, "wait")
    BY <2>2, TopIs DEF At
  <2> QED
    BY <2>1, <2>2, StartJobStep
<1>3. n \in Nat
  BY <1>1 DEF Kept, TypeOK
<1> HIDE DEF n
<1>4. n # 0 => stack'[w][n].at = "wait"
  <2>1. n # 0 => n \in 1..n
    BY <1>3
  <2> QED
    BY <1>1, <1>2, <2>1 DEF Kept
<1>5. \A k \in 1..(n + 2) : k > n \/ k = n + 2 \/ k = n => k = n \/ k = n + 1 \/ k = n + 2
  BY <1>3
<1>6. \A k \in (n + 1)..(n + 2) : k = n + 1 \/ k = n + 2
  BY <1>3
<1>7. /\ n # n + 1 /\ n # n + 2 /\ n + 1 # n + 2 /\ (n + 1 = 1 <=> n = 0) /\ n + 2 # 1
      /\ (n + 1) - 1 = n /\ (n + 2) - 1 = n + 1 /\ 0 \notin 1..(n + 2)
  BY <1>3
<1>8. \A k \in 1..Len(stack'[w]) :
        k > n \/ k = Len(stack'[w]) \/ k = n =>
          stack'[w][k].at \in (IF k = Len(stack'[w]) THEN Innermost ELSE Calling)
  <2>1. n # 0 => stack'[w][n].at \in Calling
    BY <1>4 DEF Calling
  <2>2. stack'[w][n + 1].at \in Calling /\ stack'[w][n + 2].at \in Innermost
    BY <1>1 DEF Calling, Innermost
  <2> QED
    BY <1>1, <1>5, <1>7, <2>1, <2>2
<1>9. \A k \in (n + 1)..Len(stack'[w]) :
        IsTask(stack'[w][k]) <=> IF k = 1 THEN w = Main ELSE stack'[w][k - 1].at # "wait"
  <2>1. ~IsTask(stack'[w][n + 1]) /\ IsTask(stack'[w][n + 2])
    BY <1>1 DEF IsTask
  <2> QED
    BY <1>1, <1>2, <1>4, <1>6, <1>7, <2>1
<1> QED
  BY <1>1, <1>8, <1>9, ShapeKept DEF n


LEMMA LeftsMoves ==
    ASSUME TypeOK, Lefts, NEW w \in Worker, stack[w] # <<>>, NEW at, NEW left,
           Moves(w, at, left), left <= Len(Spawned[Top(w).node]),
           at = "wait" => left > 0,
           at \in AtFork => Top(w).node \in Fork, at = "ret" => Top(w).node \notin Fork
    PROVE  Lefts'
<1> DEFINE n == Len(stack[w])
<1>1. n \in Nat /\ n > 0 /\ Top(w) = stack[w][n]
  BY TopIs
<1>2. /\ Kept(w, n - 1) /\ Len(stack'[w]) = n /\ FitsTask(stack'[w][n])
  BY <1>1 DEF Moves, FitsTask
<1> HIDE DEF n
<1>3. \A k \in ((n - 1) + 1)..n : k = n
  BY <1>1
<1> QED
  BY <1>2, <1>3, LeftsKept

LEMMA LeftsCalls ==
    ASSUME TypeOK, Lefts, NEW w \in Worker, stack[w] # <<>>, NEW at, NEW left,
           NEW c \in Node, Calls(w, at, left, c), left <= Len(Spawned[Top(w).node]),
           at # "wait", at # "ret", at \in AtFork => Top(w).node \in Fork
    PROVE  Lefts'
<1> DEFINE n == Len(stack[w])
<1>1. n \in Nat /\ n > 0 /\ Top(w) = stack[w][n]
  BY TopIs
<1>2. 0 <= Len(Spawned[c])
  BY ProgramAssumption
<1>3. /\ Kept(w, n - 1) /\ Len(stack'[w]) = n + 1
      /\ FitsTask(stack'[w][n]) /\ FitsTask(stack'[w][n + 1])
  BY <1>1, <1>2 DEF Calls, FitsTask, AtFork
<1> HIDE DEF n
<1>4. \A k \in ((n - 1) + 1)..(n + 1) : k = n \/ k = n + 1
  BY <1>1
<1> QED
  BY <1>3, <1>4, LeftsKept

LEMMA LeftsReturn ==
    ASSUME TypeOK, Lefts, NEW w \in Worker, Return(w)
    PROVE  Lefts'
<1>1. CASE Len(stack[w]) = 1
  <2>1. Kept(w, 0) /\ Len(stack'[w]) = 0
    BY <1>1, ReturnEffect
  <2> QED
    BY <2>1, LeftsKept
<1>2. CASE Len(stack[w]) # 1
  <2> DEFINE n == Len(stack[w]) - 1
  <2>1. /\ Kept(w, n - 1) /\ n > 0 /\ Len(stack'[w]) = n
        /\ stack'[w][n].node = stack[w][n].node
        /\ stack'[w][n].left = stack[w][n].left
        /\ stack'[w][n].at = IF stack[w][n].at = "body" THEN "close"
                            ELSE IF stack[w][n].at = "job" THEN "finish"
                            ELSE stack[w][n].at
    BY <1>2, ReturnEffect
  <2>2. n \in Nat /\ n \in Depth(w)
    <3>1. Len(stack[w]) \in Nat
      BY <2>1, KeptIs
    <3> QED
      BY <2>1, <3>1 DEF Depth
  <2> HIDE DEF n
  <2>3. FitsTask(stack[w][n])
    BY <2>2 DEF Lefts
  <2>4. FitsTask(stack'[w][n])
    BY <2>1, <2>3 DEF FitsTask, AtFork
  <2>5. \A k \in ((n - 1) + 1)..n : k = n
    BY <2>2
  <2> QED
    BY <2>1, <2>4, <2>5, LeftsKept
<1> QED
  BY <1>1, <1>2

LEMMA LeftsStartJob ==
    ASSUME TypeOK, Lefts, NEW w \in Worker, StartJob(w)
    PROVE  Lefts'
<1> DEFINE n == Len(stack[w])
<1>1. PICK c \in Node :
        /\ Kept(w, n) /\ Len(stack'[w]) = n + 2
        /\ stack'[w][n + 1].node = c /\ stack'[w][n + 1].left = 0 /\ stack'[w][n + 1].at = "job"
        /\ stack'[w][n + 2].node = c /\ stack'[w][n + 2].left = 0 /\ stack'[w][n + 2].at = "enter"
  BY StartJobStep
<1>2. 0 <= Len(Spawned[c])
  BY ProgramAssumption
<1>3. FitsTask(stack'[w][n + 1]) /\ FitsTask(stack'[w][n + 2])
  BY <1>1, <1>2 DEF FitsTask, AtFork
<1>4. n \in Nat
  BY <1>1 DEF Kept, TypeOK
<1> HIDE DEF n
<1>5. \A k \in (n + 1)..(n + 2) : k = n + 1 \/ k = n + 2
  BY <1>4
<1> QED
  BY <1>1, <1>3, <1>5, LeftsKept

\* Every step keeps the types and the shape of the stacks.
LEMMA StructureStep ==
    ASSUME TypeOK, Lefts, Shape, NEW w \in Worker, Step(w) \/ Heartbeat(w)
    PROVE  TypeOK' /\ Lefts' /\ Shape'
<1>1. CASE Work(w)
  <2>1. /\ TypeOK' /\ stack[w] # <<>> /\ Top(w).at = "enter" /\ Top(w).node \notin Fork
        /\ Moves(w, "ret", Top(w).left)
    BY <1>1, WorkStep
  <2>2. FitsTask(Top(w))
    BY <2>1, TopIs DEF Lefts, Depth
  <2>3. Lefts'
    BY <2>1, <2>2, LeftsMoves DEF FitsTask, AtFork
  <2>4. Shape'
    BY <2>1, ShapeMoves DEF IsTask, Innermost
  <2> QED
    BY <2>1, <2>3, <2>4
<1>2. CASE OpenSlot(w)
  <2>1. /\ TypeOK' /\ stack[w] # <<>> /\ Top(w).at = "enter" /\ Top(w).node \in Fork
        /\ Moves(w, "test", Top(w).left)
    BY <1>2, OpenSlotStep
  <2>2. FitsTask(Top(w))
    BY <2>1, TopIs DEF Lefts, Depth
  <2>3. Lefts'
    BY <2>1, <2>2, LeftsMoves DEF FitsTask, AtFork
  <2>4. Shape'
    BY <2>1, ShapeMoves DEF IsTask, Innermost
  <2> QED
    BY <2>1, <2>3, <2>4
<1>3. CASE EagerPromote(w)
  <2>1. TypeOK' /\ stack' = stack
    BY <1>3, EagerPromoteStep
  <2> QED
    BY <2>1 DEF Lefts, Shape, Depth, FitsTask, IsTask
<1>4. CASE CallBody(w)
  <2>1. /\ TypeOK' /\ stack[w] # <<>> /\ Top(w).at = "test" /\ Top(w).node \in Fork
        /\ Calls(w, "body", Top(w).left, Body[Top(w).node])
    BY <1>4, CallBodyStep
  <2>2. FitsTask(Top(w)) /\ Body[Top(w).node] \in Node
    BY <2>1, TopIs, OfAFork DEF Lefts, Depth
  <2>3. Lefts'
    BY <2>1, <2>2, LeftsCalls DEF FitsTask
  <2>4. Shape'
    BY <2>1, ShapeCalls DEF IsTask, Calling
  <2> QED
    BY <2>1, <2>3, <2>4
<1>5. CASE Close(w)
  <2>1. /\ TypeOK' /\ stack[w] # <<>> /\ Top(w).at = "close" /\ Top(w).node \in Fork
        /\ Moves(w, IF promoted[Top(w).node] THEN "sync" ELSE "inline",
                 Len(Spawned[Top(w).node]))
    BY <1>5, CloseStep
  <2>2. Len(Spawned[Top(w).node]) <= Len(Spawned[Top(w).node])
    BY <2>1, OfAFork
  <2>3. Lefts'
    BY <2>1, <2>2, LeftsMoves DEF AtFork
  <2>4. Shape'
    BY <2>1, ShapeMoves DEF IsTask, Innermost
  <2> QED
    BY <2>1, <2>3, <2>4
<1>6. CASE RunInline(w)
  <2>1. /\ TypeOK' /\ stack[w] # <<>> /\ Top(w).at = "inline" /\ Top(w).node \in Fork
        /\ Top(w).left \in 1..Len(Spawned[Top(w).node])
        /\ Calls(w, "inline", Top(w).left - 1, Spawned[Top(w).node][Top(w).left])
    BY <1>6, RunInlineStep
  <2>2. /\ Spawned[Top(w).node][Top(w).left] \in Node
        /\ Top(w).left - 1 <= Len(Spawned[Top(w).node])
    BY <2>1, OfAFork
  <2>3. Lefts'
    BY <2>1, <2>2, LeftsCalls
  <2>4. Shape'
    BY <2>1, ShapeCalls DEF IsTask, Calling
  <2> QED
    BY <2>1, <2>3, <2>4
<1>7. CASE Return(w)
  BY <1>7, ReturnStep, LeftsReturn, ShapeReturn
<1>8. CASE SyncUnstolen(w)
  <2>1. /\ TypeOK' /\ stack[w] # <<>> /\ Top(w).at = "sync" /\ Top(w).left > 0
        /\ Calls(w, "sync", Top(w).left - 1, Awaited(w))
    BY <1>8, SyncUnstolenStep
  <2>2. /\ Awaited(w) \in Node /\ Top(w).node \in Fork
        /\ Top(w).left - 1 <= Len(Spawned[Top(w).node])
    BY <2>1, AwaitedIs, OfAFork
  <2>3. Lefts'
    BY <2>1, <2>2, LeftsCalls
  <2>4. Shape'
    BY <2>1, ShapeCalls DEF IsTask, Calling
  <2> QED
    BY <2>1, <2>3, <2>4
<1>9. CASE SyncFinished(w)
  <2>1. /\ TypeOK' /\ stack[w] # <<>> /\ Top(w).at = "sync" /\ Top(w).left > 0
        /\ Moves(w, "sync", Top(w).left - 1)
    BY <1>9, SyncFinishedStep
  <2>2. Top(w).node \in Fork /\ Top(w).left - 1 <= Len(Spawned[Top(w).node])
    BY <2>1, AwaitedIs, OfAFork
  <2>3. Lefts'
    BY <2>1, <2>2, LeftsMoves
  <2>4. Shape'
    BY <2>1, ShapeMoves DEF IsTask, Innermost
  <2> QED
    BY <2>1, <2>3, <2>4
<1>10. CASE SyncWait(w)
  <2>1. /\ TypeOK' /\ stack[w] # <<>> /\ Top(w).at = "sync" /\ Top(w).left > 0
        /\ Moves(w, "wait", Top(w).left)
    BY <1>10, SyncWaitStep
  <2>2. Top(w).node \in Fork /\ Top(w).left <= Len(Spawned[Top(w).node])
    BY <2>1, AwaitedIs, OfAFork
  <2>3. Lefts'
    BY <2>1, <2>2, LeftsMoves
  <2>4. Shape'
    BY <2>1, ShapeMoves DEF IsTask, Innermost
  <2> QED
    BY <2>1, <2>3, <2>4
<1>11. CASE EndWait(w)
  <2>1. /\ TypeOK' /\ stack[w] # <<>> /\ Top(w).at = "wait" /\ Top(w).left > 0
        /\ Moves(w, "sync", Top(w).left - 1)
    BY <1>11, EndWaitStep
  <2>2. Top(w).node \in Fork /\ Top(w).left - 1 <= Len(Spawned[Top(w).node])
    BY <2>1, AwaitedIs, OfAFork
  <2>3. Lefts'
    BY <2>1, <2>2, LeftsMoves
  <2>4. Shape'
    BY <2>1, ShapeMoves DEF IsTask, Innermost
  <2> QED
    BY <2>1, <2>3, <2>4
<1>12. CASE StartJob(w)
  BY <1>12, StartJobStep, LeftsStartJob, ShapeStartJob
<1>13. CASE FinishJob(w)
  <2>1. /\ TypeOK' /\ Kept(w, Len(stack[w]) - 1) /\ Len(stack'[w]) = Len(stack[w]) - 1
    BY <1>13, FinishJobStep
  <2>2. Lefts'
    <3>1. Len(stack[w]) \in Nat
      BY <2>1, KeptIs
    <3>2. \A k \in ((Len(stack[w]) - 1) + 1)..(Len(stack[w]) - 1) : FALSE
      BY <3>1
    <3> QED
      BY <2>1, <3>2, LeftsKept
  <2> QED
    BY <1>13, <2>1, <2>2, ShapeFinishJob
<1>14. CASE PromoteFront(w)
  <2>1. TypeOK' /\ stack' = stack
    BY <1>14, PromoteFrontStep DEF PromoteFront
  <2> QED
    BY <2>1 DEF Lefts, Shape, Depth, FitsTask, IsTask
<1>15. CASE EndHeartbeat(w)
  <2>1. TypeOK' /\ stack' = stack
    BY <1>15, EndHeartbeatStep DEF EndHeartbeat
  <2> QED
    BY <2>1 DEF Lefts, Shape, Depth, FitsTask, IsTask
<1>16. CASE Heartbeat(w)
  <2>1. TypeOK' /\ stack' = stack
    BY <1>16, HeartbeatStep DEF Heartbeat
  <2> QED
    BY <2>1 DEF Lefts, Shape, Depth, FitsTask, IsTask
<1> QED
  BY <1>1, <1>2, <1>3, <1>4, <1>5, <1>6, <1>7, <1>8, <1>9, <1>10, <1>11, <1>12, <1>13,
     <1>14, <1>15, <1>16 DEF Step


-----------------------------------------------------------------------------
(* What FlattenSeq computes, by its partial results.                       *)

\* g[i] is the first i sequences of s in one.
Flattens(g, s) ==
    /\ g[0] = <<>>
    /\ \A i \in 1..Len(s) : g[i] = g[i - 1] \o s[i]

LEMMA FlattensExists ==
    ASSUME NEW S, NEW s \in Seq(Seq(S)), NEW n \in 0..Len(s)
    PROVE  \E g \in [0..n -> Seq(S)] :
              g[0] = <<>> /\ \A i \in 1..n : g[i] = g[i - 1] \o s[i]
<1> DEFINE P == {k \in 0..Len(s) : \E g \in [0..k -> Seq(S)] :
                    g[0] = <<>> /\ \A i \in 1..k : g[i] = g[i - 1] \o s[i]}
<1>1. Len(s) \in Nat
  OBVIOUS
<1>2. 0 \in P
  <2> DEFINE g == [i \in 0..0 |-> <<>>]
  <2>1. g \in [0..0 -> Seq(S)] /\ g[0] = <<>> /\ \A i \in 1..0 : g[i] = g[i - 1] \o s[i]
    OBVIOUS
  <2> HIDE DEF g
  <2>2. 0 \in 0..Len(s)
    BY <1>1
  <2> QED
    BY <2>1, <2>2, Zenon
<1>3. ASSUME NEW k \in 0..(Len(s) - 1), k \in P PROVE k + 1 \in P
  <2>1. PICK g \in [0..k -> Seq(S)] : g[0] = <<>> /\ \A i \in 1..k : g[i] = g[i - 1] \o s[i]
    BY <1>3
  <2>2. k \in Nat /\ k + 1 \in 1..Len(s) /\ s[k + 1] \in Seq(S) /\ g[k] \in Seq(S)
    BY <1>1
  <2> DEFINE h == [i \in 0..(k + 1) |-> IF i = k + 1 THEN g[k] \o s[k + 1] ELSE g[i]]
  <2>3. h \in [0..(k + 1) -> Seq(S)]
    <3>1. g[k] \o s[k + 1] \in Seq(S)
      BY <2>2
    <3>2. \A i \in 0..(k + 1) : i # k + 1 => i \in 0..k
      BY <2>2
    <3> QED
      BY <3>1, <3>2
  <2>4. h[0] = <<>>
    BY <2>1, <2>2
  <2>5. ASSUME NEW i \in 1..(k + 1) PROVE h[i] = h[i - 1] \o s[i]
    <3>1. CASE i = k + 1
      <4>1. i \in 0..(k + 1) /\ i - 1 = k /\ i - 1 \in 0..(k + 1) /\ i - 1 # k + 1
        BY <2>2, <3>1
      <4> QED
        BY <3>1, <4>1
    <3>2. CASE i # k + 1
      <4>1. i \in 0..(k + 1) /\ i \in 1..k /\ i - 1 \in 0..(k + 1) /\ i - 1 # k + 1
        BY <2>2, <3>2
      <4> QED
        BY <2>1, <3>2, <4>1
    <3> QED
      BY <3>1, <3>2
  <2> HIDE DEF h
  <2>6. k + 1 \in 0..Len(s)
    BY <2>2
  <2> QED
    BY <2>3, <2>4, <2>5, <2>6, Zenon
<1> HIDE DEF P
<1>4. \A k \in 0..Len(s) : k \in P
  BY <1>1, <1>2, <1>3, SetInduction
<1> QED
  BY <1>4 DEF P

Alike(s, t, n) == \A i \in 1..n : s[i] = t[i]

\* The partial results of two sequences that are alike as far as n.
FlattenAlike(g, s, h, t, n) ==
    /\ Len(s) \in Nat /\ Len(t) \in Nat /\ n \in Nat /\ n <= Len(s) /\ n <= Len(t)
    /\ Flattens(g, s) /\ Flattens(h, t)
    /\ Alike(s, t, n)

LEMMA FlattensAgree ==
    ASSUME NEW s, NEW t, NEW g, NEW h, NEW n, FlattenAlike(g, s, h, t, n)
    PROVE  g[n] = h[n]
<1>0. /\ Len(s) \in Nat /\ Len(t) \in Nat /\ n \in Nat /\ n <= Len(s) /\ n <= Len(t)
      /\ Flattens(g, s) /\ Flattens(h, t)
      /\ Alike(s, t, n)
  BY DEF FlattenAlike
<1> DEFINE P == {k \in 0..n : g[k] = h[k]}
<1>1. 0 \in P
  BY <1>0 DEF Flattens
<1>2. ASSUME NEW k \in 0..(n - 1), k \in P PROVE k + 1 \in P
  <2>1. k + 1 \in 0..n /\ k + 1 \in 1..n /\ k + 1 \in 1..Len(s) /\ k + 1 \in 1..Len(t)
        /\ (k + 1) - 1 = k
    BY <1>0
  <2>2. g[k + 1] = g[k] \o s[k + 1] /\ h[k + 1] = h[k] \o t[k + 1]
    BY <1>0, <2>1 DEF Flattens
  <2>3. s[k + 1] = t[k + 1]
    BY <1>0, <2>1 DEF Alike
  <2> QED
    BY <1>2, <2>1, <2>2, <2>3
<1> HIDE DEF P
<1>3. \A k \in 0..n : k \in P
  BY <1>0, <1>1, <1>2, SetInduction
<1> QED
  BY <1>0, <1>3 DEF P

Flattener(s) ==
    CHOOSE g : g = [i \in 1..Len(s) |-> IF i = 1 THEN s[i] ELSE g[i - 1] \o s[i]]

LEMMA FlattenSeqIs ==
    ASSUME NEW S, NEW s \in Seq(Seq(S))
    PROVE  \E g \in [0..Len(s) -> Seq(S)] : Flattens(g, s) /\ FlattenSeq(s) = g[Len(s)]
<1>1. Len(s) \in Nat
  OBVIOUS
<1>2. PICK g \in [0..Len(s) -> Seq(S)] :
        g[0] = <<>> /\ \A i \in 1..Len(s) : g[i] = g[i - 1] \o s[i]
  <2>1. Len(s) \in 0..Len(s)
    BY <1>1
  <2> QED
    BY <2>1, FlattensExists
<1>3. CASE Len(s) = 0
  BY <1>1, <1>2, <1>3 DEF FlattenSeq, Flattens
<1>4. CASE Len(s) # 0
  <2> DEFINE f == [i \in 1..Len(s) |-> g[i]]
  <2>1. f = [i \in 1..Len(s) |-> IF i = 1 THEN s[i] ELSE f[i - 1] \o s[i]]
    <3>1. ASSUME NEW i \in 1..Len(s) PROVE g[i] = IF i = 1 THEN s[i] ELSE f[i - 1] \o s[i]
      <4>1. CASE i = 1
        <5>0. s[i] \in Seq(S)
          OBVIOUS
        <5>1. s[i] \in Seq(S) /\ g[i] = g[i - 1] \o s[i] /\ g[i - 1] = <<>>
          <6>1. i - 1 = 0
            BY <4>1
          <6>2. g[i] = g[i - 1] \o s[i]
            BY <1>2
          <6> QED
            BY <1>2, <5>0, <6>1, <6>2
        <5>2. <<>> \o s[i] = s[i]
          BY <5>1
        <5> QED
          BY <4>1, <5>1, <5>2
      <4>2. CASE i # 1
        <5>1. i - 1 \in 1..Len(s)
          BY <1>1, <4>2
        <5> QED
          BY <1>2, <4>2, <5>1
      <4> QED
        BY <4>1, <4>2
    <3> QED
      BY <3>1
  <2>2. Flattener(s) = [i \in 1..Len(s) |->
                          IF i = 1 THEN s[i] ELSE Flattener(s)[i - 1] \o s[i]]
    <3> HIDE DEF f
    <3>1. \E h : h = [i \in 1..Len(s) |-> IF i = 1 THEN s[i] ELSE h[i - 1] \o s[i]]
      BY <2>1
    <3> QED
      BY <3>1, Zenon DEF Flattener
  <2> DEFINE h == [i \in 0..Len(s) |-> IF i = 0 THEN <<>> ELSE Flattener(s)[i]]
  <2>3. Flattens(h, s)
    <3>1. h[0] = <<>>
      BY <1>1
    <3>2. ASSUME NEW i \in 1..Len(s) PROVE h[i] = h[i - 1] \o s[i]
      <4>1. i \in 0..Len(s) /\ i # 0 /\ i - 1 \in 0..Len(s) /\ s[i] \in Seq(S)
        BY <1>1
      <4>2. h[i] = Flattener(s)[i]
        BY <4>1
      <4>3. Flattener(s)[i] = IF i = 1 THEN s[i] ELSE Flattener(s)[i - 1] \o s[i]
        BY <2>2
      <4>4. CASE i = 1
        <5>1. h[i - 1] = <<>>
          BY <4>1, <4>4
        <5> QED
          BY <4>1, <4>2, <4>3, <4>4, <5>1
      <4>5. CASE i # 1
        <5>1. h[i - 1] = Flattener(s)[i - 1]
          BY <4>1, <4>5
        <5> QED
          BY <4>2, <4>3, <4>5, <5>1
      <4> QED
        BY <4>4, <4>5
    <3> HIDE DEF h
    <3> QED
      BY <3>1, <3>2 DEF Flattens
  <2>4. FlattenSeq(s) = h[Len(s)]
    <3>1. FlattenSeq(s) = Flattener(s)[Len(s)]
      BY <1>4 DEF FlattenSeq, Flattener
    <3> QED
      BY <1>1, <1>4, <3>1
  <2> HIDE DEF h, f
  <2>5. Flattens(g, s)
    BY <1>2 DEF Flattens
  <2>6. FlattenAlike(g, s, h, s, Len(s))
    BY <1>1, <2>3, <2>5 DEF FlattenAlike, Alike
  <2>7. g[Len(s)] = h[Len(s)]
    BY <2>6, FlattensAgree
  <2> QED
    BY <2>4, <2>5, <2>7
<1> QED
  BY <1>3, <1>4


\* There is nothing in s behind its k-th sequence, up to the n-th.
Blank(s, k, n) == \A j \in (k + 1)..n : s[j] = <<>>

LEMMA FlattensTail ==
    ASSUME NEW S, NEW s \in Seq(Seq(S)), NEW g \in [0..Len(s) -> Seq(S)], Flattens(g, s),
           NEW n \in 0..Len(s), NEW k \in 0..n, Blank(s, k, n)
    PROVE  g[n] = g[k]
<1> DEFINE P == {j \in 0..(n - k) : g[k + j] = g[k]}
<1>1. Len(s) \in Nat /\ n \in Nat /\ k \in Nat /\ n - k \in Nat
  OBVIOUS
<1>2. 0 \in P
  BY <1>1
<1>3. ASSUME NEW j \in 0..((n - k) - 1), j \in P PROVE j + 1 \in P
  <2>1. /\ j + 1 \in 0..(n - k) /\ k + (j + 1) \in (k + 1)..n /\ k + (j + 1) \in 1..Len(s)
        /\ (k + (j + 1)) - 1 = k + j /\ k + j \in 0..Len(s)
    BY <1>1
  <2>2. g[k + (j + 1)] = g[k + j] \o s[k + (j + 1)] /\ s[k + (j + 1)] = <<>>
    BY <2>1 DEF Flattens, Blank
  <2>3. g[k + j] \in Seq(S) /\ g[k + j] = g[k]
    BY <1>3, <2>1
  <2>4. g[k + (j + 1)] = g[k]
    BY <2>2, <2>3
  <2> QED
    BY <2>1, <2>4
<1> HIDE DEF P
<1>4. \A j \in 0..(n - k) : j \in P
  BY <1>1, <1>2, <1>3, SetInduction
<1>5. k + (n - k) = n /\ n - k \in 0..(n - k)
  BY <1>1
<1>6. n - k \in P
  BY <1>4, <1>5
<1> QED
  BY <1>5, <1>6 DEF P

\* Only empty sequences flatten to the empty one.
LEMMA FlattenEmpty ==
    ASSUME NEW S, NEW s \in Seq(Seq(S)), \A j \in 1..Len(s) : s[j] = <<>>
    PROVE  FlattenSeq(s) = <<>>
<1>1. PICK g \in [0..Len(s) -> Seq(S)] : Flattens(g, s) /\ FlattenSeq(s) = g[Len(s)]
  BY FlattenSeqIs
<1>2. Len(s) \in Nat /\ Len(s) \in 0..Len(s) /\ 0 \in 0..Len(s)
  OBVIOUS
<1>3. Blank(s, 0, Len(s))
  BY DEF Blank
<1>4. g[Len(s)] = g[0]
  BY <1>1, <1>2, <1>3, FlattensTail
<1> QED
  BY <1>1, <1>4 DEF Flattens

\* Two sequences with nothing behind their k-th member and the same before it.
LEMMA FlattenAround ==
    ASSUME NEW S, NEW s \in Seq(Seq(S)), NEW t \in Seq(Seq(S)),
           NEW k \in 1..Len(s), k \in 1..Len(t),
           Alike(s, t, k - 1),
           Blank(s, k, Len(s)), Blank(t, k, Len(t))
    PROVE  /\ s[k] \in Seq(S) /\ t[k] \in Seq(S)
           /\ \E x \in Seq(S) : FlattenSeq(s) = x \o s[k] /\ FlattenSeq(t) = x \o t[k]
<1>1. PICK g \in [0..Len(s) -> Seq(S)] : Flattens(g, s) /\ FlattenSeq(s) = g[Len(s)]
  BY FlattenSeqIs
<1>2. PICK h \in [0..Len(t) -> Seq(S)] : Flattens(h, t) /\ FlattenSeq(t) = h[Len(t)]
  BY FlattenSeqIs
<1>3. /\ Len(s) \in Nat /\ Len(s) \in 0..Len(s) /\ Len(t) \in Nat /\ Len(t) \in 0..Len(t)
      /\ k \in 0..Len(s) /\ k \in 0..Len(t) /\ k - 1 \in Nat
      /\ k - 1 \in 0..Len(s) /\ k - 1 <= Len(s) /\ k - 1 <= Len(t)
  OBVIOUS
<1>4. g[Len(s)] = g[k] /\ h[Len(t)] = h[k]
  <2>1. g[Len(s)] = g[k]
    BY <1>1, <1>3, FlattensTail
  <2>2. h[Len(t)] = h[k]
    BY <1>2, <1>3, FlattensTail
  <2> QED
    BY <2>1, <2>2
<1>5. g[k - 1] = h[k - 1]
  <2> DEFINE n == k - 1
  <2>1. /\ n \in Nat /\ n <= Len(s) /\ n <= Len(t) /\ Alike(s, t, n)
        /\ n \in 0..Len(s) /\ n \in 0..Len(t)
    BY <1>3
  <2> HIDE DEF n
  <2>2. FlattenAlike(g, s, h, t, n)
    BY <1>1, <1>2, <1>3, <2>1 DEF FlattenAlike
  <2>3. g[n] = h[n]
    BY <1>1, <1>2, <2>1, <2>2, FlattensAgree
  <2> QED
    BY <2>3 DEF n
<1>6. g[k] = g[k - 1] \o s[k] /\ h[k] = h[k - 1] \o t[k]
  BY <1>1, <1>2 DEF Flattens
<1>7. g[k - 1] \in Seq(S) /\ s[k] \in Seq(S) /\ t[k] \in Seq(S)
  <2>1. g[k - 1] \in Seq(S)
    BY <1>3
  <2>2. s[k] \in Seq(S)
    OBVIOUS
  <2>3. t[k] \in Seq(S)
    OBVIOUS
  <2> QED
    BY <2>1, <2>2, <2>3
<1> QED
  BY <1>1, <1>2, <1>4, <1>5, <1>6, <1>7

LEMMA EndsAppend ==
    ASSUME NEW S, NEW d \in Seq(S), NEW x \in Seq(S), NEW y \in Seq(S), Ends(d, x)
    PROVE  Ends(d \o y, x \o y)
<1>1. /\ Len(d) \in Nat /\ Len(x) \in Nat /\ Len(y) \in Nat
      /\ Len(d \o y) = Len(d) + Len(y) /\ Len(x \o y) = Len(x) + Len(y)
      /\ Len(d) <= Len(x)
  BY DEF Ends
<1>2. ASSUME NEW k \in 1..(Len(d) + Len(y))
      PROVE  (d \o y)[k] = (x \o y)[(Len(x) + Len(y)) - (Len(d) + Len(y)) + k]
  <2>1. (Len(x) + Len(y)) - (Len(d) + Len(y)) + k = Len(x) - Len(d) + k
    BY <1>1
  <2>2. CASE k <= Len(d)
    <3>1. k \in 1..Len(d) /\ Len(x) - Len(d) + k \in 1..Len(x)
      BY <1>1, <2>2
    <3>2. (d \o y)[k] = d[k] /\ (x \o y)[Len(x) - Len(d) + k] = x[Len(x) - Len(d) + k]
      BY <1>1, <3>1
    <3> QED
      BY <2>1, <3>1, <3>2 DEF Ends
  <2>3. CASE k > Len(d)
    <3>1. /\ k \in (Len(d) + 1)..(Len(d) + Len(y))
          /\ Len(x) - Len(d) + k \in (Len(x) + 1)..(Len(x) + Len(y))
          /\ (Len(x) - Len(d) + k) - Len(x) = k - Len(d)
      BY <1>1, <2>3
    <3>2. (d \o y)[k] = y[k - Len(d)]
      BY <1>1, <3>1
    <3>3. (x \o y)[Len(x) - Len(d) + k] = y[k - Len(d)]
      BY <1>1, <3>1
    <3> QED
      BY <2>1, <3>2, <3>3
  <2> QED
    BY <1>1, <2>2, <2>3
<1> QED
  BY <1>1, <1>2 DEF Ends

\* Without a beginning that is empty in c, c and p flatten to the same.
LEMMA FlattenEnds ==
    ASSUME NEW S, NEW c \in Seq(Seq(S)), NEW p \in Seq(Seq(S)), Len(c) = Len(p),
           \A j \in 1..Len(c) : c[j] = p[j] \/ \A i \in 1..j : c[i] = <<>>
    PROVE  Ends(FlattenSeq(c), FlattenSeq(p)) /\ FlattenSeq(p) \in Seq(S)
<1>1. PICK g \in [0..Len(c) -> Seq(S)] : Flattens(g, c) /\ FlattenSeq(c) = g[Len(c)]
  BY FlattenSeqIs
<1>2. PICK h \in [0..Len(p) -> Seq(S)] : Flattens(h, p) /\ FlattenSeq(p) = h[Len(p)]
  BY FlattenSeqIs
<1>3. Len(c) \in Nat /\ Len(c) \in 0..Len(c) /\ 0 \in 0..Len(c)
  OBVIOUS
<1> DEFINE P == {j \in 0..Len(c) : Ends(g[j], h[j])}
<1>4. 0 \in P
  <2>1. g[0] = <<>> /\ h[0] = <<>>
    BY <1>1, <1>2 DEF Flattens
  <2> QED
    BY <1>3, <2>1 DEF Ends
<1>5. ASSUME NEW j \in 0..(Len(c) - 1), j \in P PROVE j + 1 \in P
  <2>1. j + 1 \in 1..Len(c) /\ j + 1 \in 0..Len(c) /\ (j + 1) - 1 = j /\ j \in 0..Len(c)
    BY <1>3
  <2>2. /\ g[j] \in Seq(S) /\ h[j] \in Seq(S) /\ c[j + 1] \in Seq(S) /\ p[j + 1] \in Seq(S)
        /\ h[j + 1] \in Seq(S)
    BY <2>1
  <2>3. CASE c[j + 1] = p[j + 1]
    <3>1. g[j + 1] = g[j] \o c[j + 1] /\ h[j + 1] = h[j] \o c[j + 1]
      BY <1>1, <1>2, <2>1, <2>3 DEF Flattens
    <3>2. Ends(g[j + 1], h[j + 1])
      BY <1>5, <2>2, <3>1, EndsAppend
    <3> QED
      BY <2>1, <3>2
  <2>4. CASE \A i \in 1..(j + 1) : c[i] = <<>>
    <3>1. 0 \in 0..(j + 1) /\ \A i \in (0 + 1)..(j + 1) : c[i] = <<>>
      BY <2>4
    <3>2. g[j + 1] = g[0]
      <4> DEFINE n == j + 1
      <4>1. n \in 0..Len(c) /\ 0 \in 0..n /\ Blank(c, 0, n)
        BY <2>1, <3>1 DEF Blank
      <4> HIDE DEF n
      <4>2. g[n] = g[0]
        BY <1>1, <4>1, FlattensTail
      <4> QED
        BY <4>2 DEF n
    <3>3. g[j + 1] = <<>>
      BY <1>1, <3>2 DEF Flattens
    <3>4. Len(h[j + 1]) \in Nat
      BY <2>2
    <3>5. Ends(g[j + 1], h[j + 1])
      BY <3>3, <3>4 DEF Ends
    <3> QED
      BY <2>1, <3>5
  <2> QED
    BY <2>1, <2>3, <2>4
<1> HIDE DEF P
<1>6. Len(c) \in P
  BY <1>3, <1>4, <1>5, SetInduction
<1> QED
  BY <1>1, <1>2, <1>3, <1>6 DEF P

\* The end of a sequence in the words of SequencesExt.
LEMMA EndsIsSuffix ==
    ASSUME NEW S, NEW d \in Seq(S), NEW s \in Seq(S), Ends(d, s)
    PROVE  IsSuffix(d, s)
<1>1. Len(d) \in Nat /\ Len(s) \in Nat /\ Len(d) <= Len(s)
  BY DEF Ends
<1> DEFINE rd == Reverse(d)
           rs == Reverse(s)
<1>2. /\ rd \in Seq(S) /\ Len(rd) = Len(d) /\ rs \in Seq(S) /\ Len(rs) = Len(s)
      /\ \A k \in 1..Len(d) : rd[k] = d[(Len(d) - k) + 1]
      /\ \A k \in 1..Len(s) : rs[k] = s[(Len(s) - k) + 1]
  <2>1. \A k \in 1..Len(d) : (Len(d) - k) + 1 \in 1..Len(d)
    BY <1>1
  <2>2. \A k \in 1..Len(s) : (Len(s) - k) + 1 \in 1..Len(s)
    BY <1>1
  <2> QED
    BY <1>1, <2>1, <2>2 DEF Reverse
<1> HIDE DEF rd, rs
<1>3. ASSUME NEW k \in 1..Len(d) PROVE rd[k] = rs[k]
  <2>1. /\ (Len(d) - k) + 1 \in 1..Len(d) /\ k \in 1..Len(s)
        /\ Len(s) - Len(d) + ((Len(d) - k) + 1) = (Len(s) - k) + 1
    BY <1>1
  <2> QED
    BY <1>2, <2>1 DEF Ends
<1>4. /\ SubSeq(rd, 1, Len(d)) \in Seq(S) /\ Len(SubSeq(rd, 1, Len(d))) = Len(d)
      /\ \A k \in 1..Len(d) : SubSeq(rd, 1, Len(d))[k] = rd[k]
  BY <1>1, <1>2, FirstsAre
<1>5. /\ SubSeq(rs, 1, Len(d)) \in Seq(S) /\ Len(SubSeq(rs, 1, Len(d))) = Len(d)
      /\ \A k \in 1..Len(d) : SubSeq(rs, 1, Len(d))[k] = rs[k]
  BY <1>1, <1>2, FirstsAre
<1>6. SubSeq(rd, 1, Len(d)) = SubSeq(rs, 1, Len(d))
  BY <1>3, <1>4, <1>5
<1> QED
  BY <1>1, <1>2, <1>6 DEF IsSuffix, IsPrefix, rd, rs


-----------------------------------------------------------------------------
(* The deques.                                                             *)

LEMMA PendingType ==
    ASSUME NEW f \in FrameType, FitsTask(f)
    PROVE  Pending(f) \in Seq(Node)
<1>1. f.node \in Node /\ Spawned[f.node] \in Seq(Node) /\ f.left \in Nat
  BY ProgramAssumption DEF FrameType
<1>2. SubSeq(Spawned[f.node], 1, f.left) \in Seq(Node)
  BY <1>1, FirstsAre DEF FitsTask
<1> QED
  BY <1>1, <1>2 DEF Pending

Waits(w, k) == \E j \in k..Len(stack[w]) : stack[w][j].at = "wait"

OwedOK ==
    \A w \in Worker :
        /\ Len(stack[w]) \in Nat
        /\ Owed(w) \in Seq(Seq(Node)) /\ Len(Owed(w)) = Len(stack[w])
        /\ \A k \in 1..Len(stack[w]) :
             Owed(w)[k] = IF Waits(w, k) THEN <<>> ELSE Pending(stack[w][k])

LEMMA OwedIs == TypeOK /\ Lefts => OwedOK
<1> SUFFICES ASSUME TypeOK, Lefts, NEW w \in Worker
             PROVE  /\ Len(stack[w]) \in Nat
                    /\ Owed(w) \in Seq(Seq(Node)) /\ Len(Owed(w)) = Len(stack[w])
                    /\ \A k \in 1..Len(stack[w]) :
                         Owed(w)[k] = IF Waits(w, k) THEN <<>> ELSE Pending(stack[w][k])
  BY DEF OwedOK
<1>1. stack[w] \in Seq(FrameType) /\ Len(stack[w]) \in Nat
  BY DEF TypeOK
<1>2. \A k \in 1..Len(stack[w]) : Pending(stack[w][k]) \in Seq(Node)
  BY <1>1, PendingType DEF Lefts, Depth
<1>3. Owed(w) = [k \in 1..Len(stack[w]) |->
                    IF Waits(w, k) THEN <<>> ELSE Pending(stack[w][k])]
  BY DEF Owed, Waits
<1>4. \A k \in 1..Len(stack[w]) :
        (IF Waits(w, k) THEN <<>> ELSE Pending(stack[w][k])) \in Seq(Node)
  BY <1>2
<1> QED
  BY <1>1, <1>3, <1>4

LEMMA OwedIsNext == TypeOK' /\ Lefts' => OwedOK'
<1>1. (TypeOK /\ Lefts => OwedOK)'
  BY OwedIs, PTL
<1> QED
  BY <1>1

LEMMA PendingTypes == TypeOK /\ Lefts => \A w \in Worker : \A k \in Depth(w) :
                                            Pending(stack[w][k]) \in Seq(Node)
BY PendingType DEF TypeOK, Lefts, Depth

LEMMA PendingTypesNext ==
    ASSUME TypeOK', Lefts'
    PROVE  \A w \in Worker : \A k \in 1..Len(stack'[w]) : Pending(stack[w][k])' \in Seq(Node)
<1>1. (TypeOK /\ Lefts => \A w \in Worker : \A k \in Depth(w) :
                                            Pending(stack[w][k]) \in Seq(Node))'
  BY PendingTypes, PTL
<1> QED
  BY <1>1 DEF Depth

\* The worker whose frames do not change owes what it owed.
LEMMA OwedSame ==
    ASSUME NEW v \in Worker, stack'[v] = stack[v],
           \A k \in 1..Len(stack[v]) : Pending(stack[v][k])' = Pending(stack[v][k])
    PROVE  Owed(v)' = Owed(v)
BY DEF Owed


\* A step at the k-th frame of w's stack, with no wait and nothing pending above.
QuietAbove(w, k) ==
    /\ k \in 1..Len(stack[w])
    /\ \A j \in k..Len(stack[w]) : stack[w][j].at # "wait"
    /\ \A j \in (k + 1)..Len(stack[w]) : Pending(stack[w][j]) = <<>>

SamePending(w, m) == \A j \in 1..m : Pending(stack[w][j])' = Pending(stack[w][j])

LEMMA OwedAround ==
    ASSUME TypeOK, TypeOK', Lefts, Lefts', NEW w \in Worker, NEW k, Kept(w, k - 1),
           SamePending(w, k - 1), QuietAbove(w, k), QuietAbove(w, k)'
    PROVE  /\ Pending(stack[w][k]) \in Seq(Node) /\ Pending(stack[w][k])' \in Seq(Node)
           /\ \E x \in Seq(Node) :
                /\ FlattenSeq(Owed(w)) = x \o Pending(stack[w][k])
                /\ FlattenSeq(Owed(w)') = x \o Pending(stack[w][k])'
<1> DEFINE s == Owed(w)
           t == Owed(w)'
<1>1. /\ Len(stack[w]) \in Nat
      /\ s \in Seq(Seq(Node)) /\ Len(s) = Len(stack[w])
      /\ \A j \in 1..Len(stack[w]) :
            s[j] = IF Waits(w, j) THEN <<>> ELSE Pending(stack[w][j])
  BY OwedIs DEF OwedOK
<1>2. /\ Len(stack'[w]) \in Nat
      /\ t \in Seq(Seq(Node)) /\ Len(t) = Len(stack'[w])
      /\ \A j \in 1..Len(stack'[w]) :
            t[j] = IF Waits(w, j)' THEN <<>> ELSE Pending(stack[w][j])'
  BY OwedIsNext DEF OwedOK
<1> HIDE DEF s, t
<1>3. /\ k \in 1..Len(stack[w]) /\ k \in 1..Len(stack'[w]) /\ k \in Nat
  BY <1>1 DEF QuietAbove
<1>4. \A j \in k..Len(stack[w]) : ~Waits(w, j)
  <2>1. \A j \in k..Len(stack[w]) : \A i \in j..Len(stack[w]) : i \in k..Len(stack[w])
    BY <1>1, <1>3
  <2> QED
    BY <2>1 DEF QuietAbove, Waits
<1>5. \A j \in k..Len(stack'[w]) : ~Waits(w, j)'
  <2>1. \A j \in k..Len(stack'[w]) : \A i \in j..Len(stack'[w]) : i \in k..Len(stack'[w])
    BY <1>2, <1>3
  <2> QED
    BY <2>1 DEF QuietAbove, Waits
<1>6. \A j \in 1..(k - 1) : j \in 1..Len(stack[w]) /\ j \in 1..Len(stack'[w])
  BY <1>1, <1>2, <1>3
<1>7. \A j \in 1..(k - 1) : Waits(w, j) <=> Waits(w, j)'
  <2> SUFFICES ASSUME NEW j \in 1..(k - 1) PROVE Waits(w, j) <=> Waits(w, j)'
    OBVIOUS
  <2>1. \A i \in j..Len(stack[w]) : i \in k..Len(stack[w]) \/ (i \in 1..(k - 1) /\ i \in j..Len(stack'[w]))
    BY <1>1, <1>2, <1>3
  <2>2. \A i \in j..Len(stack'[w]) : i \in k..Len(stack'[w]) \/ (i \in 1..(k - 1) /\ i \in j..Len(stack[w]))
    BY <1>1, <1>2, <1>3
  <2>3. \A i \in 1..(k - 1) : stack'[w][i] = stack[w][i]
    BY DEF Kept
  <2> QED
    BY <2>1, <2>2, <2>3 DEF Waits, QuietAbove
<1>8. Alike(s, t, k - 1)
  BY <1>1, <1>2, <1>6, <1>7 DEF Alike, SamePending
<1>9. s[k] = Pending(stack[w][k]) /\ t[k] = Pending(stack[w][k])'
  <2>1. k \in k..Len(stack[w]) /\ k \in k..Len(stack'[w])
    BY <1>1, <1>2, <1>3
  <2> QED
    BY <1>1, <1>2, <1>3, <1>4, <1>5, <2>1
<1>10. Blank(s, k, Len(s)) /\ Blank(t, k, Len(t))
  <2>1. \A j \in (k + 1)..Len(stack[w]) : j \in 1..Len(stack[w]) /\ j \in k..Len(stack[w])
    BY <1>1, <1>3
  <2>2. \A j \in (k + 1)..Len(stack'[w]) : j \in 1..Len(stack'[w]) /\ j \in k..Len(stack'[w])
    BY <1>2, <1>3
  <2> QED
    BY <1>1, <1>2, <1>4, <1>5, <2>1, <2>2 DEF Blank, QuietAbove
<1>11. /\ s[k] \in Seq(Node) /\ t[k] \in Seq(Node)
       /\ \E x \in Seq(Node) : FlattenSeq(s) = x \o s[k] /\ FlattenSeq(t) = x \o t[k]
  <2>1. k \in 1..Len(s) /\ k \in 1..Len(t) /\ s \in Seq(Seq(Node)) /\ t \in Seq(Seq(Node))
    BY <1>1, <1>2, <1>3
  <2> QED
    BY <2>1, <1>8, <1>10, FlattenAround
<1> QED
  BY <1>9, <1>11 DEF s, t


-----------------------------------------------------------------------------
(* Who has which task.                                                     *)

\* What is above w's m-th frame was there before, but for a task at e.
Enters(w, m, e) ==
    \A k \in (m + 1)..Len(stack'[w]) : IsTask(stack'[w][k]) /\ k # e =>
        /\ k \in 1..Len(stack[w]) /\ IsTask(stack[w][k])
        /\ stack'[w][k].node = stack[w][k].node

\* No frame of the stacks is new but w's e-th.
Old(w, e) ==
    \A v \in Worker : \A k \in 1..Len(stack'[v]) :
        IsTask(stack'[v][k]) /\ ~(v = w /\ k = e) =>
            /\ k \in 1..Len(stack[v]) /\ IsTask(stack[v][k])
            /\ stack'[v][k].node = stack[v][k].node

LEMMA OldFrames ==
    ASSUME TypeOK, NEW w \in Worker, NEW m, Kept(w, m), NEW e, Enters(w, m, e)
    PROVE  Old(w, e)
<1> SUFFICES ASSUME NEW v \in Worker, NEW k \in 1..Len(stack'[v]),
                    IsTask(stack'[v][k]), ~(v = w /\ k = e)
             PROVE  /\ k \in 1..Len(stack[v]) /\ IsTask(stack[v][k])
                    /\ stack'[v][k].node = stack[v][k].node
  BY DEF Old
<1>1. CASE v # w
  BY <1>1 DEF Kept
<1>2. CASE v = w
  <2>1. m \in Nat /\ Len(stack'[w]) \in Nat
    BY KeptIs
  <2>2. CASE k \in 1..m
    BY <1>2, <2>2, KeptIs
  <2>3. CASE k \notin 1..m
    <3>1. k \in (m + 1)..Len(stack'[w])
      BY <1>2, <2>1, <2>3
    <3> QED
      BY <1>2, <3>1 DEF Enters
  <2> QED
    BY <2>2, <2>3
<1> QED
  BY <1>1, <1>2

\* A task that enters where nobody held it is in one frame, like the others.
LEMMA FramesAfter ==
    ASSUME TypeOK, OneFrame, NEW w \in Worker, NEW e, Old(w, e),
           NEW X, e \in 1..Len(stack'[w]) => stack'[w][e].node \in X,
           \A c \in X : ~Held(c)
    PROVE  OneFrame' /\ \A c : Held(c)' => Held(c) \/ c \in X
<1>1. ASSUME NEW v \in Worker, NEW k \in 1..Len(stack'[v]), IsTask(stack'[v][k]),
             NEW u \in Worker, NEW j \in 1..Len(stack'[u]), IsTask(stack'[u][j]),
             stack'[u][j].node = stack'[v][k].node
      PROVE  u = v /\ j = k
  <2>1. CASE ~(v = w /\ k = e) /\ ~(u = w /\ j = e)
    BY <1>1, <2>1 DEF Old, OneFrame, Depth
  <2>2. CASE v = w /\ k = e /\ ~(u = w /\ j = e)
    <3>1. Held(stack'[u][j].node)
      BY <1>1, <2>2 DEF Old, Held, Depth
    <3> QED
      BY <1>1, <2>2, <3>1
  <2>3. CASE u = w /\ j = e /\ ~(v = w /\ k = e)
    <3>1. Held(stack'[v][k].node)
      BY <1>1, <2>3 DEF Old, Held, Depth
    <3> QED
      BY <1>1, <2>3, <3>1
  <2> QED
    BY <2>1, <2>2, <2>3
<1>2. OneFrame'
  BY <1>1 DEF OneFrame, Depth, IsTask
<1>3. ASSUME NEW c, NEW v \in Worker, NEW k \in 1..Len(stack'[v]), IsTask(stack'[v][k]),
             stack'[v][k].node = c
      PROVE  Held(c) \/ c \in X
  BY <1>3 DEF Old, Held, Depth
<1>4. \A c : Held(c)' => Held(c) \/ c \in X
  BY <1>3 DEF Held, Depth, IsTask
<1> QED
  BY <1>2, <1>4

\* The deques lose some of their members, or none.
Shrinks(d) ==
    \A v \in Worker : \A k \in 1..Len(deque'[v]) :
        k + d[v] \in 1..Len(deque[v]) /\ deque'[v][k] = deque[v][k + d[v]]

LEMMA QueuedAfter ==
    ASSUME TypeOK, QueuedOnce, NEW d \in [Worker -> Int], Shrinks(d),
           NEW X, \A c : Held(c)' => Held(c) \/ c \in X,
           \A c \in X : \A v \in Worker : \A k \in 1..Len(deque'[v]) : deque'[v][k] # c,
           \A c \in Node : runs[c] = 0 /\ ~Held(c) => runs'[c] = 0
    PROVE  QueuedOnce' /\ \A c : Queued(c)' => Queued(c)
<1>1. ASSUME NEW v \in Worker, NEW k \in 1..Len(deque'[v]),
             NEW u \in Worker, NEW j \in 1..Len(deque'[u]), deque'[u][j] = deque'[v][k]
      PROVE  u = v /\ j = k
  <2>1. /\ k + d[v] \in 1..Len(deque[v]) /\ deque'[v][k] = deque[v][k + d[v]]
        /\ j + d[u] \in 1..Len(deque[u]) /\ deque'[u][j] = deque[u][j + d[u]]
    BY DEF Shrinks
  <2>2. u = v /\ j + d[u] = k + d[v]
    <3>1. deque[u][j + d[u]] = deque[v][k + d[v]]
      BY <1>1, <2>1
    <3> QED
      BY <2>1, <3>1, Zenon DEF QueuedOnce
  <2>3. k \in Int /\ j \in Int /\ d[v] \in Int
    OBVIOUS
  <2> QED
    BY <2>2, <2>3
<1>2. ASSUME NEW v \in Worker, NEW k \in 1..Len(deque'[v]), NEW c, c = deque'[v][k]
      PROVE  runs'[c] = 0 /\ ~Held(c)' /\ IsChild(c) /\ Queued(c)
  <2>1. k + d[v] \in 1..Len(deque[v]) /\ c = deque[v][k + d[v]]
    BY <1>2 DEF Shrinks
  <2>2. deque[v] \in Seq(Node)
    BY DEF TypeOK
  <2>3. c \in Node
    BY <2>1, <2>2
  <2>4. runs[c] = 0 /\ ~Held(c) /\ IsChild(c) /\ Queued(c)
    BY <2>1 DEF QueuedOnce, Queued
  <2>5. c \notin X
    BY <1>2
  <2>6. runs'[c] = 0
    BY <2>3, <2>4
  <2>7. ~Held(c)'
    BY <2>4, <2>5
  <2> QED
    BY <2>4, <2>6, <2>7
<1>3. \A c : Queued(c)' => Queued(c)
  BY <1>2 DEF Queued
<1>4. QueuedOnce'
  <2> SUFFICES ASSUME NEW v \in Worker, NEW k \in 1..Len(deque'[v])
               PROVE  /\ \A u \in Worker : \A j \in 1..Len(deque'[u]) :
                            deque'[u][j] = deque'[v][k] => u = v /\ j = k
                      /\ runs'[deque'[v][k]] = 0
                      /\ ~Held(deque[v][k])'
                      /\ IsChild(deque'[v][k])
    BY DEF QueuedOnce, IsChild
  <2>1. PICK c : c = deque'[v][k]
    OBVIOUS
  <2>2. runs'[c] = 0 /\ ~Held(c)' /\ IsChild(c)
    BY <1>2, <2>1
  <2>3. ~Held(deque[v][k])'
    BY <2>1, <2>2 DEF Held
  <2> QED
    BY <1>1, <2>1, <2>2, <2>3
<1> QED
  BY <1>3, <1>4

\* Of fork q's tasks, those in Y have come.
Spends(q, Y) == Y = {} \/ (q \in Fork /\ Y \subseteq Children(q) /\ runs'[q] # 0)

\* What frame f of the new stacks counts on is still to come, and is not in Y.
ToCome(f, Y) ==
    /\ f.at = "test" => Fresh(Body[f.node]) /\ Body[f.node] \notin Y
    /\ IsOpen(f) /\ ~promoted'[f.node] =>
          \A j \in 1..Len(Spawned[f.node]) :
             Fresh(Spawned[f.node][j]) /\ Spawned[f.node][j] \notin Y
    /\ f.at = "inline" =>
          \A j \in 1..f.left : Fresh(Spawned[f.node][j]) /\ Spawned[f.node][j] \notin Y

LEMMA ToComeAfter ==
    ASSUME TypeOK', Lefts', TasksToCome,
           NEW q, NEW Y, Spends(q, Y),
           \A c \in Node : Fresh(c) /\ c \notin Y => Fresh(c)',
           \A p \in Node : runs'[p] = 0 => runs[p] = 0,
           \A v \in Worker : \A k \in 1..Len(stack'[v]) : ToCome(stack'[v][k], Y)
    PROVE  TasksToCome' /\ FramesToCome'
<1>1. TasksToCome'
  <2> SUFFICES ASSUME NEW p \in Fork, runs'[p] = 0, NEW c \in Children(p) PROVE Fresh(c)'
    BY DEF TasksToCome
  <2>1. p \in Node /\ c \in Node
    BY OfAFork
  <2>2. Fresh(c)
    BY <2>1 DEF TasksToCome
  <2>3. c \notin Y
    BY OfAFork DEF Spends
  <2> QED
    BY <2>1, <2>2, <2>3
<1>2. FramesToCome'
  <2> SUFFICES ASSUME NEW v \in Worker, NEW k \in 1..Len(stack'[v])
               PROVE  FrameToCome(stack[v][k])'
    BY DEF FramesToCome, Depth
  <2>1. PICK f : f = stack'[v][k]
    OBVIOUS
  <2>2. f \in FrameType
    BY <2>1 DEF TypeOK
  <2>3. FitsTask(f)
    BY <2>1 DEF Lefts, Depth, FitsTask
  <2>4. ToCome(f, Y)
    BY <2>1
  <2>5. CASE f.node \in Fork
    <3>1. /\ Body[f.node] \in Node
          /\ \A j \in 1..Len(Spawned[f.node]) : Spawned[f.node][j] \in Node
          /\ Len(Spawned[f.node]) \in Nat
      BY <2>5, OfAFork
    <3>2. \A j \in 1..f.left : j \in 1..Len(Spawned[f.node])
      BY <2>2, <2>3, <3>1 DEF FitsTask, FrameType
    <3>3. f.at = "test" => Fresh(Body[f.node])'
      BY <2>4, <3>1 DEF ToCome
    <3>4. IsOpen(f) /\ ~promoted'[f.node] =>
            \A j \in 1..Len(Spawned[f.node]) : Fresh(Spawned[f.node][j])'
      BY <2>4, <3>1 DEF ToCome
    <3>5. f.at = "inline" => \A j \in 1..f.left : Fresh(Spawned[f.node][j])'
      BY <2>4, <3>1, <3>2 DEF ToCome
    <3> QED
      BY <2>1, <3>3, <3>4, <3>5 DEF FrameToCome, IsOpen
  <2>6. CASE f.node \notin Fork
    BY <2>1, <2>3, <2>6 DEF FitsTask, FrameToCome, IsOpen, AtFork
  <2> QED
    BY <2>5, <2>6
<1> QED
  BY <1>1, <1>2

\* A frame of another task counts on what it counted on.
LEMMA ToComeStill ==
    ASSUME TypeOK, Lefts, FramesToCome, NEW v \in Worker, NEW k \in Depth(v),
           NEW q, NEW Y, Spends(q, Y), Y = {} \/ stack[v][k].node # q,
           IsOpen(stack[v][k]) => promoted'[stack[v][k].node] = promoted[stack[v][k].node]
    PROVE  ToCome(stack[v][k], Y)
<1>1. PICK f : f = stack[v][k]
  OBVIOUS
<1>2. f \in FrameType
  BY <1>1 DEF TypeOK, Depth
<1>3. FitsTask(f) /\ FrameToCome(f)
  BY <1>1 DEF Lefts, FramesToCome
<1>4. CASE f.node \in Fork
  <2>1. \A c \in Children(f.node) : c \notin Y
    BY <1>1, <1>4, OfAFork DEF Spends
  <2>2. /\ Body[f.node] \in Children(f.node) /\ Len(Spawned[f.node]) \in Nat
        /\ \A j \in 1..Len(Spawned[f.node]) : Spawned[f.node][j] \in Children(f.node)
    BY <1>4, OfAFork
  <2>3. \A j \in 1..f.left : j \in 1..Len(Spawned[f.node])
    BY <1>2, <1>3, <2>2 DEF FitsTask, FrameType
  <2>4. ToCome(f, Y)
    BY <1>1, <1>3, <2>1, <2>2, <2>3 DEF ToCome, FrameToCome
  <2> QED
    BY <1>1, <2>4
<1>5. CASE f.node \notin Fork
  BY <1>1, <1>3, <1>5 DEF FitsTask, ToCome, IsOpen, AtFork
<1> QED
  BY <1>4, <1>5

\* A step runs a task that stands at its entry, or none.
RunsOn ==
    /\ runs' \in [Node -> {0, 1}]
    /\ \A c \in Node : runs'[c] = 0 => runs[c] = 0
    /\ \A c \in Node : runs[c] = 0 /\ ~Held(c) => runs'[c] = 0

\* The tasks of X, whose e-th frame of w is the new one, were in no frame, and
\* are in no deque after the step.
Entering(w, m, e, X) ==
    /\ Enters(w, m, e)
    /\ \A c \in X : c \in Node /\ IsChild(c) /\ ~Held(c)
    /\ \A c \in X : \A v \in Worker : \A k \in 1..Len(deque'[v]) : deque'[v][k] # c
    /\ e \in 1..Len(stack'[w]) => stack'[w][e].node \in X

\* The frames aside of a step at w's frames above the m-th.
Aside(w, m, q, Y) ==
    \A v \in Worker : \A k \in 1..Len(stack[v]) :
        (v # w \/ k <= m) /\ IsTask(stack[v][k]) =>
            /\ runs'[stack[v][k].node] = runs[stack[v][k].node]
            /\ promoted'[stack[v][k].node] = promoted[stack[v][k].node]
            /\ Y = {} \/ stack[v][k].node # q

Settled(f, Y) ==
    IsTask(f) => /\ runs'[f.node] = (IF f.at = "enter" THEN 0 ELSE 1)
                 /\ f.node = Root \/ IsChild(f.node)
                 /\ ToCome(f, Y)

LEMMA OwnersKept ==
    ASSUME TypeOK, TypeOK', Lefts, Lefts', Owners, NEW w \in Worker, NEW m, Kept(w, m),
           NEW e, NEW X, Entering(w, m, e, X),
           NEW d \in [Worker -> Int], Shrinks(d), RunsOn,
           NEW q, NEW Y, Spends(q, Y), \A c \in X : c \in Y \/ ~Fresh(c),
           Aside(w, m, q, Y),
           \A k \in (m + 1)..Len(stack'[w]) : Settled(stack'[w][k], Y)
    PROVE  Owners'
<1>1. Old(w, e)
  BY OldFrames DEF Entering
<1>2. OneFrame' /\ \A c : Held(c)' => Held(c) \/ c \in X
  BY <1>1, FramesAfter DEF Owners, Entering
<1>3. QueuedOnce' /\ \A c : Queued(c)' => Queued(c)
  BY <1>2, QueuedAfter DEF Owners, Entering, RunsOn
<1>4. \A c \in Node : Fresh(c) /\ c \notin Y => Fresh(c)'
  BY <1>2, <1>3 DEF RunsOn, Fresh
<1>5. m \in Nat /\ \A v \in Worker : \A k \in 1..Len(stack'[v]) :
        \/ /\ v # w \/ k <= m
           /\ k \in Depth(v) /\ stack'[v][k] = stack[v][k]
        \/ v = w /\ k \in (m + 1)..Len(stack'[w])
  <2>1. m \in Nat /\ \A k \in 1..m : k \in Depth(w) /\ stack'[w][k] = stack[w][k]
    BY KeptIs DEF Depth
  <2>2. \A v \in Worker : v # w => stack'[v] = stack[v]
    BY DEF Kept
  <2>3. Len(stack'[w]) \in Nat
    BY KeptIs
  <2>4. \A k \in 1..Len(stack'[w]) : k \in 1..m \/ k \in (m + 1)..Len(stack'[w])
    BY <2>1, <2>3
  <2>5. \A k \in 1..m : k <= m
    BY <2>1
  <2> QED
    BY <2>1, <2>2, <2>4, <2>5 DEF Depth
<1>6. ASSUME NEW v \in Worker, NEW k \in 1..Len(stack'[v]), IsTask(stack'[v][k])
      PROVE  Settled(stack'[v][k], Y)
  <2>1. CASE v = w /\ k \in (m + 1)..Len(stack'[w])
    BY <2>1
  <2>2. CASE (v # w \/ k <= m) /\ k \in Depth(v) /\ stack'[v][k] = stack[v][k]
    <3>1. /\ runs'[stack[v][k].node] = runs[stack[v][k].node]
          /\ promoted'[stack[v][k].node] = promoted[stack[v][k].node]
          /\ Y = {} \/ stack[v][k].node # q
      BY <1>6, <2>2 DEF Aside, Depth
    <3>2. ToCome(stack[v][k], Y)
      BY <2>2, <3>1, ToComeStill DEF Owners
    <3>3. /\ runs[stack[v][k].node] = IF stack[v][k].at = "enter" THEN 0 ELSE 1
          /\ stack[v][k].node = Root \/ IsChild(stack[v][k].node)
      BY <1>6, <2>2 DEF Owners, Begun, Forked
    <3> QED
      BY <2>2, <3>1, <3>2, <3>3 DEF Settled
  <2> QED
    BY <1>5, <2>1, <2>2
<1>7. TasksToCome' /\ FramesToCome'
  <2>1. \A v \in Worker : \A k \in 1..Len(stack'[v]) : ToCome(stack'[v][k], Y)
    <3> SUFFICES ASSUME NEW v \in Worker, NEW k \in 1..Len(stack'[v])
                 PROVE  ToCome(stack'[v][k], Y)
      OBVIOUS
    <3>1. CASE IsTask(stack'[v][k])
      BY <1>6, <3>1 DEF Settled
    <3>2. CASE ~IsTask(stack'[v][k])
      BY <3>2 DEF IsTask, ToCome, IsOpen
    <3> QED
      BY <3>1, <3>2
  <2> QED
    BY <1>4, <2>1, ToComeAfter DEF Owners, RunsOn
<1>8. Begun' /\ Forked'
  BY <1>6 DEF Settled, Begun, Forked, Depth, IsTask, IsChild
<1> QED
  BY <1>2, <1>3, <1>7, <1>8 DEF Owners, RunsOn

LEMMA TopTask ==
    ASSUME TypeOK, Owners, NEW w \in Worker, stack[w] # <<>>, IsTask(Top(w))
    PROVE  /\ Top(w).node \in Node
           /\ runs[Top(w).node] = IF Top(w).at = "enter" THEN 0 ELSE 1
           /\ Top(w).node = Root \/ IsChild(Top(w).node)
           /\ Held(Top(w).node)
           /\ FrameToCome(Top(w))
           /\ Len(stack[w]) \in Depth(w) /\ Top(w) = stack[w][Len(stack[w])]
<1>1. /\ Len(stack[w]) \in Depth(w) /\ Top(w) = stack[w][Len(stack[w])]
      /\ Top(w) \in FrameType
  BY TopIs DEF Depth
<1> QED
  BY <1>1 DEF Owners, Begun, Forked, Held, FramesToCome, FrameType

\* Nothing but the innermost frame's task is begun, and no other slot promoted.
OnlyTop(w) ==
    \A c \in Node : c # Top(w).node => runs'[c] = runs[c] /\ promoted'[c] = promoted[c]

LEMMA AsideIs ==
    ASSUME TypeOK, OneFrame, NEW w \in Worker, stack[w] # <<>>, IsTask(Top(w)), OnlyTop(w),
           NEW Y
    PROVE  Aside(w, Len(stack[w]) - 1, Top(w).node, Y)
<1>1. Len(stack[w]) \in Nat /\ Len(stack[w]) \in Depth(w) /\ Top(w) = stack[w][Len(stack[w])]
  BY TopIs DEF Depth
<1>2. ASSUME NEW v \in Worker, NEW k \in 1..Len(stack[v]), v # w \/ k <= Len(stack[w]) - 1,
             IsTask(stack[v][k])
      PROVE  stack[v][k].node # Top(w).node /\ stack[v][k].node \in Node
  <2>1. stack[v] \in Seq(FrameType)
    BY DEF TypeOK
  <2>2. stack[v][k] \in FrameType
    BY <2>1
  <2>3. ~(v = w /\ k = Len(stack[w]))
    BY <1>1, <1>2
  <2>4. stack[v][k].node # Top(w).node
    BY <1>1, <1>2, <2>3 DEF OneFrame, Depth
  <2> QED
    BY <2>2, <2>4 DEF FrameType
<1> QED
  BY <1>2 DEF Aside, OnlyTop

LEMMA OwnersMoves ==
    ASSUME TypeOK, TypeOK', Lefts, Lefts', Owners, NEW w \in Worker, stack[w] # <<>>,
           IsTask(Top(w)), NEW at, NEW left, Moves(w, at, left),
           at \in Innermost \ {"enter", "finish"},
           deque' = deque, RunsOn, OnlyTop(w), runs'[Top(w).node] = 1,
           ToCome(stack'[w][Len(stack[w])], {})
    PROVE  Owners'
<1> DEFINE n == Len(stack[w])
           m == n - 1
<1>1. n \in Nat /\ n > 0 /\ n \in 1..n /\ Top(w) = stack[w][n]
  BY TopIs
<1>2. /\ Kept(w, m) /\ Len(stack'[w]) = n
      /\ stack'[w][n].node = Top(w).node /\ stack'[w][n].at = at
  BY <1>1 DEF Moves
<1>3. Aside(w, m, Top(w).node, {})
  BY AsideIs DEF Owners
<1>4. \A k \in (m + 1)..n : k = n
  BY <1>1
<1>5. Top(w).node = Root \/ IsChild(Top(w).node)
  BY TopTask
<1>6. at # "enter"
  OBVIOUS
<1> HIDE DEF n, m
<1>7. Enters(w, m, 0)
  BY <1>1, <1>2, <1>4 DEF Enters, n
<1>8. Entering(w, m, 0, {})
  <2>1. 0 \notin 1..Len(stack'[w])
    OBVIOUS
  <2> QED
    BY <1>7, <2>1 DEF Entering
<1> DEFINE d == [v \in Worker |-> 0]
<1>9. Shrinks(d) /\ d \in [Worker -> Int]
  <2>1. \A v \in Worker : \A k \in 1..Len(deque[v]) : k + 0 = k
    OBVIOUS
  <2> QED
    BY <2>1 DEF Shrinks
<1> HIDE DEF d
<1>10. \A k \in (m + 1)..Len(stack'[w]) : Settled(stack'[w][k], {})
  BY <1>2, <1>4, <1>5, <1>6 DEF Settled, n
<1>11. Spends(Top(w).node, {})
  BY DEF Spends
<1> QED
  BY <1>2, <1>3, <1>8, <1>9, <1>10, <1>11, OwnersKept

LEMMA OwnersCalls ==
    ASSUME TypeOK, TypeOK', Lefts, Lefts', Owners, NEW w \in Worker, stack[w] # <<>>,
           IsTask(Top(w)), Top(w).at # "enter", NEW at, NEW left,
           NEW c \in Node, Calls(w, at, left, c), at \in {"body", "inline", "sync"},
           IsChild(c), ~Held(c), runs[c] = 0,
           \A v \in Worker : \A k \in 1..Len(deque'[v]) : deque'[v][k] # c,
           NEW d \in [Worker -> Int], Shrinks(d), runs' = runs, promoted' = promoted,
           NEW Y, Spends(Top(w).node, Y), c \in Y \/ ~Fresh(c),
           ToCome(stack'[w][Len(stack[w])], Y)
    PROVE  Owners'
<1> DEFINE n == Len(stack[w])
           m == n - 1
<1>1. n \in Nat /\ n > 0 /\ n \in 1..n /\ Top(w) = stack[w][n]
  BY TopIs
<1>2. /\ Kept(w, m) /\ Len(stack'[w]) = n + 1
      /\ stack'[w][n].node = Top(w).node /\ stack'[w][n].at = at
      /\ stack'[w][n + 1].node = c /\ stack'[w][n + 1].at = "enter"
  BY <1>1 DEF Calls
<1>3. Aside(w, m, Top(w).node, Y)
  BY AsideIs DEF Owners, OnlyTop
<1>4. \A k \in (m + 1)..(n + 1) : k = n \/ k = n + 1
  BY <1>1
<1>5. (Top(w).node = Root \/ IsChild(Top(w).node)) /\ runs[Top(w).node] = 1
  BY TopTask
<1>6. at # "enter"
  OBVIOUS
<1>7. RunsOn
  BY DEF RunsOn, Owners
<1> HIDE DEF n, m
<1>8. Enters(w, m, n + 1)
  BY <1>1, <1>2, <1>4 DEF Enters, n
<1>9. Entering(w, m, n + 1, {c})
  BY <1>2, <1>8 DEF Entering
<1>10. ToCome(stack'[w][n + 1], Y)
  BY <1>2 DEF ToCome, IsOpen
<1>11. \A k \in (m + 1)..Len(stack'[w]) : Settled(stack'[w][k], Y)
  BY <1>2, <1>4, <1>5, <1>6, <1>10 DEF Settled, n
<1>12. \A x \in {c} : x \in Y \/ ~Fresh(x)
  OBVIOUS
<1> QED
  BY <1>2, <1>3, <1>7, <1>9, <1>11, <1>12, OwnersKept

\* What the invariant says of a queued task.
LEMMA QueuedIs ==
    ASSUME TypeOK, QueuedOnce, NEW v \in Worker, NEW k \in 1..Len(deque[v])
    PROVE  /\ deque[v][k] \in Node /\ runs[deque[v][k]] = 0 /\ IsChild(deque[v][k])
           /\ ~Held(deque[v][k]) /\ ~Fresh(deque[v][k])
           /\ \A u \in Worker : \A j \in 1..Len(deque[u]) :
                 deque[u][j] = deque[v][k] => u = v /\ j = k
<1>1. deque[v] \in Seq(Node)
  BY DEF TypeOK
<1> QED
  BY <1>1 DEF QueuedOnce, Fresh, Queued

LEMMA NoneTaken ==
    ASSUME TypeOK, deque' = deque
    PROVE  \E d \in [Worker -> Int] : Shrinks(d)
<1>1. [v \in Worker |-> 0] \in [Worker -> Int]
  OBVIOUS
<1>2. Shrinks([v \in Worker |-> 0])
  <2>1. \A v \in Worker : \A k \in 1..Len(deque[v]) : k + 0 = k
    OBVIOUS
  <2> QED
    BY <2>1 DEF Shrinks
<1> QED
  BY <1>1, <1>2

\* Job c is taken at one end of v's deque.
Takes(v, young, c) ==
    /\ deque[v] # <<>>
    /\ deque' = [deque EXCEPT ![v] = IF young THEN Front(@) ELSE Tail(@)]
    /\ c = IF young THEN Last(deque[v]) ELSE Head(deque[v])

\* It is in no deque any more.
LEMMA OneTaken ==
    ASSUME TypeOK, QueuedOnce, NEW v \in Worker, NEW young \in BOOLEAN, NEW c,
           Takes(v, young, c)
    PROVE  /\ \E d \in [Worker -> Int] : Shrinks(d)
           /\ \A u \in Worker : \A k \in 1..Len(deque'[u]) : deque'[u][k] # c
           /\ c \in Node /\ runs[c] = 0 /\ IsChild(c) /\ ~Held(c) /\ ~Fresh(c)
<1>1. /\ deque \in [Worker -> Seq(Node)] /\ deque[v] \in Seq(Node) /\ deque[v] # <<>>
      /\ deque' = [deque EXCEPT ![v] = IF young THEN Front(@) ELSE Tail(@)]
      /\ c = IF young THEN Last(deque[v]) ELSE Head(deque[v])
  BY DEF TypeOK, Takes
<1>2. /\ Len(deque[v]) \in Nat /\ Len(deque[v]) > 0 /\ Len(deque[v]) \in 1..Len(deque[v])
      /\ 1 \in 1..Len(deque[v])
  BY <1>1, FrontIs
<1>3. CASE young
  <2>1. deque' = [deque EXCEPT ![v] = Front(deque[v])]
    BY <1>1, <1>3
  <2>2. /\ Len(Front(deque[v])) = Len(deque[v]) - 1
        /\ \A k \in 1..(Len(deque[v]) - 1) : Front(deque[v])[k] = deque[v][k]
        /\ c = deque[v][Len(deque[v])]
    BY <1>1, <1>3, FrontIs
  <2> DEFINE d == [u \in Worker |-> 0]
  <2>3. d \in [Worker -> Int] /\ Shrinks(d)
    <3>1. \A u \in Worker : \A k \in 1..Len(deque[u]) : k + 0 = k
      OBVIOUS
    <3>2. \A k \in 1..(Len(deque[v]) - 1) : k + 0 = k /\ k \in 1..Len(deque[v])
      BY <1>2
    <3> QED
      BY <1>1, <2>1, <2>2, <3>1, <3>2 DEF Shrinks
  <2>4. ASSUME NEW u \in Worker, NEW k \in 1..Len(deque'[u]) PROVE deque'[u][k] # c
    <3>1. CASE u # v
      BY <1>1, <1>2, <2>1, <2>2, <3>1, QueuedIs
    <3>2. CASE u = v
      <4>1. deque'[v] = Front(deque[v]) /\ k \in 1..(Len(deque[v]) - 1)
        BY <1>1, <2>1, <2>2, <3>2
      <4>2. k \in 1..Len(deque[v]) /\ k # Len(deque[v])
        BY <1>2, <4>1
      <4>3. deque'[v][k] = deque[v][k]
        BY <2>2, <4>1
      <4> QED
        BY <1>2, <2>2, <3>2, <4>2, <4>3, QueuedIs
    <3> QED
      BY <3>1, <3>2
  <2>5. c \in Node /\ runs[c] = 0 /\ IsChild(c) /\ ~Held(c) /\ ~Fresh(c)
    BY <1>2, <2>2, QueuedIs
  <2> HIDE DEF d
  <2> QED
    BY <2>3, <2>4, <2>5
<1>4. CASE ~young
  <2>1. deque' = [deque EXCEPT ![v] = Tail(deque[v])]
    BY <1>1, <1>4
  <2>2. /\ Len(Tail(deque[v])) = Len(deque[v]) - 1
        /\ \A k \in 1..(Len(deque[v]) - 1) : Tail(deque[v])[k] = deque[v][k + 1]
        /\ c = deque[v][1]
    BY <1>1, <1>2, <1>4
  <2> DEFINE d == [u \in Worker |-> IF u = v THEN 1 ELSE 0]
  <2>3. d \in [Worker -> Int] /\ Shrinks(d)
    <3>1. \A u \in Worker : \A k \in 1..Len(deque[u]) : k + 0 = k
      OBVIOUS
    <3>2. \A k \in 1..(Len(deque[v]) - 1) : k + 1 \in 1..Len(deque[v])
      BY <1>2
    <3> QED
      BY <1>1, <2>1, <2>2, <3>1, <3>2 DEF Shrinks
  <2>4. ASSUME NEW u \in Worker, NEW k \in 1..Len(deque'[u]) PROVE deque'[u][k] # c
    <3>1. CASE u # v
      BY <1>1, <1>2, <2>1, <2>2, <3>1, QueuedIs
    <3>2. CASE u = v
      <4>1. deque'[v] = Tail(deque[v]) /\ k \in 1..(Len(deque[v]) - 1)
        BY <1>1, <2>1, <2>2, <3>2
      <4>2. k + 1 \in 1..Len(deque[v]) /\ k + 1 # 1
        BY <1>2, <4>1
      <4>3. deque'[v][k] = deque[v][k + 1]
        BY <2>2, <4>1
      <4> QED
        BY <1>2, <2>2, <3>2, <4>2, <4>3, QueuedIs
    <3> QED
      BY <3>1, <3>2
  <2>5. c \in Node /\ runs[c] = 0 /\ IsChild(c) /\ ~Held(c) /\ ~Fresh(c)
    BY <1>2, <2>2, QueuedIs
  <2> HIDE DEF d
  <2> QED
    BY <2>3, <2>4, <2>5
<1> QED
  BY <1>3, <1>4

\* What a worker that does not wait owes ends with what its innermost frame does.
LEMMA OwedTop ==
    ASSUME TypeOK, Lefts, NEW w \in Worker, stack[w] # <<>>, Top(w).at # "wait"
    PROVE  /\ Pending(Top(w)) \in Seq(Node)
           /\ \E x \in Seq(Node) : FlattenSeq(Owed(w)) = x \o Pending(Top(w))
<1> DEFINE s == Owed(w)
           n == Len(stack[w])
<1>1. n \in Nat /\ n > 0 /\ n \in 1..n /\ Top(w) = stack[w][n]
  BY TopIs
<1>2. /\ s \in Seq(Seq(Node)) /\ Len(s) = n
      /\ \A j \in 1..n : s[j] = IF Waits(w, j) THEN <<>> ELSE Pending(stack[w][j])
  BY OwedIs DEF OwedOK
<1> HIDE DEF s
<1>3. ~Waits(w, n)
  <2>1. \A j \in n..n : j = n
    BY <1>1
  <2> QED
    BY <1>1, <2>1 DEF Waits
<1> HIDE DEF n
<1>4. s[n] = Pending(Top(w))
  BY <1>1, <1>2, <1>3
<1>5. Alike(s, s, n - 1) /\ Blank(s, n, Len(s))
  <2>1. \A j \in (n + 1)..n : FALSE
    BY <1>1
  <2> QED
    BY <1>2, <2>1 DEF Alike, Blank
<1>6. n \in 1..Len(s)
  BY <1>1, <1>2
<1>7. /\ s[n] \in Seq(Node)
      /\ \E x \in Seq(Node) : FlattenSeq(s) = x \o s[n] /\ FlattenSeq(s) = x \o s[n]
  BY <1>2, <1>5, <1>6, FlattenAround
<1> QED
  BY <1>4, <1>7 DEF s

LEMMA EndsLast ==
    ASSUME NEW S, NEW d \in Seq(S), NEW x \in Seq(S), NEW y \in Seq(S), Ends(d, x \o y),
           Len(d) > 0, Len(y) > 0
    PROVE  d[Len(d)] = y[Len(y)]
<1>1. Len(d) \in Nat /\ Len(x) \in Nat /\ Len(y) \in Nat /\ Len(x \o y) = Len(x) + Len(y)
  OBVIOUS
<1>2. /\ Len(d) \in 1..Len(d) /\ (Len(x) + Len(y)) - Len(d) + Len(d) = Len(x) + Len(y)
      /\ Len(x) + Len(y) \in (Len(x) + 1)..(Len(x) + Len(y))
      /\ (Len(x) + Len(y)) - Len(x) = Len(y)
  BY <1>1
<1>3. d[Len(d)] = (x \o y)[Len(x) + Len(y)]
  BY <1>1, <1>2 DEF Ends
<1>4. (x \o y)[Len(x) + Len(y)] = y[Len(y)]
  BY <1>1, <1>2
<1> QED
  BY <1>3, <1>4

\* The job that a join finds in its worker's own deque is the one it is after.
LEMMA SyncTakesAwaited ==
    ASSUME TypeOK, Lefts, Jobs, NEW w \in Worker, stack[w] # <<>>, Top(w).at = "sync",
           Top(w).left > 0, deque[w] # <<>>
    PROVE  Last(deque[w]) = Awaited(w)
<1>1. /\ Top(w) \in FrameType /\ Top(w).node \in Fork
      /\ Top(w).left \in 1..Len(Spawned[Top(w).node]) /\ Top(w).left \in 1..2
  BY AwaitedIs
<1>2. deque[w] \in Seq(Node) /\ Spawned[Top(w).node] \in Seq(Node)
  BY <1>1, OfAFork DEF TypeOK
<1>3. Len(deque[w]) > 0 /\ Last(deque[w]) = deque[w][Len(deque[w])]
  BY <1>2, FrontIs
<1> DEFINE p == SubSeq(Spawned[Top(w).node], 1, Top(w).left)
<1>4. Pending(Top(w)) = p
  BY DEF Pending, IsOpen
<1>5. Top(w).left \in Nat /\ Top(w).left <= Len(Spawned[Top(w).node]) /\ Top(w).left \in 1..Top(w).left
  BY <1>1, OfAFork
<1>6. /\ p \in Seq(Node) /\ Len(p) = Top(w).left
      /\ \A k \in 1..Top(w).left : p[k] = Spawned[Top(w).node][k]
  BY <1>2, <1>5, FirstsAre
<1>7. PICK x \in Seq(Node) : FlattenSeq(Owed(w)) = x \o p
  BY <1>4, OwedTop
<1> HIDE DEF p
<1>8. Ends(deque[w], x \o p)
  BY <1>7 DEF Jobs
<1>9. deque[w][Len(deque[w])] = p[Len(p)]
  BY <1>2, <1>3, <1>6, <1>8, EndsLast
<1> QED
  BY <1>3, <1>5, <1>6, <1>9 DEF Awaited

LEMMA OwnersSame ==
    ASSUME Owners, UNCHANGED <<stack, runs, promoted, deque>>
    PROVE  Owners'
<1>2. \A c : /\ Held(c)' <=> Held(c)
             /\ Queued(c)' <=> Queued(c)
             /\ Fresh(c)' <=> Fresh(c)
  BY DEF Held, Queued, Fresh, Depth, IsTask
<1>3. OneFrame' /\ Begun' /\ Forked'
  BY DEF Owners, OneFrame, Begun, Forked, Depth, IsTask, IsChild
<1>4. QueuedOnce'
  <2> SUFFICES ASSUME NEW v \in Worker, NEW k \in 1..Len(deque'[v])
               PROVE  /\ \A u \in Worker : \A j \in 1..Len(deque'[u]) :
                            deque'[u][j] = deque'[v][k] => u = v /\ j = k
                      /\ runs'[deque'[v][k]] = 0
                      /\ ~Held(deque[v][k])'
                      /\ IsChild(deque'[v][k])
    BY DEF QueuedOnce, IsChild
  <2>1. ~Held(deque[v][k])'
    <3>1. ~Held(deque[v][k])
      BY DEF Owners, QueuedOnce
    <3> QED
      BY <3>1 DEF Held, Depth, IsTask
  <2> QED
    BY <2>1 DEF Owners, QueuedOnce
<1>5. TasksToCome'
  BY <1>2 DEF Owners, TasksToCome
<1>6. FramesToCome'
  <2> SUFFICES ASSUME NEW v \in Worker, NEW k \in Depth(v), NEW f, f = stack[v][k]
               PROVE  FrameToCome(stack[v][k])'
    BY DEF FramesToCome, Depth
  <2>1. FrameToCome(f)
    BY DEF Owners, FramesToCome
  <2> QED
    BY <1>2, <2>1 DEF FrameToCome, IsOpen
<1> QED
  BY <1>3, <1>4, <1>5, <1>6 DEF Owners

LEMMA RunsSame ==
    ASSUME Owners, runs' = runs
    PROVE  RunsOn
BY DEF Owners, RunsOn

\* The innermost frame begins its task.
LEMMA TopBegins ==
    ASSUME TypeOK, Owners, NEW w \in Worker, stack[w] # <<>>, Top(w).at = "enter",
           runs' = [runs EXCEPT ![Top(w).node] = @ + 1]
    PROVE  /\ RunsOn /\ runs[Top(w).node] = 0 /\ runs'[Top(w).node] = 1
           /\ \A c \in Node : c # Top(w).node => runs'[c] = runs[c]
<1>1. Top(w).node \in Node /\ runs[Top(w).node] = 0 /\ Held(Top(w).node)
  BY TopTask DEF IsTask
<1>2. runs \in [Node -> {0, 1}]
  BY DEF Owners
<1> QED
  BY <1>1, <1>2 DEF RunsOn

LEMMA OwnersWork ==
    ASSUME TypeOK, TypeOK', Lefts, Lefts', Owners, NEW w \in Worker, Work(w)
    PROVE  Owners'
<1>1. stack[w] # <<>> /\ Top(w).at = "enter" /\ Moves(w, "ret", Top(w).left)
  BY WorkStep
<1>2. RunsOn /\ OnlyTop(w) /\ runs'[Top(w).node] = 1 /\ deque' = deque
  BY <1>1, TopBegins DEF Work, OnlyTop
<1>3. ToCome(stack'[w][Len(stack[w])], {})
  BY <1>1 DEF Moves, ToCome, IsOpen
<1> QED
  BY <1>1, <1>2, <1>3, OwnersMoves DEF IsTask, Innermost

LEMMA OwnersOpenSlot ==
    ASSUME TypeOK, TypeOK', Lefts, Lefts', Owners, NEW w \in Worker, OpenSlot(w)
    PROVE  Owners'
<1>1. /\ stack[w] # <<>> /\ Top(w).at = "enter" /\ Top(w).node \in Fork
      /\ Moves(w, "test", Top(w).left)
  BY OpenSlotStep
<1>2. /\ RunsOn /\ OnlyTop(w) /\ runs'[Top(w).node] = 1 /\ deque' = deque
      /\ runs[Top(w).node] = 0
  <2>1. promoted' = [promoted EXCEPT ![Top(w).node] = FALSE]
    BY DEF OpenSlot
  <2>2. promoted \in [Node -> BOOLEAN]
    BY DEF TypeOK
  <2>3. \A c \in Node : c # Top(w).node => promoted'[c] = promoted[c]
    BY <2>1, <2>2
  <2> QED
    BY <1>1, <2>3, TopBegins DEF OpenSlot, OnlyTop
<1>3. \A c \in Children(Top(w).node) : Fresh(c)
  BY <1>1, <1>2 DEF Owners, TasksToCome
<1>4. /\ Fresh(Body[Top(w).node])
      /\ \A j \in 1..Len(Spawned[Top(w).node]) : Fresh(Spawned[Top(w).node][j])
  BY <1>1, <1>3, OfAFork
<1>5. /\ stack'[w][Len(stack[w])].node = Top(w).node
      /\ stack'[w][Len(stack[w])].at = "test"
  BY <1>1, TopIs DEF Moves
<1>6. ToCome(stack'[w][Len(stack[w])], {})
  BY <1>4, <1>5 DEF ToCome
<1> QED
  BY <1>1, <1>2, <1>6, OwnersMoves DEF IsTask, Innermost

LEMMA OwnersClose ==
    ASSUME TypeOK, TypeOK', Lefts, Lefts', Owners, NEW w \in Worker, Close(w)
    PROVE  Owners'
<1>1. /\ stack[w] # <<>> /\ Top(w).at = "close" /\ Top(w).node \in Fork
      /\ Moves(w, IF promoted[Top(w).node] THEN "sync" ELSE "inline",
               Len(Spawned[Top(w).node]))
  BY CloseStep
<1>2. RunsOn /\ OnlyTop(w) /\ runs'[Top(w).node] = 1 /\ deque' = deque
  BY <1>1, RunsSame, TopTask DEF Close, OnlyTop, IsTask
<1>3. FrameToCome(Top(w))
  BY <1>1, TopTask DEF IsTask
<1>4. /\ stack'[w][Len(stack[w])].node = Top(w).node
      /\ stack'[w][Len(stack[w])].at = IF promoted[Top(w).node] THEN "sync" ELSE "inline"
      /\ stack'[w][Len(stack[w])].left = Len(Spawned[Top(w).node])
  BY <1>1, TopIs DEF Moves
<1>5. ToCome(stack'[w][Len(stack[w])], {})
  BY <1>1, <1>3, <1>4 DEF ToCome, FrameToCome, IsOpen
<1> QED
  BY <1>1, <1>2, <1>5, OwnersMoves DEF IsTask, Innermost

LEMMA OwnersSyncs ==
    ASSUME TypeOK, TypeOK', Lefts, Lefts', Owners, NEW w \in Worker,
           SyncFinished(w) \/ SyncWait(w) \/ EndWait(w)
    PROVE  Owners'
<1>1. /\ stack[w] # <<>> /\ Top(w).at \in {"sync", "wait"}
      /\ \E at \in {"sync", "wait"} : \E left : Moves(w, at, left)
  BY SyncFinishedStep, SyncWaitStep, EndWaitStep
<1>2. PICK at \in {"sync", "wait"} : \E left : Moves(w, at, left)
  BY <1>1
<1>3. PICK left : Moves(w, at, left)
  BY <1>2
<1>4. RunsOn /\ OnlyTop(w) /\ runs'[Top(w).node] = 1 /\ deque' = deque
  BY <1>1, RunsSame, TopTask DEF SyncFinished, SyncWait, EndWait, OnlyTop, IsTask
<1>5. ToCome(stack'[w][Len(stack[w])], {})
  BY <1>3 DEF Moves, ToCome, IsOpen
<1> QED
  BY <1>1, <1>3, <1>4, <1>5, OwnersMoves DEF IsTask, Innermost

LEMMA FreshIs ==
    ASSUME NEW c, Fresh(c), deque' = deque
    PROVE  /\ runs[c] = 0 /\ ~Held(c)
           /\ \A v \in Worker : \A k \in 1..Len(deque'[v]) : deque'[v][k] # c
BY DEF Fresh, Queued

LEMMA OwnersCallBody ==
    ASSUME TypeOK, TypeOK', Lefts, Lefts', Owners, NEW w \in Worker, CallBody(w)
    PROVE  Owners'
<1> DEFINE q == Top(w).node
           c == Body[q]
<1>1. stack[w] # <<>> /\ Top(w).at = "test" /\ q \in Fork /\ Calls(w, "body", Top(w).left, c)
  BY CallBodyStep
<1>2. runs' = runs /\ promoted' = promoted /\ deque' = deque
  BY DEF CallBody
<1>3. FrameToCome(Top(w)) /\ runs[q] = 1 /\ IsTask(Top(w))
  BY <1>1, TopTask DEF IsTask
<1>4. Fresh(c)
  BY <1>1, <1>3 DEF FrameToCome
<1>5. /\ c \in Node /\ c \in Children(q)
      /\ \A j \in 1..Len(Spawned[q]) : Spawned[q][j] # c
  BY <1>1, OfAFork
<1>6. stack'[w][Len(stack[w])].node = q /\ stack'[w][Len(stack[w])].at = "body"
  BY <1>1, TopIs DEF Calls
<1> HIDE DEF c
<1>7. ToCome(stack'[w][Len(stack[w])], {c})
  BY <1>1, <1>2, <1>3, <1>5, <1>6 DEF ToCome, FrameToCome, IsOpen
<1>8. Spends(q, {c})
  BY <1>1, <1>2, <1>3, <1>5 DEF Spends
<1>9. IsChild(c)
  BY <1>1, <1>5 DEF IsChild
<1>10. PICK d \in [Worker -> Int] : Shrinks(d)
  BY <1>2, NoneTaken
<1>11. /\ runs[c] = 0 /\ ~Held(c)
       /\ \A v \in Worker : \A k \in 1..Len(deque'[v]) : deque'[v][k] # c
  BY <1>2, <1>4, FreshIs
<1>12. c \in {c}
  OBVIOUS
<1> QED
  BY <1>1, <1>2, <1>3, <1>5, <1>7, <1>8, <1>9, <1>10, <1>11, <1>12, OwnersCalls

LEMMA OwnersRunInline ==
    ASSUME TypeOK, TypeOK', Lefts, Lefts', Owners, NEW w \in Worker, RunInline(w)
    PROVE  Owners'
<1> DEFINE q == Top(w).node
           c == Spawned[q][Top(w).left]
<1>1. /\ stack[w] # <<>> /\ Top(w).at = "inline" /\ q \in Fork
      /\ Top(w).left \in 1..Len(Spawned[q])
      /\ Calls(w, "inline", Top(w).left - 1, c)
  BY RunInlineStep
<1>2. runs' = runs /\ promoted' = promoted /\ deque' = deque
  BY DEF RunInline
<1>3. FrameToCome(Top(w)) /\ runs[q] = 1 /\ IsTask(Top(w))
  BY <1>1, TopTask DEF IsTask
<1>4. Top(w).left \in 1..Top(w).left
  BY <1>1, OfAFork
<1>5. Fresh(c)
  BY <1>1, <1>3, <1>4 DEF FrameToCome
<1>6. c \in Node /\ c \in Children(q)
  BY <1>1, OfAFork
<1>7. \A j \in 1..(Top(w).left - 1) :
        j \in 1..Top(w).left /\ j \in 1..Len(Spawned[q]) /\ j # Top(w).left
  BY <1>1, OfAFork
<1>8. \A j \in 1..(Top(w).left - 1) : Spawned[q][j] # c
  BY <1>1, <1>7, OfAFork
<1>9. /\ stack'[w][Len(stack[w])].node = q /\ stack'[w][Len(stack[w])].at = "inline"
      /\ stack'[w][Len(stack[w])].left = Top(w).left - 1
  BY <1>1, TopIs DEF Calls
<1> HIDE DEF c
<1>10. ToCome(stack'[w][Len(stack[w])], {c})
  BY <1>1, <1>3, <1>7, <1>8, <1>9 DEF ToCome, FrameToCome, IsOpen
<1>11. Spends(q, {c})
  BY <1>1, <1>2, <1>3, <1>6 DEF Spends
<1>12. IsChild(c)
  BY <1>1, <1>6 DEF IsChild
<1>13. PICK d \in [Worker -> Int] : Shrinks(d)
  BY <1>2, NoneTaken
<1>14. /\ runs[c] = 0 /\ ~Held(c)
       /\ \A v \in Worker : \A k \in 1..Len(deque'[v]) : deque'[v][k] # c
  BY <1>2, <1>5, FreshIs
<1>15. c \in {c}
  OBVIOUS
<1> QED
  BY <1>1, <1>2, <1>3, <1>6, <1>10, <1>11, <1>12, <1>13, <1>14, <1>15, OwnersCalls

LEMMA OwnersSyncUnstolen ==
    ASSUME TypeOK, TypeOK', Lefts, Lefts', Owners, Jobs, NEW w \in Worker, SyncUnstolen(w)
    PROVE  Owners'
<1> DEFINE c == Awaited(w)
<1>1. /\ stack[w] # <<>> /\ Top(w).at = "sync" /\ Top(w).left > 0 /\ deque[w] # <<>>
      /\ Calls(w, "sync", Top(w).left - 1, c)
  BY SyncUnstolenStep
<1>2. runs' = runs /\ promoted' = promoted /\ deque' = [deque EXCEPT ![w] = Front(@)]
  BY DEF SyncUnstolen
<1>3. c = Last(deque[w])
  BY <1>1, SyncTakesAwaited
<1> HIDE DEF c
<1>4. TRUE \in BOOLEAN
  OBVIOUS
<1>5. Takes(w, TRUE, c)
  BY <1>1, <1>2, <1>3 DEF Takes
<1>6. /\ \E d \in [Worker -> Int] : Shrinks(d)
      /\ \A u \in Worker : \A k \in 1..Len(deque'[u]) : deque'[u][k] # c
      /\ c \in Node /\ runs[c] = 0 /\ IsChild(c) /\ ~Held(c) /\ ~Fresh(c)
  BY <1>1, <1>4, <1>5, OneTaken DEF Owners
<1>7. PICK d \in [Worker -> Int] : Shrinks(d)
  BY <1>6
<1>8. ToCome(stack'[w][Len(stack[w])], {})
  BY <1>1 DEF Calls, ToCome, IsOpen
<1>9. Spends(Top(w).node, {})
  BY DEF Spends
<1>10. IsTask(Top(w)) /\ Top(w).at # "enter"
  BY <1>1 DEF IsTask
<1> QED
  BY <1>1, <1>2, <1>6, <1>7, <1>8, <1>9, <1>10, OwnersCalls

\* Where nothing is begun or promoted every frame is aside.
LEMMA AllAside ==
    ASSUME runs' = runs, promoted' = promoted, NEW w, NEW m, NEW q
    PROVE  Aside(w, m, q, {}) /\ Spends(q, {})
BY DEF Aside, Spends

LEMMA OwnersStartJob ==
    ASSUME TypeOK, TypeOK', Lefts, Lefts', Owners, NEW w \in Worker, StartJob(w)
    PROVE  Owners'
<1> DEFINE n == Len(stack[w])
<1>1. PICK v \in Worker :
        /\ deque[v] # <<>>
        /\ deque' = [deque EXCEPT ![v] = IF v = w THEN Front(@) ELSE Tail(@)]
        /\ Kept(w, n) /\ Len(stack'[w]) = n + 2
        /\ stack'[w][n + 1].at = "job"
        /\ stack'[w][n + 2].node = Taken(v, w)
        /\ stack'[w][n + 2].at = "enter"
  BY StartJobStep
<1>2. runs' = runs /\ promoted' = promoted
  BY DEF StartJob
<1> DEFINE c == Taken(v, w)
<1>3. /\ \E d \in [Worker -> Int] : Shrinks(d)
      /\ \A u \in Worker : \A k \in 1..Len(deque'[u]) : deque'[u][k] # c
      /\ c \in Node /\ runs[c] = 0 /\ IsChild(c) /\ ~Held(c) /\ ~Fresh(c)
  <2>1. c = IF v = w THEN Last(deque[v]) ELSE Head(deque[v])
    BY DEF Taken
  <2>2. TRUE \in BOOLEAN /\ FALSE \in BOOLEAN
    OBVIOUS
  <2> HIDE DEF c
  <2>3. QueuedOnce
    BY DEF Owners
  <2>4. CASE v = w
    <3>1. Takes(v, TRUE, c)
      BY <1>1, <2>1, <2>4 DEF Takes
    <3> QED
      BY <2>2, <2>3, <3>1, OneTaken
  <2>5. CASE v # w
    <3>1. Takes(v, FALSE, c)
      BY <1>1, <2>1, <2>5 DEF Takes
    <3> QED
      BY <2>2, <2>3, <3>1, OneTaken
  <2> QED
    BY <2>4, <2>5
<1> HIDE DEF c
<1>4. n \in Nat
  BY <1>1, KeptIs
<1>5. \A k \in (n + 1)..(n + 2) : k = n + 1 \/ k = n + 2
  BY <1>4
<1>6. Enters(w, n, n + 2)
  <2>1. ~IsTask(stack'[w][n + 1])
    BY <1>1 DEF IsTask
  <2> HIDE DEF n
  <2> QED
    BY <1>1, <1>5, <2>1 DEF Enters
<1>7. Entering(w, n, n + 2, {c})
  <2> HIDE DEF n
  <2> QED
    BY <1>1, <1>3, <1>6 DEF Entering, c
<1>8. \A k \in (n + 1)..Len(stack'[w]) : Settled(stack'[w][k], {})
  <2>1. ~IsTask(stack'[w][n + 1])
    BY <1>1 DEF IsTask
  <2>2. Settled(stack'[w][n + 2], {})
    BY <1>1, <1>2, <1>3 DEF Settled, ToCome, IsOpen, c
  <2> HIDE DEF n
  <2> QED
    BY <1>1, <1>5, <2>1, <2>2 DEF Settled
<1>9. PICK d \in [Worker -> Int] : Shrinks(d)
  BY <1>3
<1>10. RunsOn
  BY <1>2, RunsSame
<1>11. Aside(w, n, Root, {}) /\ Spends(Root, {})
  BY <1>2, AllAside
<1>12. \A x \in {c} : x \in {} \/ ~Fresh(x)
  BY <1>3
<1> HIDE DEF n
<1> QED
  BY <1>1, <1>7, <1>8, <1>9, <1>10, <1>11, <1>12, OwnersKept

LEMMA NoneEnters ==
    ASSUME NEW w \in Worker, NEW m, Enters(w, m, 0)
    PROVE  Entering(w, m, 0, {}) /\ \A c \in {} : c \in {} \/ ~Fresh(c)
<1>1. 0 \notin 1..Len(stack'[w])
  OBVIOUS
<1> QED
  BY <1>1 DEF Entering

LEMMA OwnersFinishJob ==
    ASSUME TypeOK, TypeOK', Lefts, Lefts', Owners, NEW w \in Worker, FinishJob(w)
    PROVE  Owners'
<1> DEFINE m == Len(stack[w]) - 1
<1>1. Kept(w, m) /\ Len(stack'[w]) = m
  BY FinishJobStep
<1>2. runs' = runs /\ promoted' = promoted /\ deque' = deque
  BY DEF FinishJob
<1>3. m \in Nat
  BY <1>1, KeptIs
<1> HIDE DEF m
<1>4. \A k \in (m + 1)..m : FALSE
  BY <1>3
<1>5. Enters(w, m, 0)
  BY <1>1, <1>4 DEF Enters
<1>6. PICK d \in [Worker -> Int] : Shrinks(d)
  BY <1>2, NoneTaken
<1>7. RunsOn
  BY <1>2, RunsSame
<1>8. Aside(w, m, Root, {}) /\ Spends(Root, {})
  BY <1>2, AllAside
<1>9. Entering(w, m, 0, {}) /\ \A c \in {} : c \in {} \/ ~Fresh(c)
  BY <1>5, NoneEnters
<1> QED
  BY <1>1, <1>4, <1>6, <1>7, <1>8, <1>9, OwnersKept

LEMMA OwnersReturn ==
    ASSUME TypeOK, TypeOK', Lefts, Lefts', Owners, NEW w \in Worker, Shape, Return(w)
    PROVE  Owners'
<1>1. runs' = runs /\ promoted' = promoted /\ deque' = deque
  BY DEF Return
<1>2. RunsOn
  BY <1>1, RunsSame
<1>3. PICK d \in [Worker -> Int] : Shrinks(d)
  BY <1>1, NoneTaken
<1>4. CASE Len(stack[w]) = 1
  <2>1. Kept(w, 0) /\ Len(stack'[w]) = 0
    BY <1>4, ReturnEffect
  <2>2. \A k \in (0 + 1)..0 : FALSE
    OBVIOUS
  <2>3. Enters(w, 0, 0)
    BY <2>1, <2>2 DEF Enters
  <2>4. Aside(w, 0, Root, {}) /\ Spends(Root, {})
    BY <1>1, AllAside
  <2>5. Entering(w, 0, 0, {}) /\ \A c \in {} : c \in {} \/ ~Fresh(c)
    BY <2>3, NoneEnters
  <2>6. \A k \in (0 + 1)..Len(stack'[w]) : Settled(stack'[w][k], {})
    BY <2>1, <2>2
  <2> QED
    BY <1>2, <1>3, <2>1, <2>4, <2>5, <2>6, OwnersKept
<1>5. CASE Len(stack[w]) # 1
  <2> DEFINE n == Len(stack[w]) - 1
             m == n - 1
             f == stack[w][n]
             g == stack'[w][n]
  <2>1. /\ Kept(w, m) /\ n > 0 /\ Len(stack'[w]) = n
        /\ g.node = f.node /\ g.left = f.left
        /\ g.at = IF f.at = "body" THEN "close" ELSE IF f.at = "job" THEN "finish" ELSE f.at
    BY <1>5, ReturnEffect
  <2>2. n \in Nat /\ n \in Depth(w) /\ n # Len(stack[w])
    <3>1. Len(stack[w]) \in Nat
      BY <2>1, KeptIs
    <3> QED
      BY <2>1, <3>1 DEF Depth
  <2>3. \A k \in (m + 1)..n : k = n
    BY <2>2
  <2> HIDE DEF n
  <2>4. f.at \in Calling
    BY <2>2 DEF Shape
  <2>5. (IsTask(g) <=> IsTask(f)) /\ g.at # "enter" /\ f.at # "enter"
    BY <2>1, <2>4 DEF IsTask, Calling
  <2>6. /\ FrameToCome(f)
        /\ IsTask(f) => runs[f.node] = 1 /\ (f.node = Root \/ IsChild(f.node))
    BY <2>2, <2>5 DEF Owners, FramesToCome, Begun, Forked
  <2>7. ToCome(g, {})
    BY <1>1, <2>1, <2>4, <2>6 DEF FrameToCome, ToCome, IsOpen, Calling
  <2>8. Settled(g, {})
    BY <1>1, <2>1, <2>5, <2>6, <2>7 DEF Settled
  <2> HIDE DEF m
  <2>9. Enters(w, m, 0)
    BY <2>1, <2>2, <2>3, <2>5 DEF Enters, Depth
  <2>10. Aside(w, m, Root, {}) /\ Spends(Root, {})
    BY <1>1, AllAside
  <2>11. Entering(w, m, 0, {}) /\ \A c \in {} : c \in {} \/ ~Fresh(c)
    BY <2>9, NoneEnters
  <2>12. \A k \in (m + 1)..Len(stack'[w]) : Settled(stack'[w][k], {})
    BY <2>1, <2>3, <2>8
  <2> QED
    BY <1>2, <1>3, <2>1, <2>10, <2>11, <2>12, OwnersKept
<1> QED
  BY <1>4, <1>5

\* A promotion takes the slot of w's k-th frame, which no unpromoted one is below.
Promotes(w, k) ==
    /\ k \in Depth(w) /\ IsOpen(stack[w][k]) /\ ~promoted[stack[w][k].node]
    /\ \A j \in Depth(w) : IsOpen(stack[w][j]) /\ ~promoted[stack[w][j].node] => k <= j
    /\ heartbeat_tokens[w] > 0
    /\ Promote(w, stack[w][k].node)
    /\ UNCHANGED <<stack, armed, handling, done, runs, finished>>

LEMMA PromotesIs ==
    ASSUME TypeOK, Lefts, TokensSpent, NEW w \in Worker, EagerPromote(w) \/ PromoteFront(w)
    PROVE  \E k \in Depth(w) : Promotes(w, k)
<1>1. CASE EagerPromote(w)
  <2> DEFINE n == Len(stack[w])
  <2>1. /\ stack[w] # <<>> /\ Top(w).at = "test" /\ ~handling[w] /\ heartbeat_tokens[w] > 0
        /\ ~promoted[Top(w).node] /\ Promote(w, Top(w).node)
        /\ UNCHANGED <<stack, armed, handling, done, runs, finished>>
    BY <1>1 DEF EagerPromote, At
  <2>2. n \in Nat /\ n \in Depth(w) /\ Top(w) = stack[w][n] /\ n <= n
    BY <2>1, TopIs DEF Depth
  <2>3. IsOpen(stack[w][n])
    BY <2>1, <2>2 DEF IsOpen
  <2>4. \A j \in Depth(w) : IsOpen(stack[w][j]) /\ ~promoted[stack[w][j].node] => n <= j
    BY <2>1, <2>2 DEF TokensSpent
  <2> HIDE DEF n
  <2>5. Promotes(w, n)
    BY <2>1, <2>2, <2>3, <2>4 DEF Promotes
  <2> QED
    BY <2>2, <2>5
<1>2. CASE PromoteFront(w)
  <2> DEFINE k == Min(Promotable(w))
  <2>1. /\ k \in Depth(w) /\ IsOpen(stack[w][k]) /\ ~promoted[stack[w][k].node]
        /\ \A j \in Depth(w) : IsOpen(stack[w][j]) /\ ~promoted[stack[w][j].node] => k <= j
    BY <1>2, PromotableIs DEF PromoteFront
  <2>2. /\ heartbeat_tokens[w] > 0 /\ Promote(w, stack[w][k].node)
        /\ UNCHANGED <<stack, armed, handling, done, runs, finished>>
    BY <1>2 DEF PromoteFront
  <2> HIDE DEF k
  <2>3. Promotes(w, k)
    BY <2>1, <2>2 DEF Promotes
  <2> QED
    BY <2>1, <2>3
<1> QED
  BY <1>1, <1>2

LEMMA PromotesFork ==
    ASSUME TypeOK, Lefts, NEW w \in Worker, NEW k \in Depth(w), Promotes(w, k)
    PROVE  /\ stack[w][k].node \in Fork /\ IsTask(stack[w][k])
           /\ promoted' = [promoted EXCEPT ![stack[w][k].node] = TRUE]
           /\ deque' = [deque EXCEPT ![w] = deque[w] \o Spawned[stack[w][k].node]]
           /\ stack' = stack /\ runs' = runs
<1>1. FitsTask(stack[w][k]) /\ IsOpen(stack[w][k])
  BY DEF Lefts, Promotes
<1> QED
  BY <1>1 DEF FitsTask, IsOpen, AtFork, IsTask, Promotes, Promote

\* The members of w's deque after a promotion of fork q.
LEMMA PromotedJobs ==
    ASSUME TypeOK, NEW w \in Worker, NEW q \in Fork,
           deque' = [deque EXCEPT ![w] = deque[w] \o Spawned[q]]
    PROVE  /\ \A v \in Worker : v # w => deque'[v] = deque[v]
           /\ \A k \in 1..Len(deque'[w]) :
                \/ k \in 1..Len(deque[w]) /\ deque'[w][k] = deque[w][k]
                \/ /\ k - Len(deque[w]) \in 1..Len(Spawned[q])
                   /\ deque'[w][k] = Spawned[q][k - Len(deque[w])]
<1>1. deque \in [Worker -> Seq(Node)] /\ deque[w] \in Seq(Node) /\ Len(deque[w]) \in Nat
  BY DEF TypeOK
<1>2. Spawned[q] \in Seq(Node) /\ Len(Spawned[q]) \in Nat
  BY OfAFork
<1>3. deque'[w] = deque[w] \o Spawned[q] /\ \A v \in Worker : v # w => deque'[v] = deque[v]
  BY <1>1
<1>4. Len(deque'[w]) = Len(deque[w]) + Len(Spawned[q])
  BY <1>1, <1>2, <1>3
<1>5. ASSUME NEW k \in 1..Len(deque'[w])
      PROVE  \/ k \in 1..Len(deque[w]) /\ deque'[w][k] = deque[w][k]
             \/ /\ k - Len(deque[w]) \in 1..Len(Spawned[q])
                /\ deque'[w][k] = Spawned[q][k - Len(deque[w])]
  <2>1. CASE k <= Len(deque[w])
    BY <1>1, <1>2, <1>3, <1>4, <2>1
  <2>2. CASE k > Len(deque[w])
    BY <1>1, <1>2, <1>3, <1>4, <2>2
  <2> QED
    BY <1>1, <1>4, <2>1, <2>2
<1> QED
  BY <1>3, <1>5

LEMMA OwnersPromotes ==
    ASSUME TypeOK, TypeOK', Lefts, Lefts', Owners, NEW w \in Worker, NEW k \in Depth(w),
           Promotes(w, k)
    PROVE  Owners'
<1> DEFINE q == stack[w][k].node
<1>1. /\ q \in Fork /\ IsTask(stack[w][k])
      /\ promoted' = [promoted EXCEPT ![q] = TRUE]
      /\ deque' = [deque EXCEPT ![w] = deque[w] \o Spawned[q]]
      /\ stack' = stack /\ runs' = runs
  BY PromotesFork
<1>2. IsOpen(stack[w][k]) /\ ~promoted[q]
  BY DEF Promotes
<1>3. /\ FrameToCome(stack[w][k]) /\ runs[q] = 1
      /\ \A v \in Worker : \A j \in Depth(v) :
            IsTask(stack[v][j]) /\ stack[v][j].node = q => v = w /\ j = k
  BY <1>1, <1>2 DEF Owners, FramesToCome, Begun, OneFrame, IsOpen
<1>4. \A j \in 1..Len(Spawned[q]) :
         Fresh(Spawned[q][j]) /\ Spawned[q][j] \in Node /\ IsChild(Spawned[q][j])
  BY <1>1, <1>2, <1>3, OfAFork DEF FrameToCome, IsChild
<1> HIDE DEF q
<1>5. /\ \A v \in Worker : v # w => deque'[v] = deque[v]
      /\ \A j \in 1..Len(deque'[w]) :
           \/ j \in 1..Len(deque[w]) /\ deque'[w][j] = deque[w][j]
           \/ /\ j - Len(deque[w]) \in 1..Len(Spawned[q])
              /\ deque'[w][j] = Spawned[q][j - Len(deque[w])]
  BY <1>1, PromotedJobs
<1>6. Len(deque[w]) \in Nat
  BY DEF TypeOK
<1>7. \A c : Held(c)' <=> Held(c)
  BY <1>1 DEF Held, Depth, IsTask
<1>8. OneFrame' /\ Begun' /\ Forked'
  <2>1. OneFrame /\ Begun /\ Forked /\ stack' = stack /\ runs' = runs
    BY <1>1 DEF Owners
  <2>2. OneFrame'
    BY <2>1 DEF OneFrame, Depth, IsTask
  <2>3. Begun'
    BY <2>1 DEF Begun, Depth, IsTask
  <2>4. Forked'
    BY <2>1 DEF Forked, Depth, IsTask, IsChild
  <2> QED
    BY <2>2, <2>3, <2>4
<1>9. ASSUME NEW v \in Worker, NEW j \in 1..Len(deque'[v])
      PROVE  \/ j \in 1..Len(deque[v]) /\ deque'[v][j] = deque[v][j]
             \/ /\ v = w /\ j - Len(deque[w]) \in 1..Len(Spawned[q])
                /\ deque'[v][j] = Spawned[q][j - Len(deque[w])]
  BY <1>5
<1>10. ASSUME NEW v \in Worker, NEW j \in 1..Len(deque[v]),
              NEW i \in 1..Len(Spawned[q])
       PROVE  deque[v][j] # Spawned[q][i]
  BY <1>4 DEF Fresh, Queued
<1>11. ASSUME NEW v \in Worker, NEW j \in 1..Len(deque'[v]), NEW c, c = deque'[v][j]
       PROVE  runs'[c] = 0 /\ ~Held(c)' /\ IsChild(c)
  <2>1. CASE j \in 1..Len(deque[v]) /\ c = deque[v][j]
    BY <1>1, <1>7, <2>1, QueuedIs DEF Owners
  <2>2. CASE \E i \in 1..Len(Spawned[q]) : c = Spawned[q][i]
    BY <1>1, <1>4, <1>7, <2>2 DEF Fresh
  <2> QED
    BY <1>9, <1>11, <2>1, <2>2
<1>12. ASSUME NEW v \in Worker, NEW j \in 1..Len(deque'[v]),
              NEW u \in Worker, NEW i \in 1..Len(deque'[u]), deque'[u][i] = deque'[v][j]
       PROVE  u = v /\ i = j
  <2>1. CASE /\ j \in 1..Len(deque[v]) /\ deque'[v][j] = deque[v][j]
             /\ i \in 1..Len(deque[u]) /\ deque'[u][i] = deque[u][i]
    BY <1>12, <2>1, QueuedIs DEF Owners
  <2>2. CASE /\ v = w /\ j - Len(deque[w]) \in 1..Len(Spawned[q])
             /\ deque'[v][j] = Spawned[q][j - Len(deque[w])]
             /\ u = w /\ i - Len(deque[w]) \in 1..Len(Spawned[q])
             /\ deque'[u][i] = Spawned[q][i - Len(deque[w])]
    <3>1. i - Len(deque[w]) = j - Len(deque[w])
      BY <1>1, <1>12, <2>2, OfAFork
    <3>2. i \in Int /\ j \in Int
      OBVIOUS
    <3> QED
      BY <1>6, <2>2, <3>1, <3>2
  <2>3. CASE /\ j \in 1..Len(deque[v]) /\ deque'[v][j] = deque[v][j]
             /\ i - Len(deque[w]) \in 1..Len(Spawned[q])
             /\ deque'[u][i] = Spawned[q][i - Len(deque[w])]
    BY <1>10, <1>12, <2>3
  <2>4. CASE /\ i \in 1..Len(deque[u]) /\ deque'[u][i] = deque[u][i]
             /\ j - Len(deque[w]) \in 1..Len(Spawned[q])
             /\ deque'[v][j] = Spawned[q][j - Len(deque[w])]
    BY <1>10, <1>12, <2>4
  <2>5. \/ j \in 1..Len(deque[v]) /\ deque'[v][j] = deque[v][j]
        \/ /\ v = w /\ j - Len(deque[w]) \in 1..Len(Spawned[q])
           /\ deque'[v][j] = Spawned[q][j - Len(deque[w])]
    BY <1>9
  <2>6. \/ i \in 1..Len(deque[u]) /\ deque'[u][i] = deque[u][i]
        \/ /\ u = w /\ i - Len(deque[w]) \in 1..Len(Spawned[q])
           /\ deque'[u][i] = Spawned[q][i - Len(deque[w])]
    BY <1>9
  <2> QED
    BY <2>1, <2>2, <2>3, <2>4, <2>5, <2>6, Zenon
<1>13. QueuedOnce'
  <2> SUFFICES ASSUME NEW v \in Worker, NEW j \in 1..Len(deque'[v])
               PROVE  /\ \A u \in Worker : \A i \in 1..Len(deque'[u]) :
                            deque'[u][i] = deque'[v][j] => u = v /\ i = j
                      /\ runs'[deque'[v][j]] = 0
                      /\ ~Held(deque[v][j])'
                      /\ IsChild(deque'[v][j])
    BY DEF QueuedOnce, IsChild
  <2>1. PICK c : c = deque'[v][j]
    OBVIOUS
  <2>2. runs'[c] = 0 /\ ~Held(c)' /\ IsChild(c)
    BY <1>11, <2>1
  <2>3. ~Held(deque[v][j])'
    BY <2>1, <2>2 DEF Held
  <2> QED
    BY <1>12, <2>1, <2>2, <2>3
<1> DEFINE Y == {Spawned[q][i] : i \in 1..Len(Spawned[q])}
<1>14. Spends(q, Y)
  BY <1>1, <1>3, OfAFork DEF Spends
<1>15. \A c \in Node : Fresh(c) /\ c \notin Y => Fresh(c)'
  <2> SUFFICES ASSUME NEW c \in Node, Fresh(c), c \notin Y PROVE ~Queued(c)'
    BY <1>1, <1>7 DEF Fresh
  <2>1. ASSUME NEW v \in Worker, NEW j \in 1..Len(deque'[v]) PROVE deque'[v][j] # c
    BY <1>9 DEF Fresh, Queued
  <2> QED
    BY <2>1 DEF Queued
<1> HIDE DEF Y
<1>16. ASSUME NEW v \in Worker, NEW j \in Depth(v) PROVE ToCome(stack[v][j], Y)
  <2>1. stack[v][j] \in FrameType /\ FitsTask(stack[v][j])
    BY DEF TypeOK, Lefts, Depth
  <2>2. CASE ~IsTask(stack[v][j])
    BY <2>2 DEF IsTask, ToCome, IsOpen
  <2>3. CASE IsTask(stack[v][j]) /\ stack[v][j].node # q
    <3>1. promoted'[stack[v][j].node] = promoted[stack[v][j].node]
      BY <1>1, <2>1, <2>3 DEF TypeOK, FrameType
    <3> QED
      BY <1>14, <2>3, <3>1, ToComeStill DEF Owners
  <2>4. CASE v = w /\ j = k
    <3>1. PICK f : f = stack[w][k]
      OBVIOUS
    <3>2. promoted'[q] = TRUE /\ f.node = q
      BY <1>1, <2>1, <2>4, <3>1 DEF TypeOK, FrameType, q
    <3>3. f.at = "test" => Fresh(Body[q])
      BY <1>3, <3>1, <3>2 DEF FrameToCome
    <3>4. Body[q] \notin Y
      BY <1>1, OfAFork DEF Y
    <3>5. f.at # "inline"
      BY <1>2, <3>1 DEF IsOpen
    <3>6. ToCome(f, Y)
      BY <3>2, <3>3, <3>4, <3>5 DEF ToCome
    <3> QED
      BY <2>4, <3>1, <3>6
  <2> QED
    BY <1>3, <2>2, <2>3, <2>4
<1>17. TasksToCome' /\ FramesToCome'
  <2>1. \A v \in Worker : \A j \in 1..Len(stack'[v]) : ToCome(stack'[v][j], Y)
    BY <1>1, <1>16 DEF Depth
  <2>2. \A p \in Node : runs'[p] = 0 => runs[p] = 0
    BY <1>1
  <2> QED
    BY <1>14, <1>15, <2>1, <2>2, ToComeAfter DEF Owners
<1> QED
  BY <1>1, <1>8, <1>13, <1>17 DEF Owners

\* Every step keeps each task in one place.
LEMMA OwnersStep ==
    ASSUME Inv, TypeOK', Lefts', NEW w \in Worker, Step(w) \/ Heartbeat(w)
    PROVE  Owners'
<1>1. TypeOK /\ Lefts /\ Shape /\ TokensSpent /\ Owners /\ Jobs
  BY DEF Inv
<1>2. CASE Work(w) \/ OpenSlot(w) \/ Close(w)
  BY <1>1, <1>2, OwnersWork, OwnersOpenSlot, OwnersClose
<1>3. CASE SyncFinished(w) \/ SyncWait(w) \/ EndWait(w)
  BY <1>1, <1>3, OwnersSyncs
<1>4. CASE CallBody(w) \/ RunInline(w)
  BY <1>1, <1>4, OwnersCallBody, OwnersRunInline
<1>5. CASE SyncUnstolen(w)
  BY <1>1, <1>5, OwnersSyncUnstolen
<1>6. CASE StartJob(w) \/ FinishJob(w)
  BY <1>1, <1>6, OwnersStartJob, OwnersFinishJob
<1>7. CASE Return(w)
  BY <1>1, <1>7, OwnersReturn
<1>8. CASE EagerPromote(w) \/ PromoteFront(w)
  BY <1>1, <1>8, PromotesIs, OwnersPromotes
<1>9. CASE EndHeartbeat(w) \/ Heartbeat(w)
  BY <1>1, <1>9, OwnersSame DEF EndHeartbeat, Heartbeat
<1> QED
  BY <1>2, <1>3, <1>4, <1>5, <1>6, <1>7, <1>8, <1>9 DEF Step

-----------------------------------------------------------------------------
(* What the deques hold.                                                   *)

\* The slots of the frames aside of a step at w's frames above the m-th.
SlotsKept(w, m) ==
    \A v \in Worker : \A k \in 1..Len(stack[v]) :
        (v # w \/ k <= m) /\ IsTask(stack[v][k]) =>
            promoted'[stack[v][k].node] = promoted[stack[v][k].node]

LEMMA SlotsKeptAt ==
    ASSUME TypeOK, OneFrame, NEW w \in Worker, NEW k \in Depth(w), IsTask(stack[w][k]),
           \A c \in Node : c # stack[w][k].node => promoted'[c] = promoted[c]
    PROVE  SlotsKept(w, k - 1)
<1> SUFFICES ASSUME NEW v \in Worker, NEW j \in 1..Len(stack[v]), v # w \/ j <= k - 1,
                    IsTask(stack[v][j])
             PROVE  promoted'[stack[v][j].node] = promoted[stack[v][j].node]
  BY DEF SlotsKept
<1>1. stack[v] \in Seq(FrameType)
  BY DEF TypeOK
<1>2. stack[v][j] \in FrameType
  BY <1>1
<1>3. k \in Nat /\ j \in Nat
  BY DEF Depth
<1>4. ~(v = w /\ j = k)
  BY <1>3
<1>5. stack[v][j].node # stack[w][k].node
  BY <1>4 DEF OneFrame, Depth
<1> QED
  BY <1>2, <1>5 DEF FrameType

LEMMA PendingStill ==
    ASSUME NEW v, NEW k, stack'[v][k] = stack[v][k],
           IsTask(stack[v][k]) => promoted'[stack[v][k].node] = promoted[stack[v][k].node]
    PROVE  Pending(stack[v][k])' = Pending(stack[v][k])
<1>1. PICK f : f = stack[v][k]
  OBVIOUS
<1>2. Pending(f)' = Pending(f)
  BY <1>1 DEF Pending, IsOpen, IsTask
<1>3. Pending(stack[v][k])' = Pending(f)'
  BY <1>1 DEF Pending, IsOpen
<1> QED
  BY <1>1, <1>2, <1>3

LEMMA OwedOther ==
    ASSUME NEW w, NEW m, SlotsKept(w, m), NEW v \in Worker, v # w, stack'[v] = stack[v]
    PROVE  Owed(v)' = Owed(v)
<1>1. \A k \in 1..Len(stack[v]) : Pending(stack[v][k])' = Pending(stack[v][k])
  BY PendingStill DEF SlotsKept
<1> QED
  BY <1>1, OwedSame

LEMMA BelowSame ==
    ASSUME TypeOK, NEW w \in Worker, NEW m, Kept(w, m), SlotsKept(w, m)
    PROVE  SamePending(w, m)
<1> SUFFICES ASSUME NEW k \in 1..m PROVE Pending(stack[w][k])' = Pending(stack[w][k])
  BY DEF SamePending
<1>1. /\ m \in Nat /\ k \in 1..Len(stack[w]) /\ stack'[w][k] = stack[w][k] /\ k <= m
  BY KeptIs
<1> QED
  BY <1>1, PendingStill DEF SlotsKept

LEMMA EndsNothing ==
    ASSUME NEW s \in Seq(Seq(Node))
    PROVE  Ends(<<>>, FlattenSeq(s))
<1>1. PICK g \in [0..Len(s) -> Seq(Node)] : FlattenSeq(s) = g[Len(s)]
  BY FlattenSeqIs
<1>2. Len(s) \in 0..Len(s)
  OBVIOUS
<1>3. FlattenSeq(s) \in Seq(Node)
  BY <1>1, <1>2
<1>4. Len(FlattenSeq(s)) \in Nat
  BY <1>3
<1> QED
  BY <1>4 DEF Ends

LEMMA EmptyEnds ==
    ASSUME TypeOK', Lefts', NEW w \in Worker, deque'[w] = <<>>
    PROVE  Ends(deque'[w], FlattenSeq(Owed(w)'))
<1>1. Owed(w)' \in Seq(Seq(Node))
  BY OwedIsNext DEF OwedOK
<1> QED
  BY <1>1, EndsNothing

\* A worker that owes nothing has an empty deque.
LEMMA NothingOwed ==
    ASSUME TypeOK, Lefts, Jobs, NEW w \in Worker,
           \A k \in Depth(w) : Waits(w, k) \/ Pending(stack[w][k]) = <<>>
    PROVE  deque[w] = <<>>
<1> DEFINE s == Owed(w)
<1>1. s \in Seq(Seq(Node)) /\ \A k \in 1..Len(s) : s[k] = <<>>
  BY OwedIs DEF OwedOK, Depth
<1>2. FlattenSeq(s) = <<>>
  <2> HIDE DEF s
  <2> QED
    BY <1>1, FlattenEmpty
<1>3. deque[w] \in Seq(Node)
  BY DEF TypeOK
<1>4. Len(deque[w]) <= 0
  BY <1>2 DEF Jobs, Ends
<1> QED
  BY <1>3, <1>4

\* While it waits, or has nothing to run, and when it has finished a job.
LEMMA IdleEmpty ==
    ASSUME TypeOK, Lefts, Shape, Jobs, NEW w \in Worker,
           stack[w] = <<>> \/ Top(w).at \in {"wait", "finish"}
    PROVE  deque[w] = <<>>
<1>1. ASSUME NEW k \in Depth(w) PROVE Waits(w, k) \/ Pending(stack[w][k]) = <<>>
  <2> DEFINE n == Len(stack[w])
  <2>1. stack[w] # <<>> /\ n \in Nat /\ n > 0 /\ Top(w) = stack[w][n] /\ k \in 1..n
    BY TopIs DEF TypeOK, Depth
  <2>2. CASE Top(w).at = "wait"
    <3>1. n \in k..n
      BY <2>1
    <3> QED
      BY <2>1, <2>2, <3>1 DEF Waits
  <2>3. CASE Top(w).at = "finish"
    <3>1. CASE k = n
      BY <2>1, <2>3, <3>1 DEF Pending, IsOpen
    <3>2. CASE k # n
      <4>1. n \in Depth(w) /\ n # 1 /\ n - 1 \in k..n
        BY <2>1, <3>2 DEF Depth
      <4>2. stack[w][n - 1].at = "wait"
        BY <2>1, <2>3, <4>1 DEF Shape, IsTask
      <4> QED
        BY <4>1, <4>2 DEF Waits
    <3> QED
      BY <3>1, <3>2
  <2> QED
    BY <2>1, <2>2, <2>3
<1> QED
  BY <1>1, NothingOwed

LEMMA EndsTail ==
    ASSUME NEW S, NEW d \in Seq(S), NEW s, Len(s) \in Nat, d # <<>>, Ends(d, s)
    PROVE  Ends(Tail(d), s)
<1>1. /\ Len(d) \in Nat /\ Len(d) > 0 /\ Len(Tail(d)) = Len(d) - 1
      /\ \A k \in 1..(Len(d) - 1) : Tail(d)[k] = d[k + 1]
  OBVIOUS
<1>2. Len(d) <= Len(s) /\ \A k \in 1..Len(d) : d[k] = s[Len(s) - Len(d) + k]
  BY DEF Ends
<1>3. Len(d) - 1 <= Len(s)
  BY <1>1, <1>2
<1>4. ASSUME NEW k \in 1..(Len(d) - 1)
      PROVE  Tail(d)[k] = s[Len(s) - (Len(d) - 1) + k]
  <2>1. k + 1 \in 1..Len(d) /\ Len(s) - (Len(d) - 1) + k = Len(s) - Len(d) + (k + 1)
    BY <1>1
  <2> QED
    BY <1>1, <1>2, <2>1
<1> QED
  BY <1>1, <1>3, <1>4 DEF Ends

LEMMA JoinedLen ==
    ASSUME NEW S, NEW x \in Seq(S), NEW y \in Seq(S)
    PROVE  Len(x \o y) = Len(x) + Len(y)
OBVIOUS

\* z is y without its last member.
LEMMA EndsFront ==
    ASSUME NEW S, NEW d \in Seq(S), NEW x \in Seq(S), NEW y \in Seq(S), NEW z \in Seq(S),
           d # <<>>, Ends(d, x \o y), Len(y) > 0, Len(z) = Len(y) - 1,
           \A k \in 1..Len(z) : z[k] = y[k]
    PROVE  Ends(Front(d), x \o z)
<1>1. /\ Len(d) \in Nat /\ Len(x) \in Nat /\ Len(y) \in Nat
      /\ Len(x \o y) = Len(x) + Len(y) /\ Len(x \o z) = (Len(x) + Len(y)) - 1
      /\ Len(d) > 0
  <2>1. Len(d) \in Nat /\ Len(x) \in Nat /\ Len(y) \in Nat /\ Len(z) \in Nat /\ Len(d) > 0
    OBVIOUS
  <2>2. Len(x \o y) = Len(x) + Len(y)
    OBVIOUS
  <2>3. Len(x \o z) = Len(x) + Len(z)
    BY JoinedLen
  <2> QED
    BY <2>1, <2>2, <2>3
<1>2. /\ Len(d) <= Len(x) + Len(y)
      /\ \A k \in 1..Len(d) : d[k] = (x \o y)[(Len(x) + Len(y)) - Len(d) + k]
  BY <1>1 DEF Ends
<1>3. Len(Front(d)) = Len(d) - 1 /\ \A k \in 1..(Len(d) - 1) : Front(d)[k] = d[k]
  BY FrontIs
<1>4. Len(d) - 1 <= (Len(x) + Len(y)) - 1
  BY <1>1, <1>2
<1>5. ASSUME NEW k \in 1..(Len(d) - 1)
      PROVE  Front(d)[k] = (x \o z)[((Len(x) + Len(y)) - 1) - (Len(d) - 1) + k]
  <2> DEFINE i == (Len(x) + Len(y)) - Len(d) + k
  <2>1. /\ k \in 1..Len(d) /\ ((Len(x) + Len(y)) - 1) - (Len(d) - 1) + k = i
        /\ i \in 1..((Len(x) + Len(y)) - 1)
    BY <1>1, <1>2
  <2>2. Front(d)[k] = (x \o y)[i]
    BY <1>2, <1>3, <2>1
  <2> HIDE DEF i
  <2>3. CASE i <= Len(x)
    <3>1. i \in 1..Len(x)
      BY <1>1, <2>1, <2>3
    <3>2. (x \o y)[i] = x[i] /\ (x \o z)[i] = x[i]
      BY <3>1
    <3> QED
      BY <2>1, <2>2, <3>2
  <2>4. CASE i > Len(x)
    <3>1. /\ i \in (Len(x) + 1)..(Len(x) + Len(y)) /\ i \in (Len(x) + 1)..(Len(x) + Len(z))
          /\ i - Len(x) \in 1..Len(z)
      BY <1>1, <2>1, <2>4
    <3>2. (x \o y)[i] = y[i - Len(x)]
      BY <1>1, <3>1
    <3>3. (x \o z)[i] = z[i - Len(x)]
      BY <1>1, <3>1
    <3> QED
      BY <2>1, <2>2, <3>1, <3>2, <3>3
  <2> QED
    BY <1>1, <2>1, <2>3, <2>4
<1> QED
  BY <1>1, <1>3, <1>4, <1>5 DEF Ends

\* The others' deques: as they were, or robbed of the oldest job.
LEMMA JobsOthers ==
    ASSUME TypeOK, TypeOK', Lefts', Jobs, NEW w \in Worker, NEW m, Kept(w, m), SlotsKept(w, m),
           NEW v \in Worker, v # w,
           deque'[v] = deque[v] \/ (deque[v] # <<>> /\ deque'[v] = Tail(deque[v]))
    PROVE  Ends(deque'[v], FlattenSeq(Owed(v)'))
<1>1. stack'[v] = stack[v]
  BY DEF Kept
<1>2. Owed(v)' = Owed(v)
  BY <1>1, OwedOther
<1> DEFINE s == FlattenSeq(Owed(v))
<1>3. Ends(deque[v], s)
  BY DEF Jobs
<1>4. Len(s) \in Nat
  <2> DEFINE o == Owed(v)
  <2>1. o \in Seq(Seq(Node))
    BY <1>2, OwedIsNext DEF OwedOK
  <2> HIDE DEF o
  <2>2. PICK g \in [0..Len(o) -> Seq(Node)] : FlattenSeq(o) = g[Len(o)]
    BY <2>1, FlattenSeqIs
  <2>3. Len(o) \in 0..Len(o)
    BY <2>1
  <2>4. FlattenSeq(o) \in Seq(Node)
    BY <2>2, <2>3
  <2> QED
    BY <2>4 DEF o
<1>5. deque[v] \in Seq(Node)
  BY DEF TypeOK
<1> HIDE DEF s
<1>6. Ends(deque'[v], s)
  BY <1>3, <1>4, <1>5, EndsTail
<1> QED
  BY <1>2, <1>6 DEF s

\* The deque of a worker whose step changes nothing that is pending.
LEMMA JobsTop ==
    ASSUME TypeOK, TypeOK', Lefts, Lefts', Jobs, NEW w \in Worker, NEW k,
           Kept(w, k - 1), SlotsKept(w, k - 1), QuietAbove(w, k), QuietAbove(w, k)',
           Pending(stack[w][k])' = Pending(stack[w][k]), deque'[w] = deque[w]
    PROVE  Ends(deque'[w], FlattenSeq(Owed(w)'))
<1>1. SamePending(w, k - 1)
  BY BelowSame
<1>2. PICK x \in Seq(Node) :
        /\ FlattenSeq(Owed(w)) = x \o Pending(stack[w][k])
        /\ FlattenSeq(Owed(w)') = x \o Pending(stack[w][k])'
  BY <1>1, OwedAround
<1> QED
  BY <1>2 DEF Jobs

LEMMA JobsNext ==
    ASSUME \A v \in Worker : Ends(deque'[v], FlattenSeq(Owed(v)'))
    PROVE  Jobs'
BY DEF Jobs, Ends

\* Where a step changes the frame at k and leaves at most a new task above it.
LEMMA QuietBefore ==
    ASSUME TypeOK, NEW w \in Worker, NEW n, n = Len(stack[w]), stack[w] # <<>>,
           Top(w).at # "wait"
    PROVE  QuietAbove(w, n)
<1>1. n \in Nat /\ n > 0 /\ Top(w) = stack[w][n]
  BY TopIs
<1>2. n \in 1..n /\ (\A j \in n..n : j = n) /\ (\A j \in (n + 1)..n : FALSE)
  BY <1>1
<1> QED
  BY <1>1, <1>2 DEF QuietAbove

LEMMA QuietAfter ==
    ASSUME NEW w \in Worker, NEW n \in Nat, n > 0, stack'[w][n].at # "wait",
           \/ Len(stack'[w]) = n
           \/ Len(stack'[w]) = n + 1 /\ stack'[w][n + 1].at = "enter"
    PROVE  QuietAbove(w, n)'
<1>1. CASE Len(stack'[w]) = n
  <2>1. n \in 1..n /\ (\A j \in n..n : j = n) /\ (\A j \in (n + 1)..n : FALSE)
    OBVIOUS
  <2> QED
    BY <1>1, <2>1 DEF QuietAbove
<1>2. CASE Len(stack'[w]) = n + 1 /\ stack'[w][n + 1].at = "enter"
  <2>1. n \in 1..(n + 1) /\ (\A j \in n..(n + 1) : j = n \/ j = n + 1) /\ (\A j \in (n + 1)..(n + 1) : j = n + 1)
    OBVIOUS
  <2>2. Pending(stack[w][n + 1])' = <<>>
    BY <1>2 DEF Pending, IsOpen
  <2> QED
    BY <1>2, <2>1, <2>2 DEF QuietAbove
<1> QED
  BY <1>1, <1>2

\* The steps of the innermost frame that pend what it had pending.
LEMMA JobsMoves ==
    ASSUME TypeOK, TypeOK', Lefts, Lefts', Jobs, NEW w \in Worker, stack[w] # <<>>,
           NEW n, n = Len(stack[w]), Top(w).at # "wait", Kept(w, n - 1), SlotsKept(w, n - 1),
           stack'[w][n].at # "wait",
           \/ Len(stack'[w]) = n
           \/ Len(stack'[w]) = n + 1 /\ stack'[w][n + 1].at = "enter",
           Pending(stack[w][n])' = Pending(Top(w)), deque' = deque
    PROVE  Jobs'
<1>1. n \in Nat /\ n > 0 /\ Top(w) = stack[w][n]
  BY TopIs
<1>2. QuietAbove(w, n) /\ QuietAbove(w, n)'
  BY <1>1, QuietBefore, QuietAfter
<1>3. Pending(stack[w][n])' = Pending(stack[w][n])
  BY <1>1
<1>4. Ends(deque'[w], FlattenSeq(Owed(w)'))
  BY <1>2, <1>3, JobsTop
<1>5. \A v \in Worker : v # w => Ends(deque'[v], FlattenSeq(Owed(v)'))
  BY JobsOthers
<1> QED
  BY <1>4, <1>5, JobsNext

LEMMA SlotsSame ==
    ASSUME promoted' = promoted, NEW w, NEW m
    PROVE  SlotsKept(w, m)
BY DEF SlotsKept

\* What frame f has pending after the step.
PendingNext(f) ==
    IF IsOpen(f) /\ promoted'[f.node] THEN Spawned[f.node]
    ELSE IF f.at \in {"sync", "wait"} THEN SubSeq(Spawned[f.node], 1, f.left)
    ELSE <<>>

LEMMA PendingNextIs ==
    ASSUME NEW w, NEW k
    PROVE  Pending(stack[w][k])' = PendingNext(stack'[w][k])
BY DEF Pending, PendingNext, IsOpen

LEMMA WholeSeq ==
    ASSUME NEW S, NEW s \in Seq(S)
    PROVE  SubSeq(s, 1, Len(s)) = s
OBVIOUS

LEMMA JobsQuietSteps ==
    ASSUME TypeOK, TypeOK', Lefts, Lefts', Jobs, Owners, NEW w \in Worker,
           Work(w) \/ OpenSlot(w) \/ CallBody(w) \/ Close(w) \/ RunInline(w)
    PROVE  Jobs'
<1>1. PICK n : n = Len(stack[w])
  OBVIOUS
<1> DEFINE f == Top(w)
           g == stack'[w][n]
<1>2. /\ stack[w] # <<>> /\ Kept(w, n - 1) /\ g.node = f.node /\ f.at # "wait"
      /\ \/ Len(stack'[w]) = n
         \/ Len(stack'[w]) = n + 1 /\ stack'[w][n + 1].at = "enter"
  <2>1. CASE Work(w)
    BY <1>1, <2>1, WorkStep, TopIs DEF Moves
  <2>2. CASE OpenSlot(w)
    BY <1>1, <2>2, OpenSlotStep, TopIs DEF Moves
  <2>3. CASE CallBody(w)
    BY <1>1, <2>3, CallBodyStep, TopIs DEF Calls
  <2>4. CASE Close(w)
    BY <1>1, <2>4, CloseStep, TopIs DEF Moves
  <2>5. CASE RunInline(w)
    BY <1>1, <2>5, RunInlineStep, TopIs DEF Calls
  <2> QED
    BY <2>1, <2>2, <2>3, <2>4, <2>5
<1>3. n \in Nat /\ n \in Depth(w) /\ f = stack[w][n] /\ f \in FrameType
  BY <1>1, <1>2, TopIs DEF Depth
<1> HIDE DEF f, g
<1>4. g.at # "wait" /\ PendingNext(g) = Pending(f)
  <2>1. CASE Work(w)
    <3>1. f.at = "enter" /\ g.at = "ret"
      BY <1>1, <2>1, WorkStep DEF Moves, f, g
    <3> QED
      BY <3>1 DEF Pending, PendingNext, IsOpen
  <2>2. CASE OpenSlot(w)
    <3>1. f.at = "enter" /\ g.at = "test"
      BY <1>1, <2>2, OpenSlotStep DEF Moves, f, g
    <3>2. promoted'[f.node] = FALSE
      BY <1>3, <2>2 DEF OpenSlot, f, TypeOK, FrameType
    <3> QED
      BY <1>2, <3>1, <3>2 DEF Pending, PendingNext, IsOpen
  <2>3. CASE CallBody(w)
    <3>1. f.at = "test" /\ g.at = "body" /\ promoted' = promoted
      BY <1>1, <2>3, CallBodyStep DEF Calls, f, g, CallBody
    <3> QED
      BY <1>2, <3>1 DEF Pending, PendingNext, IsOpen
  <2>4. CASE Close(w)
    <3>1. /\ f.at = "close" /\ f.node \in Fork /\ promoted' = promoted
          /\ g.at = IF promoted[f.node] THEN "sync" ELSE "inline"
          /\ g.left = Len(Spawned[f.node])
      BY <1>1, <2>4, CloseStep DEF Moves, f, g, Close
    <3>2. SubSeq(Spawned[f.node], 1, Len(Spawned[f.node])) = Spawned[f.node]
      BY <3>1, OfAFork, WholeSeq
    <3> QED
      BY <1>2, <3>1, <3>2 DEF Pending, PendingNext, IsOpen
  <2>5. CASE RunInline(w)
    <3>1. f.at = "inline" /\ g.at = "inline"
      BY <1>1, <2>5, RunInlineStep DEF Calls, f, g
    <3> QED
      BY <3>1 DEF Pending, PendingNext, IsOpen
  <2> QED
    BY <2>1, <2>2, <2>3, <2>4, <2>5
<1>5. SlotsKept(w, n - 1)
  <2>1. CASE OpenSlot(w)
    <3>1. IsTask(stack[w][n]) /\ promoted' = [promoted EXCEPT ![stack[w][n].node] = FALSE]
      BY <1>3, <2>1 DEF OpenSlot, At, IsTask, f
    <3>2. \A c \in Node : c # stack[w][n].node => promoted'[c] = promoted[c]
      BY <3>1 DEF TypeOK
    <3> QED
      BY <1>3, <3>1, <3>2, SlotsKeptAt DEF Owners
  <2>2. CASE ~OpenSlot(w)
    BY <2>2, SlotsSame DEF Work, CallBody, Close, RunInline
  <2> QED
    BY <2>1, <2>2
<1>6. deque' = deque
  BY DEF Work, OpenSlot, CallBody, Close, RunInline
<1>7. Pending(stack[w][n])' = Pending(f)
  BY <1>4, PendingNextIs DEF g
<1> QED
  BY <1>1, <1>2, <1>4, <1>5, <1>6, <1>7, JobsMoves DEF f, g

\* The steps that w takes with an empty deque, and nobody's deque changes.
LEMMA JobsEmptySteps ==
    ASSUME TypeOK, TypeOK', Lefts, Lefts', Shape, Jobs, NEW w \in Worker,
           SyncFinished(w) \/ SyncWait(w) \/ EndWait(w) \/ FinishJob(w)
    PROVE  Jobs'
<1>1. deque' = deque /\ promoted' = promoted
  BY DEF SyncFinished, SyncWait, EndWait, FinishJob
<1>2. deque[w] = <<>>
  <2>1. CASE SyncFinished(w) \/ SyncWait(w)
    BY <2>1 DEF SyncFinished, SyncWait
  <2>2. CASE EndWait(w) \/ FinishJob(w)
    BY <2>2, EndWaitStep, FinishJobStep, IdleEmpty
  <2> QED
    BY <2>1, <2>2
<1>3. Kept(w, Len(stack[w]) - 1)
  BY SyncFinishedStep, SyncWaitStep, EndWaitStep, FinishJobStep DEF Moves
<1>4. SlotsKept(w, Len(stack[w]) - 1)
  BY <1>1, SlotsSame
<1>5. Ends(deque'[w], FlattenSeq(Owed(w)'))
  BY <1>1, <1>2, EmptyEnds
<1>6. \A v \in Worker : v # w => Ends(deque'[v], FlattenSeq(Owed(v)'))
  BY <1>1, <1>3, <1>4, JobsOthers
<1> QED
  BY <1>5, <1>6, JobsNext

LEMMA JobsStartJob ==
    ASSUME TypeOK, TypeOK', Lefts, Lefts', Shape, Jobs, NEW w \in Worker, StartJob(w)
    PROVE  Jobs'
<1>1. PICK v \in Worker :
        /\ deque[v] # <<>>
        /\ deque' = [deque EXCEPT ![v] = IF v = w THEN Front(@) ELSE Tail(@)]
        /\ Kept(w, Len(stack[w]))
  BY StartJobStep
<1>2. deque[w] = <<>>
  BY IdleEmpty DEF StartJob, Looking, At
<1>3. v # w /\ deque' = [deque EXCEPT ![v] = Tail(deque[v])]
  BY <1>1, <1>2
<1>4. SlotsKept(w, Len(stack[w]))
  BY SlotsSame DEF StartJob
<1>5. deque'[w] = <<>>
  BY <1>2, <1>3 DEF TypeOK
<1>6. Ends(deque'[w], FlattenSeq(Owed(w)'))
  BY <1>5, EmptyEnds
<1>7. \A u \in Worker : deque'[u] = deque[u] \/ (deque[u] # <<>> /\ deque'[u] = Tail(deque[u]))
  BY <1>1, <1>3 DEF TypeOK
<1>8. \A u \in Worker : u # w => Ends(deque'[u], FlattenSeq(Owed(u)'))
  BY <1>1, <1>4, <1>7, JobsOthers
<1> QED
  BY <1>6, <1>8, JobsNext

LEMMA JobsSyncUnstolen ==
    ASSUME TypeOK, TypeOK', Lefts, Lefts', Jobs, NEW w \in Worker, SyncUnstolen(w)
    PROVE  Jobs'
<1>1. PICK n : n = Len(stack[w])
  OBVIOUS
<1>2. /\ stack[w] # <<>> /\ Top(w).at = "sync" /\ Top(w).left > 0 /\ deque[w] # <<>>
      /\ Kept(w, n - 1) /\ Len(stack'[w]) = n + 1
      /\ stack'[w][n].node = Top(w).node /\ stack'[w][n].at = "sync"
      /\ stack'[w][n].left = Top(w).left - 1
      /\ stack'[w][n + 1].at = "enter"
  BY <1>1, SyncUnstolenStep, TopIs DEF Calls
<1>3. n \in Nat /\ n > 0 /\ Top(w) = stack[w][n]
  BY <1>1, <1>2, TopIs
<1>4. promoted' = promoted /\ deque' = [deque EXCEPT ![w] = Front(@)]
  BY DEF SyncUnstolen
<1>5. SlotsKept(w, n - 1)
  BY <1>4, SlotsSame
<1>6. SamePending(w, n - 1)
  BY <1>2, <1>5, BelowSame
<1>7. QuietAbove(w, n) /\ QuietAbove(w, n)'
  BY <1>1, <1>2, <1>3, QuietBefore, QuietAfter
<1>8. /\ Pending(stack[w][n]) \in Seq(Node) /\ Pending(stack[w][n])' \in Seq(Node)
      /\ \E x \in Seq(Node) :
           /\ FlattenSeq(Owed(w)) = x \o Pending(stack[w][n])
           /\ FlattenSeq(Owed(w)') = x \o Pending(stack[w][n])'
  BY <1>2, <1>6, <1>7, OwedAround
<1> DEFINE q == Top(w).node
           y == SubSeq(Spawned[q], 1, Top(w).left)
           z == SubSeq(Spawned[q], 1, Top(w).left - 1)
<1>9. Pending(stack[w][n]) = y
  BY <1>2, <1>3 DEF Pending, IsOpen
<1>10. Pending(stack[w][n])' = z
  BY <1>2, PendingNextIs DEF PendingNext, IsOpen
<1>11. q \in Fork /\ Top(w).left \in 1..Len(Spawned[q])
  BY <1>2, AwaitedIs
<1>12. /\ Spawned[q] \in Seq(Node) /\ Top(w).left \in Nat /\ Top(w).left - 1 \in Nat
       /\ Top(w).left <= Len(Spawned[q]) /\ Top(w).left - 1 <= Len(Spawned[q])
  BY <1>2, <1>11, OfAFork
<1>13. /\ y \in Seq(Node) /\ Len(y) = Top(w).left
       /\ \A k \in 1..Top(w).left : y[k] = Spawned[q][k]
  BY <1>12, FirstsAre
<1>14. /\ z \in Seq(Node) /\ Len(z) = Top(w).left - 1
       /\ \A k \in 1..(Top(w).left - 1) : z[k] = Spawned[q][k]
  <2> DEFINE l == Top(w).left - 1
  <2>1. l \in Nat /\ l <= Len(Spawned[q])
    BY <1>12
  <2> HIDE DEF l
  <2>2. /\ SubSeq(Spawned[q], 1, l) \in Seq(Node) /\ Len(SubSeq(Spawned[q], 1, l)) = l
        /\ \A k \in 1..l : SubSeq(Spawned[q], 1, l)[k] = Spawned[q][k]
    BY <1>12, <2>1, FirstsAre
  <2> QED
    BY <2>2 DEF l
<1> HIDE DEF y, z
<1>15. PICK x \in Seq(Node) :
         FlattenSeq(Owed(w)) = x \o y /\ FlattenSeq(Owed(w)') = x \o z
  BY <1>8, <1>9, <1>10
<1>16. deque[w] \in Seq(Node) /\ deque'[w] = Front(deque[w])
  BY <1>4 DEF TypeOK
<1>17. Ends(deque[w], x \o y)
  BY <1>15 DEF Jobs
<1>18. /\ Len(y) > 0 /\ Len(z) = Len(y) - 1
       /\ \A k \in 1..Len(z) : z[k] = y[k]
  <2>1. \A k \in 1..(Top(w).left - 1) : k \in 1..Top(w).left
    BY <1>12
  <2> QED
    BY <1>2, <1>13, <1>14, <2>1
<1>19. Ends(Front(deque[w]), x \o z)
  BY <1>2, <1>13, <1>14, <1>16, <1>17, <1>18, EndsFront
<1>20. Ends(deque'[w], FlattenSeq(Owed(w)'))
  BY <1>15, <1>16, <1>19
<1>21. \A v \in Worker : v # w => deque'[v] = deque[v]
  BY <1>4 DEF TypeOK
<1>22. \A v \in Worker : v # w => Ends(deque'[v], FlattenSeq(Owed(v)'))
  BY <1>2, <1>5, <1>21, JobsOthers
<1> QED
  BY <1>20, <1>22, JobsNext

LEMMA JobsReturn ==
    ASSUME TypeOK, TypeOK', Lefts, Lefts', Shape, Jobs, NEW w \in Worker, Return(w)
    PROVE  Jobs'
<1>1. deque' = deque /\ promoted' = promoted
  BY DEF Return
<1>2. /\ stack[w] # <<>> /\ Top(w) \in FrameType
      /\ Top(w).at = "ret" \/ (Top(w).at \in {"sync", "inline"} /\ Top(w).left = 0)
      /\ Len(stack[w]) \in Nat /\ Len(stack[w]) > 0
      /\ Top(w) = stack[w][Len(stack[w])]
  BY ReturnStep, TopIs
<1>3. Pending(Top(w)) = <<>>
  <2>1. Spawned[Top(w).node] \in Seq(Node)
    BY <1>2, ProgramAssumption DEF FrameType
  <2>2. Len(Spawned[Top(w).node]) \in Nat
    BY <2>1
  <2>3. /\ SubSeq(Spawned[Top(w).node], 1, 0) \in Seq(Node)
        /\ Len(SubSeq(Spawned[Top(w).node], 1, 0)) = 0
    BY <2>1, <2>2, FirstsAre
  <2>4. SubSeq(Spawned[Top(w).node], 1, 0) = <<>>
    BY <2>3
  <2> QED
    BY <1>2, <2>4 DEF Pending, IsOpen
<1>4. CASE Len(stack[w]) = 1
  <2>1. Kept(w, 0)
    BY <1>4, ReturnEffect
  <2>2. \A k \in Depth(w) : Pending(stack[w][k]) = <<>>
    <3>1. \A k \in 1..1 : k = 1
      OBVIOUS
    <3> QED
      BY <1>2, <1>3, <1>4, <3>1 DEF Depth
  <2>3. deque[w] = <<>>
    BY <2>2, NothingOwed
  <2>4. Ends(deque'[w], FlattenSeq(Owed(w)'))
    BY <1>1, <2>3, EmptyEnds
  <2>5. SlotsKept(w, 0)
    BY <1>1, SlotsSame
  <2>6. \A v \in Worker : v # w => Ends(deque'[v], FlattenSeq(Owed(v)'))
    BY <1>1, <2>1, <2>5, JobsOthers
  <2> QED
    BY <2>4, <2>6, JobsNext
<1>5. CASE Len(stack[w]) # 1
  <2>1. PICK n : n = Len(stack[w]) - 1
    OBVIOUS
  <2> DEFINE f == stack[w][n]
             g == stack'[w][n]
  <2>2. /\ Kept(w, n - 1) /\ n > 0 /\ Len(stack'[w]) = n
        /\ g.node = f.node /\ g.left = f.left
        /\ g.at = IF f.at = "body" THEN "close" ELSE IF f.at = "job" THEN "finish" ELSE f.at
    BY <1>5, <2>1, ReturnEffect
  <2>3. /\ n \in Nat /\ n \in Depth(w) /\ n + 1 = Len(stack[w]) /\ n # n + 1
        /\ n + 1 # 1 /\ (n + 1) - 1 = n /\ n + 1 \in Depth(w)
    BY <1>2, <2>1, <2>2 DEF Depth
  <2>4. IsTask(Top(w)) /\ Top(w) = stack[w][n + 1]
    BY <1>2, <2>3 DEF IsTask
  <2>5. f.at # "wait" /\ f.at \in Calling
    BY <2>3, <2>4 DEF Shape
  <2>6. QuietAbove(w, n)
    <3>1. \A j \in n..(n + 1) : j = n \/ j = n + 1
      BY <2>3
    <3>2. \A j \in (n + 1)..(n + 1) : j = n + 1
      BY <2>3
    <3>3. stack[w][n + 1].at # "wait"
      BY <1>2, <2>4
    <3> QED
      BY <1>3, <2>3, <2>4, <2>5, <3>1, <3>2, <3>3 DEF QuietAbove, Depth
  <2>7. QuietAbove(w, n)'
    <3>1. g.at # "wait"
      BY <2>2, <2>5
    <3> QED
      BY <2>2, <2>3, <3>1, QuietAfter
  <2>8. Pending(stack[w][n])' = Pending(stack[w][n])
    <3> HIDE DEF f, g
    <3>1. PendingNext(g) = Pending(f)
      BY <1>1, <2>2, <2>5 DEF PendingNext, Pending, IsOpen, Calling
    <3>2. Pending(stack[w][n])' = PendingNext(g)
      BY PendingNextIs DEF g
    <3> QED
      BY <3>1, <3>2 DEF f
  <2>9. SlotsKept(w, n - 1)
    BY <1>1, SlotsSame
  <2>10. Ends(deque'[w], FlattenSeq(Owed(w)'))
    BY <1>1, <2>2, <2>6, <2>7, <2>8, <2>9, JobsTop
  <2>11. \A v \in Worker : v # w => Ends(deque'[v], FlattenSeq(Owed(v)'))
    BY <1>1, <2>2, <2>9, JobsOthers
  <2> QED
    BY <2>10, <2>11, JobsNext
<1> QED
  BY <1>4, <1>5

LEMMA JobsPromotes ==
    ASSUME TypeOK, TypeOK', Lefts, Lefts', Owners, PromotedOutsideIn, Jobs,
           NEW w \in Worker, NEW k \in Depth(w), Promotes(w, k)
    PROVE  Jobs'
<1>1. PICK q : q = stack[w][k].node
  OBVIOUS
<1>2. /\ q \in Fork /\ IsTask(stack[w][k])
      /\ promoted' = [promoted EXCEPT ![q] = TRUE]
      /\ deque' = [deque EXCEPT ![w] = deque[w] \o Spawned[q]]
      /\ stack' = stack
      /\ IsOpen(stack[w][k]) /\ ~promoted[q]
  BY <1>1, PromotesFork DEF Promotes
<1>3. /\ Len(stack[w]) \in Nat /\ k \in Nat /\ k \in 1..Len(stack[w])
      /\ k - 1 \in 0..Len(stack[w]) /\ k - 1 <= Len(stack[w])
  BY DEF TypeOK, Depth
<1>4. Kept(w, k - 1)
  BY <1>2, <1>3 DEF Kept, TypeOK
<1>5. SlotsKept(w, k - 1)
  <2>1. \A c \in Node : c # stack[w][k].node => promoted'[c] = promoted[c]
    BY <1>1, <1>2 DEF TypeOK
  <2> QED
    BY <1>2, <2>1, SlotsKeptAt DEF Owners
<1>6. ASSUME NEW j \in (k + 1)..Len(stack[w])
      PROVE  /\ stack[w][j].at # "wait" /\ Pending(stack[w][j]) = <<>>
             /\ Pending(stack[w][j])' = <<>>
  <2>1. j \in Depth(w) /\ k < j /\ j # k
    BY <1>3 DEF Depth
  <2>2. /\ stack[w][j].at \notin {"sync", "wait"}
        /\ ~(IsOpen(stack[w][j]) /\ promoted[stack[w][j].node])
    BY <1>1, <1>2, <2>1 DEF PromotedOutsideIn
  <2>3. Pending(stack[w][j]) = <<>>
    BY <2>2 DEF Pending
  <2>4. IsTask(stack[w][j]) => promoted'[stack[w][j].node] = promoted[stack[w][j].node]
    <3>1. IsTask(stack[w][j]) => stack[w][j].node # q
      BY <1>1, <1>2, <2>1 DEF Owners, OneFrame
    <3>2. stack[w][j] \in FrameType
      BY <2>1 DEF TypeOK, Depth
    <3> QED
      BY <1>2, <3>1, <3>2 DEF TypeOK, FrameType
  <2>5. Pending(stack[w][j])' = Pending(stack[w][j])
    BY <1>2, <2>4, PendingStill
  <2> QED
    BY <2>2, <2>3, <2>5
<1>7. stack[w][k].at \notin {"sync", "wait"}
  BY <1>2 DEF IsOpen
<1>8. \A j \in k..Len(stack[w]) : j = k \/ j \in (k + 1)..Len(stack[w])
  BY <1>3
<1>9. QuietAbove(w, k)
  BY <1>3, <1>6, <1>7, <1>8 DEF QuietAbove
<1>10. QuietAbove(w, k)'
  BY <1>2, <1>3, <1>6, <1>7, <1>8 DEF QuietAbove
<1>11. Pending(stack[w][k]) = <<>>
  BY <1>1, <1>2, <1>7 DEF Pending
<1>12. Pending(stack[w][k])' = Spawned[q]
  <2>1. PendingNext(stack[w][k]) = Spawned[q]
    <3>1. promoted'[q] = TRUE
      BY <1>2, OfAFork DEF TypeOK
    <3> QED
      BY <1>1, <1>2, <3>1 DEF PendingNext
  <2> QED
    BY <1>2, <2>1, PendingNextIs
<1>13. SamePending(w, k - 1)
  BY <1>4, <1>5, BelowSame
<1>14. PICK x \in Seq(Node) :
         FlattenSeq(Owed(w)) = x \o <<>> /\ FlattenSeq(Owed(w)') = x \o Spawned[q]
  BY <1>4, <1>9, <1>10, <1>11, <1>12, <1>13, OwedAround
<1>15. x \o <<>> = x
  OBVIOUS
<1>16. Ends(deque[w], x)
  BY <1>14, <1>15 DEF Jobs
<1>17. deque[w] \in Seq(Node) /\ deque'[w] = deque[w] \o Spawned[q] /\ Spawned[q] \in Seq(Node)
  <2>1. deque \in [Worker -> Seq(Node)]
    BY DEF TypeOK
  <2>2. Spawned[q] \in Seq(Node)
    BY <1>2, OfAFork
  <2>3. deque'[w] = deque[w] \o Spawned[q]
    BY <1>2, <2>1
  <2> QED
    BY <2>1, <2>2, <2>3
<1>18. Ends(deque[w] \o Spawned[q], x \o Spawned[q])
  BY <1>16, <1>17, EndsAppend
<1>19. Ends(deque'[w], FlattenSeq(Owed(w)'))
  BY <1>14, <1>17, <1>18
<1>20. \A v \in Worker : v # w => deque'[v] = deque[v]
  BY <1>2 DEF TypeOK
<1>21. \A v \in Worker : v # w => Ends(deque'[v], FlattenSeq(Owed(v)'))
  BY <1>4, <1>5, <1>20, JobsOthers
<1> QED
  BY <1>19, <1>21, JobsNext

LEMMA JobsSame ==
    ASSUME Jobs, UNCHANGED <<stack, promoted, deque>>
    PROVE  Jobs'
<1>1. ASSUME NEW v \in Worker PROVE Owed(v)' = Owed(v)
  <2>1. \A k \in 1..Len(stack[v]) : Pending(stack[v][k])' = Pending(stack[v][k])
    BY PendingStill
  <2> QED
    BY <2>1, OwedSame
<1>2. \A v \in Worker : Ends(deque'[v], FlattenSeq(Owed(v)'))
  BY <1>1 DEF Jobs
<1> QED
  BY <1>2, JobsNext

\* Every step keeps the deques' contents what the frames are to join.
LEMMA JobsStep ==
    ASSUME Inv, TypeOK', Lefts', NEW w \in Worker, Step(w) \/ Heartbeat(w)
    PROVE  Jobs'
<1>1. TypeOK /\ Lefts /\ Shape /\ PromotedOutsideIn /\ TokensSpent /\ Owners /\ Jobs
  BY DEF Inv
<1>2. CASE Work(w) \/ OpenSlot(w) \/ CallBody(w) \/ Close(w) \/ RunInline(w)
  BY <1>1, <1>2, JobsQuietSteps
<1>3. CASE SyncFinished(w) \/ SyncWait(w) \/ EndWait(w) \/ FinishJob(w)
  BY <1>1, <1>3, JobsEmptySteps
<1>4. CASE SyncUnstolen(w) \/ StartJob(w) \/ Return(w)
  BY <1>1, <1>4, JobsSyncUnstolen, JobsStartJob, JobsReturn
<1>5. CASE EagerPromote(w) \/ PromoteFront(w)
  BY <1>1, <1>5, PromotesIs, JobsPromotes
<1>6. CASE EndHeartbeat(w) \/ Heartbeat(w)
  BY <1>1, <1>6, JobsSame DEF EndHeartbeat, Heartbeat
<1> QED
  BY <1>2, <1>3, <1>4, <1>5, <1>6 DEF Step

-----------------------------------------------------------------------------
(* What is promoted, and with which tokens.                                *)

\* Frame f's slot could be promoted; frame f has jobs, or had them.
Unpromoted(f) == IsOpen(f) /\ ~promoted[f.node]
HasJobs(f) == f.at \in {"sync", "wait"} \/ (IsOpen(f) /\ promoted[f.node])

\* The same of frame f after the step.
UnpromotedNext(f) == IsOpen(f) /\ ~promoted'[f.node]
HasJobsNext(f) == f.at \in {"sync", "wait"} \/ (IsOpen(f) /\ promoted'[f.node])

\* No frame gets jobs but the one next to the kept ones, which had them.
GainsNoJobs(w, m) ==
    \A k \in (m + 1)..Len(stack'[w]) : HasJobsNext(stack'[w][k]) =>
        k = m + 1 /\ k \in Depth(w) /\ HasJobs(stack[w][k])

\* Only the innermost frame opens a slot.
OpensAtTop(w, m) ==
    \A k \in (m + 1)..Len(stack'[w]) : UnpromotedNext(stack'[w][k]) =>
        \/ k \in Depth(w) /\ Unpromoted(stack[w][k])
        \/ k = Len(stack'[w]) /\ stack'[w][k].at = "test"

\* With tokens left the worker has promoted all its slots.
NothingToSpendOn(w) ==
    heartbeat_tokens'[w] > 0 => \A k \in Depth(w) : ~Unpromoted(stack[w][k])

LEMMA SlotStill ==
    ASSUME TypeOK, NEW w \in Worker, NEW m, Kept(w, m), SlotsKept(w, m),
           NEW v \in Worker, NEW k \in 1..Len(stack'[v]), v # w \/ k <= m
    PROVE  /\ k \in Depth(v) /\ stack'[v][k] = stack[v][k]
           /\ UnpromotedNext(stack'[v][k]) <=> Unpromoted(stack[v][k])
           /\ HasJobsNext(stack'[v][k]) <=> HasJobs(stack[v][k])
<1>1. k \in Depth(v) /\ stack'[v][k] = stack[v][k]
  <2>1. CASE v # w
    BY <2>1 DEF Kept, Depth
  <2>2. CASE v = w /\ k <= m
    <3>1. k \in 1..m
      BY <2>2, KeptIs
    <3> QED
      BY <2>2, <3>1, KeptIs DEF Depth
  <2> QED
    BY <2>1, <2>2
<1>2. IsTask(stack[v][k]) => promoted'[stack[v][k].node] = promoted[stack[v][k].node]
  BY <1>1 DEF SlotsKept, Depth
<1> QED
  BY <1>1, <1>2 DEF UnpromotedNext, Unpromoted, HasJobsNext, HasJobs, IsOpen, IsTask

LEMMA PromotionKept ==
    ASSUME TypeOK, PromotedOutsideIn, TokensSpent, NEW w \in Worker, NEW m,
           Kept(w, m), SlotsKept(w, m), GainsNoJobs(w, m), OpensAtTop(w, m),
           NothingToSpendOn(w),
           \A v \in Worker : v # w => heartbeat_tokens'[v] = heartbeat_tokens[v],
           handling' = handling
    PROVE  PromotedOutsideIn' /\ TokensSpent'
<1>1. m \in Nat
  BY KeptIs
<1>2. \A v \in Worker : \A j, k \in Depth(v) :
        j < k /\ HasJobs(stack[v][k]) => ~Unpromoted(stack[v][j])
  BY DEF PromotedOutsideIn, HasJobs, Unpromoted
<1>3. ASSUME NEW v \in Worker, NEW j \in 1..Len(stack'[v]), NEW k \in 1..Len(stack'[v]),
             j < k, HasJobsNext(stack'[v][k])
      PROVE  ~UnpromotedNext(stack'[v][j])
  <2>1. CASE v # w \/ k <= m
    <3>1. v # w \/ j <= m
      BY <1>1, <1>3, <2>1
    <3>2. /\ k \in Depth(v) /\ HasJobs(stack[v][k])
          /\ j \in Depth(v) /\ (UnpromotedNext(stack'[v][j]) <=> Unpromoted(stack[v][j]))
      BY <1>3, <2>1, <3>1, SlotStill
    <3> QED
      BY <1>2, <1>3, <3>2
  <2>2. CASE v = w /\ k > m
    <3>1. k \in (m + 1)..Len(stack'[w])
      BY <1>1, <2>2
    <3>2. k = m + 1 /\ k \in Depth(w) /\ HasJobs(stack[w][k])
      BY <1>3, <2>2, <3>1 DEF GainsNoJobs
    <3>3. j <= m
      BY <1>1, <1>3, <3>2
    <3>4. j \in Depth(w) /\ (UnpromotedNext(stack'[w][j]) <=> Unpromoted(stack[w][j]))
      BY <2>2, <3>3, SlotStill
    <3> QED
      BY <1>2, <1>3, <2>2, <3>2, <3>4
  <2> QED
    BY <1>1, <2>1, <2>2
<1>4. PromotedOutsideIn'
  BY <1>3 DEF PromotedOutsideIn, HasJobsNext, UnpromotedNext, IsOpen, Depth
<1>5. ASSUME NEW v \in Worker, NEW k \in 1..Len(stack'[v]),
             heartbeat_tokens'[v] > 0, ~handling'[v], UnpromotedNext(stack'[v][k])
      PROVE  k = Len(stack'[v]) /\ stack'[v][k].at = "test"
  <2>1. CASE v # w
    <3>1. k \in Depth(v) /\ stack'[v][k] = stack[v][k] /\ Unpromoted(stack[v][k])
      BY <1>5, <2>1, SlotStill
    <3>2. stack'[v] = stack[v]
      BY <2>1 DEF Kept
    <3> QED
      BY <1>5, <2>1, <3>1, <3>2 DEF TokensSpent, Unpromoted
  <2>2. CASE v = w /\ k <= m
    <3>1. k \in Depth(w) /\ Unpromoted(stack[w][k])
      BY <1>5, <2>2, SlotStill
    <3> QED
      BY <1>5, <2>2, <3>1 DEF NothingToSpendOn
  <2>3. CASE v = w /\ k > m
    <3>1. k \in (m + 1)..Len(stack'[w])
      BY <1>1, <2>3
    <3> QED
      BY <1>5, <2>3, <3>1 DEF OpensAtTop, NothingToSpendOn
  <2> QED
    BY <1>1, <2>1, <2>2, <2>3
<1>6. TokensSpent'
  BY <1>5 DEF TokensSpent, UnpromotedNext, IsOpen, Depth
<1> QED
  BY <1>4, <1>6

\* A worker whose innermost frame is at no test, or whose slot is promoted.
LEMMA SpentTokens ==
    ASSUME TypeOK, TokensSpent, NEW w \in Worker, stack[w] # <<>>, ~handling[w],
           Top(w).at # "test" \/ promoted[Top(w).node] \/ heartbeat_tokens[w] = 0,
           heartbeat_tokens'[w] = heartbeat_tokens[w]
    PROVE  NothingToSpendOn(w)
<1>1. Top(w) = stack[w][Len(stack[w])]
  BY TopIs
<1> QED
  BY <1>1 DEF TokensSpent, NothingToSpendOn, Unpromoted

\* Whoever joins has promoted all its slots.
LEMMA JoinPromoted ==
    ASSUME TypeOK, PromotedOutsideIn, NEW w \in Worker, stack[w] # <<>>,
           Top(w).at \in {"sync", "wait"}
    PROVE  \A k \in Depth(w) : ~Unpromoted(stack[w][k])
<1>1. /\ Len(stack[w]) \in Nat /\ Len(stack[w]) \in Depth(w) /\ Top(w) = stack[w][Len(stack[w])]
  BY TopIs DEF Depth
<1> SUFFICES ASSUME NEW k \in Depth(w), Unpromoted(stack[w][k]) PROVE FALSE
  OBVIOUS
<1>2. k # Len(stack[w])
  BY <1>1 DEF Unpromoted, IsOpen
<1>3. k < Len(stack[w])
  BY <1>1, <1>2 DEF Depth
<1> QED
  BY <1>1, <1>3 DEF PromotedOutsideIn, Unpromoted

\* The steps that change one frame, and at most call a task.
LEMMA PromotionTop ==
    ASSUME TypeOK, PromotedOutsideIn, TokensSpent, NEW w \in Worker, NEW n \in Depth(w),
           Kept(w, n - 1), SlotsKept(w, n - 1),
           \/ Len(stack'[w]) = n
           \/ Len(stack'[w]) = n + 1 /\ stack'[w][n + 1].at = "enter",
           HasJobsNext(stack'[w][n]) => HasJobs(stack[w][n]),
           UnpromotedNext(stack'[w][n]) =>
              \/ Unpromoted(stack[w][n])
              \/ Len(stack'[w]) = n /\ stack'[w][n].at = "test",
           NothingToSpendOn(w),
           \A v \in Worker : v # w => heartbeat_tokens'[v] = heartbeat_tokens[v],
           handling' = handling
    PROVE  PromotedOutsideIn' /\ TokensSpent'
<1>1. n \in Nat /\ (n - 1) + 1 = n
  BY DEF Depth
<1>2. ASSUME NEW k \in ((n - 1) + 1)..Len(stack'[w])
      PROVE  \/ k = n
             \/ ~HasJobsNext(stack'[w][k]) /\ ~UnpromotedNext(stack'[w][k])
  <2>1. k = n \/ (k = n + 1 /\ stack'[w][k].at = "enter")
    BY <1>1
  <2> QED
    BY <2>1 DEF HasJobsNext, UnpromotedNext, IsOpen
<1>3. GainsNoJobs(w, n - 1)
  BY <1>1, <1>2 DEF GainsNoJobs
<1>4. OpensAtTop(w, n - 1)
  BY <1>1, <1>2 DEF OpensAtTop
<1> QED
  BY <1>3, <1>4, PromotionKept

LEMMA PromotionQuietSteps ==
    ASSUME TypeOK, Lefts, Owners, PromotedOutsideIn, TokensSpent, NEW w \in Worker,
           Work(w) \/ OpenSlot(w) \/ CallBody(w) \/ Close(w) \/ RunInline(w)
    PROVE  PromotedOutsideIn' /\ TokensSpent'
<1>1. PICK n : n = Len(stack[w])
  OBVIOUS
<1> DEFINE f == Top(w)
           g == stack'[w][n]
<1>2. /\ stack[w] # <<>> /\ Kept(w, n - 1) /\ g.node = f.node
      /\ \/ Len(stack'[w]) = n
         \/ Len(stack'[w]) = n + 1 /\ stack'[w][n + 1].at = "enter"
  <2>1. CASE Work(w)
    BY <1>1, <2>1, WorkStep, TopIs DEF Moves
  <2>2. CASE OpenSlot(w)
    BY <1>1, <2>2, OpenSlotStep, TopIs DEF Moves
  <2>3. CASE CallBody(w)
    BY <1>1, <2>3, CallBodyStep, TopIs DEF Calls
  <2>4. CASE Close(w)
    BY <1>1, <2>4, CloseStep, TopIs DEF Moves
  <2>5. CASE RunInline(w)
    BY <1>1, <2>5, RunInlineStep, TopIs DEF Calls
  <2> QED
    BY <2>1, <2>2, <2>3, <2>4, <2>5
<1>3. n \in Nat /\ n \in Depth(w) /\ f = stack[w][n] /\ f \in FrameType
  BY <1>1, <1>2, TopIs DEF Depth
<1> HIDE DEF f, g
<1>4. /\ HasJobsNext(g) => HasJobs(f)
      /\ UnpromotedNext(g) => Unpromoted(f) \/ (Len(stack'[w]) = n /\ g.at = "test")
      /\ f.at # "test" \/ promoted[f.node] \/ heartbeat_tokens[w] = 0
  <2>1. CASE Work(w)
    <3>1. f.at = "enter" /\ g.at = "ret"
      BY <1>1, <2>1, WorkStep DEF Moves, f, g
    <3> QED
      BY <3>1 DEF HasJobsNext, UnpromotedNext, IsOpen
  <2>2. CASE OpenSlot(w)
    <3>1. f.at = "enter" /\ g.at = "test" /\ Len(stack'[w]) = n
      BY <1>1, <2>2, OpenSlotStep DEF Moves, f, g
    <3>2. promoted'[f.node] = FALSE
      BY <1>3, <2>2 DEF OpenSlot, f, TypeOK, FrameType
    <3> QED
      BY <1>2, <3>1, <3>2 DEF HasJobsNext
  <2>3. CASE CallBody(w)
    <3>1. f.at = "test" /\ g.at = "body" /\ promoted' = promoted
      BY <1>1, <2>3, CallBodyStep DEF Calls, f, g, CallBody
    <3>2. promoted[f.node] \/ heartbeat_tokens[w] = 0
      BY <2>3 DEF CallBody, f
    <3> QED
      BY <1>2, <3>1, <3>2 DEF HasJobsNext, HasJobs, UnpromotedNext, Unpromoted, IsOpen
  <2>4. CASE Close(w)
    <3>1. /\ f.at = "close" /\ promoted' = promoted
          /\ g.at = IF promoted[f.node] THEN "sync" ELSE "inline"
      BY <1>1, <2>4, CloseStep DEF Moves, f, g, Close
    <3> QED
      BY <1>2, <3>1 DEF HasJobsNext, HasJobs, UnpromotedNext, Unpromoted, IsOpen
  <2>5. CASE RunInline(w)
    <3>1. f.at = "inline" /\ g.at = "inline"
      BY <1>1, <2>5, RunInlineStep DEF Calls, f, g
    <3> QED
      BY <3>1 DEF HasJobsNext, UnpromotedNext, IsOpen
  <2> QED
    BY <2>1, <2>2, <2>3, <2>4, <2>5
<1>5. SlotsKept(w, n - 1)
  <2>1. CASE OpenSlot(w)
    <3>1. IsTask(stack[w][n]) /\ promoted' = [promoted EXCEPT ![stack[w][n].node] = FALSE]
      BY <1>3, <2>1 DEF OpenSlot, At, IsTask, f
    <3>2. \A c \in Node : c # stack[w][n].node => promoted'[c] = promoted[c]
      BY <3>1 DEF TypeOK
    <3> QED
      BY <1>3, <3>1, <3>2, SlotsKeptAt DEF Owners
  <2>2. CASE ~OpenSlot(w)
    BY <2>2, SlotsSame DEF Work, CallBody, Close, RunInline
  <2> QED
    BY <2>1, <2>2
<1>6. heartbeat_tokens' = heartbeat_tokens /\ handling' = handling /\ ~handling[w]
  BY DEF Work, OpenSlot, CallBody, Close, RunInline, At
<1>7. NothingToSpendOn(w)
  BY <1>2, <1>4, <1>6, SpentTokens DEF f
<1> QED
  BY <1>2, <1>3, <1>4, <1>5, <1>6, <1>7, PromotionTop DEF g

\* The steps of a join.
LEMMA PromotionSyncs ==
    ASSUME TypeOK, Lefts, PromotedOutsideIn, TokensSpent, NEW w \in Worker,
           SyncUnstolen(w) \/ SyncFinished(w) \/ SyncWait(w) \/ EndWait(w)
    PROVE  PromotedOutsideIn' /\ TokensSpent'
<1>1. PICK n : n = Len(stack[w])
  OBVIOUS
<1>2. /\ stack[w] # <<>> /\ Top(w).at \in {"sync", "wait"} /\ Kept(w, n - 1)
      /\ \/ Len(stack'[w]) = n
         \/ Len(stack'[w]) = n + 1 /\ stack'[w][n + 1].at = "enter"
      /\ stack'[w][n].at \in {"sync", "wait"}
  <2>1. CASE SyncUnstolen(w)
    BY <1>1, <2>1, SyncUnstolenStep DEF Calls
  <2>2. CASE SyncFinished(w)
    BY <1>1, <2>2, SyncFinishedStep DEF Moves
  <2>3. CASE SyncWait(w)
    BY <1>1, <2>3, SyncWaitStep DEF Moves
  <2>4. CASE EndWait(w)
    BY <1>1, <2>4, EndWaitStep DEF Moves
  <2> QED
    BY <2>1, <2>2, <2>3, <2>4
<1>3. n \in Nat /\ n \in Depth(w) /\ Top(w) = stack[w][n]
  BY <1>1, <1>2, TopIs DEF Depth
<1>4. promoted' = promoted /\ handling' = handling
  BY DEF SyncUnstolen, SyncFinished, SyncWait, EndWait
<1>5. \A v \in Worker : v # w => heartbeat_tokens'[v] = heartbeat_tokens[v]
  <2>1. CASE SyncUnstolen(w)
    BY <2>1 DEF SyncUnstolen, TypeOK
  <2>2. CASE SyncFinished(w) \/ SyncWait(w) \/ EndWait(w)
    BY <2>2 DEF SyncFinished, SyncWait, EndWait
  <2> QED
    BY <2>1, <2>2
<1>6. NothingToSpendOn(w)
  BY <1>2, JoinPromoted DEF NothingToSpendOn
<1>7. SlotsKept(w, n - 1)
  BY <1>4, SlotsSame
<1>8. HasJobs(stack[w][n]) /\ ~UnpromotedNext(stack'[w][n])
  BY <1>2, <1>3 DEF HasJobs, UnpromotedNext, IsOpen
<1> QED
  BY <1>2, <1>3, <1>4, <1>5, <1>6, <1>7, <1>8, PromotionTop

LEMMA PromotionStartJob ==
    ASSUME TypeOK, PromotedOutsideIn, TokensSpent, NEW w \in Worker, StartJob(w)
    PROVE  PromotedOutsideIn' /\ TokensSpent'
<1>1. PICK n : n = Len(stack[w])
  OBVIOUS
<1>2. /\ Kept(w, n) /\ Len(stack'[w]) = n + 2
      /\ stack'[w][n + 1].at = "job" /\ stack'[w][n + 2].at = "enter"
      /\ \A v \in Worker : v # w => heartbeat_tokens'[v] = heartbeat_tokens[v]
  BY <1>1, StartJobStep DEF TypeOK
<1>3. \A k \in (n + 1)..(n + 2) : k = n + 1 \/ k = n + 2
  BY <1>2, KeptIs
<1>4. \A k \in (n + 1)..Len(stack'[w]) :
        ~HasJobsNext(stack'[w][k]) /\ ~UnpromotedNext(stack'[w][k])
  BY <1>2, <1>3 DEF HasJobsNext, UnpromotedNext, IsOpen
<1>5. NothingToSpendOn(w)
  <2>1. CASE stack[w] = <<>>
    BY <2>1 DEF NothingToSpendOn, Depth
  <2>2. CASE At(w, "wait")
    BY <2>2, JoinPromoted DEF NothingToSpendOn, At
  <2> QED
    BY <2>1, <2>2 DEF StartJob, Looking
<1>6. SlotsKept(w, n) /\ handling' = handling
  BY SlotsSame DEF StartJob
<1> QED
  BY <1>2, <1>4, <1>5, <1>6, PromotionKept DEF GainsNoJobs, OpensAtTop

LEMMA PromotionFinishJob ==
    ASSUME TypeOK, PromotedOutsideIn, TokensSpent, NEW w \in Worker, FinishJob(w)
    PROVE  PromotedOutsideIn' /\ TokensSpent'
<1>1. PICK m : m = Len(stack[w]) - 1
  OBVIOUS
<1>2. /\ stack[w] # <<>> /\ Top(w).at = "finish" /\ Kept(w, m) /\ Len(stack'[w]) = m
  BY <1>1, FinishJobStep
<1>3. \A k \in (m + 1)..m : FALSE
  BY <1>2, KeptIs
<1>4. heartbeat_tokens' = heartbeat_tokens /\ handling' = handling /\ ~handling[w]
  BY DEF FinishJob, At
<1>5. NothingToSpendOn(w)
  BY <1>2, <1>4, SpentTokens
<1>6. SlotsKept(w, m)
  BY SlotsSame DEF FinishJob
<1> QED
  BY <1>2, <1>3, <1>4, <1>5, <1>6, PromotionKept DEF GainsNoJobs, OpensAtTop

LEMMA PromotionReturn ==
    ASSUME TypeOK, Shape, PromotedOutsideIn, TokensSpent, NEW w \in Worker, Return(w)
    PROVE  PromotedOutsideIn' /\ TokensSpent'
<1>1. /\ stack[w] # <<>> /\ Top(w).at \in {"ret", "sync", "inline"}
      /\ Len(stack[w]) \in Nat /\ Len(stack[w]) > 0
  BY ReturnStep, TopIs
<1>2. heartbeat_tokens' = heartbeat_tokens /\ handling' = handling /\ ~handling[w]
  BY DEF Return, AtEnd, At
<1>3. NothingToSpendOn(w)
  BY <1>1, <1>2, SpentTokens
<1>4. promoted' = promoted
  BY DEF Return
<1>5. CASE Len(stack[w]) = 1
  <2>1. Kept(w, 0) /\ Len(stack'[w]) = 0
    BY <1>5, ReturnEffect
  <2>2. SlotsKept(w, 0)
    BY <1>4, SlotsSame
  <2> QED
    BY <1>2, <1>3, <2>1, <2>2, PromotionKept DEF GainsNoJobs, OpensAtTop
<1>6. CASE Len(stack[w]) # 1
  <2>1. PICK n : n = Len(stack[w]) - 1
    OBVIOUS
  <2> DEFINE f == stack[w][n]
             g == stack'[w][n]
  <2>2. /\ Kept(w, n - 1) /\ n > 0 /\ Len(stack'[w]) = n /\ g.node = f.node
        /\ g.at = IF f.at = "body" THEN "close" ELSE IF f.at = "job" THEN "finish" ELSE f.at
    BY <1>6, <2>1, ReturnEffect
  <2>3. n \in Depth(w)
    BY <1>1, <2>1, <2>2 DEF Depth
  <2>4. SlotsKept(w, n - 1)
    BY <1>4, SlotsSame
  <2> HIDE DEF f, g
  <2>5. /\ HasJobsNext(g) => HasJobs(f)
        /\ UnpromotedNext(g) => Unpromoted(f)
    BY <1>4, <2>2 DEF HasJobsNext, HasJobs, UnpromotedNext, Unpromoted, IsOpen
  <2> QED
    BY <1>2, <1>3, <2>2, <2>3, <2>4, <2>5, PromotionTop DEF f, g
<1> QED
  BY <1>5, <1>6

LEMMA PromotionPromotes ==
    ASSUME TypeOK, Lefts, OneFrame, PromotedOutsideIn, TokensSpent,
           NEW w \in Worker, NEW k \in Depth(w), Promotes(w, k)
    PROVE  PromotedOutsideIn' /\ TokensSpent'
<1>1. PICK q : q = stack[w][k].node
  OBVIOUS
<1>2. /\ q \in Node /\ promoted' = [promoted EXCEPT ![q] = TRUE] /\ stack' = stack
      /\ IsTask(stack[w][k])
  BY <1>1, PromotesFork DEF Fork
<1>3. \A c \in Node : promoted'[c] = (promoted[c] \/ c = q)
  BY <1>2 DEF TypeOK
<1>4. ASSUME NEW v \in Worker, NEW j \in Depth(v)
      PROVE  /\ UnpromotedNext(stack[v][j]) => Unpromoted(stack[v][j])
             /\ HasJobsNext(stack[v][j]) => HasJobs(stack[v][j]) \/ (v = w /\ j = k)
  <2>1. stack[v] \in Seq(FrameType)
    BY DEF TypeOK
  <2>2. stack[v][j].node \in Node
    <3>1. stack[v][j] \in FrameType
      BY <2>1 DEF Depth
    <3> QED
      BY <3>1 DEF FrameType
  <2>3. IsOpen(stack[v][j]) => IsTask(stack[v][j])
    BY DEF IsOpen, IsTask
  <2>4. IsOpen(stack[v][j]) /\ stack[v][j].node = q => v = w /\ j = k
    BY <1>1, <1>2, <2>3 DEF OneFrame
  <2> QED
    BY <1>3, <2>2, <2>4 DEF UnpromotedNext, Unpromoted, HasJobsNext, HasJobs
<1>5. ASSUME NEW v \in Worker, NEW i \in Depth(v), NEW j \in Depth(v), i < j,
             HasJobsNext(stack[v][j]), UnpromotedNext(stack[v][i])
      PROVE  FALSE
  <2>1. Unpromoted(stack[v][i])
    BY <1>4, <1>5
  <2>2. CASE HasJobs(stack[v][j])
    BY <1>5, <2>1, <2>2 DEF PromotedOutsideIn, HasJobs, Unpromoted
  <2>3. CASE v = w /\ j = k
    <3>1. k <= i
      BY <2>1, <2>3 DEF Promotes, Unpromoted
    <3> QED
      BY <1>5, <2>3, <3>1 DEF Depth
  <2> QED
    BY <1>4, <1>5, <2>2, <2>3
<1>6. PromotedOutsideIn'
  BY <1>2, <1>5 DEF PromotedOutsideIn, HasJobsNext, UnpromotedNext, IsOpen, Depth
<1>7. \A v \in Worker : heartbeat_tokens'[v] > 0 => heartbeat_tokens[v] > 0
  BY DEF Promotes, Promote, TypeOK
<1>8. handling' = handling
  BY DEF Promotes
<1>9. ASSUME NEW v \in Worker, NEW j \in Depth(v),
             heartbeat_tokens'[v] > 0, ~handling'[v], UnpromotedNext(stack[v][j])
      PROVE  j = Len(stack[v]) /\ stack[v][j].at = "test"
  <2>1. Unpromoted(stack[v][j])
    BY <1>4, <1>9
  <2> QED
    BY <1>7, <1>8, <1>9, <2>1 DEF TokensSpent, Unpromoted
<1>10. TokensSpent'
  BY <1>2, <1>9 DEF TokensSpent, UnpromotedNext, IsOpen, Depth
<1> QED
  BY <1>6, <1>10

\* Inside the handler there may be tokens left; at its end there are none, or
\* nothing is left to promote.
LEMMA PromotionHeartbeat ==
    ASSUME TypeOK, PromotedOutsideIn, TokensSpent, NEW w \in Worker,
           EndHeartbeat(w) \/ Heartbeat(w)
    PROVE  PromotedOutsideIn' /\ TokensSpent'
<1>1. UNCHANGED <<stack, promoted>>
  BY DEF EndHeartbeat, Heartbeat
<1>2. PromotedOutsideIn'
  BY <1>1 DEF PromotedOutsideIn, Depth, IsOpen
<1>3. CASE Heartbeat(w)
  <2>1. /\ handling'[w] /\ \A v \in Worker : v # w => handling'[v] = handling[v]
        /\ \A v \in Worker : v # w => heartbeat_tokens'[v] = heartbeat_tokens[v]
    BY <1>3 DEF Heartbeat, TypeOK
  <2> QED
    BY <1>1, <1>2, <2>1 DEF TokensSpent, Depth, IsOpen
<1>4. CASE EndHeartbeat(w)
  <2>1. \A v \in Worker : v # w => handling'[v] = handling[v]
    BY <1>4 DEF EndHeartbeat, TypeOK
  <2>2. heartbeat_tokens' = heartbeat_tokens
    BY <1>4 DEF EndHeartbeat
  <2>3. DOMAIN stack[w] = Depth(w)
    BY DEF TypeOK, Depth
  <2>4. heartbeat_tokens[w] > 0 => \A k \in Depth(w) : ~(IsOpen(stack[w][k]) /\ ~promoted[stack[w][k].node])
    <3>1. heartbeat_tokens[w] > 0 => Promotable(w) = {}
      BY <1>4 DEF EndHeartbeat, TypeOK
    <3> QED
      BY <2>3, <3>1 DEF Promotable
  <2>5. TokensSpent'
    BY <1>1, <2>1, <2>2, <2>4 DEF TokensSpent, Depth, IsOpen
  <2> QED
    BY <1>2, <2>5
<1> QED
  BY <1>3, <1>4

\* Every step promotes from the outside in, and leaves no tokens unspent.
LEMMA PromotionStep ==
    ASSUME Inv, NEW w \in Worker, Step(w) \/ Heartbeat(w)
    PROVE  PromotedOutsideIn' /\ TokensSpent'
<1>1. TypeOK /\ Lefts /\ Shape /\ PromotedOutsideIn /\ TokensSpent /\ Owners
  BY DEF Inv
<1>2. CASE Work(w) \/ OpenSlot(w) \/ CallBody(w) \/ Close(w) \/ RunInline(w)
  BY <1>1, <1>2, PromotionQuietSteps
<1>3. CASE SyncUnstolen(w) \/ SyncFinished(w) \/ SyncWait(w) \/ EndWait(w)
  BY <1>1, <1>3, PromotionSyncs
<1>4. CASE StartJob(w) \/ FinishJob(w) \/ Return(w)
  BY <1>1, <1>4, PromotionStartJob, PromotionFinishJob, PromotionReturn
<1>5. CASE EagerPromote(w) \/ PromoteFront(w)
  BY <1>1, <1>5, PromotesIs, PromotionPromotes DEF Owners
<1>6. CASE EndHeartbeat(w) \/ Heartbeat(w)
  BY <1>1, <1>6, PromotionHeartbeat
<1> QED
  BY <1>2, <1>3, <1>4, <1>5, <1>6 DEF Step

-----------------------------------------------------------------------------
(* The timers.                                                             *)

LEMMA TimerKept ==
    ASSUME Timer, NEW w \in Worker,
           \A v \in Worker : v # w =>
              stack'[v] = stack[v] /\ armed'[v] = armed[v] /\ handling'[v] = handling[v],
           handling'[w] => armed'[w],
           \/ ~armed'[w]
           \/ stack'[w] = stack[w] /\ armed'[w] = armed[w]
           \/ /\ stack'[w] # <<>> \/ w = Main
              /\ stack'[w] # <<>> => Last(stack'[w]).at # "wait"
    PROVE  Timer'
<1> SUFFICES ASSUME NEW v \in Worker
             PROVE  /\ handling'[v] => armed'[v]
                    /\ stack'[v] = <<>> /\ v # Main => ~armed'[v]
                    /\ stack'[v] # <<>> /\ Last(stack'[v]).at = "wait" => ~armed'[v]
  BY DEF Timer, Top
<1> QED
  BY DEF Timer, Top

\* What the new innermost frame is.
LEMMA NewTop ==
    ASSUME TypeOK', NEW w \in Worker, NEW n \in Nat, Len(stack'[w]) = n, n > 0
    PROVE  stack'[w] # <<>> /\ Last(stack'[w]) = stack'[w][n]
BY DEF TypeOK, Last

\* The steps after which w runs on: its innermost frame is not at a wait.
LEMMA TimerRuns ==
    ASSUME TypeOK, TypeOK', Timer, NEW w \in Worker, NEW n \in Nat, n > 0,
           Len(stack'[w]) = n, stack'[w][n].at # "wait",
           \A v \in Worker : v # w => stack'[v] = stack[v],
           handling' = handling, armed' = armed \/ armed' = [armed EXCEPT ![w] = TRUE]
    PROVE  Timer'
<1>1. stack'[w] # <<>> /\ Last(stack'[w]) = stack'[w][n]
  BY NewTop
<1>2. /\ \A v \in Worker : v # w => armed'[v] = armed[v]
      /\ armed[w] => armed'[w]
  BY DEF TypeOK
<1>3. handling'[w] => armed'[w]
  BY <1>2 DEF Timer
<1> QED
  BY <1>1, <1>2, <1>3, TimerKept

LEMMA TimerStep ==
    ASSUME Inv, TypeOK', Shape', NEW w \in Worker, Step(w) \/ Heartbeat(w)
    PROVE  Timer'
<1>1. TypeOK /\ Lefts /\ Shape /\ Timer
  BY DEF Inv
<1>2. CASE Work(w) \/ OpenSlot(w) \/ Close(w) \/ SyncFinished(w) \/ EndWait(w)
  <2>1. \E at : \E left : stack[w] # <<>> /\ Moves(w, at, left) /\ at # "wait"
    <3>1. CASE Work(w)
      BY <1>1, <3>1, WorkStep
    <3>2. CASE OpenSlot(w)
      BY <1>1, <3>2, OpenSlotStep
    <3>3. CASE Close(w)
      BY <1>1, <3>3, CloseStep
    <3>4. CASE SyncFinished(w)
      BY <1>1, <3>4, SyncFinishedStep
    <3>5. CASE EndWait(w)
      BY <1>1, <3>5, EndWaitStep
    <3> QED
      BY <1>2, <3>1, <3>2, <3>3, <3>4, <3>5
  <2>2. PICK n : n = Len(stack[w])
    OBVIOUS
  <2>3. /\ n \in Nat /\ n > 0 /\ Len(stack'[w]) = n /\ stack'[w][n].at # "wait"
        /\ \A v \in Worker : v # w => stack'[v] = stack[v]
    BY <1>1, <2>1, <2>2, TopIs DEF Moves, Kept
  <2>4. handling' = handling /\ (armed' = armed \/ armed' = [armed EXCEPT ![w] = TRUE])
    BY <1>2 DEF Work, OpenSlot, Close, SyncFinished, EndWait, start_heartbeats
  <2> QED
    BY <1>1, <2>3, <2>4, TimerRuns
<1>3. CASE CallBody(w) \/ RunInline(w) \/ SyncUnstolen(w)
  <2>1. \E at : \E left : \E c : stack[w] # <<>> /\ Calls(w, at, left, c)
    BY <1>1, <1>3, CallBodyStep, RunInlineStep, SyncUnstolenStep
  <2>2. PICK n : n = Len(stack[w]) + 1
    OBVIOUS
  <2>3. /\ n \in Nat /\ n > 0 /\ Len(stack'[w]) = n /\ stack'[w][n].at # "wait"
        /\ \A v \in Worker : v # w => stack'[v] = stack[v]
    BY <1>1, <2>1, <2>2, TopIs DEF Calls, Kept
  <2>4. handling' = handling /\ armed' = armed
    BY <1>3 DEF CallBody, RunInline, SyncUnstolen
  <2> QED
    BY <1>1, <2>3, <2>4, TimerRuns
<1>4. CASE StartJob(w)
  <2>1. PICK n : n = Len(stack[w]) + 2
    OBVIOUS
  <2>2. /\ n \in Nat /\ n > 0 /\ Len(stack'[w]) = n /\ stack'[w][n].at # "wait"
        /\ \A v \in Worker : v # w => stack'[v] = stack[v]
    BY <1>1, <1>4, <2>1, StartJobStep, KeptIs DEF Kept
  <2>3. handling' = handling /\ armed' = [armed EXCEPT ![w] = TRUE]
    BY <1>4 DEF StartJob, start_heartbeats
  <2> QED
    BY <1>1, <2>2, <2>3, TimerRuns
<1>5. CASE SyncWait(w) \/ FinishJob(w)
  <2>1. /\ ~handling[w] /\ handling' = handling /\ armed' = [armed EXCEPT ![w] = FALSE]
        /\ \A v \in Worker : v # w => stack'[v] = stack[v]
    BY <1>1, <1>5, SyncWaitStep, FinishJobStep
       DEF SyncWait, FinishJob, pause_heartbeats, At, Moves, Kept
  <2>2. /\ \A v \in Worker : v # w => armed'[v] = armed[v]
        /\ ~armed'[w]
    BY <1>1, <2>1 DEF TypeOK
  <2> QED
    BY <1>1, <2>1, <2>2, TimerKept
<1>6. CASE Return(w)
  <2>1. handling' = handling /\ armed' = armed
    BY <1>6 DEF Return
  <2>2. /\ Len(stack[w]) \in Nat /\ Len(stack[w]) > 0 /\ Len(stack[w]) \in Depth(w)
        /\ IsTask(stack[w][Len(stack[w])])
    BY <1>1, <1>6, ReturnStep, TopIs DEF IsTask, Depth
  <2>3. CASE Len(stack[w]) = 1
    <3>1. w = Main
      BY <1>1, <2>2, <2>3 DEF Shape
    <3>2. Kept(w, 0) /\ stack'[w] = <<>>
      BY <1>1, <1>6, <2>3, ReturnEffect
    <3>3. \A v \in Worker : v # w => stack'[v] = stack[v]
      BY <3>2 DEF Kept
    <3>4. handling'[w] => armed'[w]
      BY <1>1, <2>1 DEF Timer
    <3> QED
      BY <1>1, <2>1, <3>1, <3>2, <3>3, <3>4, TimerKept
  <2>4. CASE Len(stack[w]) # 1
    <3>1. PICK n : n = Len(stack[w]) - 1
      OBVIOUS
    <3>2. /\ Kept(w, n - 1) /\ n > 0 /\ Len(stack'[w]) = n
          /\ stack'[w][n].at = IF stack[w][n].at = "body" THEN "close"
                              ELSE IF stack[w][n].at = "job" THEN "finish"
                              ELSE stack[w][n].at
      BY <1>1, <1>6, <2>4, <3>1, ReturnEffect
    <3>3. stack[w][n].at # "wait"
      BY <1>1, <2>2, <2>4, <3>1 DEF Shape
    <3>4. n \in Nat /\ \A v \in Worker : v # w => stack'[v] = stack[v]
      BY <2>2, <3>1, <3>2 DEF Kept
    <3> QED
      BY <1>1, <2>1, <3>2, <3>3, <3>4, TimerRuns
  <2> QED
    BY <2>3, <2>4
<1>7. CASE EagerPromote(w) \/ PromoteFront(w) \/ EndHeartbeat(w) \/ Heartbeat(w)
  <2>1. stack' = stack /\ armed' = armed /\ (handling'[w] => armed[w])
    BY <1>1, <1>7 DEF EagerPromote, PromoteFront, EndHeartbeat, Heartbeat, Timer, TypeOK
  <2>2. \A v \in Worker : v # w => handling'[v] = handling[v]
    BY <1>1, <1>7 DEF EagerPromote, PromoteFront, EndHeartbeat, Heartbeat, TypeOK
  <2> QED
    BY <1>1, <2>1, <2>2, TimerKept
<1> QED
  BY <1>2, <1>3, <1>4, <1>5, <1>6, <1>7 DEF Step

-----------------------------------------------------------------------------
(* What is finished.                                                       *)

AboveNext(w, k) == IF k < Len(stack'[w]) THEN {stack'[w][k + 1].node} ELSE {}

LEMMA JoinedLater ==
    ASSUME NEW f, NEW above, NEW ended, NEW later, ended \subseteq later,
           Joined(f, above, ended)
    PROVE  Joined(f, above, later)
BY DEF Joined

\* What is above a waiting frame is none of its tasks.
LEMMA JoinedWaiting ==
    ASSUME NEW f, f.at = "wait", NEW above, NEW next, NEW ended, Joined(f, above, ended)
    PROVE  Joined(f, next, ended)
BY DEF Joined

LEMMA JoinedAtFirst ==
    ASSUME NEW f, f.at \in {"enter", "test", "ret"}, NEW above, NEW ended
    PROVE  Joined(f, above, ended)
BY DEF Joined

LEMMA JoinsKept ==
    ASSUME TypeOK, Joins, NEW w \in Worker, NEW m, Kept(w, m),
           finished \subseteq finished', \A c \in Node : done'[c] => c \in finished',
           \/ m = 0
           \/ m \in Depth(w) /\ stack[w][m].at = "wait"
           \/ /\ m < Len(stack[w]) /\ m < Len(stack'[w])
              /\ stack'[w][m + 1].node = stack[w][m + 1].node,
           \A k \in (m + 1)..Len(stack'[w]) :
              Joined(stack'[w][k], AboveNext(w, k), finished')
    PROVE  Joins'
<1> SUFFICES ASSUME NEW v \in Worker, NEW k \in 1..Len(stack'[v])
             PROVE  Joined(stack'[v][k], AboveNext(v, k), finished')
  BY DEF Joins, Joined, Above, AboveNext, Depth
<1>1. /\ m \in Nat /\ m <= Len(stack[w]) /\ m <= Len(stack'[w])
      /\ Len(stack[w]) \in Nat /\ Len(stack'[w]) \in Nat
  BY KeptIs
<1>2. CASE v # w
  <2>1. stack'[v] = stack[v] /\ k \in Depth(v)
    BY <1>2 DEF Kept, Depth
  <2>2. Joined(stack[v][k], Above(v, k), finished) /\ AboveNext(v, k) = Above(v, k)
    BY <2>1 DEF Joins, Above, AboveNext
  <2> QED
    BY <2>1, <2>2, JoinedLater
<1>3. CASE v = w /\ k <= m
  <2>1. /\ k \in 1..m /\ k \in Depth(w) /\ stack'[w][k] = stack[w][k]
    BY <1>1, <1>3, KeptIs DEF Depth
  <2>2. Joined(stack'[w][k], Above(w, k), finished')
    BY <2>1, JoinedLater DEF Joins
  <2>3. CASE k = m
    <3>1. CASE stack[w][m].at = "wait"
      BY <1>3, <2>1, <2>2, <2>3, <3>1, JoinedWaiting
    <3>2. CASE /\ m < Len(stack[w]) /\ m < Len(stack'[w])
               /\ stack'[w][m + 1].node = stack[w][m + 1].node
      <4>1. AboveNext(w, k) = Above(w, k)
        BY <2>3, <3>2 DEF Above, AboveNext
      <4> QED
        BY <1>3, <2>2, <4>1
    <3>3. m # 0
      BY <1>1, <2>1, <2>3
    <3> QED
      BY <3>1, <3>2, <3>3
  <2>4. CASE k # m
    <3>1. k + 1 \in 1..m /\ k < Len(stack[w]) /\ k < Len(stack'[w])
      BY <1>1, <1>3, <2>1, <2>4
    <3>2. stack'[w][k + 1] = stack[w][k + 1]
      BY <3>1 DEF Kept
    <3>3. AboveNext(w, k) = Above(w, k)
      BY <3>1, <3>2 DEF Above, AboveNext
    <3> QED
      BY <1>3, <2>2, <3>3
  <2> QED
    BY <2>3, <2>4
<1>4. CASE v = w /\ k > m
  <2>1. k \in (m + 1)..Len(stack'[w])
    BY <1>1, <1>4
  <2> QED
    BY <1>4, <2>1
<1> QED
  BY <1>1, <1>2, <1>3, <1>4

\* The steps that change one frame, and at most call a task.
LEMMA JoinsTop ==
    ASSUME TypeOK, Joins, NEW w \in Worker, NEW n \in Depth(w), Kept(w, n - 1),
           finished \subseteq finished', \A c \in Node : done'[c] => c \in finished',
           stack'[w][n].node = stack[w][n].node,
           \/ Len(stack'[w]) = n
           \/ Len(stack'[w]) = n + 1 /\ stack'[w][n + 1].at = "enter",
           Joined(stack'[w][n], AboveNext(w, n), finished')
    PROVE  Joins'
<1>1. /\ n \in Nat /\ n > 0 /\ (n - 1) + 1 = n /\ Len(stack[w]) \in Nat /\ n - 1 < n
      /\ n <= Len(stack[w]) /\ n - 1 < Len(stack[w])
  BY DEF Depth, TypeOK
<1>2. ASSUME NEW k \in ((n - 1) + 1)..Len(stack'[w])
      PROVE  Joined(stack'[w][k], AboveNext(w, k), finished')
  <2>1. k = n \/ (k = n + 1 /\ stack'[w][k].at = "enter")
    BY <1>1
  <2> QED
    BY <2>1, JoinedAtFirst
<1>3. n - 1 < Len(stack'[w])
  BY <1>1
<1>4. stack'[w][(n - 1) + 1].node = stack[w][(n - 1) + 1].node
  BY <1>1
<1> QED
  BY <1>1, <1>2, <1>3, <1>4, JoinsKept

LEMMA JoinsSame ==
    ASSUME Joins, UNCHANGED <<stack, done, finished>>
    PROVE  Joins'
<1> SUFFICES ASSUME NEW v \in Worker, NEW k \in Depth(v)
             PROVE  Joined(stack'[v][k], AboveNext(v, k), finished')
  BY DEF Joins, Joined, Above, AboveNext, Depth
<1>1. AboveNext(v, k) = Above(v, k) /\ Joined(stack[v][k], Above(v, k), finished)
  BY DEF Joins, Above, AboveNext
<1> QED
  BY <1>1

\* What stands above the frame of a call, and above an innermost frame.
LEMMA AboveIs ==
    ASSUME NEW w \in Worker, NEW n \in Nat
    PROVE  /\ Len(stack'[w]) = n => AboveNext(w, n) = {}
           /\ Len(stack'[w]) = n + 1 => AboveNext(w, n) = {stack'[w][n + 1].node}
           /\ Len(stack[w]) = n => Above(w, n) = {}
           /\ Len(stack[w]) = n + 1 => Above(w, n) = {stack[w][n + 1].node}
BY DEF Above, AboveNext

\* A join that has one task less to run, which is finished or called.
LEMMA JoinedOneMore ==
    ASSUME NEW f \in FrameType, NEW g \in FrameType, f.node \in Fork, g.node = f.node,
           f.left > 0, g.left = f.left - 1, g.at \in {"inline", "sync"},
           f.at \in {"inline", "sync", "wait"}, NEW ended, Joined(f, {}, ended), NEW above,
           \/ Spawned[f.node][f.left] \in ended
           \/ Spawned[f.node][f.left] \in above
    PROVE  Joined(g, above, ended)
<1>1. f.left \in Nat /\ g.left \in Nat /\ g.left + 1 = f.left
  BY DEF FrameType
<1>2. Len(Spawned[f.node]) \in Nat
  BY OfAFork
<1>3. \A j \in (f.left + 1)..Len(Spawned[f.node]) : Spawned[f.node][j] \in ended
  BY DEF Joined
<1>4. \A j \in (g.left + 1)..Len(Spawned[f.node]) :
        j = f.left \/ j \in (f.left + 1)..Len(Spawned[f.node])
  BY <1>1, <1>2
<1>5. \A j \in (g.left + 1)..Len(Spawned[g.node]) :
        \/ Spawned[g.node][j] \in ended
        \/ j = g.left + 1 /\ Spawned[g.node][j] \in above
  BY <1>1, <1>3, <1>4
<1>6. Body[g.node] \in ended
  BY DEF Joined
<1> QED
  BY <1>5, <1>6 DEF Joined

LEMMA JoinsQuietSteps ==
    ASSUME TypeOK, TypeOK', Lefts, Joins, NEW w \in Worker,
           Work(w) \/ OpenSlot(w) \/ CallBody(w) \/ Close(w) \/ RunInline(w)
    PROVE  Joins'
<1>1. PICK n : n = Len(stack[w])
  OBVIOUS
<1> DEFINE f == Top(w)
           g == stack'[w][n]
<1>2. /\ stack[w] # <<>> /\ Kept(w, n - 1) /\ g.node = f.node
      /\ \/ Len(stack'[w]) = n
         \/ Len(stack'[w]) = n + 1 /\ stack'[w][n + 1].at = "enter"
  <2>1. CASE Work(w)
    BY <1>1, <2>1, WorkStep, TopIs DEF Moves
  <2>2. CASE OpenSlot(w)
    BY <1>1, <2>2, OpenSlotStep, TopIs DEF Moves
  <2>3. CASE CallBody(w)
    BY <1>1, <2>3, CallBodyStep, TopIs DEF Calls
  <2>4. CASE Close(w)
    BY <1>1, <2>4, CloseStep, TopIs DEF Moves
  <2>5. CASE RunInline(w)
    BY <1>1, <2>5, RunInlineStep, TopIs DEF Calls
  <2> QED
    BY <2>1, <2>2, <2>3, <2>4, <2>5
<1>3. /\ n \in Nat /\ n \in Depth(w) /\ f = stack[w][n] /\ f \in FrameType
  BY <1>1, <1>2, TopIs DEF Depth
<1>4. Above(w, n) = {} /\ Joined(f, {}, finished)
  <2>1. Above(w, n) = {}
    BY <1>1, <1>3, AboveIs
  <2> QED
    BY <1>3, <2>1 DEF Joins
<1>5. g \in FrameType
  <2>1. stack'[w] \in Seq(FrameType) /\ n \in 1..Len(stack'[w])
    BY <1>2, <1>3 DEF TypeOK, Depth
  <2> QED
    BY <2>1
<1> HIDE DEF f, g
<1>6. done' = done /\ finished' = finished
  BY DEF Work, OpenSlot, CallBody, Close, RunInline
<1>7. Joined(g, AboveNext(w, n), finished)
  <2>1. CASE Work(w) \/ OpenSlot(w)
    <3>1. g.at \in {"ret", "test"}
      BY <1>1, <2>1, WorkStep, OpenSlotStep DEF Moves, g
    <3> QED
      BY <3>1, JoinedAtFirst
  <2>2. CASE CallBody(w)
    <3>1. /\ f.at = "test" /\ g.at = "body" /\ Len(stack'[w]) = n + 1
          /\ stack'[w][n + 1].node = Body[f.node]
      BY <1>1, <2>2, CallBodyStep DEF Calls, f, g
    <3>2. Body[g.node] \in AboveNext(w, n)
      BY <1>2, <1>3, <3>1, AboveIs
    <3> QED
      BY <3>1, <3>2 DEF Joined
  <2>3. CASE Close(w)
    <3>1. /\ f.at = "close" /\ f.node \in Fork /\ g.at \in {"sync", "inline"}
          /\ g.left = Len(Spawned[f.node])
      BY <1>1, <2>3, CloseStep DEF Moves, f, g
    <3>2. Len(Spawned[f.node]) \in Nat
      BY <3>1, OfAFork
    <3>3. \A j \in (g.left + 1)..Len(Spawned[g.node]) : FALSE
      BY <1>2, <3>1, <3>2
    <3>4. Body[g.node] \in finished
      BY <1>2, <1>4, <3>1 DEF Joined
    <3> QED
      BY <3>1, <3>3, <3>4 DEF Joined
  <2>4. CASE RunInline(w)
    <3>1. /\ f.at = "inline" /\ f.node \in Fork /\ f.left \in 1..Len(Spawned[f.node])
          /\ g.at = "inline" /\ g.left = f.left - 1 /\ Len(stack'[w]) = n + 1
          /\ stack'[w][n + 1].node = Spawned[f.node][f.left]
      BY <1>1, <2>4, RunInlineStep DEF Calls, f, g
    <3>2. Spawned[f.node][f.left] \in AboveNext(w, n)
      BY <1>3, <3>1, AboveIs
    <3>3. f.left > 0
      BY <3>1, <1>3 DEF FrameType
    <3> QED
      BY <1>2, <1>3, <1>4, <1>5, <3>1, <3>2, <3>3, JoinedOneMore
  <2> QED
    BY <2>1, <2>2, <2>3, <2>4
<1> QED
  BY <1>2, <1>3, <1>6, <1>7, JoinsTop DEF f, g, Joins

LEMMA JoinsSyncs ==
    ASSUME TypeOK, TypeOK', Lefts, Joins, NEW w \in Worker,
           SyncUnstolen(w) \/ SyncFinished(w) \/ SyncWait(w) \/ EndWait(w)
    PROVE  Joins'
<1>1. PICK n : n = Len(stack[w])
  OBVIOUS
<1> DEFINE f == Top(w)
           g == stack'[w][n]
<1>2. /\ stack[w] # <<>> /\ f.at \in {"sync", "wait"} /\ f.left > 0
      /\ Kept(w, n - 1) /\ g.node = f.node
      /\ \/ Len(stack'[w]) = n
         \/ Len(stack'[w]) = n + 1 /\ stack'[w][n + 1].at = "enter"
  <2>1. CASE SyncUnstolen(w)
    BY <1>1, <2>1, SyncUnstolenStep, TopIs DEF Calls
  <2>2. CASE SyncFinished(w)
    BY <1>1, <2>2, SyncFinishedStep, TopIs DEF Moves
  <2>3. CASE SyncWait(w)
    BY <1>1, <2>3, SyncWaitStep, TopIs DEF Moves
  <2>4. CASE EndWait(w)
    BY <1>1, <2>4, EndWaitStep, TopIs DEF Moves
  <2> QED
    BY <2>1, <2>2, <2>3, <2>4
<1>3. /\ n \in Nat /\ n \in Depth(w) /\ f = stack[w][n] /\ f \in FrameType
  BY <1>1, <1>2, TopIs DEF Depth
<1>4. Above(w, n) = {} /\ Joined(f, {}, finished)
  <2>1. Above(w, n) = {}
    BY <1>1, <1>3, AboveIs
  <2> QED
    BY <1>3, <2>1 DEF Joins
<1>5. g \in FrameType
  <2>1. stack'[w] \in Seq(FrameType) /\ n \in 1..Len(stack'[w])
    BY <1>2, <1>3 DEF TypeOK, Depth
  <2> QED
    BY <2>1
<1>6. f.node \in Fork /\ Awaited(w) \in Node /\ Awaited(w) = Spawned[f.node][f.left]
  BY <1>2, AwaitedIs DEF Awaited
<1> HIDE DEF f, g
<1>7. done' = done /\ finished' = finished
  BY DEF SyncUnstolen, SyncFinished, SyncWait, EndWait
<1>8. Joined(g, AboveNext(w, n), finished)
  <2>1. CASE SyncUnstolen(w)
    <3>1. /\ g.at = "sync" /\ g.left = f.left - 1 /\ Len(stack'[w]) = n + 1
          /\ stack'[w][n + 1].node = Spawned[f.node][f.left]
      BY <1>1, <1>6, <2>1, SyncUnstolenStep DEF Calls, f, g
    <3>2. Spawned[f.node][f.left] \in AboveNext(w, n)
      BY <1>3, <3>1, AboveIs
    <3> QED
      BY <1>2, <1>3, <1>4, <1>5, <1>6, <3>1, <3>2, JoinedOneMore
  <2>2. CASE SyncFinished(w) \/ EndWait(w)
    <3>1. g.at = "sync" /\ g.left = f.left - 1
      BY <1>1, <2>2, SyncFinishedStep, EndWaitStep DEF Moves, f, g
    <3>2. Spawned[f.node][f.left] \in finished
      BY <1>6, <2>2 DEF SyncFinished, EndWait, Joins
    <3> QED
      BY <1>2, <1>3, <1>4, <1>5, <1>6, <3>1, <3>2, JoinedOneMore
  <2>3. CASE SyncWait(w)
    <3>1. g.at = "wait" /\ g.left = f.left
      BY <1>1, <2>3, SyncWaitStep DEF Moves, f, g
    <3> QED
      BY <1>2, <1>4, <3>1 DEF Joined
  <2> QED
    BY <2>1, <2>2, <2>3
<1> QED
  BY <1>2, <1>3, <1>7, <1>8, JoinsTop DEF f, g, Joins

LEMMA JoinsReturn ==
    ASSUME TypeOK, Shape, Joins, NEW w \in Worker, Return(w)
    PROVE  Joins'
<1>1. /\ stack[w] # <<>> /\ IsTask(Top(w)) /\ Top(w) = stack[w][Len(stack[w])]
      /\ Len(stack[w]) \in Nat /\ Len(stack[w]) > 0
  BY ReturnStep, TopIs DEF IsTask
<1>2. done' = done /\ finished' = finished \cup {Top(w).node}
  BY DEF Return
<1>3. finished \subseteq finished' /\ \A c \in Node : done'[c] => c \in finished'
  BY <1>2 DEF Joins
<1>4. CASE Len(stack[w]) = 1
  <2>1. Kept(w, 0) /\ Len(stack'[w]) = 0
    BY <1>4, ReturnEffect
  <2> QED
    BY <1>3, <2>1, JoinsKept
<1>5. CASE Len(stack[w]) # 1
  <2>1. PICK n : n = Len(stack[w]) - 1
    OBVIOUS
  <2> DEFINE f == stack[w][n]
             g == stack'[w][n]
  <2>2. /\ Kept(w, n - 1) /\ n > 0 /\ Len(stack'[w]) = n
        /\ g.node = f.node /\ g.left = f.left
        /\ g.at = IF f.at = "body" THEN "close" ELSE IF f.at = "job" THEN "finish" ELSE f.at
    BY <1>5, <2>1, ReturnEffect
  <2>3. n \in Nat /\ n \in Depth(w) /\ Len(stack[w]) = n + 1
    BY <1>1, <2>1, <2>2 DEF Depth
  <2>4. AboveNext(w, n) = {} /\ Above(w, n) = {Top(w).node}
    BY <1>1, <2>2, <2>3, AboveIs
  <2>5. Joined(f, {Top(w).node}, finished)
    BY <2>3, <2>4 DEF Joins
  <2>6. f.at # "wait"
    <3>1. n + 1 \in Depth(w) /\ n + 1 # 1 /\ (n + 1) - 1 = n
      BY <2>2, <2>3 DEF Depth
    <3> QED
      BY <1>1, <2>3, <3>1 DEF Shape
  <2> HIDE DEF f, g
  <2>7. Joined(g, {}, finished')
    BY <1>2, <2>2, <2>5, <2>6 DEF Joined
  <2> QED
    BY <1>3, <2>2, <2>3, <2>4, <2>7, JoinsTop DEF f, g
<1> QED
  BY <1>4, <1>5

LEMMA JoinsJobs ==
    ASSUME TypeOK, TypeOK', Shape, Joins, NEW w \in Worker, StartJob(w) \/ FinishJob(w)
    PROVE  Joins'
<1>1. CASE StartJob(w)
  <2>1. PICK n : n = Len(stack[w])
    OBVIOUS
  <2>2. /\ Kept(w, n) /\ Len(stack'[w]) = n + 2 /\ n \in Nat
        /\ stack'[w][n + 1].at = "job" /\ stack'[w][n + 2].at = "enter"
        /\ stack'[w][n + 1].node = stack'[w][n + 2].node
    BY <1>1, <2>1, StartJobStep, KeptIs
  <2>3. n = 0 \/ (n \in Depth(w) /\ stack[w][n].at = "wait")
    <3>1. CASE stack[w] = <<>>
      BY <2>1, <3>1
    <3>2. CASE At(w, "wait")
      BY <2>1, <3>2, TopIs DEF At, Depth
    <3> QED
      BY <1>1, <3>1, <3>2 DEF StartJob, Looking
  <2>4. \A k \in (n + 1)..(n + 2) : k = n + 1 \/ k = n + 2
    BY <2>2
  <2>5. AboveNext(w, n + 1) = {stack'[w][n + 2].node}
    <3>1. n + 1 < n + 2 /\ (n + 1) + 1 = n + 2
      BY <2>2
    <3> QED
      BY <2>2, <3>1 DEF AboveNext
  <2>6. \A k \in (n + 1)..Len(stack'[w]) :
          Joined(stack'[w][k], AboveNext(w, k), finished')
    BY <2>2, <2>4, <2>5 DEF Joined
  <2>7. done' = done /\ finished' = finished
    BY <1>1 DEF StartJob
  <2> QED
    BY <2>2, <2>3, <2>6, <2>7, JoinsKept DEF Joins
<1>2. CASE FinishJob(w)
  <2>1. PICK n : n = Len(stack[w]) - 1
    OBVIOUS
  <2>2. /\ stack[w] # <<>> /\ Top(w).at = "finish" /\ Top(w).node \in Node
        /\ Kept(w, n) /\ Len(stack'[w]) = n
        /\ Len(stack[w]) # 1 => stack[w][n].at = "wait"
    BY <1>2, <2>1, FinishJobStep, ShapeFinishJob
  <2>3. /\ Len(stack[w]) \in Nat /\ Len(stack[w]) > 0 /\ Len(stack[w]) \in Depth(w)
        /\ Top(w) = stack[w][Len(stack[w])]
    BY <2>2, TopIs DEF Depth
  <2>4. n = 0 \/ (n \in Depth(w) /\ stack[w][n].at = "wait")
    <3>1. CASE Len(stack[w]) = 1
      BY <2>1, <3>1
    <3>2. CASE Len(stack[w]) # 1
      <4>1. \A k \in Nat : k > 0 /\ k # 1 => k - 1 \in 1..k
        OBVIOUS
      <4> QED
        BY <2>1, <2>2, <2>3, <3>2, <4>1 DEF Depth
    <3> QED
      BY <3>1, <3>2
  <2>5. Top(w).node \in finished
    BY <2>2, <2>3 DEF Joins, Joined
  <2>6. done' = [done EXCEPT ![Top(w).node] = TRUE] /\ finished' = finished
    BY <1>2 DEF FinishJob
  <2>7. \A c \in Node : done'[c] => c \in finished'
    BY <2>5, <2>6 DEF Joins, TypeOK
  <2>8. \A k \in (n + 1)..n : FALSE
    BY <2>1, <2>3
  <2> QED
    BY <2>2, <2>4, <2>6, <2>7, <2>8, JoinsKept
<1> QED
  BY <1>1, <1>2

\* Every step joins and finishes only what is finished.
LEMMA JoinsStep ==
    ASSUME Inv, TypeOK', NEW w \in Worker, Step(w) \/ Heartbeat(w)
    PROVE  Joins'
<1>1. TypeOK /\ Lefts /\ Shape /\ Joins
  BY DEF Inv
<1>2. CASE Work(w) \/ OpenSlot(w) \/ CallBody(w) \/ Close(w) \/ RunInline(w)
  BY <1>1, <1>2, JoinsQuietSteps
<1>3. CASE SyncUnstolen(w) \/ SyncFinished(w) \/ SyncWait(w) \/ EndWait(w)
  BY <1>1, <1>3, JoinsSyncs
<1>4. CASE StartJob(w) \/ FinishJob(w) \/ Return(w)
  BY <1>1, <1>4, JoinsJobs, JoinsReturn
<1>5. CASE EagerPromote(w) \/ PromoteFront(w) \/ EndHeartbeat(w) \/ Heartbeat(w)
  BY <1>1, <1>5, JoinsSame DEF EagerPromote, PromoteFront, EndHeartbeat, Heartbeat
<1> QED
  BY <1>2, <1>3, <1>4, <1>5 DEF Step

-----------------------------------------------------------------------------
(* The invariant holds of every behaviour.                                 *)

LEMMA InitInv == Init => Inv
<1> SUFFICES ASSUME Init PROVE Inv
  OBVIOUS
<1>1. /\ Main \in Worker /\ Root \in Node
      /\ Frame(Root, "enter") \in FrameType
      /\ Frame(Root, "enter").node = Root /\ Frame(Root, "enter").at = "enter"
      /\ Frame(Root, "enter").left = 0
  BY ProgramAssumption DEF Frame, FrameType, Places
<1>2. TypeOK
  BY <1>1 DEF TypeOK, Init
<1>3. ASSUME NEW w \in Worker, NEW k \in Depth(w)
      PROVE  /\ w = Main /\ k = 1 /\ Len(stack[w]) = 1 /\ stack[w][k].node = Root
             /\ stack[w][k].at = "enter" /\ stack[w][k].left = 0
  <2>1. stack[w] = IF w = Main THEN <<Frame(Root, "enter")>> ELSE <<>>
    BY DEF Init
  <2>2. CASE w = Main
    BY <1>1, <2>1, <2>2 DEF Depth
  <2>3. CASE w # Main
    BY <2>1, <2>3 DEF Depth
  <2> QED
    BY <2>2, <2>3
<1>4. Lefts
  <2>1. 0 <= Len(Spawned[Root])
    BY <1>1, ProgramAssumption
  <2> QED
    BY <1>3, <2>1 DEF Lefts, FitsTask, AtFork
<1>5. Shape
  BY <1>3 DEF Shape, IsTask, Innermost
<1>6. PromotedOutsideIn /\ TokensSpent
  BY <1>3 DEF PromotedOutsideIn, TokensSpent, IsOpen
<1>7. Timer
  <2>1. \A w \in Worker : stack[w] # <<>> => Top(w).at # "wait"
    BY <1>2, <1>3, TopIs DEF Depth
  <2> QED
    BY <2>1 DEF Timer, Init
<1>8. Owners
  <2>1. /\ runs \in [Node -> {0, 1}] /\ \A c \in Node : runs[c] = 0
        /\ \A w \in Worker : deque[w] = <<>>
    BY DEF Init
  <2>2. \A c : Held(c) => c = Root
    BY <1>3 DEF Held
  <2>3. \A c : ~Queued(c)
    BY <2>1 DEF Queued
  <2>4. \A p \in Fork : \A c \in Children(p) : Fresh(c)
    <3>1. \A p \in Fork : \A c \in Children(p) : c # Root /\ c \in Node
      BY OfAFork
    <3> QED
      BY <2>1, <2>2, <2>3, <3>1 DEF Fresh
  <2>5. OneFrame /\ Begun /\ Forked
    BY <1>1, <1>3, <2>1 DEF OneFrame, Begun, Forked
  <2>6. QueuedOnce
    BY <2>1 DEF QueuedOnce
  <2>7. FramesToCome
    BY <1>3 DEF FramesToCome, FrameToCome, IsOpen
  <2> QED
    BY <2>1, <2>4, <2>5, <2>6, <2>7 DEF Owners, TasksToCome
<1>9. Joins
  BY <1>3, JoinedAtFirst DEF Joins, Init
<1>10. Jobs
  <2>1. \A w \in Worker : deque[w] = <<>> /\ Owed(w) \in Seq(Seq(Node))
    BY <1>2, <1>4, OwedIs DEF OwedOK, Init
  <2> QED
    BY <2>1, EndsNothing DEF Jobs
<1> QED
  BY <1>2, <1>4, <1>5, <1>6, <1>7, <1>8, <1>9, <1>10 DEF Inv

LEMMA StutterInv == Inv /\ UNCHANGED vars => Inv'
<1> SUFFICES ASSUME Inv, UNCHANGED vars PROVE Inv'
  OBVIOUS
<1>1. TypeOK' /\ Lefts' /\ Shape'
  BY DEF Inv, vars, TypeOK, Lefts, Shape, Depth, FitsTask, IsTask
<1>2. PromotedOutsideIn' /\ TokensSpent' /\ Timer'
  BY DEF Inv, vars, PromotedOutsideIn, TokensSpent, Timer, Top, Depth, IsOpen
<1>3. Owners' /\ Joins' /\ Jobs'
  BY OwnersSame, JoinsSame, JobsSame DEF Inv, vars
<1> QED
  BY <1>1, <1>2, <1>3 DEF Inv

LEMMA NextInv == Inv /\ [Next]_vars => Inv'
<1>1. ASSUME Inv, NEW w \in Worker, Step(w) \/ Heartbeat(w) PROVE Inv'
  <2>1. TypeOK' /\ Lefts' /\ Shape'
    BY <1>1, StructureStep DEF Inv
  <2>2. PromotedOutsideIn' /\ TokensSpent' /\ Timer'
    BY <1>1, <2>1, PromotionStep, TimerStep
  <2>3. Owners' /\ Joins' /\ Jobs'
    BY <1>1, <2>1, OwnersStep, JoinsStep, JobsStep
  <2> QED
    BY <2>1, <2>2, <2>3 DEF Inv
<1>2. Inv /\ Terminated => Inv'
  BY StutterInv DEF Terminated
<1> QED
  BY <1>1, <1>2, StutterInv DEF Next

-----------------------------------------------------------------------------
(* The theorems.                                                           *)

\* The invariant holds in every state of every behaviour.
THEOREM SpecInv == Spec => []Inv
BY InitInv, NextInv, PTL DEF Spec

\* Every variable keeps its type; the token counters never wrap below zero.
THEOREM TypeCorrect == Spec => []TypeOK
<1>1. Inv => TypeOK
  BY DEF Inv
<1> QED
  BY <1>1, SpecInv, PTL

-----------------------------------------------------------------------------
LEMMA EndsEnds ==
    ASSUME NEW S, NEW d \in Seq(S), NEW s \in Seq(S), NEW t \in Seq(S), Ends(d, s), Ends(s, t)
    PROVE  Ends(d, t)
<1>1. /\ Len(d) \in Nat /\ Len(s) \in Nat /\ Len(t) \in Nat
      /\ Len(d) <= Len(s) /\ Len(s) <= Len(t)
  BY DEF Ends
<1>2. ASSUME NEW k \in 1..Len(d) PROVE d[k] = t[Len(t) - Len(d) + k]
  <2> DEFINE j == Len(s) - Len(d) + k
  <2>1. j \in 1..Len(s) /\ Len(t) - Len(s) + j = Len(t) - Len(d) + k
    BY <1>1
  <2>2. d[k] = s[j]
    BY DEF Ends
  <2> HIDE DEF j
  <2> QED
    BY <2>1, <2>2 DEF Ends
<1> QED
  BY <1>1, <1>2 DEF Ends

LEMMA OwedEndsPending ==
    ASSUME TypeOK, Lefts, NEW w \in Worker
    PROVE  /\ Ends(FlattenSeq(Owed(w)), PendingOf(w))
           /\ FlattenSeq(Owed(w)) \in Seq(Node) /\ PendingOf(w) \in Seq(Node)
<1> DEFINE c == Owed(w)
           p == [k \in DOMAIN stack[w] |-> Pending(stack[w][k])]
<1>1. /\ Len(stack[w]) \in Nat /\ c \in Seq(Seq(Node)) /\ Len(c) = Len(stack[w])
      /\ \A k \in 1..Len(stack[w]) : c[k] = IF Waits(w, k) THEN <<>> ELSE Pending(stack[w][k])
  BY OwedIs DEF OwedOK
<1>2. /\ p \in Seq(Seq(Node)) /\ Len(p) = Len(stack[w])
      /\ \A k \in 1..Len(stack[w]) : p[k] = Pending(stack[w][k])
  <2>1. DOMAIN stack[w] = 1..Len(stack[w])
    BY DEF TypeOK
  <2>2. \A k \in 1..Len(stack[w]) : Pending(stack[w][k]) \in Seq(Node)
    BY PendingTypes DEF Depth
  <2> QED
    BY <1>1, <2>1, <2>2
<1>3. PendingOf(w) = FlattenSeq(p)
  BY DEF PendingOf
<1> HIDE DEF c, p
<1>4. ASSUME NEW j \in 1..Len(c) PROVE c[j] = p[j] \/ \A i \in 1..j : c[i] = <<>>
  <2>1. CASE Waits(w, j)
    <3>1. ASSUME NEW i \in 1..j PROVE c[i] = <<>>
      <4>1. i \in 1..Len(stack[w]) /\ \A l \in j..Len(stack[w]) : l \in i..Len(stack[w])
        BY <1>1
      <4>2. Waits(w, i)
        BY <2>1, <4>1 DEF Waits
      <4> QED
        BY <1>1, <4>1, <4>2
    <3> QED
      BY <3>1
  <2>2. CASE ~Waits(w, j)
    BY <1>1, <1>2, <2>2
  <2> QED
    BY <2>1, <2>2
<1>5. Ends(FlattenSeq(c), FlattenSeq(p)) /\ FlattenSeq(p) \in Seq(Node)
  BY <1>1, <1>2, <1>4, FlattenEnds
<1>6. FlattenSeq(c) \in Seq(Node)
  <2>1. PICK g \in [0..Len(c) -> Seq(Node)] : FlattenSeq(c) = g[Len(c)]
    BY <1>1, FlattenSeqIs
  <2>2. Len(c) \in 0..Len(c)
    BY <1>1
  <2> QED
    BY <2>1, <2>2
<1> QED
  BY <1>3, <1>5, <1>6 DEF c

\* What a worker's deque holds are the youngest of the jobs its own frames have
\* still to join, in that order: thieves take from the other end, and nobody
\* enqueues on another worker's deque.
THEOREM DequesMatch == Spec => []DequeMatchesFrames
<1>1. ASSUME Inv, NEW w \in Worker PROVE IsSuffix(deque[w], PendingOf(w))
  <2>1. deque[w] \in Seq(Node) /\ Ends(deque[w], FlattenSeq(Owed(w)))
    BY <1>1 DEF Inv, TypeOK, Jobs
  <2>2. /\ Ends(FlattenSeq(Owed(w)), PendingOf(w))
        /\ FlattenSeq(Owed(w)) \in Seq(Node) /\ PendingOf(w) \in Seq(Node)
    BY <1>1, OwedEndsPending DEF Inv
  <2>3. Ends(deque[w], PendingOf(w))
    BY <2>1, <2>2, EndsEnds
  <2> QED
    BY <2>1, <2>2, <2>3, EndsIsSuffix
<1>2. Inv => DequeMatchesFrames
  BY <1>1 DEF DequeMatchesFrames
<1> QED
  BY <1>2, SpecInv, PTL

\* A worker that waits or is idle has promoted all its slots, has an empty deque
\* and no timer: it keeps from the others nothing that they could run.
THEOREM WaitsPromoted == Spec => []WaitsFullyPromoted
<1>1. ASSUME Inv, NEW w \in Worker,
             (stack[w] = <<>> /\ w # Main) \/ (stack[w] # <<>> /\ Top(w).at = "wait")
      PROVE  Promotable(w) = {} /\ deque[w] = <<>> /\ ~armed[w] /\ ~handling[w]
  <2>1. deque[w] = <<>>
    BY <1>1, IdleEmpty DEF Inv
  <2>2. ~armed[w] /\ ~handling[w]
    BY <1>1 DEF Inv, Timer
  <2>3. DOMAIN stack[w] = Depth(w)
    BY <1>1 DEF Inv, TypeOK, Depth
  <2>4. \A k \in Depth(w) : ~Unpromoted(stack[w][k])
    <3>1. CASE stack[w] = <<>>
      BY <3>1 DEF Depth
    <3>2. CASE stack[w] # <<>> /\ Top(w).at = "wait"
      BY <1>1, <3>2, JoinPromoted DEF Inv
    <3> QED
      BY <1>1, <3>1, <3>2
  <2>5. Promotable(w) = {}
    BY <2>3, <2>4 DEF Promotable, Unpromoted
  <2> QED
    BY <2>1, <2>2, <2>5
<1>2. Inv => WaitsFullyPromoted
  BY <1>1 DEF WaitsFullyPromoted
<1> QED
  BY <1>2, SpecInv, PTL

\* A step of v changes no other worker's stack.
LEMMA OthersKept ==
    ASSUME TypeOK, NEW v \in Worker, Step(v) \/ Heartbeat(v)
    PROVE  \A w \in Worker : w # v => stack'[w] = stack[w]
<1>1. CASE Work(v) \/ OpenSlot(v) \/ CallBody(v) \/ Close(v) \/ RunInline(v)
  BY <1>1 DEF Work, OpenSlot, CallBody, Close, RunInline, Goto, Call, TypeOK
<1>2. CASE SyncUnstolen(v) \/ SyncFinished(v) \/ SyncWait(v) \/ EndWait(v)
  BY <1>2 DEF SyncUnstolen, SyncFinished, SyncWait, EndWait, Goto, Call, TypeOK
<1>3. CASE StartJob(v)
  BY <1>3, StartJobStep DEF Kept
<1>4. CASE FinishJob(v)
  BY <1>4 DEF FinishJob, TypeOK
<1>5. CASE Return(v)
  <2>1. \E m : Kept(v, m)
    BY <1>5, ReturnEffect
  <2> QED
    BY <2>1 DEF Kept
<1>6. CASE EagerPromote(v) \/ PromoteFront(v) \/ EndHeartbeat(v) \/ Heartbeat(v)
  BY <1>6 DEF EagerPromote, PromoteFront, EndHeartbeat, Heartbeat
<1> QED
  BY <1>1, <1>2, <1>3, <1>4, <1>5, <1>6 DEF Step

LEMMA FrontAndLast ==
    ASSUME NEW S, NEW s \in Seq(S), s # <<>>
    PROVE  s = Append(Front(s), Last(s))
<1>1. /\ Len(s) \in Nat /\ Len(s) > 0
      /\ Front(s) \in Seq(S) /\ Len(Front(s)) = Len(s) - 1
      /\ \A k \in 1..(Len(s) - 1) : Front(s)[k] = s[k]
      /\ Last(s) = s[Len(s)] /\ Last(s) \in S
  BY FrontIs
<1> DEFINE t == Front(s)
<1> HIDE DEF t
<1>2. t \in Seq(S) /\ Len(t) = Len(s) - 1 /\ \A k \in 1..(Len(s) - 1) : t[k] = s[k]
  BY <1>1 DEF t
<1>3. Append(t, Last(s)) \in Seq(S) /\ Len(Append(t, Last(s))) = Len(s)
  BY <1>1, <1>2
<1>4. ASSUME NEW k \in 1..Len(s) PROVE Append(t, Last(s))[k] = s[k]
  <2>1. CASE k = Len(s)
    BY <1>1, <1>2, <2>1
  <2>2. CASE k # Len(s)
    <3>1. k \in 1..(Len(s) - 1)
      BY <1>1, <2>2
    <3> QED
      BY <1>1, <1>2, <3>1
  <2> QED
    BY <2>1, <2>2
<1> QED
  BY <1>3, <1>4 DEF t

\* The job that a join takes off its own deque and throws away is the one it
\* then runs in place.
THEOREM OwnJob == Spec => SyncDequeuesItsOwnJob
<1> DEFINE Same == \A w \in Worker :
                     At(w, "sync") /\ stack'[w] # stack[w] /\ deque'[w] # deque[w] =>
                       deque[w] = Append(deque'[w], Awaited(w))
<1>1. ASSUME Inv, NEW v \in Worker, Step(v) \/ Heartbeat(v),
             NEW w \in Worker, At(w, "sync"), stack'[w] # stack[w], deque'[w] # deque[w]
      PROVE  deque[w] = Append(deque'[w], Awaited(w))
  <2>1. v = w
    BY <1>1, OthersKept DEF Inv
  <2>2. SyncUnstolen(w)
    <3>1. ~(EagerPromote(w) \/ PromoteFront(w))
      BY <1>1 DEF EagerPromote, PromoteFront
    <3>2. ~StartJob(w)
      BY <1>1 DEF StartJob, Looking, At
    <3>3. ~(Work(w) \/ OpenSlot(w) \/ CallBody(w) \/ Close(w) \/ RunInline(w) \/ Return(w))
      BY <1>1 DEF Work, OpenSlot, CallBody, Close, RunInline, Return
    <3>4. ~(SyncFinished(w) \/ SyncWait(w) \/ EndWait(w) \/ FinishJob(w))
      BY <1>1 DEF SyncFinished, SyncWait, EndWait, FinishJob
    <3>5. ~(EndHeartbeat(w) \/ Heartbeat(w))
      BY <1>1 DEF EndHeartbeat, Heartbeat
    <3> QED
      BY <1>1, <2>1, <3>1, <3>2, <3>3, <3>4, <3>5 DEF Step
  <2>3. /\ stack[w] # <<>> /\ Top(w).at = "sync" /\ Top(w).left > 0 /\ deque[w] # <<>>
        /\ deque' = [deque EXCEPT ![w] = Front(@)]
    BY <2>2 DEF SyncUnstolen, At
  <2>4. deque \in [Worker -> Seq(Node)]
    BY <1>1 DEF Inv, TypeOK
  <2>5. deque[w] \in Seq(Node) /\ deque'[w] = Front(deque[w])
    BY <2>3, <2>4
  <2>6. Last(deque[w]) = Awaited(w)
    BY <1>1, <2>3, SyncTakesAwaited DEF Inv
  <2> QED
    BY <2>3, <2>5, <2>6, FrontAndLast
<1>2. Inv /\ Next => Same
  BY <1>1 DEF Next, Terminated, vars
<1>3. Inv /\ [Next]_vars => [Same]_vars
  BY <1>2
<1> QED
  BY <1>3, SpecInv, PTL DEF Spec, SyncDequeuesItsOwnJob

\* The worker whose deque grows has a slot that is open and unpromoted, and so
\* neither joins, waits nor finishes a job.
LEMMA PromoterRuns ==
    ASSUME Inv, NEW w \in Worker, NEW k \in Depth(w), Unpromoted(stack[w][k])
    PROVE  stack[w] # <<>> /\ Top(w).at \notin {"sync", "wait", "finish"}
<1>1. TypeOK /\ Shape /\ PromotedOutsideIn
  BY DEF Inv
<1>2. stack[w] # <<>>
  BY DEF Depth
<1> DEFINE n == Len(stack[w])
<1>3. n \in Nat /\ n > 0 /\ Top(w) = stack[w][n] /\ k \in 1..n /\ n \in Depth(w)
  BY <1>1, <1>2, TopIs DEF Depth
<1>4. Top(w).at \notin {"sync", "wait"}
  BY <1>1, <1>2, JoinPromoted
<1>5. ASSUME Top(w).at = "finish" PROVE FALSE
  <2>1. k # n
    BY <1>3, <1>5 DEF Unpromoted, IsOpen
  <2>2. n # 1 /\ n - 1 \in Depth(w) /\ k <= n - 1
    BY <1>3, <2>1 DEF Depth
  <2>3. stack[w][n - 1].at = "wait"
    BY <1>1, <1>3, <1>5, <2>2 DEF Shape, IsTask
  <2>4. k # n - 1
    BY <2>3 DEF Unpromoted, IsOpen
  <2>5. k < n - 1
    BY <1>3, <2>2, <2>4
  <2> QED
    BY <1>1, <2>2, <2>3, <2>5 DEF PromotedOutsideIn, Unpromoted
<1> QED
  BY <1>2, <1>4, <1>5

LEMMA TailShorter ==
    ASSUME NEW S, NEW s \in Seq(S), s # <<>>
    PROVE  /\ Len(s) \in Nat /\ Len(Tail(s)) \in Nat /\ Len(Front(s)) \in Nat
           /\ Len(Tail(s)) < Len(s) /\ Len(Front(s)) < Len(s)
<1>1. Len(s) \in Nat /\ Len(s) > 0 /\ Len(Front(s)) = Len(s) - 1
  BY FrontIs
<1>2. Len(Tail(s)) = Len(s) - 1
  BY <1>1
<1> QED
  BY <1>1, <1>2

\* Nothing is enqueued by a worker that is inside a deque operation or looks for
\* jobs: parlay's deque is not reentrant.
THEOREM NoReentry == Spec => NoEnqueueInsideDequeOperation
<1> DEFINE Alone == \A w \in Worker :
                      Len(deque'[w]) > Len(deque[w]) =>
                        stack[w] # <<>> /\ Top(w).at \notin {"sync", "wait", "finish"}
<1>1. ASSUME Inv, NEW v \in Worker, Step(v) \/ Heartbeat(v),
             NEW w \in Worker, Len(deque'[w]) > Len(deque[w])
      PROVE  stack[w] # <<>> /\ Top(w).at \notin {"sync", "wait", "finish"}
  <2>1. TypeOK /\ Lefts /\ TokensSpent
    BY <1>1 DEF Inv
  <2>2. deque \in [Worker -> Seq(Node)] /\ Len(deque[w]) \in Nat /\ Len(deque'[w]) # Len(deque[w])
    <3>1. deque \in [Worker -> Seq(Node)]
      BY <2>1 DEF TypeOK
    <3>2. Len(deque[w]) \in Nat
      BY <3>1
    <3>3. Len(deque'[w]) # Len(deque[w])
      BY <1>1, <3>2
    <3> QED
      BY <3>1, <3>2, <3>3
  <2>3. deque' # deque
    BY <2>2
  <2>4. CASE EagerPromote(v) \/ PromoteFront(v)
    <3>1. PICK k \in Depth(v) : Promotes(v, k)
      BY <2>1, <2>4, PromotesIs
    <3>2. deque' = [deque EXCEPT ![v] = deque[v] \o Spawned[stack[v][k].node]]
      BY <2>1, <3>1, PromotesFork
    <3>3. v = w
      BY <2>2, <3>2
    <3> QED
      BY <1>1, <3>1, <3>3, PromoterRuns DEF Promotes, Unpromoted
  <2>5. CASE StartJob(v)
    <3>1. PICK u \in Worker :
            /\ deque[u] # <<>>
            /\ deque' = [deque EXCEPT ![u] = IF u = v THEN Front(@) ELSE Tail(@)]
      BY <2>1, <2>5, StartJobStep
    <3>2. u = w
      BY <2>2, <3>1
    <3>3. deque'[w] = Front(deque[w]) \/ deque'[w] = Tail(deque[w])
      BY <2>2, <3>1, <3>2
    <3>4. Len(deque'[w]) < Len(deque[w]) /\ Len(deque'[w]) \in Nat
      BY <2>2, <3>1, <3>2, <3>3, TailShorter
    <3> QED
      BY <1>1, <2>2, <3>4
  <2>6. CASE SyncUnstolen(v)
    <3>1. deque[v] # <<>> /\ deque' = [deque EXCEPT ![v] = Front(deque[v])]
      BY <2>2, <2>6 DEF SyncUnstolen
    <3>2. v = w
      BY <2>2, <3>1
    <3>3. deque'[w] = Front(deque[w])
      BY <2>2, <3>1, <3>2
    <3>4. Len(deque'[w]) < Len(deque[w]) /\ Len(deque'[w]) \in Nat
      BY <2>2, <3>1, <3>2, <3>3, TailShorter
    <3> QED
      BY <1>1, <2>2, <3>4
  <2>7. ~(Work(v) \/ OpenSlot(v) \/ CallBody(v) \/ Close(v) \/ RunInline(v) \/ Return(v))
    BY <2>3 DEF Work, OpenSlot, CallBody, Close, RunInline, Return
  <2>8. ~(SyncFinished(v) \/ SyncWait(v) \/ EndWait(v) \/ FinishJob(v))
    BY <2>3 DEF SyncFinished, SyncWait, EndWait, FinishJob
  <2>9. ~(EndHeartbeat(v) \/ Heartbeat(v))
    BY <2>3 DEF EndHeartbeat, Heartbeat
  <2> QED
    BY <1>1, <2>4, <2>5, <2>6, <2>7, <2>8, <2>9 DEF Step
<1>2. ASSUME Inv, NEW w \in Worker, deque' = deque, Len(deque'[w]) > Len(deque[w])
      PROVE  FALSE
  <2>1. deque \in [Worker -> Seq(Node)]
    BY <1>2 DEF Inv, TypeOK
  <2>2. Len(deque[w]) \in Nat
    BY <2>1
  <2> QED
    BY <1>2, <2>2
<1>3. Inv /\ Next => Alone
  BY <1>1, <1>2 DEF Next, Terminated, vars
<1>4. Inv /\ [Next]_vars => [Alone]_vars
  BY <1>3
<1> QED
  BY <1>4, SpecInv, PTL DEF Spec, NoEnqueueInsideDequeOperation

-----------------------------------------------------------------------------
(* The fork-join program.                                                  *)

LEMMA BeginsTask ==
    ASSUME Inv, NEW w \in Worker, Work(w) \/ OpenSlot(w)
    PROVE  \E n \in Node : Program!Begin(n)
<1>1. TypeOK /\ Owners
  BY DEF Inv
<1>2. /\ stack[w] # <<>> /\ Top(w).at = "enter"
      /\ runs' = [runs EXCEPT ![Top(w).node] = @ + 1] /\ finished' = finished
  BY DEF Work, OpenSlot, At
<1>3. PICK n : n = Top(w).node
  OBVIOUS
<1>4. /\ n \in Node /\ runs[n] = 0 /\ (n = Root \/ IsChild(n)) /\ Held(n)
  BY <1>1, <1>2, <1>3, TopTask DEF IsTask
<1>5. n = Root \/ \E p \in Node : n \in Children(p) /\ runs[p] = 1
  <2>1. ASSUME NEW p \in Fork, n \in Children(p) PROVE p \in Node /\ runs[p] = 1
    <3>1. p \in Node
      BY DEF Fork
    <3>2. runs[p] # 0
      BY <1>1, <1>4, <2>1 DEF Owners, TasksToCome, Fresh
    <3>3. runs[p] \in {0, 1}
      BY <1>1, <3>1 DEF Owners
    <3> QED
      BY <3>1, <3>2, <3>3
  <2> QED
    BY <1>4, <2>1 DEF IsChild
<1>6. runs' = [runs EXCEPT ![n] = 1]
  BY <1>2, <1>3, <1>4
<1>7. Program!Begin(n)
  BY <1>2, <1>4, <1>5, <1>6 DEF Program!Begin
<1> QED
  BY <1>4, <1>7

LEMMA FinishesTask ==
    ASSUME Inv, NEW w \in Worker, Return(w)
    PROVE  \E n \in Node : Program!Finish(n)
<1>1. TypeOK /\ Lefts /\ Owners /\ Joins
  BY DEF Inv
<1>2. /\ stack[w] # <<>>
      /\ Top(w).at = "ret" \/ (Top(w).at \in {"sync", "inline"} /\ Top(w).left = 0)
  BY <1>1, ReturnStep
<1>3. runs' = runs /\ finished' = finished \cup {Top(w).node}
  BY DEF Return
<1>4. PICK n : n = Top(w).node
  OBVIOUS
<1>5. /\ n \in Node /\ runs[n] = 1
      /\ Len(stack[w]) \in Depth(w) /\ Top(w) = stack[w][Len(stack[w])]
  BY <1>1, <1>2, <1>4, TopTask DEF IsTask
<1>6. Children(n) \subseteq finished
  <2>1. FitsTask(Top(w))
    BY <1>1, <1>5 DEF Lefts
  <2>2. CASE Top(w).at = "ret"
    BY <1>4, <2>1, <2>2 DEF FitsTask, Children
  <2>3. CASE Top(w).at \in {"sync", "inline"} /\ Top(w).left = 0
    <3>1. n \in Fork
      BY <1>4, <2>1, <2>3 DEF FitsTask, AtFork
    <3>2. Joined(Top(w), {}, finished)
      <4>1. Above(w, Len(stack[w])) = {}
        BY <1>5 DEF Above, Depth
      <4> QED
        BY <1>1, <1>5, <4>1 DEF Joins
    <3>3. /\ Body[n] \in finished
          /\ \A j \in 1..Len(Spawned[n]) : Spawned[n][j] \in finished
      <4>1. Top(w).left + 1 = 1
        BY <2>3
      <4> QED
        BY <1>4, <2>3, <3>2, <4>1 DEF Joined
    <3> QED
      BY <3>1, <3>3, OfAFork
  <2> QED
    BY <1>2, <2>2, <2>3
<1>7. Program!Finish(n)
  BY <1>3, <1>4, <1>5, <1>6 DEF Program!Finish
<1> QED
  BY <1>5, <1>7

\* The workers together run the program they are given, whatever is promoted,
\* stolen or waited for: every task once, after the fork it belongs to began,
\* and every fork finishes after all it forked.
THEOREM RunsTheProgram == Spec => ImplementsForkJoin
<1>1. Init => Program!Init
  BY DEF Init, Program!Init
<1>2. ASSUME Inv, NEW w \in Worker, Step(w) \/ Heartbeat(w)
      PROVE  [Program!Next]_<<runs, finished>>
  <2>1. CASE Work(w) \/ OpenSlot(w)
    BY <1>2, <2>1, BeginsTask DEF Program!Next
  <2>2. CASE Return(w)
    BY <1>2, <2>2, FinishesTask DEF Program!Next
  <2>3. CASE CallBody(w) \/ Close(w) \/ RunInline(w) \/ EagerPromote(w) \/ PromoteFront(w)
    BY <2>3 DEF CallBody, Close, RunInline, EagerPromote, PromoteFront
  <2>4. CASE SyncUnstolen(w) \/ SyncFinished(w) \/ SyncWait(w) \/ EndWait(w)
    BY <2>4 DEF SyncUnstolen, SyncFinished, SyncWait, EndWait
  <2>5. CASE StartJob(w) \/ FinishJob(w) \/ EndHeartbeat(w) \/ Heartbeat(w)
    BY <2>5 DEF StartJob, FinishJob, EndHeartbeat, Heartbeat
  <2> QED
    BY <1>2, <2>1, <2>2, <2>3, <2>4, <2>5 DEF Step
<1>3. Inv /\ [Next]_vars => [Program!Next]_<<runs, finished>>
  BY <1>2 DEF Next, Terminated, vars
<1> QED
  BY <1>1, <1>3, SpecInv, PTL DEF Spec, ImplementsForkJoin, Program!Spec, Program!vars
=============================================================================
