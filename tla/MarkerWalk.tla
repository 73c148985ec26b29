----------------------------- MODULE MarkerWalk -----------------------------
(***************************************************************************)
(* findMarkedLoops (fablepass/SporkUnrollPass.cpp): from the block of a    *)
(* marker through cheap blocks to the loops the marker denotes.  The walk  *)
(* is depth-first, so how deep it finds a block to lie is not how deep it  *)
(* lies.                                                                   *)
(*                                                                         *)
(* A loop inside the marker's own, which the walk does not enter, is one   *)
(* block: its header.                                                      *)
(***************************************************************************)
EXTENDS Integers, Sequences, SequencesExt, FiniteSets

CONSTANTS
    Start,              \* the marker's block
    Bridge,             \* the blocks of the marker's loop without a barrier
    Barrier,            \* those with one, and blocks outside the loop
    Inner,              \* the headers of the loops nested in it
    MAX_SUCCS,          \* bound: successors of a block
    MaxMarkerWalkDepth

Block  == {Start} \cup Bridge \cup Barrier \cup Inner
Walked == {Start} \cup Bridge    \* the blocks that the walk may leave

ASSUME KindsAssumption ==
    /\ Start \notin Bridge \cup Barrier \cup Inner
    /\ Bridge \cap Barrier = {} /\ (Bridge \cup Barrier) \cap Inner = {}
    /\ IsFiniteSet(Bridge)
    /\ MaxMarkerWalkDepth \in Nat

VARIABLES
    successors,         \* the control-flow graph
    shared,             \* the loops entered from other blocks too
    Work,               \* blocks to leave, with their depths
    at, Depth,          \* the block being left
    rest,               \* its successors not looked at yet
    Visited,
    Loops,              \* the loops found
    pc

graph == <<successors, shared>>
vars  == <<graph, Work, at, Depth, rest, Visited, Loops, pc>>

\* LLVM's preheader: the only way into the loop, leading nowhere else.
IsPreheader(b, l) ==
    /\ successors[b] = {l}
    /\ l \notin shared
    /\ \A other \in Walked : l \in successors[other] => other = b

\* A bridge is in no loop but the marker's, and so no successor of itself.  Of the
\* blocks that the walk does not leave, it matters only which loops they lead to.
Init ==
    /\ successors \in [Walked -> {B \in SUBSET Block : Cardinality(B) <= MAX_SUCCS}]
    /\ \A b \in Walked : b \notin successors[b]
    /\ shared \in SUBSET Inner
    /\ Work = <<<<Start, 0>>>>
    /\ at = Start
    /\ Depth = 0
    /\ rest = {}
    /\ Visited = {Start}
    /\ Loops = {}
    /\ pc = "walk"

-----------------------------------------------------------------------------
Pop ==
    /\ pc = "walk" /\ rest = {}
    /\ Work # <<>>
    /\ at' = Last(Work)[1]
    /\ Depth' = Last(Work)[2]
    /\ rest' = successors[at']
    /\ Work' = Front(Work)
    /\ UNCHANGED <<graph, Visited, Loops, pc>>

\* S is the next of the successors.
Look(S) ==
    /\ pc = "walk"
    /\ S \in rest
    /\ rest' = rest \ {S}
    /\ UNCHANGED <<graph, at, Depth>>

\* Mutant: a loop need not be entered through its preheader.
FindAny(S) ==
    /\ S \in Inner
    /\ Look(S)
    /\ Loops' = Loops \cup {S}
    /\ UNCHANGED <<Work, Visited, pc>>

Find(S) ==
    /\ S \in Inner /\ IsPreheader(at, S)
    /\ Look(S)
    /\ Loops' = Loops \cup {S}
    /\ UNCHANGED <<Work, Visited, pc>>

Ambiguous(S) ==
    /\ S \in Inner /\ ~IsPreheader(at, S)
    /\ Look(S)
    /\ pc' = "none"
    /\ UNCHANGED <<Work, Visited, Loops>>

\* "Leaving the enclosing loop is not a path to the marked loop."  Nor is a block
\* with a barrier, or one seen before.
Skip(S) ==
    /\ S \in Barrier \cup Visited
    /\ Look(S)
    /\ UNCHANGED <<Work, Visited, Loops, pc>>

\* Mutant: one block too early.
TooDeepEarly(S) ==
    /\ S \in Bridge \ Visited
    /\ Depth + 1 >= MaxMarkerWalkDepth
    /\ Look(S)
    /\ Visited' = Visited \cup {S}
    /\ pc' = "none"
    /\ UNCHANGED <<Work, Loops>>

TooDeep(S) ==
    /\ S \in Bridge \ Visited
    /\ Depth + 1 > MaxMarkerWalkDepth
    /\ Look(S)
    /\ Visited' = Visited \cup {S}
    /\ pc' = "none"
    /\ UNCHANGED <<Work, Loops>>

\* Mutant: the block is not noted.
PushUnseen(S) ==
    /\ S \in Bridge \ Visited
    /\ Depth + 1 <= MaxMarkerWalkDepth
    /\ Look(S)
    /\ Work' = Append(Work, <<S, Depth + 1>>)
    /\ UNCHANGED <<Visited, Loops, pc>>

Push(S) ==
    /\ S \in Bridge \ Visited
    /\ Depth + 1 <= MaxMarkerWalkDepth
    /\ Look(S)
    /\ Visited' = Visited \cup {S}
    /\ Work' = Append(Work, <<S, Depth + 1>>)
    /\ UNCHANGED <<Loops, pc>>

\* `return !Loops.empty()`
End ==
    /\ pc = "walk" /\ rest = {}
    /\ Work = <<>>
    /\ pc' = IF Loops = {} THEN "none" ELSE "found"
    /\ UNCHANGED <<graph, Work, at, Depth, rest, Visited, Loops>>

Returned == pc \in {"found", "none"} /\ UNCHANGED vars

Step ==
    \/ Pop \/ End
    \/ \E S \in Block :
        Find(S) \/ Ambiguous(S) \/ Skip(S) \/ TooDeep(S) \/ Push(S)

Next == Step \/ Returned

Spec == Init /\ [][Next]_vars

-----------------------------------------------------------------------------
(* Properties.                                                             *)

\* Every variable keeps its type, and no block is walked from deeper than allowed.
TypeOK ==
    /\ successors \in [Walked -> SUBSET Block] /\ shared \subseteq Inner
    /\ \A k \in DOMAIN Work : Work[k] \in Walked \X (0..MaxMarkerWalkDepth)
    /\ at \in Walked /\ Depth \in 0..MaxMarkerWalkDepth
    /\ rest \subseteq Block
    /\ Visited \subseteq Walked
    /\ Loops \subseteq Inner

\* The least set of blocks that holds Start and the bridges its blocks lead to.
Closed(B)  == Start \in B /\ \A b \in B : successors[b] \cap Bridge \subseteq B
WithinWalk == {b \in Walked : \A B \in SUBSET Walked : Closed(B) => b \in B}

Entered      == {l \in Inner : \E b \in WithinWalk : l \in successors[b]}
CleanEntries == \A b \in WithinWalk : \A l \in Inner \cap successors[b] : IsPreheader(b, l)

\* Whatever order a branch lists its targets in, a walk that succeeds returns
\* all the loops that a path without a barrier leads to, and no others.  One
\* copy missed would keep its single steps under a factor meant for batches; one
\* too many would be batched under another loop's token.
FindsAllCopies == pc = "found" => Loops = Entered /\ Loops # {} /\ CleanEntries

\* It fails only if it must: there is nothing to find, or a loop that is not
\* entered cleanly, or enough blocks to exceed the limit on the way.
GivesUpForAReason ==
    pc = "none" => \/ Entered = {} \/ ~CleanEntries
                   \/ Cardinality(WithinWalk) > MaxMarkerWalkDepth + 1

\* No block waits to be left twice, or while it is being left, on graphs with
\* cycles too: the walk ends.
LeavesEachBlockOnce ==
    /\ \A j, k \in DOMAIN Work : Work[j][1] = Work[k][1] => j = k
    /\ Work # <<<<Start, 0>>>> => \A k \in DOMAIN Work : Work[k][1] # at
    /\ \A k \in DOMAIN Work : Work[k][1] \in Visited

=============================================================================
