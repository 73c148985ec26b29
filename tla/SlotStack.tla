----------------------------- MODULE SlotStack -----------------------------
(***************************************************************************)
(* What one worker's spork deque promises to the code that opens slots and *)
(* to the heartbeats that promote them, with the memory it is laid out in  *)
(* left out.                                                               *)
(*                                                                         *)
(* The open slots form a stack of promotion flags, outermost first.  A new *)
(* slot starts unpromoted on top, only the top slot is closed, and a       *)
(* promotion always goes to the outermost slot that is not promoted yet.   *)
(***************************************************************************)
EXTENDS Sequences, Integers

VARIABLE stack      \* the promotion flags of the open slots, outermost first

Init == stack = <<>>

Push == stack' = Append(stack, FALSE)

Promote ==
    \E k \in DOMAIN stack :
        /\ ~stack[k]
        /\ \A j \in 1..(k - 1) : stack[j]
        /\ stack' = [stack EXCEPT ![k] = TRUE]

Pop ==
    /\ stack # <<>>
    /\ stack' = SubSeq(stack, 1, Len(stack) - 1)

Next == Push \/ Promote \/ Pop

Spec == Init /\ [][Next]_stack
=============================================================================
