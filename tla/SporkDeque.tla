----------------------------- MODULE SporkDeque -----------------------------
(***************************************************************************)
(* The spork deque of one worker (scheduler.hpp): a list of promotable     *)
(* slots threaded through the frames of the C++ stack, edited by the       *)
(* worker and walked by the SIGALRM handler that interrupts it.            *)
(*                                                                         *)
(* The worker's steps are single accesses to the variables it shares with  *)
(* the handler, so the handler may start between any two of them.  The     *)
(* handler runs on the worker's own thread with SIGALRM blocked: while it  *)
(* runs (slot # Null) the worker stands still.                             *)
(*                                                                         *)
(* Slots are addresses.  A closed slot keeps its last contents until some  *)
(* later frame builds a slot at the same address, which is what makes a    *)
(* `next` pointer dangle.                                                  *)
(***************************************************************************)
EXTENDS Integers, Sequences

CONSTANTS
    Slot,                   \* stack addresses at which a SporkSlot may be built
    Front,                  \* the sentinel spork_deque_front
    Null,                   \* nullptr
    TOKENS_PER_HEARTBEAT,
    MAX_HEARTBEAT_TOKENS,
    JobTokens               \* what a job may have been enqueued with

ASSUME AddressAssumption ==
    /\ Front \notin Slot
    /\ Null \notin Slot
    /\ Front # Null

ASSUME TokenAssumption ==
    /\ TOKENS_PER_HEARTBEAT \in Nat
    /\ MAX_HEARTBEAT_TOKENS \in Nat
    /\ JobTokens \subseteq Nat

VARIABLES
    heartbeat_tokens,       \* thread_local volatile uint
    disable_heartbeats,     \* thread_local volatile bool
    promoted,               \* SporkSlot::promoted, per address
    prev,                   \* SporkSlot::prev: the node whose `next` it points to
    next,                   \* SporkSlot::next, of the slots and of the sentinel
    spork_deque_back,       \* the node whose `next` it points to
    hbt,                    \* tokens the slot's reclaimable job was enqueued with
    pc,                     \* where the worker stands
    this,                   \* the slot under construction or just unlinked
    before,                 \* eager_promote's saved disable_heartbeats
    loaded,                 \* fast_clone's read of heartbeat_tokens
    slot,                   \* promote_front's cursor; Null: no handler running
    open,                   \* history: the slots between commit and close, in order
    calls                   \* history: promotion handler calls of the slot's current life

mem   == <<promoted, prev, next, spork_deque_back>>
local == <<pc, this, before, loaded>>
vars  == <<heartbeat_tokens, disable_heartbeats, mem, hbt, local, slot, open, calls>>

top == open[Len(open)]

-----------------------------------------------------------------------------
(***************************************************************************)
(* What a promotion handler does to the tokens t left after the promotion  *)
(* itself was paid for: <<tokens given away, those that come back when the *)
(* job is joined unstolen>>.  par and spork give half to their one job;    *)
(* parfor gives nothing (too few iterations left), half rounded up to the  *)
(* right job alone, or that and all the rest to the left job, whose tokens *)
(* its join reclaims.                                                      *)
(***************************************************************************)
Gifts(t) == LET half == (t + 1) \div 2
            IN  {<<0, 0>>, <<t \div 2, 0>>, <<half, 0>>, <<t, t - half>>}

\* The call of slot s's promotion handler, with t tokens left.
CallPromfn(s, t) ==
    \E gift \in Gifts(t) :
        /\ heartbeat_tokens' = t - gift[1]
        /\ hbt' = [hbt EXCEPT ![s] = gift[2]]
        /\ calls' = [calls EXCEPT ![s] = @ + 1]

Init ==
    /\ heartbeat_tokens = 0
    /\ disable_heartbeats = FALSE
    /\ promoted = [s \in Slot |-> FALSE]
    /\ prev = [s \in Slot |-> Null]
    /\ next = [n \in Slot \cup {Front} |-> Null]
    /\ spork_deque_back = Front                     \* SporkSlot::reset
    /\ hbt = [s \in Slot |-> 0]
    /\ pc = "run"
    /\ this = Null
    /\ before = FALSE
    /\ loaded = 0
    /\ slot = Null
    /\ open = <<>>
    /\ calls = [s \in Slot |-> 0]

\* One step of the worker, from one place in the code to another.
Worker(from, to) ==
    /\ slot = Null
    /\ pc = from
    /\ pc' = to

-----------------------------------------------------------------------------
(* SporkSlot's constructor and with_prom_handler's eager check.            *)

\* `promoted(false), promfn(_promfn)` and `prev = spork_deque_back`, at an
\* address no open frame occupies.
Construct ==
    /\ Worker("run", "link")
    /\ \E s \in Slot :
        /\ \A k \in DOMAIN open : open[k] # s
        /\ this' = s
        /\ promoted' = [promoted EXCEPT ![s] = FALSE]
        /\ prev' = [prev EXCEPT ![s] = spork_deque_back]
        /\ hbt' = [hbt EXCEPT ![s] = 0]
        /\ calls' = [calls EXCEPT ![s] = 0]
    /\ UNCHANGED <<heartbeat_tokens, disable_heartbeats, next,
                   spork_deque_back, before, loaded, slot, open>>

\* `*prev = this`
Link ==
    /\ Worker("link", "commit")
    /\ next' = [next EXCEPT ![prev[this]] = this]
    /\ UNCHANGED <<heartbeat_tokens, disable_heartbeats, promoted, prev,
                   spork_deque_back, hbt, this, before, loaded, slot, open, calls>>

\* `spork_deque_back = &next`
Commit ==
    /\ Worker("commit", "test")
    /\ spork_deque_back' = this
    /\ open' = Append(open, this)
    /\ this' = Null
    /\ UNCHANGED <<heartbeat_tokens, disable_heartbeats, promoted, prev, next,
                   hbt, before, loaded, slot, calls>>

\* Mutant: the eager check left out, as the line commented out in the
\* constructor leaves it.
TestNever ==
    /\ Worker("test", "run")
    /\ UNCHANGED <<heartbeat_tokens, disable_heartbeats, mem, hbt, this, before,
                   loaded, slot, open, calls>>

\* `if (heartbeat_tokens) slot.eager_promote(...)`
Test ==
    /\ Worker("test", IF heartbeat_tokens > 0 THEN "save" ELSE "run")
    /\ UNCHANGED <<heartbeat_tokens, disable_heartbeats, mem, hbt, this, before,
                   loaded, slot, open, calls>>

\* Mutant: heartbeats stay enabled during the eager promotion.
EagerSaveEnabled ==
    /\ Worker("save", "check")
    /\ before' = disable_heartbeats
    /\ UNCHANGED <<heartbeat_tokens, disable_heartbeats, mem, hbt, this, loaded,
                   slot, open, calls>>

\* `bool before = disable_heartbeats; disable_heartbeats = true`
EagerSave ==
    /\ Worker("save", "check")
    /\ before' = disable_heartbeats
    /\ disable_heartbeats' = TRUE
    /\ UNCHANGED <<heartbeat_tokens, mem, hbt, this, loaded, slot, open, calls>>

\* `if (heartbeat_tokens && !promoted)`
EagerCheck ==
    /\ Worker("check", IF heartbeat_tokens > 0 /\ ~promoted[top]
                       THEN "take" ELSE "restore")
    /\ UNCHANGED <<heartbeat_tokens, disable_heartbeats, mem, hbt, this, before,
                   loaded, slot, open, calls>>

\* `heartbeat_tokens = heartbeat_tokens - 1; promoted = true`
EagerTake ==
    /\ Worker("take", "call")
    /\ heartbeat_tokens' = heartbeat_tokens - 1
    /\ promoted' = [promoted EXCEPT ![top] = TRUE]
    /\ UNCHANGED <<disable_heartbeats, prev, next, spork_deque_back, hbt, this,
                   before, loaded, slot, open, calls>>

\* `fwd(prom)()`
EagerCall ==
    /\ Worker("call", "restore")
    /\ CallPromfn(top, heartbeat_tokens)
    /\ UNCHANGED <<disable_heartbeats, mem, this, before, loaded, slot, open>>

\* `disable_heartbeats = before`
EagerRestore ==
    /\ Worker("restore", "run")
    /\ disable_heartbeats' = before
    /\ UNCHANGED <<heartbeat_tokens, mem, hbt, this, before, loaded, slot, open, calls>>

-----------------------------------------------------------------------------
(* close() and the join that follows it.                                   *)

\* Mutant: the back of the deque is left where it was.
UnlinkKeepBack ==
    /\ Worker("run", "unlinked")
    /\ open # <<>>
    /\ this' = top
    /\ open' = SubSeq(open, 1, Len(open) - 1)
    /\ UNCHANGED <<heartbeat_tokens, disable_heartbeats, mem, hbt, before, loaded,
                   slot, calls>>

\* `spork_deque_back = prev`, of the innermost open slot
Unlink ==
    /\ Worker("run", "unlinked")
    /\ open # <<>>
    /\ this' = top
    /\ spork_deque_back' = prev[top]
    /\ open' = SubSeq(open, 1, Len(open) - 1)
    /\ UNCHANGED <<heartbeat_tokens, disable_heartbeats, promoted, prev, next,
                   hbt, before, loaded, slot, calls>>

\* `return promoted`: unpromoted, the code goes on by itself; promoted, it joins.
ReadPromoted ==
    /\ Worker("unlinked", IF promoted[this] THEN "sync" ELSE "run")
    /\ this' = IF promoted[this] THEN this ELSE Null
    /\ UNCHANGED <<heartbeat_tokens, disable_heartbeats, mem, hbt, before, loaded,
                   slot, open, calls>>

\* The job was not stolen and gives no tokens back: it runs on this frame.
SyncKeep ==
    /\ Worker("sync", "run")
    /\ this' = Null
    /\ UNCHANGED <<heartbeat_tokens, disable_heartbeats, mem, hbt, before, loaded,
                   slot, open, calls>>

\* fast_clone(true): `heartbeat_tokens = heartbeat_tokens + hbt`, a read ...
ReclaimLoad ==
    /\ Worker("sync", "reclaim")
    /\ loaded' = heartbeat_tokens
    /\ UNCHANGED <<heartbeat_tokens, disable_heartbeats, mem, hbt, this, before,
                   slot, open, calls>>

\* ... and a write, with heartbeats enabled in between.
ReclaimStore ==
    /\ Worker("reclaim", "run")
    /\ heartbeat_tokens' = loaded + hbt[this]
    /\ this' = Null
    /\ loaded' = 0
    /\ UNCHANGED <<disable_heartbeats, mem, hbt, before, slot, open, calls>>

\* The job was stolen.  wait() runs other jobs, each of which overwrites
\* heartbeat_tokens when it starts.
SyncStolen ==
    /\ Worker("sync", "run")
    /\ heartbeat_tokens' \in JobTokens
    /\ this' = Null
    /\ UNCHANGED <<disable_heartbeats, mem, hbt, before, loaded, slot, open, calls>>

\* An idle worker starts a job: operator()() sets `heartbeat_tokens = hbt`.
StartJob ==
    /\ Worker("run", "run")
    /\ open = <<>>
    /\ heartbeat_tokens' \in JobTokens
    /\ UNCHANGED <<disable_heartbeats, mem, hbt, this, before, loaded, slot, open, calls>>

-----------------------------------------------------------------------------
(* heartbeat_handler and promote_front.                                    *)

\* Mutant: the walk starts at the back, innermost slot first.
HeartbeatAtBack ==
    /\ slot = Null
    /\ ~disable_heartbeats
    /\ LET t == heartbeat_tokens + TOKENS_PER_HEARTBEAT
       IN  heartbeat_tokens' = IF t > MAX_HEARTBEAT_TOKENS
                               THEN MAX_HEARTBEAT_TOKENS ELSE t
    /\ slot' = IF spork_deque_back = Front THEN Null ELSE spork_deque_back
    /\ UNCHANGED <<disable_heartbeats, mem, hbt, local, open, calls>>

\* SIGALRM arrives: the tokens are topped up, and unless the deque is empty
\* the walk starts at the front.  With heartbeats disabled the handler only
\* counts the signal as missed.
Heartbeat ==
    /\ slot = Null
    /\ ~disable_heartbeats
    /\ LET t == heartbeat_tokens + TOKENS_PER_HEARTBEAT
       IN  heartbeat_tokens' = IF t > MAX_HEARTBEAT_TOKENS
                               THEN MAX_HEARTBEAT_TOKENS ELSE t
    /\ slot' = IF spork_deque_back = Front THEN Null ELSE next[Front]
    /\ UNCHANGED <<disable_heartbeats, mem, hbt, local, open, calls>>

\* Mutant: `next` followed without checking for the back of the deque.
OnwardUnchecked(s) == next[s]

\* Where the walk goes after slot s.
Onward(s) == IF spork_deque_back = s THEN Null ELSE next[s]

\* `if (!slot->promoted) slot->promote()`, then on to the next slot.
WalkPromote ==
    /\ slot # Null
    /\ heartbeat_tokens > 0
    /\ ~promoted[slot]
    /\ promoted' = [promoted EXCEPT ![slot] = TRUE]
    /\ CallPromfn(slot, heartbeat_tokens - 1)
    /\ slot' = Onward(slot)
    /\ UNCHANGED <<disable_heartbeats, prev, next, spork_deque_back, local, open>>

WalkSkip ==
    /\ slot # Null
    /\ heartbeat_tokens > 0
    /\ promoted[slot]
    /\ slot' = Onward(slot)
    /\ UNCHANGED <<heartbeat_tokens, disable_heartbeats, mem, hbt, local, open, calls>>

\* `while (heartbeat_tokens)` ends.
WalkEnd ==
    /\ slot # Null
    /\ heartbeat_tokens = 0
    /\ slot' = Null
    /\ UNCHANGED <<heartbeat_tokens, disable_heartbeats, mem, hbt, local, open, calls>>

-----------------------------------------------------------------------------
Opening == Construct \/ Link \/ Commit
Eager   == Test \/ EagerSave \/ EagerCheck \/ EagerTake \/ EagerCall \/ EagerRestore
Closing == Unlink \/ ReadPromoted \/ SyncKeep \/ ReclaimLoad \/ ReclaimStore
           \/ SyncStolen
Walk    == WalkPromote \/ WalkSkip \/ WalkEnd

Next == Opening \/ Eager \/ Closing \/ StartJob \/ Heartbeat \/ Walk

Spec == Init /\ [][Next]_vars

\* The handler, once entered, runs on.
FairSpec == Spec /\ WF_vars(Walk)

-----------------------------------------------------------------------------
(* Properties.                                                             *)

Pc == {"run", "link", "commit", "test", "save", "check", "take", "call",
       "restore", "unlinked", "sync", "reclaim"}

\* Every variable keeps its type.  That heartbeat_tokens is a natural number
\* says that the unsigned token counter never wraps below zero, whichever of
\* promote() and eager_promote() takes the last token.
TypeOK ==
    /\ heartbeat_tokens \in Nat
    /\ disable_heartbeats \in BOOLEAN
    /\ promoted \in [Slot -> BOOLEAN]
    /\ prev \in [Slot -> Slot \cup {Front, Null}]
    /\ next \in [Slot \cup {Front} -> Slot \cup {Null}]
    /\ spork_deque_back \in Slot \cup {Front}
    /\ hbt \in [Slot -> Nat]
    /\ pc \in Pc
    /\ this \in Slot \cup {Null}
    /\ before \in BOOLEAN
    /\ loaded \in Nat
    /\ slot \in Slot \cup {Null}
    /\ open \in Seq(Slot)
    /\ calls \in [Slot -> Nat]

\* The node k links behind the sentinel.
Node(k) == IF k = 0 THEN Front ELSE open[k]

\* The note on SporkSlot::next: a walk that starts at the front and stops at
\* spork_deque_back meets exactly the open slots, outermost first, and no
\* dangling `next`, wherever in a constructor or a close() the signal arrives.
HandlerSeesOpenSlots ==
    /\ spork_deque_back = Node(Len(open))
    /\ \A k \in DOMAIN open : next[Node(k - 1)] = open[k]
    /\ slot # Null => \E k \in DOMAIN open : slot = open[k]

\* A promoted slot is never inside an unpromoted one: the jobs of a worker are
\* enqueued in the order of the frames that will take them back.
OutermostFirst ==
    \A k \in DOMAIN open :
        promoted[open[k]] => \A j \in 1..(k - 1) : promoted[open[j]]

\* The pcs at which the slot just committed has not been checked for tokens.
Unchecked == {"test", "save", "check", "take"}

\* Between heartbeats a worker holds tokens only when no open slot is left to
\* spend one on, but for the slot it is about to check eagerly.
TokensOnlyWhenFullyPromoted ==
    slot = Null /\ heartbeat_tokens > 0 =>
        \A k \in DOMAIN open :
            promoted[open[k]] \/ (k = Len(open) /\ pc \in Unchecked)

\* What wait()'s comment takes for granted: a worker that joins a promoted
\* slot has no slot open that could still be promoted.
JoinsFullyPromoted ==
    pc \in {"sync", "reclaim"} => \A k \in DOMAIN open : promoted[open[k]]

\* The slots whose promoted flag the code may still look at.
Live == {open[k] : k \in DOMAIN open} \cup {this}

\* The answer close() gives is the truth: the promotion handler of a slot ran
\* once if the slot says promoted, and never otherwise, although both the
\* handler and eager_promote() may promote it.
PromotedOnce ==
    \A s \in Live \ {Null} :
        calls[s] = IF promoted[s] /\ ~(pc = "call" /\ s = top) THEN 1 ELSE 0

\* A slot that is not open is never promoted: not one under construction, not
\* one that close() has unlinked, not the remains of one in a dead frame.
PromotesOnlyOpenSlots ==
    [][\A s \in Slot : calls'[s] > calls[s] => \E k \in DOMAIN open : s = open[k]]_vars

\* The worker is never interrupted for good: a walk over the deque ends.
HandlerReturns == slot # Null ~> slot = Null

\* The deque is the stack of flags it promises to be.
Stack == INSTANCE SlotStack WITH stack <- [k \in DOMAIN open |-> promoted[open[k]]]

ImplementsSlotStack == Stack!Spec

=============================================================================
