-------------------------- MODULE SporkDequeProofs --------------------------
(***************************************************************************)
(* Proofs about SporkDeque, for every set of addresses, every number of    *)
(* tokens per heartbeat and every bound on them.                           *)
(***************************************************************************)
EXTENDS SporkDeque, SequenceTheorems, TLAPS

AllPromoted == \A k \in DOMAIN open : promoted[open[k]]

\* Which variables mean something at which place in the code.
Control ==
    /\ ~before
    /\ disable_heartbeats <=> pc \in {"check", "take", "call", "restore"}
    /\ slot # Null => ~disable_heartbeats
    /\ this # Null <=> pc \in {"link", "commit", "unlinked", "sync", "reclaim"}
    /\ pc \in {"test", "save", "check", "take", "call", "restore"} => open # <<>>

\* The open slots are different addresses, none of them the one being built or
\* just unlinked, and are linked both ways from the sentinel to the back.
Linked ==
    /\ \A j, k \in DOMAIN open : open[j] = open[k] => j = k
    /\ \A k \in DOMAIN open : open[k] # this
    /\ spork_deque_back = Node(Len(open))
    /\ \A k \in DOMAIN open : next[Node(k - 1)] = open[k]
    /\ \A k \in DOMAIN open : prev[open[k]] = Node(k - 1)
    /\ pc \in {"link", "commit"} => prev[this] = Node(Len(open)) /\ ~promoted[this]
    /\ pc = "commit" => next[Node(Len(open))] = this

\* The handler's walk has left only promoted slots behind.
Walked ==
    slot # Null =>
        \E k \in DOMAIN open :
            slot = open[k] /\ \A j \in 1..(k - 1) : promoted[open[j]]

\* Promotions so far went from the outside in, and tokens are left only if
\* they got to the end.
Ordered ==
    /\ OutermostFirst
    /\ TokensOnlyWhenFullyPromoted
    /\ JoinsFullyPromoted
    /\ pc = "unlinked" /\ promoted[this] => AllPromoted
    /\ pc = "take" => heartbeat_tokens > 0 /\ ~promoted[top]
    /\ pc = "call" => promoted[top]

Inv == TypeOK /\ Control /\ Linked /\ Walked /\ Ordered /\ PromotedOnce

-----------------------------------------------------------------------------
\* Different places in the list are different nodes.
LEMMA NodesDiffer ==
    ASSUME TypeOK, Linked
    PROVE  /\ Len(open) \in Nat
           /\ DOMAIN open = 1..Len(open)
           /\ \A k \in 0..Len(open) : Node(k) \in Slot \cup {Front}
           /\ \A j, k \in 0..Len(open) : Node(j) = Node(k) => j = k
<1>1. open \in Seq(Slot) /\ Len(open) \in Nat /\ DOMAIN open = 1..Len(open)
  BY DEF TypeOK
<1>2. \A k \in 1..Len(open) : open[k] \in Slot /\ open[k] # Front
  BY <1>1, AddressAssumption
<1>3. \A k \in 0..Len(open) : Node(k) \in Slot \cup {Front}
  BY <1>1, <1>2 DEF Node
<1>4. \A j, k \in 0..Len(open) : Node(j) = Node(k) => j = k
  <2> SUFFICES ASSUME NEW j \in 0..Len(open), NEW k \in 0..Len(open), Node(j) = Node(k)
               PROVE  j = k
    OBVIOUS
  <2>1. CASE j = 0 \/ k = 0
    BY <1>1, <1>2, <2>1 DEF Node
  <2>2. CASE j # 0 /\ k # 0
    BY <1>1, <2>2 DEF Node, Linked
  <2> QED
    BY <2>1, <2>2
<1> QED
  BY <1>1, <1>3, <1>4

\* A slot promoted with t tokens left gives away no more than it has.
LEMMA CallPromfnTokens ==
    ASSUME TypeOK, NEW s \in Slot, NEW t \in Nat, CallPromfn(s, t)
    PROVE  /\ heartbeat_tokens' \in Nat
           /\ heartbeat_tokens' <= t
           /\ hbt' \in [Slot -> Nat]
           /\ calls' \in [Slot -> Nat]
          /\ \A c \in Slot : calls'[c] = IF c = s THEN calls[c] + 1 ELSE calls[c]
<1>1. PICK gift \in Gifts(t) : /\ heartbeat_tokens' = t - gift[1]
                               /\ hbt' = [hbt EXCEPT ![s] = gift[2]]
                               /\ calls' = [calls EXCEPT ![s] = @ + 1]
  BY DEF CallPromfn
<1>2. gift[1] \in 0..t /\ gift[2] \in Nat
  BY DEF Gifts
<1>3. heartbeat_tokens' \in Nat /\ heartbeat_tokens' <= t
  BY <1>1, <1>2
<1>4. hbt' \in [Slot -> Nat]
  BY <1>1, <1>2 DEF TypeOK
<1>5. calls \in [Slot -> Nat]
  BY DEF TypeOK
<1>6. \A c \in Slot : calls'[c] = IF c = s THEN calls[c] + 1 ELSE calls[c]
  BY <1>1, <1>5
<1>7. calls[s] + 1 \in Nat
  BY <1>5
<1>8. calls' \in [Slot -> Nat]
  BY <1>1, <1>5, <1>7
<1> QED
  BY <1>3, <1>4, <1>6, <1>8

LEMMA InitInv == Init => Inv
<1> SUFFICES ASSUME Init PROVE Inv
  OBVIOUS
<1>1. TypeOK
  <2>1. open \in Seq(Slot)
    BY EmptySeq DEF Init
  <2>2. /\ promoted \in [Slot -> BOOLEAN]
        /\ prev \in [Slot -> Slot \cup {Front, Null}]
        /\ next \in [Slot \cup {Front} -> Slot \cup {Null}]
        /\ hbt \in [Slot -> Nat]
        /\ calls \in [Slot -> Nat]
    BY DEF Init
  <2>3. pc \in Pc
    BY DEF Init, Pc
  <2> QED
    BY <2>1, <2>2, <2>3 DEF Init, TypeOK
<1>2. Control
  BY DEF Init, Control
<1>3. Linked
  BY DEF Init, Linked, Node
<1>4. Walked /\ Ordered
  BY DEF Init, Walked, Ordered, OutermostFirst, TokensOnlyWhenFullyPromoted,
         JoinsFullyPromoted
<1>5. PromotedOnce
  <2>1. Live \ {Null} = {}
    BY DEF Init, Live
  <2> QED
    BY <2>1 DEF PromotedOnce
<1> QED
  BY <1>1, <1>2, <1>3, <1>4, <1>5 DEF Inv

-----------------------------------------------------------------------------
(* Each action preserves the invariant.                                    *)

\* A slot under construction is not in the list.
LEMMA ConstructInv == Inv /\ Construct => Inv'
<1> SUFFICES ASSUME Inv, Construct PROVE Inv'
  OBVIOUS
<1> USE DEF Inv
<1>1. PICK s \in Slot :
        /\ \A k \in DOMAIN open : open[k] # s
        /\ this' = s
        /\ promoted' = [promoted EXCEPT ![s] = FALSE]
        /\ prev' = [prev EXCEPT ![s] = spork_deque_back]
        /\ hbt' = [hbt EXCEPT ![s] = 0]
        /\ calls' = [calls EXCEPT ![s] = 0]
  BY DEF Construct
<1>2. /\ pc = "run" /\ pc' = "link" /\ slot = Null
      /\ UNCHANGED <<heartbeat_tokens, disable_heartbeats, next,
                     spork_deque_back, before, loaded, slot, open>>
  BY DEF Construct, Worker
<1>3. s # Null
  BY AddressAssumption
<1>4. /\ open \in Seq(Slot) /\ DOMAIN open = 1..Len(open) /\ Len(open) \in Nat
      /\ \A k \in DOMAIN open : open[k] \in Slot
  BY DEF TypeOK
<1>5. \A k \in DOMAIN open : promoted'[open[k]] = promoted[open[k]]
                          /\ prev'[open[k]] = prev[open[k]]
                          /\ calls'[open[k]] = calls[open[k]]
  <2>1. \A c \in Slot : c # s => promoted'[c] = promoted[c] /\ prev'[c] = prev[c]
                               /\ calls'[c] = calls[c]
    BY <1>1 DEF TypeOK
  <2> QED
    BY <1>1, <1>4, <2>1
<1>6. ~promoted'[s] /\ prev'[s] = spork_deque_back /\ calls'[s] = 0
  BY <1>1 DEF TypeOK
<1>7. TypeOK'
  BY <1>1, <1>2 DEF TypeOK, Pc
<1>8. Control'
  BY <1>1, <1>2, <1>3 DEF Control
<1>9. Linked'
  BY <1>1, <1>2, <1>4, <1>5, <1>6 DEF Linked, Node
<1>10. Walked'
  BY <1>2 DEF Walked
<1>11. Ordered'
  BY <1>2, <1>4, <1>5 DEF Ordered, OutermostFirst, TokensOnlyWhenFullyPromoted,
                   JoinsFullyPromoted, Unchecked
<1>12. PromotedOnce'
  BY <1>1, <1>2, <1>4, <1>5, <1>6 DEF PromotedOnce, Live
<1> QED
  BY <1>7, <1>8, <1>9, <1>10, <1>11, <1>12

\* The link is written behind the last open slot and disturbs no other.
LEMMA LinkInv == Inv /\ Link => Inv'
<1> SUFFICES ASSUME Inv, Link PROVE Inv'
  OBVIOUS
<1> USE DEF Inv
<1>1. /\ pc = "link" /\ pc' = "commit" /\ slot = Null
      /\ next' = [next EXCEPT ![prev[this]] = this]
      /\ UNCHANGED <<heartbeat_tokens, disable_heartbeats, promoted, prev,
                     spork_deque_back, hbt, this, before, loaded, slot, open, calls>>
  BY DEF Link, Worker
<1>2. this \in Slot /\ prev[this] = Node(Len(open)) /\ Node(Len(open)) \in Slot \cup {Front}
  BY <1>1, NodesDiffer DEF Control, Linked, TypeOK
<1>3. TypeOK'
  BY <1>1, <1>2 DEF TypeOK, Pc
<1>4. Control'
  BY <1>1 DEF Control
<1>5. /\ next'[Node(Len(open))] = this
      /\ \A k \in DOMAIN open : next'[Node(k - 1)] = next[Node(k - 1)]
  <2>1. \A k \in DOMAIN open : k - 1 \in 0..Len(open) /\ k - 1 # Len(open)
    BY NodesDiffer
  <2>2. \A k \in DOMAIN open : Node(k - 1) \in Slot \cup {Front}
                             /\ Node(k - 1) # Node(Len(open))
    BY <2>1, NodesDiffer
  <2>3. \A n \in Slot \cup {Front} :
            next'[n] = IF n = Node(Len(open)) THEN this ELSE next[n]
    BY <1>1, <1>2 DEF TypeOK
  <2> QED
    BY <1>2, <2>2, <2>3
<1>6. Linked'
  BY <1>1, <1>2, <1>5 DEF Linked, Node
<1>7. Walked' /\ Ordered' /\ PromotedOnce'
  BY <1>1 DEF Walked, Ordered, OutermostFirst, TokensOnlyWhenFullyPromoted,
              JoinsFullyPromoted, Unchecked, PromotedOnce, Live, top
<1> QED
  BY <1>3, <1>4, <1>6, <1>7

\* The new slot becomes the back of the list, unpromoted and unchecked.
LEMMA CommitInv == Inv /\ Commit => Inv'
<1> SUFFICES ASSUME Inv, Commit PROVE Inv'
  OBVIOUS
<1> USE DEF Inv
<1>1. /\ pc = "commit" /\ pc' = "test" /\ slot = Null
      /\ spork_deque_back' = this /\ open' = Append(open, this) /\ this' = Null
      /\ UNCHANGED <<heartbeat_tokens, disable_heartbeats, promoted, prev, next,
                     hbt, before, loaded, slot, calls>>
  BY DEF Commit, Worker
<1>2. this \in Slot
  BY <1>1 DEF Control, TypeOK
<1>3. /\ Len(open) \in Nat /\ DOMAIN open = 1..Len(open)
      /\ open' \in Seq(Slot)
      /\ Len(open') = Len(open) + 1
      /\ DOMAIN open' = 1..(Len(open) + 1)
      /\ \A k \in 1..Len(open) : open'[k] = open[k]
      /\ open'[Len(open) + 1] = this
  BY <1>1, <1>2 DEF TypeOK
<1>4. TypeOK'
  BY <1>1, <1>3 DEF TypeOK, Pc
<1>5. Control'
  BY <1>1, <1>3 DEF Control
<1>6. Linked'
  <2>1. \A k \in 0..Len(open) : Node(k)' = Node(k)
    BY <1>3 DEF Node
  <2>2. Node(Len(open))' = this
    BY <1>3 DEF Node
  <2>3. \A j, k \in DOMAIN open' : open'[j] = open'[k] => j = k
    BY <1>3 DEF Linked
  <2>4. \A k \in DOMAIN open' : open'[k] # this'
    BY <1>1, <1>3, AddressAssumption
  <2>5. \A k \in DOMAIN open' : next'[Node(k - 1)'] = open'[k]
                             /\ prev'[open'[k]] = Node(k - 1)'
    <3> SUFFICES ASSUME NEW k \in DOMAIN open'
                 PROVE  next'[Node(k - 1)'] = open'[k] /\ prev'[open'[k]] = Node(k - 1)'
      OBVIOUS
    <3>1. CASE k \in 1..Len(open)
      BY <1>1, <1>3, <2>1, <3>1 DEF Linked
    <3>2. CASE k = Len(open) + 1
      BY <1>1, <1>3, <2>1, <3>2 DEF Linked
    <3> QED
      BY <1>3, <3>1, <3>2
  <2> QED
    BY <1>1, <1>3, <2>2, <2>3, <2>4, <2>5 DEF Linked
<1>7. Walked'
  BY <1>1 DEF Walked
<1>8. Ordered'
  BY <1>1, <1>3 DEF Ordered, OutermostFirst, TokensOnlyWhenFullyPromoted,
              JoinsFullyPromoted, Unchecked, Linked
<1>9. PromotedOnce'
  BY <1>1, <1>3 DEF PromotedOnce, Live
<1> QED
  BY <1>4, <1>5, <1>6, <1>7, <1>8, <1>9

\* The steps of the eager check that promote nothing.
LEMMA CheckInv == Inv /\ (Test \/ EagerSave \/ EagerCheck \/ EagerRestore) => Inv'
<1> SUFFICES ASSUME Inv, Test \/ EagerSave \/ EagerCheck \/ EagerRestore PROVE Inv'
  OBVIOUS
<1> USE DEF Inv
<1>1. /\ slot = Null
      /\ UNCHANGED <<heartbeat_tokens, mem, hbt, this, loaded, slot, open, calls>>
  BY DEF Test, EagerSave, EagerCheck, EagerRestore, Worker
<1>2. \/ pc = "test" /\ pc' = "save" /\ UNCHANGED <<disable_heartbeats, before>>
      \/ pc = "test" /\ pc' = "run" /\ heartbeat_tokens = 0
         /\ UNCHANGED <<disable_heartbeats, before>>
      \/ pc = "save" /\ pc' = "check" /\ disable_heartbeats' /\ ~before'
      \/ pc = "check" /\ pc' = "take" /\ heartbeat_tokens > 0 /\ ~promoted[top]
         /\ UNCHANGED <<disable_heartbeats, before>>
      \/ pc = "check" /\ pc' = "restore" /\ (heartbeat_tokens = 0 \/ promoted[top])
         /\ UNCHANGED <<disable_heartbeats, before>>
      \/ pc = "restore" /\ pc' = "run" /\ ~disable_heartbeats' /\ ~before'
  <2>1. heartbeat_tokens \in Nat /\ ~before /\ (pc = "save" => ~disable_heartbeats)
    BY DEF TypeOK, Control
  <2>2. disable_heartbeats \in BOOLEAN /\ before \in BOOLEAN
    BY DEF TypeOK
  <2>3. CASE Test
    BY <2>1, <2>3 DEF Test, Worker
  <2>4. CASE EagerSave
    BY <2>1, <2>2, <2>4 DEF EagerSave, Worker
  <2>5. CASE EagerCheck
    BY <2>1, <2>5 DEF EagerCheck, Worker
  <2>6. CASE EagerRestore
    BY <2>1, <2>2, <2>6 DEF EagerRestore, Worker
  <2> QED
    BY <2>3, <2>4, <2>5, <2>6
<1>3. disable_heartbeats' \in BOOLEAN /\ before' \in BOOLEAN
  BY DEF Test, EagerSave, EagerCheck, EagerRestore, TypeOK
<1>4. TypeOK'
  BY <1>1, <1>2, <1>3 DEF mem, TypeOK, Pc
<1>5. Control'
  BY <1>1, <1>2 DEF mem, Control
<1>6. Linked' /\ Walked'
  BY <1>1, <1>2 DEF mem, Linked, Node, Walked
<1>7. Ordered'
  BY <1>1, <1>2, NodesDiffer DEF mem, Ordered, OutermostFirst, TokensOnlyWhenFullyPromoted,
              JoinsFullyPromoted, Unchecked, top, TypeOK
<1>8. PromotedOnce'
  BY <1>1, <1>2 DEF mem, PromotedOnce, Live, top
<1> QED
  BY <1>4, <1>5, <1>6, <1>7, <1>8

\* The eager promotion finds every slot further out promoted.
LEMMA EagerTakeInv == Inv /\ EagerTake => Inv'
<1> SUFFICES ASSUME Inv, EagerTake PROVE Inv'
  OBVIOUS
<1> USE DEF Inv
<1>1. /\ pc = "take" /\ pc' = "call" /\ slot = Null
      /\ heartbeat_tokens' = heartbeat_tokens - 1
      /\ promoted' = [promoted EXCEPT ![top] = TRUE]
      /\ UNCHANGED <<disable_heartbeats, prev, next, spork_deque_back, hbt, this,
                     before, loaded, slot, open, calls>>
  BY DEF EagerTake, Worker
<1>2. /\ Len(open) \in Nat \ {0} /\ DOMAIN open = 1..Len(open)
      /\ Len(open) \in DOMAIN open
      /\ \A k \in DOMAIN open : open[k] \in Slot
      /\ top \in Slot /\ top = open[Len(open)]
      /\ heartbeat_tokens \in Nat /\ heartbeat_tokens > 0 /\ ~promoted[top]
  BY <1>1, EmptySeq DEF TypeOK, Control, Ordered, top
<1>3. AllPromoted'
  BY <1>1, <1>2 DEF Ordered, TokensOnlyWhenFullyPromoted, AllPromoted, TypeOK
<1>4. TypeOK'
  <2>1. heartbeat_tokens' \in Nat /\ promoted' \in [Slot -> BOOLEAN]
    BY <1>1, <1>2 DEF TypeOK
  <2>2. pc' \in Pc
    BY <1>1 DEF Pc
  <2>3. /\ disable_heartbeats \in BOOLEAN /\ before \in BOOLEAN
        /\ prev \in [Slot -> Slot \cup {Front, Null}]
        /\ next \in [Slot \cup {Front} -> Slot \cup {Null}]
        /\ spork_deque_back \in Slot \cup {Front}
        /\ hbt \in [Slot -> Nat] /\ calls \in [Slot -> Nat]
        /\ this \in Slot \cup {Null} /\ slot \in Slot \cup {Null}
        /\ loaded \in Nat /\ open \in Seq(Slot)
    BY DEF TypeOK
  <2>4. /\ (disable_heartbeats \in BOOLEAN /\ before \in BOOLEAN)'
        /\ (prev \in [Slot -> Slot \cup {Front, Null}])'
        /\ (next \in [Slot \cup {Front} -> Slot \cup {Null}])'
        /\ (spork_deque_back \in Slot \cup {Front})'
        /\ (hbt \in [Slot -> Nat] /\ calls \in [Slot -> Nat])'
        /\ (this \in Slot \cup {Null} /\ slot \in Slot \cup {Null})'
        /\ (loaded \in Nat /\ open \in Seq(Slot))'
    BY <1>1, <2>3
  <2> QED
    BY <2>1, <2>2, <2>4 DEF TypeOK
<1>5. Control'
  BY <1>1 DEF Control
<1>6. Linked' /\ Walked'
  BY <1>1 DEF Linked, Node, Walked
<1>7. Ordered'
  BY <1>1, <1>2, <1>3 DEF AllPromoted, Ordered, OutermostFirst,
              TokensOnlyWhenFullyPromoted, JoinsFullyPromoted, Unchecked, top
<1>8. PromotedOnce'
  <2>1. this = Null
    BY <1>1 DEF Control
  <2>2. \A c \in Slot : promoted'[c] = IF c = top THEN TRUE ELSE promoted[c]
    BY <1>1, <1>2 DEF TypeOK
  <2>3. \A c \in Live \ {Null} : c \in Slot
    BY <1>2, <2>1 DEF Live
  <2>4. Live' = Live /\ top' = top
    BY <1>1 DEF Live, top
  <2> QED
    BY <1>1, <1>2, <2>2, <2>3, <2>4 DEF PromotedOnce
<1> QED
  BY <1>4, <1>5, <1>6, <1>7, <1>8

\* The promotion handler's call pays for the promotion it counts.
LEMMA EagerCallInv == Inv /\ EagerCall => Inv'
<1> SUFFICES ASSUME Inv, EagerCall PROVE Inv'
  OBVIOUS
<1> USE DEF Inv
<1>1. /\ pc = "call" /\ pc' = "restore" /\ slot = Null
      /\ CallPromfn(top, heartbeat_tokens)
      /\ UNCHANGED <<disable_heartbeats, mem, this, before, loaded, slot, open>>
  BY DEF EagerCall, Worker
<1>2. /\ Len(open) \in Nat \ {0} /\ DOMAIN open = 1..Len(open)
      /\ \A k \in DOMAIN open : open[k] \in Slot
      /\ top \in Slot /\ top = open[Len(open)]
      /\ heartbeat_tokens \in Nat /\ promoted[top]
  BY <1>1, EmptySeq DEF TypeOK, Control, Ordered, top
<1>3. /\ heartbeat_tokens' \in Nat
      /\ heartbeat_tokens' <= heartbeat_tokens
      /\ hbt' \in [Slot -> Nat]
      /\ calls' \in [Slot -> Nat]
      /\ \A c \in Slot : calls'[c] = IF c = top THEN calls[c] + 1 ELSE calls[c]
  BY <1>1, <1>2, CallPromfnTokens
<1>4. TypeOK'
  BY <1>1, <1>3 DEF mem, TypeOK, Pc
<1>5. Control'
  BY <1>1 DEF Control
<1>6. Linked' /\ Walked'
  BY <1>1 DEF mem, Linked, Node, Walked
<1>7. Ordered'
  BY <1>1, <1>2, <1>3 DEF mem, Ordered, OutermostFirst, TokensOnlyWhenFullyPromoted,
              JoinsFullyPromoted, Unchecked, top
<1>8. PromotedOnce'
  <2>1. this = Null
    BY <1>1 DEF Control
  <2>2. \A c \in Slot : calls'[c] = IF c = top THEN calls[c] + 1 ELSE calls[c]
    BY <1>3
  <2>3. \A c \in Live \ {Null} : c \in Slot
    BY <1>2, <2>1 DEF Live
  <2>4. Live' = Live /\ top' = top /\ promoted' = promoted
    BY <1>1 DEF mem, Live, top
  <2> QED
    BY <1>1, <1>2, <2>2, <2>3, <2>4 DEF PromotedOnce
<1> QED
  BY <1>4, <1>5, <1>6, <1>7, <1>8

\* The unlinked slot takes its promotions with it, and none is left behind it.
LEMMA UnlinkInv == Inv /\ Unlink => Inv'
<1> SUFFICES ASSUME Inv, Unlink PROVE Inv'
  OBVIOUS
<1> USE DEF Inv
<1>1. /\ pc = "run" /\ pc' = "unlinked" /\ slot = Null
      /\ open # <<>> /\ this' = top /\ spork_deque_back' = prev[top]
      /\ open' = SubSeq(open, 1, Len(open) - 1)
      /\ UNCHANGED <<heartbeat_tokens, disable_heartbeats, promoted, prev, next,
                     hbt, before, loaded, slot, calls>>
  BY DEF Unlink, Worker
<1>2. /\ Len(open) \in Nat \ {0} /\ DOMAIN open = 1..Len(open)
      /\ Len(open) \in DOMAIN open
      /\ \A k \in DOMAIN open : open[k] \in Slot
      /\ top \in Slot /\ top = open[Len(open)] /\ top # Null
  BY <1>1, EmptySeq, AddressAssumption DEF TypeOK, top
<1>3. /\ open' \in Seq(Slot)
      /\ Len(open') = Len(open) - 1
      /\ DOMAIN open' = 1..(Len(open) - 1)
      /\ \A k \in DOMAIN open' : open'[k] = open[k] /\ k \in DOMAIN open
  BY <1>1, <1>2 DEF TypeOK
<1>4. TypeOK'
  <2>1. spork_deque_back' \in Slot \cup {Front}
    BY <1>1, <1>2, NodesDiffer DEF Linked
  <2> QED
    BY <1>1, <1>2, <1>3, <2>1 DEF TypeOK, Pc
<1>5. Control'
  BY <1>1, <1>2 DEF Control
<1>6. Linked'
  <2>1. \A k \in 0..(Len(open) - 1) : Node(k)' = Node(k)
    BY <1>3 DEF Node
  <2>2. spork_deque_back' = Node(Len(open))'
    BY <1>1, <1>2, <1>3 DEF Linked, Node
  <2>3. \A j, k \in DOMAIN open' : open'[j] = open'[k] => j = k
    BY <1>3 DEF Linked
  <2>4. \A k \in DOMAIN open' : open'[k] # this'
    BY <1>1, <1>2, <1>3 DEF Linked
  <2>5. \A k \in DOMAIN open' : next'[Node(k - 1)'] = open'[k]
                             /\ prev'[open'[k]] = Node(k - 1)'
    BY <1>1, <1>2, <1>3, <2>1 DEF Linked
  <2> QED
    BY <1>1, <2>2, <2>3, <2>4, <2>5 DEF Linked
<1>7. Walked'
  BY <1>1 DEF Walked
<1>8. Ordered'
  <2>1. promoted[top] => \A k \in DOMAIN open' : promoted[open'[k]]
    BY <1>2, <1>3 DEF Ordered, OutermostFirst
  <2>2. /\ OutermostFirst'
        /\ TokensOnlyWhenFullyPromoted'
    BY <1>1, <1>2, <1>3 DEF Ordered, OutermostFirst, TokensOnlyWhenFullyPromoted, Unchecked
  <2> QED
    BY <1>1, <2>1, <2>2 DEF Ordered, AllPromoted, JoinsFullyPromoted
<1>9. PromotedOnce'
  <2>1. Live' \ {Null} \subseteq Live \ {Null}
    BY <1>1, <1>2, <1>3 DEF Live
  <2> QED
    BY <1>1, <2>1 DEF PromotedOnce
<1> QED
  BY <1>4, <1>5, <1>6, <1>7, <1>8, <1>9

\* The join: whatever tokens it brings, no open slot is left unpromoted.
LEMMA JoinInv ==
    Inv /\ (ReadPromoted \/ SyncKeep \/ ReclaimLoad \/ ReclaimStore \/ SyncStolen) => Inv'
<1> SUFFICES ASSUME Inv,
                    ReadPromoted \/ SyncKeep \/ ReclaimLoad \/ ReclaimStore \/ SyncStolen
             PROVE  Inv'
  OBVIOUS
<1> USE DEF Inv
<1>1. /\ slot = Null
      /\ UNCHANGED <<disable_heartbeats, mem, hbt, before, slot, open, calls>>
  BY DEF ReadPromoted, SyncKeep, ReclaimLoad, ReclaimStore, SyncStolen, Worker
<1>2. \/ /\ pc = "unlinked" /\ promoted[this] /\ pc' = "sync" /\ this' = this
         /\ UNCHANGED <<heartbeat_tokens, loaded>>
      \/ /\ pc = "unlinked" /\ ~promoted[this] /\ pc' = "run" /\ this' = Null
         /\ UNCHANGED <<heartbeat_tokens, loaded>>
      \/ /\ pc = "sync" /\ pc' = "run" /\ this' = Null
         /\ heartbeat_tokens' \in Nat /\ UNCHANGED loaded
      \/ /\ pc = "sync" /\ pc' = "reclaim" /\ this' = this
         /\ UNCHANGED heartbeat_tokens /\ loaded' \in Nat
      \/ /\ pc = "reclaim" /\ pc' = "run" /\ this' = Null
         /\ heartbeat_tokens' \in Nat /\ loaded' \in Nat
  <2>1. heartbeat_tokens \in Nat /\ loaded \in Nat
    BY DEF TypeOK
  <2>2. pc = "reclaim" => hbt[this] \in Nat
    BY DEF TypeOK, Control
  <2>3. CASE ReadPromoted
    BY <2>3 DEF ReadPromoted, Worker
  <2>4. CASE SyncKeep
    BY <2>1, <2>4 DEF SyncKeep, Worker
  <2>5. CASE ReclaimLoad
    BY <2>1, <2>5 DEF ReclaimLoad, Worker
  <2>6. CASE ReclaimStore
    BY <2>1, <2>2, <2>6 DEF ReclaimStore, Worker
  <2>7. CASE SyncStolen
    BY <2>7, TokenAssumption DEF SyncStolen, Worker
  <2> QED
    BY <2>3, <2>4, <2>5, <2>6, <2>7
<1>3. TypeOK'
  BY <1>1, <1>2 DEF mem, TypeOK, Pc
<1>4. Control'
  BY <1>1, <1>2 DEF mem, Control
<1>5. Linked' /\ Walked'
  <2>1. \A k \in DOMAIN open : open[k] # Null
    BY AddressAssumption DEF TypeOK
  <2> QED
    BY <1>1, <1>2, <2>1 DEF mem, Linked, Node, Walked
<1>6. Ordered'
  BY <1>1, <1>2 DEF mem, Ordered, OutermostFirst, TokensOnlyWhenFullyPromoted,
              JoinsFullyPromoted, Unchecked, AllPromoted
<1>7. PromotedOnce'
  <2>1. Live' \ {Null} \subseteq Live \ {Null}
    BY <1>1, <1>2 DEF Live
  <2> QED
    BY <1>1, <1>2, <2>1 DEF mem, PromotedOnce
<1> QED
  BY <1>3, <1>4, <1>5, <1>6, <1>7

\* A job starts on an empty deque.
LEMMA StartJobInv == Inv /\ StartJob => Inv'
<1> SUFFICES ASSUME Inv, StartJob PROVE Inv'
  OBVIOUS
<1> USE DEF Inv
<1>1. /\ pc = "run" /\ pc' = "run" /\ slot = Null /\ open = <<>>
      /\ heartbeat_tokens' \in Nat
      /\ UNCHANGED <<disable_heartbeats, mem, hbt, this, before, loaded, slot, open, calls>>
  BY TokenAssumption DEF StartJob, Worker
<1>2. TypeOK'
  BY <1>1 DEF mem, TypeOK, Pc
<1>3. Control' /\ Linked' /\ Walked'
  BY <1>1 DEF mem, Control, Linked, Node, Walked
<1>4. Ordered' /\ PromotedOnce'
  BY <1>1 DEF mem, Ordered, OutermostFirst, TokensOnlyWhenFullyPromoted,
              JoinsFullyPromoted, Unchecked, PromotedOnce, Live
<1> QED
  BY <1>2, <1>3, <1>4

\* The handler starts at the outermost open slot, if there is one.
LEMMA HeartbeatInv == Inv /\ Heartbeat => Inv'
<1> SUFFICES ASSUME Inv, Heartbeat PROVE Inv'
  OBVIOUS
<1> USE DEF Inv
<1>1. /\ slot = Null /\ ~disable_heartbeats
      /\ slot' = IF spork_deque_back = Front THEN Null ELSE next[Front]
      /\ UNCHANGED <<disable_heartbeats, mem, hbt, local, open, calls>>
  BY DEF Heartbeat
<1>2. heartbeat_tokens' \in Nat
  BY TokenAssumption DEF Heartbeat, TypeOK
<1>3. \/ slot' = Null /\ open = <<>>
      \/ slot' \in Slot /\ open # <<>> /\ slot' = open[1] /\ 1 \in DOMAIN open
  <2>1. CASE open = <<>>
    BY <1>1, <2>1 DEF Linked, Node
  <2>2. CASE open # <<>>
    <3>1. /\ Len(open) \in Nat \ {0} /\ DOMAIN open = 1..Len(open)
          /\ open[1] \in Slot /\ open[Len(open)] \in Slot
      BY <2>2, EmptySeq DEF TypeOK
    <3>2. spork_deque_back # Front
      BY <3>1, AddressAssumption DEF Linked, Node
    <3>3. next[Front] = open[1]
      BY <3>1 DEF Linked, Node
    <3> QED
      BY <1>1, <2>2, <3>1, <3>2, <3>3
  <2> QED
    BY <2>1, <2>2
<1>4. TypeOK'
  BY <1>1, <1>2, <1>3 DEF mem, local, TypeOK
<1>5. Control' /\ Linked'
  BY <1>1 DEF mem, local, Control, Linked, Node
<1>6. Walked'
  BY <1>1, <1>3 DEF mem, Walked
<1>7. Ordered'
  <2>1. TokensOnlyWhenFullyPromoted'
    BY <1>1, <1>3, AddressAssumption DEF TokensOnlyWhenFullyPromoted
  <2>2. pc # "take"
    BY <1>1 DEF Control
  <2> QED
    BY <1>1, <2>1, <2>2 DEF mem, local, Ordered, OutermostFirst, JoinsFullyPromoted,
                            AllPromoted, top
<1>8. PromotedOnce'
  BY <1>1 DEF mem, local, PromotedOnce, Live, top
<1> QED
  BY <1>4, <1>5, <1>6, <1>7, <1>8

\* Where the walk goes from the k-th open slot.
LEMMA OnwardSlot ==
    ASSUME TypeOK, Linked, NEW k \in DOMAIN open
    PROVE  \/ Onward(open[k]) = Null /\ k = Len(open)
           \/ /\ k < Len(open) /\ k + 1 \in DOMAIN open
              /\ Onward(open[k]) = open[k + 1]
              /\ open[k + 1] \in Slot
<1>1. /\ Len(open) \in Nat /\ k \in 1..Len(open) /\ DOMAIN open = 1..Len(open)
      /\ open[k] = Node(k)
  BY DEF TypeOK, Node
<1>2. spork_deque_back = open[k] <=> k = Len(open)
  BY <1>1, NodesDiffer DEF Linked
<1>3. CASE k = Len(open)
  BY <1>2, <1>3 DEF Onward
<1>4. CASE k # Len(open)
  <2>1. k + 1 \in DOMAIN open /\ k < Len(open)
    BY <1>1, <1>4
  <2>2. next[Node(k + 1 - 1)] = open[k + 1]
    BY <2>1 DEF Linked
  <2>3. next[open[k]] = open[k + 1]
    BY <1>1, <2>2
  <2> QED
    BY <1>2, <1>4, <2>1, <2>3 DEF Onward, TypeOK
<1> QED
  BY <1>3, <1>4

\* The walk promotes the outermost slot not promoted yet.
LEMMA WalkPromoteInv == Inv /\ WalkPromote => Inv'
<1> SUFFICES ASSUME Inv, WalkPromote PROVE Inv'
  OBVIOUS
<1> USE DEF Inv
<1>1. /\ slot # Null /\ heartbeat_tokens > 0 /\ ~promoted[slot]
      /\ promoted' = [promoted EXCEPT ![slot] = TRUE]
      /\ CallPromfn(slot, heartbeat_tokens - 1)
      /\ slot' = Onward(slot)
      /\ UNCHANGED <<disable_heartbeats, prev, next, spork_deque_back, local, open>>
  BY DEF WalkPromote
<1>2. PICK k \in DOMAIN open :
        slot = open[k] /\ \A j \in 1..(k - 1) : promoted[open[j]]
  BY <1>1 DEF Walked
<1>3. /\ Len(open) \in Nat /\ DOMAIN open = 1..Len(open) /\ k \in 1..Len(open)
      /\ \A j \in DOMAIN open : open[j] \in Slot
      /\ slot \in Slot /\ heartbeat_tokens \in Nat /\ heartbeat_tokens - 1 \in Nat
  BY <1>1, <1>2 DEF TypeOK
<1>4. /\ heartbeat_tokens' \in Nat
      /\ hbt' \in [Slot -> Nat]
      /\ calls' \in [Slot -> Nat]
      /\ \A c \in Slot : calls'[c] = IF c = slot THEN calls[c] + 1 ELSE calls[c]
  BY <1>1, <1>3, CallPromfnTokens
<1>5. \A c \in Slot : /\ promoted'[c] = IF c = slot THEN TRUE ELSE promoted[c]
                      /\ calls'[c] = IF c = slot THEN calls[c] + 1 ELSE calls[c]
  BY <1>1, <1>4 DEF TypeOK
<1>6. \A j \in 1..k : promoted'[open[j]]
  <2> SUFFICES ASSUME NEW j \in 1..k PROVE promoted'[open[j]]
    OBVIOUS
  <2>1. j \in DOMAIN open /\ open[j] \in Slot
    BY <1>3
  <2>2. CASE j = k
    BY <1>2, <1>5, <2>1, <2>2
  <2>3. CASE j # k
    <3>1. j \in 1..(k - 1)
      BY <1>3, <2>3
    <3>2. promoted[open[j]]
      BY <1>2, <3>1
    <3> QED
      BY <1>5, <2>1, <3>2
  <2> QED
    BY <2>2, <2>3
<1>7. \/ slot' = Null /\ k = Len(open)
      \/ /\ k < Len(open) /\ k + 1 \in DOMAIN open
         /\ slot' = open[k + 1] /\ open[k + 1] \in Slot
  BY <1>1, <1>2, OnwardSlot
<1>8. TypeOK'
  <2>1. slot' \in Slot \cup {Null}
    BY <1>7
  <2>2. promoted' \in [Slot -> BOOLEAN]
    BY <1>1 DEF TypeOK
  <2> QED
    BY <1>1, <1>4, <2>1, <2>2 DEF local, TypeOK
<1>9. Control'
  BY <1>1 DEF local, Control
<1>10. Linked'
  <2>1. pc \in {"link", "commit"} => this # slot
    BY <1>2 DEF Linked
  <2>2. pc \in {"link", "commit"} => this \in Slot
    BY DEF Control, TypeOK
  <2>3. pc \in {"link", "commit"} => ~promoted'[this]
    BY <1>5, <2>1, <2>2 DEF Linked
  <2> QED
    BY <1>1, <2>3 DEF local, Linked, Node
<1>11. Walked'
  <2> SUFFICES ASSUME slot' # Null
               PROVE  \E n \in DOMAIN open' :
                        slot' = open'[n] /\ \A j \in 1..(n - 1) : promoted'[open'[j]]
    BY DEF Walked
  <2>1. k + 1 \in DOMAIN open' /\ slot' = open'[k + 1]
    BY <1>1, <1>7
  <2>2. (k + 1) - 1 = k
    BY <1>3
  <2>3. \A j \in 1..((k + 1) - 1) : promoted'[open'[j]]
    BY <1>1, <1>6, <2>2
  <2> USE <2>1, <2>3
  <2> WITNESS k + 1 \in DOMAIN open'
  <2> QED
    OBVIOUS
<1>12. Ordered'
  <2>1. \A j \in DOMAIN open : promoted[open[j]] => promoted'[open[j]]
    BY <1>3, <1>5
  <2>2. OutermostFirst'
    <3> SUFFICES ASSUME NEW n \in DOMAIN open, promoted'[open[n]], NEW j \in 1..(n - 1)
                 PROVE  promoted'[open[j]]
      BY <1>1 DEF OutermostFirst
    <3>1. n \in Int /\ j \in DOMAIN open
      BY <1>3
    <3>2. CASE n <= k
      BY <1>3, <1>6, <3>1, <3>2
    <3>3. CASE n > k
      <4>1. open[n] # open[k]
        BY <1>3, <3>3 DEF Linked
      <4>2. promoted[open[n]]
        BY <1>2, <1>3, <1>5, <4>1
      <4>3. promoted[open[j]]
        BY <4>2 DEF Ordered, OutermostFirst
      <4> QED
        BY <2>1, <3>1, <4>3
    <3> QED
      BY <1>3, <3>1, <3>2, <3>3
  <2>3. TokensOnlyWhenFullyPromoted'
    BY <1>1, <1>3, <1>6, <1>7, AddressAssumption DEF TokensOnlyWhenFullyPromoted
  <2>4. JoinsFullyPromoted' /\ (pc' = "unlinked" /\ promoted'[this'] => AllPromoted')
    <3>1. pc = "unlinked" => this \in Slot /\ this # slot
      BY <1>2 DEF Control, Linked, TypeOK
    <3> QED
      BY <1>1, <1>5, <2>1, <3>1 DEF local, Ordered, JoinsFullyPromoted, AllPromoted
  <2>5. pc # "take" /\ pc # "call"
    BY <1>1 DEF Control
  <2> QED
    BY <1>1, <2>2, <2>3, <2>4, <2>5 DEF local, Ordered
<1>13. PromotedOnce'
  <2>1. pc # "call"
    BY <1>1 DEF Control
  <2>2. Live' = Live
    BY <1>1 DEF local, Live
  <2>3. \A c \in Live \ {Null} : c \in Slot
    BY <1>3 DEF Live, TypeOK
  <2>4. slot \in Live \ {Null} /\ calls[slot] = 0
    BY <1>1, <1>2, <2>1 DEF Live, PromotedOnce
  <2>7. SUFFICES ASSUME NEW c \in Live \ {Null}
               PROVE  calls'[c] = IF promoted'[c] THEN 1 ELSE 0
    BY <1>1, <2>1, <2>2 DEF local, PromotedOnce
  <2>5. CASE c = slot
    <3>1. calls'[slot] = calls[slot] + 1 /\ promoted'[slot]
      BY <1>3, <1>5
    <3> QED
      BY <2>4, <2>5, <3>1
  <2>6. CASE c # slot
    BY <1>5, <2>1, <2>3, <2>6 DEF PromotedOnce
  <2> QED
    BY <2>5, <2>6
<1> QED
  BY <1>8, <1>9, <1>10, <1>11, <1>12, <1>13

\* The steps of the walk that promote nothing.
LEMMA WalkOnInv == Inv /\ (WalkSkip \/ WalkEnd) => Inv'
<1> SUFFICES ASSUME Inv, WalkSkip \/ WalkEnd PROVE Inv'
  OBVIOUS
<1> USE DEF Inv
<1>1. /\ slot # Null
      /\ UNCHANGED <<heartbeat_tokens, disable_heartbeats, mem, hbt, local, open, calls>>
  BY DEF WalkSkip, WalkEnd
<1>2. PICK k \in DOMAIN open :
        slot = open[k] /\ \A j \in 1..(k - 1) : promoted[open[j]]
  BY <1>1 DEF Walked
<1>3. Len(open) \in Nat /\ DOMAIN open = 1..Len(open) /\ k \in 1..Len(open)
  BY <1>2 DEF TypeOK
<1>4. \/ slot' = Null /\ heartbeat_tokens = 0
      \/ slot' = Null /\ AllPromoted
      \/ /\ k + 1 \in DOMAIN open /\ slot' = open[k + 1] /\ slot' \in Slot
         /\ \A j \in 1..k : promoted[open[j]]
  <2>1. CASE WalkEnd
    BY <2>1 DEF WalkEnd
  <2>2. CASE WalkSkip
    <3>1. promoted[open[k]] /\ slot' = Onward(open[k])
      BY <1>2, <2>2 DEF WalkSkip
    <3>2. \A j \in 1..k : promoted[open[j]]
      BY <1>2, <1>3, <3>1
    <3> QED
      BY <1>3, <3>1, <3>2, OnwardSlot DEF AllPromoted
  <2> QED
    BY <2>1, <2>2
<1>5. TypeOK'
  BY <1>1, <1>4 DEF mem, local, TypeOK
<1>6. Control' /\ Linked' /\ PromotedOnce'
  BY <1>1 DEF mem, local, Control, Linked, Node, PromotedOnce, Live, top
<1>7. Walked'
  <2> SUFFICES ASSUME slot' # Null
               PROVE  \E n \in DOMAIN open' :
                        slot' = open'[n] /\ \A j \in 1..(n - 1) : promoted'[open'[j]]
    BY DEF Walked
  <2>1. k + 1 \in DOMAIN open' /\ slot' = open'[k + 1]
    BY <1>1, <1>4
  <2>2. (k + 1) - 1 = k
    BY <1>3
  <2>3. \A j \in 1..((k + 1) - 1) : promoted'[open'[j]]
    BY <1>1, <1>4, <2>2 DEF mem
  <2> USE <2>1, <2>3
  <2> WITNESS k + 1 \in DOMAIN open'
  <2> QED
    OBVIOUS
<1>8. Ordered'
  <2>1. TokensOnlyWhenFullyPromoted'
    BY <1>1, <1>4, AddressAssumption DEF mem, TokensOnlyWhenFullyPromoted, AllPromoted,
       TypeOK
  <2> QED
    BY <1>1, <2>1 DEF mem, local, Ordered, OutermostFirst, JoinsFullyPromoted,
                      AllPromoted, top
<1> QED
  BY <1>5, <1>6, <1>7, <1>8

LEMMA StutterInv == Inv /\ UNCHANGED vars => Inv'
  BY DEF vars, mem, local, Inv, TypeOK, Control, Linked, Node, Walked, Ordered,
         OutermostFirst, TokensOnlyWhenFullyPromoted, JoinsFullyPromoted, Unchecked,
         AllPromoted, PromotedOnce, Live, top

LEMMA NextInv == Inv /\ [Next]_vars => Inv'
  BY ConstructInv, LinkInv, CommitInv, CheckInv, EagerTakeInv, EagerCallInv, UnlinkInv,
     JoinInv, StartJobInv, HeartbeatInv, WalkPromoteInv, WalkOnInv, StutterInv
     DEF Next, Opening, Eager, Closing, Walk

LEMMA Invariance == Spec => []Inv
  BY InitInv, NextInv, PTL DEF Spec

-----------------------------------------------------------------------------
(* What every execution of the specification shows.                        *)

\* The token counter never wraps below zero, for any set of addresses and any
\* token constants: promote() and eager_promote() both look before they take.
THEOREM TypeCorrect == Spec => []TypeOK
  BY Invariance, PTL DEF Inv

\* promote_front meets exactly the open slots, in order, wherever the signal
\* finds a constructor or a close(); no dangling `next` is ever followed.
THEOREM HandlerSafe == Spec => []HandlerSeesOpenSlots
<1>1. Inv => HandlerSeesOpenSlots
  BY DEF Inv, Linked, Walked, HandlerSeesOpenSlots
<1> QED
  BY <1>1, Invariance, PTL

\* promote_front and eager_promote() together promote from the outside in.
THEOREM PromotesOutermostFirst == Spec => []OutermostFirst
<1>1. Inv => OutermostFirst
  BY DEF Inv, Ordered
<1> QED
  BY <1>1, Invariance, PTL

\* Tokens left over after a heartbeat mean that nothing is left to promote,
\* which is what lets with_prom_handler check only the newest slot.
THEOREM TokensSpent == Spec => []TokensOnlyWhenFullyPromoted
<1>1. Inv => TokensOnlyWhenFullyPromoted
  BY DEF Inv, Ordered
<1> QED
  BY <1>1, Invariance, PTL

\* A worker that reaches sync() has no promotable slot left, as wait() assumes.
THEOREM JoinsPromoted == Spec => []JoinsFullyPromoted
<1>1. Inv => JoinsFullyPromoted
  BY DEF Inv, Ordered
<1> QED
  BY <1>1, Invariance, PTL

\* A slot's promotion handler runs exactly once if close() answers true and
\* never if it answers false.
THEOREM HandlerCalledOnce == Spec => []PromotedOnce
<1>1. Inv => PromotedOnce
  BY DEF Inv
<1> QED
  BY <1>1, Invariance, PTL

\* Neither promote_front nor eager_promote() calls the handler of a slot that
\* is not between its commit and its close().
THEOREM OnlyOpenPromoted == Spec => PromotesOnlyOpenSlots
<1> DEFINE A == \A s \in Slot : calls'[s] > calls[s] => \E k \in DOMAIN open : s = open[k]
<1>1. Inv /\ [Next]_vars => [A]_vars
  <2> SUFFICES ASSUME Inv, Next, NEW s \in Slot, calls'[s] > calls[s]
               PROVE  \E k \in DOMAIN open : s = open[k]
    OBVIOUS
  <2> USE DEF Inv
  <2>1. calls[s] \in Nat /\ heartbeat_tokens \in Nat
    BY DEF TypeOK
  <2>2. CASE Construct
    <3>1. calls'[s] = calls[s] \/ calls'[s] = 0
      BY <2>2 DEF Construct, TypeOK
    <3> QED
      BY <2>1, <3>1
  <2>3. CASE EagerCall
    <3>1. CallPromfn(top, heartbeat_tokens) /\ top = open[Len(open)]
      BY <2>3 DEF EagerCall, top
    <3>2. top \in Slot /\ Len(open) \in DOMAIN open
      BY <2>3, EmptySeq DEF EagerCall, Worker, TypeOK, Control, top
    <3>3. calls'[s] = IF s = top THEN calls[s] + 1 ELSE calls[s]
      BY <2>1, <3>1, <3>2, CallPromfnTokens
    <3> QED
      BY <2>1, <3>1, <3>2, <3>3
  <2>4. CASE WalkPromote
    <3>1. PICK k \in DOMAIN open : slot = open[k]
      BY <2>4 DEF WalkPromote, Walked
    <3>2. slot \in Slot /\ heartbeat_tokens - 1 \in Nat
      BY <2>1, <2>4 DEF WalkPromote, TypeOK
    <3>3. calls'[s] = IF s = slot THEN calls[s] + 1 ELSE calls[s]
      BY <2>4, <3>2, CallPromfnTokens DEF WalkPromote
    <3> QED
      BY <2>1, <3>1, <3>3
  <2>5. CASE UNCHANGED calls
    BY <2>1, <2>5
  <2> QED
    BY <2>2, <2>3, <2>4, <2>5 DEF Next, Opening, Eager, Closing, Walk, Link, Commit,
       Test, EagerSave, EagerCheck, EagerTake, EagerRestore, Unlink, ReadPromoted,
       SyncKeep, ReclaimLoad, ReclaimStore, SyncStolen, StartJob, Heartbeat,
       WalkSkip, WalkEnd
<1> QED
  BY <1>1, Invariance, PTL DEF Spec, PromotesOnlyOpenSlots

-----------------------------------------------------------------------------
(* The deque implements the stack of promotion flags.                      *)

Flags == [k \in DOMAIN open |-> promoted[open[k]]]

\* Only these actions change the flags of the open slots.
LEMMA QuietStep ==
    ASSUME Inv,
           \/ Construct \/ Link \/ Test \/ EagerSave \/ EagerCheck \/ EagerCall
           \/ EagerRestore \/ ReadPromoted \/ SyncKeep \/ ReclaimLoad \/ ReclaimStore
           \/ SyncStolen \/ StartJob \/ Heartbeat \/ WalkSkip \/ WalkEnd
           \/ UNCHANGED vars
    PROVE  Flags' = Flags
<1> USE DEF Inv
<1>1. CASE Construct
  <2>1. PICK s \in Slot : /\ \A k \in DOMAIN open : open[k] # s
                          /\ promoted' = [promoted EXCEPT ![s] = FALSE]
    BY <1>1 DEF Construct
  <2>2. open' = open
    BY <1>1 DEF Construct
  <2>3. \A k \in DOMAIN open : open[k] \in Slot /\ open[k] # s
    BY <2>1 DEF TypeOK
  <2>4. \A k \in DOMAIN open : promoted'[open[k]] = promoted[open[k]]
    BY <2>1, <2>3 DEF TypeOK
  <2> QED
    BY <2>2, <2>4 DEF Flags
<1>2. CASE open' = open /\ promoted' = promoted
  BY <1>2 DEF Flags
<1> QED
  BY <1>1, <1>2 DEF Link, Test, EagerSave, EagerCheck, EagerCall, EagerRestore,
     ReadPromoted, SyncKeep, ReclaimLoad, ReclaimStore, SyncStolen, StartJob,
     Heartbeat, WalkSkip, WalkEnd, vars, mem

\* An appended element, seen from the function a sequence is.
LEMMA AppendAsFunction ==
    ASSUME NEW S, NEW f \in Seq(S), NEW e \in S
    PROVE  Append(f, e) = [k \in 1..(Len(f) + 1) |-> IF k = Len(f) + 1 THEN e ELSE f[k]]
<1> DEFINE g == [k \in 1..(Len(f) + 1) |-> IF k = Len(f) + 1 THEN e ELSE f[k]]
<1>1. Len(f) \in Nat /\ Len(f) + 1 \in Nat
  OBVIOUS
<1>2. \A k \in 1..(Len(f) + 1) : k # Len(f) + 1 => f[k] \in S
  BY <1>1
<1>3. g \in [1..(Len(f) + 1) -> S]
  BY <1>2
<1>4. g \in Seq(S)
  BY <1>1, <1>3
<1>5. Len(g) = Len(f) + 1
  BY <1>1, <1>3, <1>4, LenProperties
<1>6. /\ Append(f, e) \in Seq(S) /\ Len(Append(f, e)) = Len(f) + 1
      /\ \A k \in 1..(Len(f) + 1) : Append(f, e)[k] = IF k <= Len(f) THEN f[k] ELSE e
  BY AppendProperties
<1>7. \A k \in 1..Len(g) : Append(f, e)[k] = g[k]
  BY <1>1, <1>5, <1>6
<1>8. Append(f, e) = g
  BY <1>4, <1>5, <1>6, <1>7, SeqEqual
<1> QED
  BY <1>8

\* Commit pushes an unpromoted slot.
LEMMA CommitPushes == Inv /\ Commit => Flags' = Append(Flags, FALSE)
<1> SUFFICES ASSUME Inv, Commit PROVE Flags' = Append(Flags, FALSE)
  OBVIOUS
<1> USE DEF Inv
<1>1. /\ open' = Append(open, this) /\ promoted' = promoted
      /\ this \in Slot /\ ~promoted[this]
  BY DEF Commit, Worker, Control, Linked, TypeOK
<1>2. /\ Len(open) \in Nat /\ DOMAIN open = 1..Len(open) /\ open \in Seq(Slot)
      /\ promoted \in [Slot -> BOOLEAN]
  BY DEF TypeOK
<1>3. /\ DOMAIN open' = 1..(Len(open) + 1)
      /\ \A k \in 1..Len(open) : open'[k] = open[k]
      /\ open'[Len(open) + 1] = this
  BY <1>1, <1>2
<1>4. Flags \in Seq(BOOLEAN) /\ Len(Flags) = Len(open)
  <2>1. \A k \in 1..Len(open) : promoted[open[k]] \in BOOLEAN
    BY <1>2
  <2> QED
    BY <1>2, <2>1 DEF Flags
<1>5. promoted[this] = FALSE
  BY <1>1, <1>2
<1>6. Append(Flags, FALSE) = [k \in 1..(Len(open) + 1) |->
                                 IF k = Len(open) + 1 THEN FALSE ELSE Flags[k]]
  <2>1. Append(Flags, FALSE) = [k \in 1..(Len(Flags) + 1) |->
                                   IF k = Len(Flags) + 1 THEN FALSE ELSE Flags[k]]
    <3>1. \A e \in BOOLEAN :
            Append(Flags, e) = [k \in 1..(Len(Flags) + 1) |->
                                    IF k = Len(Flags) + 1 THEN e ELSE Flags[k]]
      <4> TAKE e \in BOOLEAN
      <4> QED
        BY <1>4, AppendAsFunction
    <3> QED
      BY <3>1
  <2> QED
    BY <1>4, <2>1, Zenon
<1>7. Flags' = [k \in 1..(Len(open) + 1) |-> promoted[open'[k]]]
  BY <1>1, <1>3 DEF Flags
<1>8. \A k \in 1..(Len(open) + 1) :
        promoted[open'[k]] = IF k = Len(open) + 1 THEN FALSE ELSE Flags[k]
  <2> SUFFICES ASSUME NEW k \in 1..(Len(open) + 1)
               PROVE  promoted[open'[k]] = IF k = Len(open) + 1 THEN FALSE ELSE Flags[k]
    OBVIOUS
  <2>1. CASE k = Len(open) + 1
    BY <1>3, <1>5, <2>1
  <2>2. CASE k # Len(open) + 1
    <3>1. k \in 1..Len(open)
      BY <1>2, <2>2
    <3>2. Flags[k] = promoted[open[k]]
      BY <1>2, <3>1 DEF Flags
    <3> QED
      BY <1>3, <2>2, <3>1, <3>2
  <2> QED
    BY <2>1, <2>2
<1> QED
  BY <1>6, <1>7, <1>8

\* Unlink pops the innermost slot.
LEMMA UnlinkPops ==
    Inv /\ Unlink => Flags # <<>> /\ Flags' = SubSeq(Flags, 1, Len(Flags) - 1)
<1> SUFFICES ASSUME Inv, Unlink
             PROVE  Flags # <<>> /\ Flags' = SubSeq(Flags, 1, Len(Flags) - 1)
  OBVIOUS
<1> USE DEF Inv
<1>1. /\ open # <<>> /\ open' = SubSeq(open, 1, Len(open) - 1) /\ promoted' = promoted
  BY DEF Unlink
<1>2. /\ Len(open) \in Nat \ {0} /\ DOMAIN open = 1..Len(open) /\ open \in Seq(Slot)
      /\ promoted \in [Slot -> BOOLEAN]
  BY <1>1, EmptySeq DEF TypeOK
<1>3. /\ DOMAIN open' = 1..(Len(open) - 1)
      /\ \A k \in 1..(Len(open) - 1) : open'[k] = open[k]
  BY <1>1, <1>2
<1>4. Flags \in Seq(BOOLEAN) /\ Len(Flags) = Len(open)
  <2>1. \A k \in 1..Len(open) : promoted[open[k]] \in BOOLEAN
    BY <1>2
  <2> QED
    BY <1>2, <2>1 DEF Flags
<1>5. Flags # <<>>
  BY <1>2, <1>4
<1>6. Flags' = [k \in 1..(Len(open) - 1) |-> promoted[open'[k]]]
  BY <1>1, <1>3 DEF Flags
<1>7. \A k \in 1..(Len(open) - 1) : promoted[open'[k]] = Flags[k]
  <2> SUFFICES ASSUME NEW k \in 1..(Len(open) - 1) PROVE promoted[open'[k]] = Flags[k]
    OBVIOUS
  <2>1. k \in 1..Len(open)
    BY <1>2
  <2> QED
    BY <1>2, <1>3, <2>1 DEF Flags
<1>8. SubSeq(Flags, 1, Len(Flags) - 1) = [k \in 1..(Len(open) - 1) |-> Flags[k]]
  <2>1. \A k \in 1..(Len(open) - 1) : 1 + k - 1 = k
    BY <1>2
  <2> QED
    BY <1>2, <1>4, <2>1
<1> QED
  BY <1>5, <1>6, <1>7, <1>8

\* The slot promoted was the outermost unpromoted one.
LEMMA PromotionPromotes ==
    ASSUME Inv, NEW k \in DOMAIN open, ~promoted[open[k]],
           \A j \in 1..(k - 1) : promoted[open[j]],
           promoted' = [promoted EXCEPT ![open[k]] = TRUE],
           UNCHANGED open
    PROVE  /\ ~Flags[k]
           /\ k \in DOMAIN Flags
           /\ \A j \in 1..(k - 1) : Flags[j]
           /\ Flags' = [Flags EXCEPT ![k] = TRUE]
<1> USE DEF Inv
<1>1. /\ Len(open) \in Nat /\ DOMAIN open = 1..Len(open) /\ k \in 1..Len(open)
      /\ \A j \in DOMAIN open : open[j] \in Slot
      /\ promoted \in [Slot -> BOOLEAN]
  BY DEF TypeOK
<1>2. DOMAIN Flags = DOMAIN open /\ \A j \in DOMAIN open : Flags[j] = promoted[open[j]]
  BY DEF Flags
<1>3. \A j \in 1..(k - 1) : Flags[j]
  <2>1. \A j \in 1..(k - 1) : j \in DOMAIN open
    BY <1>1
  <2> QED
    BY <1>2, <2>1
<1>4. \A j \in DOMAIN open : promoted'[open[j]] = IF j = k THEN TRUE ELSE promoted[open[j]]
  BY <1>1 DEF Linked
<1>5. Flags' = [j \in DOMAIN open |-> IF j = k THEN TRUE ELSE promoted[open[j]]]
  BY <1>4 DEF Flags
<1>6. [Flags EXCEPT ![k] = TRUE] = [j \in DOMAIN open |-> IF j = k THEN TRUE ELSE promoted[open[j]]]
  BY <1>2 DEF Flags
<1> QED
  BY <1>2, <1>3, <1>5, <1>6

\* With its memory left out, the deque is a stack of flags promoted from the
\* bottom up: SporkDeque implements SlotStack.
THEOREM Implements == Spec => ImplementsSlotStack
<1>1. Init => Stack!Init
  <2> SUFFICES ASSUME Init PROVE Flags = <<>>
    BY DEF Stack!Init, Flags
  <2>1. DOMAIN open = {}
    BY DEF Init
  <2>2. Flags = [k \in {} |-> promoted[open[k]]]
    BY <2>1 DEF Flags
  <2> QED
    BY <2>2
<1>2. Inv /\ [Next]_vars => [Stack!Next]_Flags
  <2> SUFFICES ASSUME Inv, [Next]_vars PROVE Stack!Next \/ Flags' = Flags
    OBVIOUS
  <2>1. CASE Commit
    BY <2>1, CommitPushes DEF Stack!Next, Stack!Push, Flags
  <2>2. CASE Unlink
    BY <2>2, UnlinkPops DEF Stack!Next, Stack!Pop, Flags
  <2>3. ASSUME NEW k \in DOMAIN open, ~promoted[open[k]],
               \A j \in 1..(k - 1) : promoted[open[j]],
               promoted' = [promoted EXCEPT ![open[k]] = TRUE], UNCHANGED open
        PROVE  Stack!Next
    <3>1. Stack!Promote
      BY <2>3, PromotionPromotes DEF Stack!Promote, Flags
    <3> QED
      BY <3>1 DEF Stack!Next
  <2>4. CASE EagerTake
    <3>1. /\ Len(open) \in DOMAIN open /\ ~promoted[open[Len(open)]]
          /\ promoted' = [promoted EXCEPT ![open[Len(open)]] = TRUE]
          /\ UNCHANGED open
          /\ heartbeat_tokens > 0 /\ slot = Null /\ Len(open) \in Nat
          /\ DOMAIN open = 1..Len(open)
      BY <2>4, EmptySeq DEF EagerTake, Worker, Inv, TypeOK, Control, Ordered, top
    <3>2. \A j \in 1..(Len(open) - 1) : promoted[open[j]]
      BY <3>1 DEF Inv, Ordered, TokensOnlyWhenFullyPromoted
    <3> QED
      BY <2>3, <3>1, <3>2
  <2>5. CASE WalkPromote
    BY <2>3, <2>5 DEF WalkPromote, Inv, Walked
  <2> QED
    BY <2>1, <2>2, <2>4, <2>5, QuietStep DEF Next, Opening, Eager, Closing, Walk
<1> QED
  BY <1>1, <1>2, Invariance, PTL DEF Spec, ImplementsSlotStack, Stack!Spec, Flags

=============================================================================
