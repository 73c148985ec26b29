---------------------------- MODULE SnapshotSink ----------------------------
(***************************************************************************)
(* What becomes of a marked loop once it is found: LLVM's version of it,   *)
(* the probe, is rewritten to look at the real bound (rewriteStepLoop in   *)
(* fablepass/SporkUnrollPass.cpp).  Past the exit of a step loop LLVM took *)
(* the loop to have stopped at its limit, computed from a snapshot of the  *)
(* bound.  It may now stop earlier, so that every value past the exit that *)
(* was computed from the limit has to be computed anew, from where the     *)
(* loop did stop: SinkPlan decides which, replaceOrSinkPastExit does it,   *)
(* one step loop after the other, and LLVM's verifier has the last word.   *)
(*                                                                         *)
(* Two step loops; code lies before both exits, past the first, or past    *)
(* the second.  The probe's values are numbered, the operands of a value   *)
(* being of lower numbers.  Left out are constants, arguments, and the     *)
(* loops' own compares.                                                    *)
(***************************************************************************)
EXTENDS MarkerWalk

CONSTANTS
    VALUES,             \* bound: the values computed before the second exit
    MAX_PAST            \* bound: how often one is used past an exit

ASSUME ValuesAssumption == VALUES \in Nat \ {0} /\ MAX_PAST \in Nat

Value  == 1..VALUES
Exits  == 1..2
Places == 0..2

\* In the block of exit k: the index at which the loop stopped, and clones.
IVExit(k)  == k * (VALUES + 1)
Sunk(k, x) == IVExit(k) + x

VARIABLES
    kind,               \* per value: pure, a merge (or a branch), or memory
    place,              \* per value, where it is computed
    limit,              \* per step loop, the value its exit compares with
    chained,            \* does the first exit dominate the second?
    operands,           \* per value and clone, what it is computed from
    reads,              \* per value used past an exit, and where: what is read
    k,                  \* S, the step loop being rewritten
    needs,              \* SinkPlan's Needs
    Sinks,              \* the worklist: values whose uses are to be replaced
    O,                  \* the one being replaced,
    uses,               \* and its uses not looked at yet
    clones              \* the clones, in the order they were made

shapes == <<kind, place, limit, chained>>
probe  == <<shapes, operands, reads>>
sink   == <<k, needs, Sinks, O, uses, clones>>
walk   == <<graph, Work, at, Depth, rest, Visited, Loops>>
svars  == <<vars, probe, sink>>

InitProbe ==
    /\ kind = <<>> /\ place = <<>> /\ limit = <<>> /\ chained = FALSE
    /\ operands = <<>> /\ reads = <<>>
    /\ k = 0 /\ needs = {}
    /\ Sinks = <<>> /\ O = 0 /\ uses = {} /\ clones = <<>>

\* exitDominatesUse, of exit e and code at place q.
Past(e, q) == q = e \/ (e < q /\ e > 0 /\ chained)

PlaceOf(x) == IF x \in Value THEN place[x] ELSE IF x < IVExit(2) THEN 1 ELSE 2

\* A use past an exit, and one by a value or a clone.
ReadBy(p) == [read |-> TRUE,  of |-> p,        at |-> p[2]]
By(u)     == [read |-> FALSE, of |-> <<u, 0>>, at |-> PlaceOf(u)]

\* The code places a merge's use of a value at the end of the block it comes in
\* from (865-866). Here a merge is placed where it stands.
Uses(x) == {ReadBy(p) : p \in {p \in DOMAIN reads : reads[p] = x}}
           \cup {By(u) : u \in {u \in DOMAIN operands : x \in operands[u]}}

-----------------------------------------------------------------------------
(* SinkPlan of step loop e.                                                *)

Pure(x) == x \in Value => kind[x] = "pure"

Before(e) == {x \in DOMAIN operands : ~Past(e, PlaceOf(x))}
Users(e, x) == {u \in Before(e) : x \in operands[u]}

\* The pure values before the exit that are computed from the limit.  "A pre-exit
\* merge or decision; the snapshot is fine there": they are not looked through.
Reached(e) ==
    LET r[x \in Before(e)] ==
            Pure(x) /\ \E o \in operands[x] : o = limit[e] \/ (o \in Before(e) /\ r[o])
    IN  {x \in Before(e) : r[x]}

\* Those of them that feed a use past the exit.
Needs(e) ==
    LET n[x \in Before(e)] ==
            \/ \E U \in Uses(x) : Past(e, U.at)
            \/ \E u \in Users(e, x) : Pure(u) /\ n[u]
    IN  {x \in Reached(e) : n[x]}

\* "Snapshot limit reaches memory or a call before the exit."
Failure(e) ==
    \E x \in {limit[e]} \cup Reached(e) : \E u \in Users(e, x) :
        u \in Value /\ kind[u] = "memory"

-----------------------------------------------------------------------------
\* The walk has returned, and all that is looked at from here on is the probe,
\* a function of its own.
BuildProbe ==
    /\ pc = "found" /\ pc' = "probe"
    /\ successors' = [b \in Walked |-> {}] /\ shared' = {}
    /\ Work' = <<>> /\ at' = Start /\ Depth' = 0
    /\ rest' = {} /\ Visited' = {} /\ Loops' = {}
    /\ UNCHANGED <<probe, sink>>

\* A value is used where it is available only.
Available(v, q) == place[v] <= q /\ (place[v] = 1 /\ q = 2 => chained)

\* The values that the limit of the first loop goes into.
FromFirst ==
    LET d[v \in Value] == v = limit[1] \/ \E o \in operands[v] : d[o]
    IN  {v \in Value : d[v]}

\* What LLVM made of it, a pure value that is not used being none.  No limit goes
\* into that of a later loop, which the rewriting of the latter relies on.
Optimize ==
    /\ pc = "probe" /\ pc' = "match"
    /\ kind' \in [Value -> {"pure", "merge", "memory"}]
    /\ place' \in [Value -> 0..1]
    /\ limit' \in [Exits -> Value]
    /\ chained' \in BOOLEAN
    /\ operands' \in {f \in [Value -> SUBSET (1..(VALUES - 1))] :
                         \A v \in Value : f[v] \subseteq 1..(v - 1)}
    /\ \E P \in SUBSET (Value \X Exits) :
        /\ Cardinality(P) <= MAX_PAST
        /\ reads' = [p \in P |-> p[1]]
    /\ place'[limit'[1]] = 0 /\ Available(limit[2], 2)'
    /\ \A v \in Value : \A o \in operands'[v] : place'[o] <= place'[v]
    /\ \A p \in DOMAIN reads' : Available(p[1], p[2])'
    /\ \A v \in Value : kind'[v] = "pure" => v \in Range(limit') \/ Uses(v)' # {}
    /\ chained' => limit'[2] \notin FromFirst'
    /\ UNCHANGED <<walk, sink>>

\* matchStepLoop's question of SinkPlan, for all step loops first.
Reject ==
    /\ pc = "match" /\ pc' = "rejected"
    /\ \E e \in Exits : Failure(e)
    /\ UNCHANGED <<walk, probe, sink>>

\* The start of rewriteStepLoop for step loop e: the plan is made anew.
Plan(e) ==
    /\ k' = e
    /\ needs' = Needs(e)
    /\ Sinks' = <<limit[e]>>
    /\ UNCHANGED <<walk, probe, O, uses, clones>>

Match ==
    /\ pc = "match" /\ pc' = "sink"
    /\ \A e \in Exits : ~Failure(e)
    /\ Plan(1)

-----------------------------------------------------------------------------
(* replaceOrSinkPastExit.                                                  *)

Repl(x) == IF x = limit[k] THEN IVExit(k) ELSE Sunk(k, x)

PopSink ==
    /\ pc = "sink" /\ uses = {}
    /\ Sinks # <<>>
    /\ O' = Last(Sinks)
    /\ uses' = Uses(O')
    /\ Sinks' = Front(Sinks)
    /\ UNCHANGED <<walk, pc, probe, k, needs, clones>>

\* U is the next of the uses: in what order a value lists them is left open.
Visit(U) ==
    /\ pc = "sink"
    /\ U \in uses
    /\ uses' = uses \ {U}
    /\ UNCHANGED <<walk, pc, shapes, k, needs, O>>

Replaced(S) == (S \ {O}) \cup {Repl(O)}

\* A use past the exit.
SetUse(U) ==
    /\ Past(k, U.at)
    /\ Visit(U)
    /\ IF U.read THEN reads' = [reads EXCEPT ![U.of] = Repl(O)] /\ UNCHANGED operands
       ELSE operands' = [operands EXCEPT ![U.of[1]] = Replaced(@)] /\ UNCHANGED reads
    /\ UNCHANGED <<Sinks, clones>>

\* A use before the exit by what is needed past it.
Needed(U) == ~Past(k, U.at) /\ ~U.read /\ U.of[1] \in needs

\* `if (!UI || !Plan.Needs.lookup(UI)) continue;`
LeaveUse(U) ==
    /\ ~Past(k, U.at) /\ ~Needed(U)
    /\ Visit(U)
    /\ UNCHANGED <<operands, reads, Sinks, clones>>

Cloned(x) == Sunk(k, x) \in DOMAIN operands

\* A clone of x.
AddClone(x) ==
    operands' = [y \in DOMAIN operands \cup {Sunk(k, x)} |->
                    IF y = Sunk(k, x) THEN Replaced(operands[x]) ELSE operands[y]]

Below(x) == clones' = Append(clones, Sunk(k, x))
Noted(x) == Sinks' = Append(Sinks, x)

\* Mutant: the clone is not noted for its own uses.
SinkAlone(U) ==
    LET x == U.of[1]
    IN  /\ Needed(U) /\ ~Cloned(x)
        /\ Visit(U)
        /\ AddClone(x)
        /\ Below(x)
        /\ UNCHANGED <<reads, Sinks>>

\* Mutant: the insertion point is looked up for each clone.
SinkBefore(U) ==
    LET x == U.of[1]
    IN  /\ Needed(U) /\ ~Cloned(x)
        /\ Visit(U)
        /\ AddClone(x)
        /\ clones' = <<Sunk(k, x)>> \o clones
        /\ Noted(x)
        /\ UNCHANGED reads

\* Mutant: the clone is not entered into the table of clones.
SinkAgain(U) ==
    LET x == U.of[1]
    IN  /\ Needed(U)
        /\ Visit(U)
        /\ AddClone(x)
        /\ Below(x) /\ Noted(x)
        /\ UNCHANGED reads

\* The first use of O by a value that is needed past the exit: a clone of it
\* goes into the exit block, below the clones that are there already.
Sink(U) ==
    LET x == U.of[1]
    IN  /\ Needed(U) /\ ~Cloned(x)
        /\ Visit(U)
        /\ AddClone(x)
        /\ Below(x) /\ Noted(x)
        /\ UNCHANGED reads

\* It has a clone, by another of its operands.
Rewire(U) ==
    LET x == U.of[1]
    IN  /\ Needed(U) /\ Cloned(x)
        /\ Visit(U)
        /\ operands' = [operands EXCEPT ![Sunk(k, x)] = IF O \in @ THEN Replaced(@) ELSE @]
        /\ UNCHANGED <<reads, Sinks, clones>>

RewriteDone == pc = "sink" /\ uses = {} /\ Sinks = <<>>

NextLoop ==
    /\ RewriteDone /\ k = 1
    /\ Plan(2)
    /\ UNCHANGED pc

\* Nothing is used where it is not available, in the blocks of the exits too.
WellFormed ==
    /\ \A j \in DOMAIN clones : \A o \in operands[clones[j]] :
        o \in Range(clones) /\ PlaceOf(o) = PlaceOf(clones[j]) =>
            \E b \in 1..(j - 1) : clones[b] = o
    /\ \A x \in DOMAIN operands : \A o \in operands[x] :
        PlaceOf(o) <= PlaceOf(x) /\ (PlaceOf(o) = 1 /\ PlaceOf(x) = 2 => chained)

\* verifyFunction.
Verify ==
    /\ RewriteDone /\ k = 2
    /\ pc' = IF WellFormed THEN "transplanted" ELSE "unverified"
    /\ UNCHANGED <<walk, probe, sink>>

Transplanted ==
    /\ pc \in {"none", "transplanted", "rejected", "unverified"}
    /\ UNCHANGED svars

-----------------------------------------------------------------------------
Rewrite ==
    \/ BuildProbe \/ Optimize \/ Reject \/ Match \/ PopSink \/ NextLoop \/ Verify
    \/ \E U \in uses : SetUse(U) \/ LeaveUse(U) \/ Sink(U) \/ Rewire(U)

SinkInit == Init /\ InitProbe

SinkNext == (Step /\ UNCHANGED <<probe, sink>>) \/ Rewrite \/ Transplanted

SinkSpec == SinkInit /\ [][SinkNext]_svars

-----------------------------------------------------------------------------
(* Properties.                                                             *)

Nodes == 1..Sunk(2, Sunk(1, VALUES))

\* Every variable keeps its type; no block is walked from deeper than allowed, and
\* each value is cloned once per exit and waits once.
SinkTypeOK ==
    /\ TypeOK
    /\ pc \in {"walk", "found", "none", "probe", "match", "sink", "transplanted",
               "rejected", "unverified"}
    /\ kind = <<>> \/ kind \in [Value -> {"pure", "merge", "memory"}]
    /\ place = <<>> \/ place \in [Value -> 0..1]
    /\ limit = <<>> \/ limit \in [Exits -> Value]
    /\ chained \in BOOLEAN
    /\ DOMAIN operands \cup UNION Range(operands) \subseteq Nodes
    /\ DOMAIN reads \subseteq Value \X Exits /\ Range(reads) \subseteq Nodes
    /\ k \in 0..2
    /\ needs \subseteq Nodes
    /\ Range(Sinks) \subseteq Nodes /\ IsInjective(Sinks)
    /\ O \in Nodes \cup {0}
    /\ Range(clones) \subseteq Nodes /\ IsInjective(clones)

\* What a node stands for: the value it was at first.
Orig(x) ==
    LET o[y \in Nodes] ==
            IF y \in Value THEN y
            ELSE LET e == IF y < IVExit(2) THEN 1 ELSE 2
                 IN  IF y = IVExit(e) THEN limit[e] ELSE o[y - IVExit(e)]
    IN  o[x]

\* What it is computed from, directly or not, through memory too.
From(x) ==
    LET f[y \in Nodes] ==
            {y} \cup (IF y \notin DOMAIN operands \/ (y \in Value /\ kind[y] = "merge")
                      THEN {} ELSE UNION {f[o] : o \in operands[y]})
    IN  f[x]

\* Wherever the limit of step loop e went into x, its real index does.
Stopped(e, x) == \A y \in From(x) : Orig(y) = limit[e] => y = IVExit(e)

\* "Code after a step loop's exit may only assume the loop stopped at the real
\* exit index, never at the snapshot limit": in a probe that is accepted each use
\* past some exits, by code or by another value, is of the same value as before,
\* but computed from the indices where these loops did stop, in whatever order the
\* uses were listed.
PastExitSeesRealIndex ==
    pc = "transplanted" =>
        /\ \A p \in DOMAIN reads :
            /\ Orig(reads[p]) = p[1]
            /\ \A e \in Exits : Past(e, p[2]) => Stopped(e, reads[p])
        /\ \A x \in DOMAIN operands :
            /\ {Orig(o) : o \in operands[x]} = {Orig(o) : o \in operands[Orig(x)]}
            /\ \A o \in operands[x], e \in Exits :
                  Past(e, PlaceOf(x)) => Stopped(e, o)

\* The verifier turns a probe down, and the loop gets the slower batches, only
\* if a limit reaches some value along two ways: then an unlucky order of uses
\* puts a clone above one that it needs.
VerifiesUnlessTwoWays ==
    pc = "unverified" => \E c \in Range(clones) :
        Cardinality({o \in operands[c] : o \notin Value /\ PlaceOf(o) = PlaceOf(c)}) > 1

=============================================================================
