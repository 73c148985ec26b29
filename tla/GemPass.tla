------------------------------ MODULE GemPass ------------------------------
(***************************************************************************)
(* The cost-model-driven unroll plugin (gempass/SporkUnrollPass.cpp), the  *)
(* older of the two behind __spork_unroll_loop.  It asks LLVM for a count, *)
(* lets LLVM's own unroller make a chain of that many clones, each with    *)
(* its store and its check, and only then takes the inner stores and       *)
(* checks away.  Up to that point every store carries a tag of its loop's  *)
(* own, by which the plugin finds its clones again.                        *)
(*                                                                         *)
(* What LLVM decides and does, and whether a loop has the shape asked for, *)
(* is tried in every way.                                                  *)
(***************************************************************************)
EXTENDS Integers, Sequences, FiniteSets, Functions, StepShape

CONSTANTS
    Token, NoToken,     \* as in FablePass
    Marker, NoMarker,
    Query,
    MAX_COUNT           \* bound: the unroll counts LLVM chooses from

ASSUME NameAssumption ==
    /\ NoToken \notin Token
    /\ IsFiniteSet(Marker)
    /\ MAX_COUNT \in Nat

VARIABLES
    site, asks,         \* per marker and per query, its token
    pc,
    current,            \* the marker being processed
    count,              \* its UnrollDecision
    factor,             \* its Factor
    shape,              \* per marker, the step loops of its loop
    tagged,             \* the markers whose loop has tagged stores
    MarkerCounts,       \* per token
    SiteFactors,        \* per token seen, its factor
    marks,              \* the marker calls left in the module
    published           \* per query replaced, the constant

input == <<site, asks, MarkerCounts>>
vars  == <<input, pc, current, count, factor, shape, tagged, SiteFactors, marks,
           published>>

MarkersOf(t) == {m \in Marker : site[m] = t}

Init ==
    /\ site \in [Marker -> Token \cup {NoToken}]
    /\ asks \in [Query -> Token \cup {NoToken}]
    /\ MarkerCounts = [t \in Token |-> Cardinality(MarkersOf(t))]
    /\ pc = "marker"
    /\ current = NoMarker
    /\ count = 0
    /\ factor = 1
    /\ shape = [m \in Marker |-> Plain]
    /\ tagged = {}
    /\ SiteFactors = <<>>
    /\ marks = Marker
    /\ published = <<>>

Goto(from, to) == pc = from /\ pc' = to

-----------------------------------------------------------------------------
(* transformMarkedLoops.                                                   *)

\* No loop is found, findProgressStore or the cost model turns it down, it has
\* calls or inner loops, or its token is not its own.
LeaveAlone ==
    /\ Goto("marker", "record")
    /\ current' \in marks
    /\ factor' = 1
    /\ UNCHANGED <<input, count, shape, tagged, SiteFactors, marks, published>>

\* Mutant: the markers of the token are not counted.
MayUnrollAny(m) == site[m] # NoToken

\* `Token && MarkerCounts.lookup(Token) == 1`
MayUnroll(m) == site[m] # NoToken /\ MarkerCounts[site[m]] = 1

\* computeNativeUnrollDecision: at least two iterations.  The loop's store gets
\* its tag.
Decide ==
    /\ Goto("marker", "clone")
    /\ \E m \in marks :
        /\ MayUnroll(m)
        /\ current' = m
        /\ tagged' = tagged \cup {m}
    /\ count' \in 2..MAX_COUNT
    /\ factor' = 1
    /\ UNCHANGED <<input, shape, SiteFactors, marks, published>>

\* Mutant: the tag is not taken off again.
CloneFailsTagged ==
    /\ Goto("clone", "record")
    /\ UNCHANGED <<input, current, count, factor, shape, tagged, SiteFactors, marks,
                   published>>

\* cloneCleanupLoop: not a single block, an exit with PHIs, ...
CloneFails ==
    /\ Goto("clone", "record")
    /\ tagged' = tagged \ {current}
    /\ UNCHANGED <<input, current, count, factor, shape, SiteFactors, marks, published>>

\* UnrollLoop leaves the loop as it is, or formBatchedLoopWithCleanup does not
\* recognise the chain: every iteration still stores and checks.
StayChecked ==
    /\ Goto("clone", "record")
    /\ tagged' = tagged \ {current}
    /\ shape' = [shape EXCEPT ![current] = Plain]
    /\ UNCHANGED <<input, current, count, factor, SiteFactors, marks, published>>

\* `MainStores.size() != Count`
ChainIsWhole(clones) == clones = count

\* formBatchedLoopWithCleanup: one store and check are left per pass over the
\* chain, and the loop as it was follows for the rest.
FormBatchedLoop ==
    /\ Goto("clone", "record")
    /\ \E clones \in 2..MAX_COUNT :
        /\ ChainIsWhole(clones)
        /\ shape' = [shape EXCEPT ![current] = <<clones, 1>>]
    /\ factor' = count
    /\ tagged' = tagged \ {current}
    /\ UNCHANGED <<input, current, count, SiteFactors, marks, published>>

\* Mutant: two decisions for one token leave none recorded.
RecordTwice(old) == 0

\* Two decisions for one token: publish the single iteration.
Recorded(old) == IF old # factor THEN 1 ELSE old

\* `SiteFactors.insert({Token, Factor})`, and the marker goes.
Record ==
    /\ Goto("record", "marker")
    /\ LET t == site[current]
       IN  SiteFactors' =
             IF t = NoToken THEN SiteFactors
             ELSE [x \in DOMAIN SiteFactors \cup {t} |->
                      IF x # t THEN SiteFactors[x]
                      ELSE IF t \in DOMAIN SiteFactors THEN Recorded(SiteFactors[t])
                      ELSE factor]
    /\ marks' = marks \ {current}
    /\ current' = NoMarker
    /\ count' = 0
    /\ UNCHANGED <<input, factor, shape, tagged, published>>

-----------------------------------------------------------------------------
(* run.                                                                    *)

BeginQueries ==
    /\ Goto("marker", "queries")
    /\ marks = {}
    /\ UNCHANGED <<input, current, count, factor, shape, tagged, SiteFactors, marks,
                   published>>

\* replaceFactorCalls
FactorFor(t) == IF t \in DOMAIN SiteFactors THEN SiteFactors[t] ELSE 1

ReplaceQuery ==
    /\ pc = "queries"
    /\ \E q \in Query \ DOMAIN published :
        published' = [x \in DOMAIN published \cup {q} |->
                         IF x = q THEN FactorFor(asks[q]) ELSE published[x]]
    /\ UNCHANGED <<input, pc, current, count, factor, shape, tagged, SiteFactors, marks>>

Finish ==
    /\ Goto("queries", "done")
    /\ DOMAIN published = Query
    /\ UNCHANGED <<input, current, count, factor, shape, tagged, SiteFactors, marks,
                   published>>

Done == pc = "done" /\ UNCHANGED vars

Next == LeaveAlone \/ Decide \/ CloneFails \/ StayChecked \/ FormBatchedLoop
        \/ Record \/ BeginQueries \/ ReplaceQuery \/ Finish \/ Done

Spec == Init /\ [][Next]_vars

-----------------------------------------------------------------------------
(* Properties.                                                             *)

Factor == Nat \ {0}

\* Every variable keeps its type; no factor is below one.
TypeOK ==
    /\ site \in [Marker -> Token \cup {NoToken}]
    /\ asks \in [Query -> Token \cup {NoToken}]
    /\ MarkerCounts \in [Token -> Nat]
    /\ pc \in {"marker", "clone", "record", "queries", "done"}
    /\ current \in Marker \cup {NoMarker}
    /\ count \in Nat
    /\ factor \in Factor
    /\ shape \in [Marker -> Seq(Factor)]
    /\ tagged \subseteq Marker
    /\ DOMAIN SiteFactors \subseteq Token
    /\ Range(SiteFactors) \subseteq Factor
    /\ marks \subseteq Marker
    /\ DOMAIN published \subseteq Query
    /\ Range(published) \subseteq Factor

\* The factor a handler is given covers the steps of every loop with its token.
\* Publishing 1 when two loops of a token were decided differently would not be
\* safe by itself: one of them may be batched already.
FactorCoversCopies ==
    \A q \in DOMAIN published : asks[q] # NoToken =>
        \A m \in MarkersOf(asks[q]) : Covers(shape[m], published[q])

\* Nothing that the plugin works with is left in the module: a store carries a
\* tag only while its own loop is being transformed, whichever way that ends, and
\* in the end there is no marker and no query.
NothingLeftBehind ==
    /\ tagged \subseteq {current}
    /\ pc = "done" => marks = {} /\ DOMAIN published = Query

=============================================================================
