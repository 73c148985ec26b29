----------------------------- MODULE FablePass -----------------------------
(***************************************************************************)
(* The probe-driven unroll plugin (fablepass/SporkUnrollPass.cpp), which   *)
(* rewrites the loop of every parfor_ into step loops and tells the        *)
(* promotion handler, through __spork_get_unroll_factor, how long a step   *)
(* may be.  One handler serves every copy that inlining and loop           *)
(* unswitching made of its loop, so one factor has to be right for all.    *)
(*                                                                         *)
(* What LLVM makes of a loop, and whether a loop has the shape the         *)
(* matchers ask for, is not the plugin's doing: every outcome is tried.    *)
(* A loop is its sequence of step lengths (StepShape), a probe the         *)
(* sequence of the loops LLVM left in it, and a probe loop the number of   *)
(* iterations one trip of it performs and what the matchers see of it.     *)
(***************************************************************************)
EXTENDS Integers, Sequences, SequencesExt, FiniteSets, FiniteSetsExt, Functions, StepShape

CONSTANTS
    Token,              \* the site tokens: the addresses of unroll_site
    NoToken,            \* what getSiteToken returns for any other argument
    Marker,             \* the calls of __spork_unroll_loop in the module
    Query,              \* the calls of __spork_get_unroll_factor
    MAX_COPIES,         \* bound: loops one marker denotes
    Slot, NoSlot,       \* the stack slots progress is stored to
    Probes,             \* what the vector and unroll passes may leave
    NoProbe,            \* buildProbe's probe failed verification
    SporkMaxBatch,
    ForceBatches        \* the values -spork-force-batch is given

ASSUME NameAssumption == NoToken \notin Token /\ NoProbe \notin Probes

ASSUME BoundsAssumption ==
    MAX_COPIES \in Nat /\ SporkMaxBatch \in Nat /\ ForceBatches \subseteq Nat

Loop == Marker \X (1..MAX_COPIES)

VARIABLES
    SporkForceBatch,    \* the batch asked for; 0: ask the probe
    site,               \* per marker, its token
    asks,               \* per factor query, its token
    found,              \* per marker, how many loops the walk from it finds
    pc,
    token,              \* the site being processed
    pending,            \* its markers not looked at yet
    copies,             \* the loops of the current marker not looked at yet
    slot,               \* MarkerProgressPtr
    batch,              \* Batch
    ok,                 \* Ok
    plans,              \* Plans: per planned loop, its probe
    planned,            \* of these, the loops still to be transformed
    scratch,            \* the loops whose probe function is in the module
    called,             \* the loops whose probe could not be inlined
    shape,              \* per loop, its step loops
    SiteFactors,        \* per token processed, its factor
    marks,              \* the marker calls left in the module
    published           \* per query replaced, the constant

input == <<SporkForceBatch, site, asks, found>>
plan  == <<pending, copies, slot, batch, ok, plans, scratch>>
out   == <<planned, called, shape>>
vars  == <<input, pc, token, plan, out, SiteFactors, marks, published>>

MarkersOf(t) == {m \in Marker : site[m] = t}
\* A marker whose walk fails, or in an optnone function, has its loop too.
LoopsOf(t)   == {l \in Loop : site[l[1]] = t /\ l[2] \in {1} \cup 1..found[l[1]]}
Sites        == Range(site) \ {NoToken}

-----------------------------------------------------------------------------
(* Probes.  A probe loop has                                               *)
(*   trip      the iterations one trip performs                            *)
(*   others    the steps of further integer inductions in its header       *)
(*   regular   the rest of what matchStepLoop asks for                     *)
(*   masked    its body still depends on the trip-count snapshot           *)

Inductions(pl) == <<pl.trip>> \o pl.others

\* measureProbe: the step of the slowest-moving induction.
SlowestStep(pl) == Min(Range(Inductions(pl)))

\* buildProbe's result: the largest such step, unless it is too large.
Batch(probe) ==
    IF probe = NoProbe THEN 1
    ELSE LET largest == Max({1} \cup {SlowestStep(probe.loops[k]) : k \in DOMAIN probe.loops})
         IN  IF largest > SporkMaxBatch THEN 1 ELSE largest

\* matchStepLoop: exactly one integer induction.
matchStepLoop(pl) == pl.regular /\ pl.others = <<>>

\* Mutant: the post-condition on the trip-count snapshot is not checked.
CanTransplantMasked(probe) ==
    /\ probe.vectorized
    /\ probe.loops # <<>>
    /\ \A k \in DOMAIN probe.loops : matchStepLoop(probe.loops[k])

\* transplantProbe's conditions on the probe, the verifier's verdict aside.
CanTransplant(probe) ==
    /\ probe.vectorized
    /\ probe.loops # <<>>
    /\ \A k \in DOMAIN probe.loops : matchStepLoop(probe.loops[k])
    /\ \A k \in DOMAIN probe.loops : ~probe.loops[k].masked

Steps(probe) == [k \in DOMAIN probe.loops |-> probe.loops[k].trip]

\* Steps are compared by their magnitude, and those of zero not looked at.
ProbeLoop == [trip : Nat \ {0}, others : Seq(Nat \ {0}), regular : BOOLEAN, masked : BOOLEAN]

\* One trip of the loop performs exactly so many iterations.
WholeTrips(pl) == pl.regular /\ pl.others = <<>> /\ ~pl.masked

\* Optimized or not, the probe runs every iteration of the loop, however many
\* there are: if its loops make whole trips only, the last one's are of length one.
ASSUME ProbesAssumption ==
    \A probe \in Probes :
        /\ probe.loops \in Seq(ProbeLoop)
        /\ (probe.loops # <<>> /\ \A k \in DOMAIN probe.loops : WholeTrips(probe.loops[k]))
              => Last(Steps(probe)) = 1

-----------------------------------------------------------------------------
Init ==
    /\ SporkForceBatch \in ForceBatches
    /\ site \in [Marker -> Token \cup {NoToken}]
    /\ asks \in [Query -> Token \cup {NoToken}]
    /\ found \in [Marker -> 0..MAX_COPIES]
    /\ pc = "site"
    /\ token = NoToken
    /\ pending = {}
    /\ copies = {}
    /\ slot = NoSlot
    /\ batch = 0
    /\ ok = TRUE
    /\ plans = <<>>
    /\ planned = {}
    /\ scratch = {}
    /\ called = {}
    /\ shape = [l \in Loop |-> Plain]
    /\ SiteFactors = <<>>
    /\ marks = Marker
    /\ published = <<>>

\* The next entry of Sites, the order left open.
BeginSite ==
    /\ pc = "site"
    /\ \E t \in Sites \ DOMAIN SiteFactors :
        /\ token' = t
        /\ pending' = MarkersOf(t)
    /\ pc' = "marker"
    /\ batch' = 0
    /\ ok' = TRUE
    /\ plans' = <<>>
    /\ UNCHANGED <<input, copies, slot, scratch, out, SiteFactors, marks, published>>

\* The function is optnone, or findMarkedLoops finds nothing or something
\* ambiguous: the site is given up.
RejectMarker ==
    /\ pc = "marker"
    /\ \E m \in pending : found[m] = 0
    /\ ok' = FALSE
    /\ pc' = "end"
    /\ UNCHANGED <<input, token, pending, copies, slot, batch, plans, scratch, out,
                   SiteFactors, marks, published>>

\* findMarkedLoops finds the copies of the loop.
FindLoops ==
    /\ pc = "marker"
    /\ \E m \in pending :
        /\ found[m] > 0
        /\ pending' = pending \ {m}
        /\ copies' = {m} \X (1..found[m])
    /\ slot' = NoSlot
    /\ pc' = "loop"
    /\ UNCHANGED <<input, token, batch, ok, plans, scratch, out, SiteFactors, marks,
                   published>>

\* matchLoopProtocol rejects the copy, or it publishes its progress in another
\* slot than the copies before it.
RejectLoop ==
    /\ pc = "loop"
    /\ copies # {}
    /\ ok' = FALSE
    /\ pc' = "end"
    /\ UNCHANGED <<input, token, pending, copies, slot, batch, plans, scratch, out,
                   SiteFactors, marks, published>>

\* Mutant: the copies of one site may have different batches.
AgreesAlone(b) == b >= 2

\* What is asked of a copy's probe batch b.
Agrees(b) == b >= 2 /\ batch \in {0, b}

\* The batch asked of a probe; SporkForceBatch builds none.
Probed(probe) == IF SporkForceBatch > 0 THEN SporkForceBatch ELSE Batch(probe)

MayProbe == IF SporkForceBatch > 0 THEN {NoProbe} ELSE Probes \cup {NoProbe}

\* The copy matches but its batch does not do; its probe is erased.
RejectBatch ==
    /\ pc = "loop"
    /\ copies # {}
    /\ \E probe \in MayProbe : ~Agrees(Probed(probe))
    /\ ok' = FALSE
    /\ pc' = "end"
    /\ UNCHANGED <<input, token, pending, copies, slot, batch, plans, scratch, out,
                   SiteFactors, marks, published>>

\* The copy matches and is planned.
PlanLoop ==
    /\ pc = "loop"
    /\ \E l \in copies, s \in Slot, probe \in MayProbe :
        /\ slot \in {NoSlot, s}
        /\ Agrees(Probed(probe))
        /\ slot' = s
        /\ copies' = copies \ {l}
        /\ batch' = Probed(probe)
        /\ plans' = [x \in DOMAIN plans \cup {l} |-> IF x = l THEN probe ELSE plans[x]]
        /\ scratch' = IF probe = NoProbe THEN scratch ELSE scratch \cup {l}
    /\ UNCHANGED <<input, pc, token, pending, ok, out, SiteFactors, marks, published>>

\* On to the next marker.
NextMarker ==
    /\ pc = "loop"
    /\ copies = {}
    /\ pc' = "marker"
    /\ UNCHANGED <<input, token, plan, out, SiteFactors, marks, published>>

\* Every copy under every marker of the site is planned.
BeginTransform ==
    /\ pc = "marker"
    /\ pending = {}
    /\ planned' = DOMAIN plans
    /\ pc' = "transform"
    /\ UNCHANGED <<input, token, plan, called, shape, SiteFactors, marks, published>>

\* transplantProbe: the probe's loops, each with its guards, take the loop's
\* place, inlined or, if LLVM cannot, as a call.
Transplant ==
    /\ pc = "transform"
    /\ \E l \in planned :
        /\ plans[l] # NoProbe
        /\ CanTransplant(plans[l])
        /\ planned' = planned \ {l}
        /\ shape' = [shape EXCEPT ![l] = Steps(plans[l])]
        /\ called' \in {called, called \cup {l}}
    /\ UNCHANGED <<input, pc, token, plan, SiteFactors, marks, published>>

\* formBatchedLoop: batches, and the untouched loop as cleanup.  The fallback
\* also when the rewritten probe fails verification.
FormBatchedLoop ==
    /\ pc = "transform"
    /\ \E l \in planned :
        /\ planned' = planned \ {l}
        /\ shape' = [shape EXCEPT ![l] = <<batch, 1>>]
    /\ UNCHANGED <<input, pc, token, plan, called, SiteFactors, marks, published>>

EndTransform ==
    /\ pc = "transform"
    /\ planned = {}
    /\ pc' = "end"
    /\ UNCHANGED <<input, token, plan, out, SiteFactors, marks, published>>

\* Mutant: the probes of a site that was given up stay behind.
EndSiteKeepProbes ==
    /\ pc = "end"
    /\ scratch' = IF ok THEN scratch \cap called ELSE scratch
    /\ SiteFactors' = [t \in DOMAIN SiteFactors \cup {token} |->
                          IF t # token THEN SiteFactors[t] ELSE IF ok THEN batch ELSE 1]
    /\ marks' = marks \ MarkersOf(token)
    /\ pc' = "site"
    /\ UNCHANGED <<input, token, pending, copies, slot, batch, ok, plans, out, published>>

\* Mutant: the batch is recorded whatever became of the site.
EndSiteBatchAnyway ==
    /\ pc = "end"
    /\ scratch' = scratch \cap (called \cup (Loop \ DOMAIN plans))
    /\ SiteFactors' = [t \in DOMAIN SiteFactors \cup {token} |->
                          IF t # token THEN SiteFactors[t] ELSE batch]
    /\ marks' = marks \ MarkersOf(token)
    /\ pc' = "site"
    /\ UNCHANGED <<input, token, pending, copies, slot, batch, ok, plans, out, published>>

\* The probes without a call, and the site's markers, are erased.
EndSite ==
    /\ pc = "end"
    /\ scratch' = scratch \cap (called \cup (Loop \ DOMAIN plans))
    /\ SiteFactors' = [t \in DOMAIN SiteFactors \cup {token} |->
                          IF t # token THEN SiteFactors[t] ELSE IF ok THEN batch ELSE 1]
    /\ marks' = marks \ MarkersOf(token)
    /\ pc' = "site"
    /\ UNCHANGED <<input, token, pending, copies, slot, batch, ok, plans, out, published>>

\* The markers without a token.
EraseUntokened ==
    /\ pc = "site"
    /\ Sites \subseteq DOMAIN SiteFactors
    /\ marks' = marks \ MarkersOf(NoToken)
    /\ pc' = "queries"
    /\ UNCHANGED <<input, token, plan, out, SiteFactors, published>>

\* The constant a query is replaced by, matched or not.
FactorFor(t) == IF t \in DOMAIN SiteFactors THEN SiteFactors[t] ELSE 1

ReplaceQuery ==
    /\ pc = "queries"
    /\ \E q \in Query \ DOMAIN published :
        published' = [x \in DOMAIN published \cup {q} |->
                         IF x = q THEN FactorFor(asks[q]) ELSE published[x]]
    /\ UNCHANGED <<input, pc, token, plan, out, SiteFactors, marks>>

Finish ==
    /\ pc = "queries"
    /\ DOMAIN published = Query
    /\ pc' = "done"
    /\ UNCHANGED <<input, token, plan, out, SiteFactors, marks, published>>

Done == pc = "done" /\ UNCHANGED vars

-----------------------------------------------------------------------------
PlanSite  == BeginSite \/ RejectMarker \/ FindLoops \/ RejectLoop \/ RejectBatch
             \/ PlanLoop \/ NextMarker
Transform == BeginTransform \/ Transplant \/ FormBatchedLoop \/ EndTransform
Publish   == EndSite \/ EraseUntokened \/ ReplaceQuery \/ Finish

Next == PlanSite \/ Transform \/ Publish \/ Done

Spec == Init /\ [][Next]_vars

-----------------------------------------------------------------------------
(* Properties.                                                             *)

Pc == {"site", "marker", "loop", "transform", "end", "queries", "done"}

Factor == Nat \ {0}

\* Every variable keeps its type; no site has a factor below one.
TypeOK ==
    /\ SporkForceBatch \in ForceBatches
    /\ site \in [Marker -> Token \cup {NoToken}]
    /\ asks \in [Query -> Token \cup {NoToken}]
    /\ found \in [Marker -> 0..MAX_COPIES]
    /\ pc \in Pc
    /\ token \in Token \cup {NoToken}
    /\ pending \subseteq Marker
    /\ copies \subseteq Loop
    /\ slot \in Slot \cup {NoSlot}
    /\ batch \in Nat
    /\ ok \in BOOLEAN
    /\ DOMAIN plans \subseteq Loop
    /\ Range(plans) \subseteq Probes \cup {NoProbe}
    /\ planned \subseteq Loop
    /\ scratch \subseteq Loop
    /\ called \subseteq Loop
    /\ shape \in [Loop -> Seq(Nat)]
    /\ DOMAIN SiteFactors \subseteq Token
    /\ Range(SiteFactors) \subseteq Factor
    /\ marks \subseteq Marker
    /\ DOMAIN published \subseteq Query
    /\ Range(published) \subseteq Factor

\* What the promotion handler relies on: whatever copies were made of a
\* handler's loop, wherever they were inlined, and whatever became of each of
\* them, the constant the handler is given covers the steps of all.
FactorCoversCopies ==
    \A q \in DOMAIN published : asks[q] # NoToken =>
        \A l \in LoopsOf(asks[q]) : Covers(shape[l], published[q])

\* The README's rule: the copies of a site share one batch, or the site is left
\* alone.  The longest step of every copy is the factor, so that a promotion
\* gives up no more iterations than a step may have under way.
CopiesShareOneBatch ==
    \A t \in DOMAIN SiteFactors : \A l \in LoopsOf(t) :
        Max(Range(shape[l])) = SiteFactors[t]

\* In the end nothing that exists at compile time only is left in the module:
\* no marker, no factor query, and no probe that nobody calls.
NothingLeftBehind ==
    pc = "done" => /\ marks = {}
                   /\ DOMAIN published = Query
                   /\ scratch \subseteq called

=============================================================================
