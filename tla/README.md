# Spork in TLA+

A verification development for the spork scheduler: C++ headers for
heartbeat-scheduled parallelism on top of parlay's work-stealing deques, and
the LLVM plugins that make their interruptible loops fast.

Paths are relative to the repository root. Every definition that models code
names the lines it models in `PROJECT.json` (`map`).

## 1. The system

A spork program runs sequentially until a timer fires. Every construct that
could run in parallel (`par`, `spork`, `parfor`, `scan`) opens a *slot* on the
C++ stack with a promotion handler. Each worker thread has a SIGALRM timer;
every heartbeat gives the worker tokens, and its handler spends them on
*promoting* open slots: a promotion enqueues the construct's other half as a
job that idle workers may steal. When the construct closes its slot it learns
whether it was promoted, and if so joins the job: it takes the job back from its
own deque, or waits for the thief.

| Part | Code | State | Operations | Talks to |
|---|---|---|---|---|
| Spork slots | `scheduler.hpp:202-300` | the list of open slots through the frames of a worker's stack; `heartbeat_tokens`, `disable_heartbeats` | constructor, `close`, `promote`, `promote_front`, `eager_promote` | the handler walks what the worker edits, on the same thread |
| Heartbeats | `scheduler.hpp:333-399` | a timer per worker | `heartbeat_handler`, `start_heartbeats`, `pause_heartbeats` | calls promotion handlers, which enqueue jobs |
| Jobs | `scheduler.hpp:51-130` | `done` and `hbt` per job; parlay's deque per worker | `enqueue`, `sync`, `sync_is_stolen`, `wait`, `fast_clone`, `operator()` | other workers steal through parlay's scheduler |
| `par`, `spork` | `par.hpp`, `spork.hpp` | one job on the frame | body, promotion, join | slots, jobs |
| `parfor_` | `parfor.hpp:66-147` | `sig_safe_i`, `loop_end` (volatile, shared with the handler), two jobs | the loop, the handler's split, the join | slots, jobs, the plugins |
| `parfor` | `parfor.hpp:150-202` | none | casts wide ranges to narrow ones, or cuts them in blocks | `parfor_` |
| `scan` | `scan.hpp` | as `parfor_`, and the partial sums | the loop, the split, upsweep and downsweep | `par`, `parfor`, jobs |
| fablepass | `fablepass/SporkUnrollPass.cpp` | plans, probes and factors per site | probe, transplant or batch, publish | rewrites the loop of `parfor_` and the constant its handler uses |
| gempass | `gempass/SporkUnrollPass.cpp` | tags, factors per site | ask the cost model, unroll, validate, publish | the same |
| others | `pass/`, `old/`, `benchmark.hpp`, the samples, the scripts | | | not part of the running library |

What is hard about it:

* **the handler may come anywhere.** The worker's list edits are not atomic, and
  neither is any update of the tokens. There are no locks; all that protects the
  list is the order of the worker's accesses.
* **order is load-bearing.** `sync` assumes that the youngest job of the
  worker's deque is its own. Nothing checks it. It follows from the order of
  promotions, across all frames, all promotion paths and all nested waits.
* **a loop is shortened while it runs.** The handler gives away iterations
  of a loop whose position it knows only approximately: by the last store to
  `sig_safe_i`, and a bound on the length of a step that a compiler plugin
  publishes as a constant.
* **one constant for many loops.** Inlining and loop unswitching copy a
  `parfor_` loop; its handler has one factor for all of the copies.
* **boundaries.** The last iterations of a range, the last index of the type,
  ranges beyond the type that progress is published in.

What makes each part correct is stated as properties in section 3, and listed
against the lines where it could go wrong in `PROJECT.json` (`hazards`).

## 2. The modules

| Module | Models | Uses |
|---|---|---|
| `SlotStack` | abstract: a worker's open slots are a stack of promotion flags, promoted from the outside in | |
| `SporkDeque` | one worker's slots, access by access, with its heartbeats | implements `SlotStack` |
| `ForkJoin` | abstract: a tree of tasks, each run once, a parent finished after its children | |
| `SporkScheduler` | several workers: call stacks, heartbeats, deques, theft, joins | implements `ForkJoin`; a slot's operations are single steps, as `SlotStack` allows |
| `StepShape` | what the handler of `parfor_` assumes of the loop (`Covers`) | |
| `ParforLoop` | one `parfor_`: the loop, the handler's split, the join | assumes `Covers` |
| `ParforNarrow` | `parfor_` in the arithmetic of its index type: checks, split, calls that wait | |
| `ParforWide` | `parfor`'s dispatch by the width of the index type | extends `ParforNarrow`, whose calls it makes and runs |
| `Scan` | one `scan`: the loop, the handler's split, the job's upsweep, the downsweep | |
| `MarkerWalk` | fablepass's walk from a marker to the loops it denotes | |
| `SnapshotSink` | the transplant's treatment of what LLVM computed from a loop's limit | extends `MarkerWalk`: begins when its walk has found a loop |
| `FablePass`, `GemPass` | the plugins' decisions and what they publish | establish `Covers` |
| `MC*` | constants and symmetry for TLC | |
| `SporkDequeProofs`, `SporkSchedulerProofs`, `ParforLoopProofs`, `ParforWideProofs`, `GemPassProofs`, `FablePassProofs`, `MarkerWalkProofs`, `ScanProofs` | theorems and their proofs | extend the module that they are about; `MarkerWalkProofs` extends `SnapshotSink` |

### How they fit together

The levels rest on one another by contract. `SporkDeque` shows that a list which
is edited under signals behaves like a stack of flags with atomic operations, so
`SporkScheduler`, with several workers, opens, promotes and closes a slot in one
step. `SporkScheduler` shows that jobs are started once and joined in the right
order, so `ParforLoop` treats a job as the range it was given: it runs `parfor_`
over it. `FablePass` and `GemPass` show that the shape and the factor of every
copy of a loop satisfy `Covers`, which `ParforLoop` assumes of its constants
(`ShapeAssumption`). `MarkerWalk` shows that a walk finds all copies of a loop
that it can reach or none, and `FablePass` starts from how many were found.
`SnapshotSink` shows what `FablePass` takes for granted of a transplanted probe,
that its step loops hand on the index at which they stopped. `Scan` treats an
inner `scan` as what `ResultIsPrefix` promises, a `parfor` as each index once.

`parfor_` is modelled twice. `ParforLoop` has every access of a step, and
the join; its indices are integers, and it shows that from a range in order none
leaves the type. `ParforNarrow` has a step in two actions and runs calls one after
the other, but wraps every sum and difference as the type does, signed or
unsigned; `ParforWide` composes it with the casts that its ranges come from.

### `SporkDeque`

The variables are the program's: `promoted`, `prev` and `next` per stack address,
`spork_deque_back`, `heartbeat_tokens`, `disable_heartbeats`; `pc`, `this`,
`before` and `loaded` hold where the worker stands and what it has in registers.
`slot` is `promote_front`'s cursor: while it is not `Null` the handler runs and
the worker stands still, as it does in a signal handler on its own thread.
`open` and `calls` are history variables.

Each action is one access to something the handler shares. The constructor is
three (`Construct`, `Link`, `Commit`), `eager_promote` is five after the test
that calls it, `close` is two. `fast_clone`'s update of the tokens is a load and
a store. `Heartbeat` may happen whenever no handler runs and heartbeats are
enabled. A closed slot keeps its contents, so a `next` pointer really dangles,
and a new slot may be built at any address that no open slot occupies. What a
join does, apart from the tokens, happens in other frames: `SyncStolen` stands for
a wait, after which the tokens are those of whatever job ran last.

A promotion handler is the gift of tokens it makes (`Gifts`): `par` and `spork`
give half, `parfor` nothing, half rounded up, or all in two parts.

### `SporkScheduler`

A program is a tree: a fork has a body and the tasks its promotion would enqueue,
one for `par` and `spork`, two for `parfor`. A worker's state is its call stack of
frames; a frame is a task and the place its code has reached. Work, opening, an
eager promotion, calling the body, closing, running the other half in place,
joining, waiting and returning are actions of the worker; `Heartbeat`,
`PromoteFront` and `EndHeartbeat` are those of its handler, which interrupts it
anywhere, and runs to its end before the worker goes on, while other workers
proceed. A worker without a job, or waiting at a join, has its timer stopped
(`pause_heartbeats`) until it starts a job or its wait ends (`start_heartbeats`).

parlay's scheduler is outside the repository. Modelled of it is what
`WorkStealingJob` uses: `get_own_job` takes the youngest job of the worker's own
deque, a thief the oldest of another's, and `wait_until` runs jobs until its
condition holds, with a job started, perhaps, after the condition became true.

### `ParforLoop`

A loop is a sequence of step lengths, `<<4, 2, 1>>` being a vector loop of four
iterations, an epilogue of two and a scalar remainder. Each step is a load of
`loop_end`, a check, the iterations and a store to `sig_safe_i`; the handler
may come between any two. `Fits` is the guard with its overflow check,
`Bypass` a vector loop passed over by a check LLVM made on an old trip count.
`PromoteSplit` and `PromoteNothing` are the handler. The accumulator is the
sequence of indices folded into it: `binop` is a monoid's operation, and the
free monoid tells apart all that any can.

### `FablePass`, `GemPass`

The plugins are sequential; what is hard about them is that LLVM may do anything.
Whether a marker leads to loops and to how many, whether a loop matches, in which
slot it publishes its progress, what is left of its probe after the vectorizer
and the unroller, whether the rewritten probe verifies or inlines, are
nondeterministic choices. A loop is its step shape, a probe is the list of the
loops left in it, and of each loop what the matchers look at. The result is
`shape` per copy and `published` per query.

### `ParforNarrow`, `ParforWide`

The range, its signedness and whether its type is wide or narrow, and the calls of
`parfor_` that are made for it, each with its bounds after the casts
(`UseIdx`, `UseBounds`, `UseLength`, `UseBlocks`). `RunCall` enters one of them;
its steps are `ParforNarrow`'s: `Begin` checks that a step of one or of `inc_i`
fits, `Publish` runs it and stores `sig_safe_i`, `PromoteSplit` adds the right
and, if it is not empty, the left job to the calls. Which call comes next is
fixed, since none sees what another does. A block is `BLOCK` iterations, for 2^30, and
the narrow types have `4 * BLOCK` values, for 2^32: the ratio, which the code depends
on, is the same, and the proofs need no powers of two. Ranges so long that `num_blocks` itself needs more than 32
bits are left out (`MAX_RANGE`).

### `Scan`

The program's variables, and the job (`up`, `job`), the partials (`partials`,
`live`) and the two branches of the par (`todo`, `right`). A sum of adjacent
elements is the pair of its ends and any other is `Wrong`: the most that an
operator which only associates can tell apart. Indices wrap as an unsigned `idx`
does. The handler may come anywhere in the loop, the thief at any time after it,
the allocation may fail, and the chunks of a sweep are done in any order; the
branches of the par overlap in every way, which covers the sequential order.
`Reuse` hands freed storage to somebody else; `reused` remembers that it did
before the right branch had read it.

### `MarkerWalk`

The control-flow graph is the input, each loop nested in the marker's collapsed
to its header. The worklist is a stack, as in the code; the order in which a
block's successors are looked at is left open. LLVM's notion of a preheader is
`IsPreheader`; a loop in `shared` is also entered from a block that the walk does
not come to, and has none.

### `SnapshotSink`

A probe that LLVM has vectorized is a chain of step loops, each with a limit
computed from a snapshot of the bound. The rewrite lets a loop stop earlier, so
code past its exit must compute with the index it stopped at. The probe is a small
graph of values: which is computed from which (`operands`), whether it is pure, a
merge or touches memory (`kind`), whether it lies before both exits or between
them (`place`), which values are the limits, where values are used past an
exit (`reads`), and whether the first exit dominates the second (`chained`).
`Optimize` chooses any such graph.

`Needs` and `Failure` are `SinkPlan`; both loops are asked before either is
rewritten (`Reject`, `Match`), and `Plan` makes the plan anew at each rewrite.
`PopSink` takes a value from the worklist; each of its uses is set (`SetUse`), left
(`LeaveUse`), or gets a clone in the exit's block (`Sink`, and `Rewire` once there
is one). A use list's order is LLVM's, so uses come in every order. `Verify` is
LLVM's verifier, which asks that nothing is used above its definition.

## 3. The runs

Each property of a passing run has been seen to fail on a mutant of the model
(the definitions commented `Mutant`, listed in `PROJECT.json`).

| Run | Shows |
|---|---|
| `deque` | `HandlerSeesOpenSlots`: wherever a signal arrives, the walk meets the open slots and nothing else. `OutermostFirst`, `TokensOnlyWhenFullyPromoted`, `JoinsFullyPromoted`: promoted slots are the outermost ones; leftover tokens mean nothing is left to promote; a join finds all promoted. `PromotedOnce`, `PromotesOnlyOpenSlots`: what `close` answers is the truth. `ImplementsSlotStack`. `HandlerReturns`: the walk ends, dangling pointers notwithstanding |
| `scheduler` | `DequeMatchesFrames`: each deque is a suffix of the jobs its worker's frames have still to join, in order. `SyncDequeuesItsOwnJob`. `WaitsFullyPromoted`: a waiting or idle worker has nothing to promote or to offer. `NoEnqueueInsideDequeOperation`: no heartbeat enqueues in the middle of a deque operation. `ImplementsForkJoin` |
| `scheduler_live` | `ProgramFinishes`: no set of workers wait for each other for ever |
| `parfor_loop` | `ResultIsSequential`: whatever is promoted when, each index once and in order. `CommittedStepFits`: no step under way is given away. `JoinsWhatItEnqueued`: the deque is left as found. `TypeOK`: no index leaves its type. `LoopFinishes` |
| `fable_pass`, `gem_pass` | `FactorCoversCopies`: the published factor satisfies `Covers` for every copy of the loop. `CopiesShareOneBatch` (fablepass): exactly. `NothingLeftBehind`: no marker, query, unused probe or tag survives |
| `parfor_wide` | `EachIndexHasOneOwner`: of a range below 2^32 iterations, at every moment each index has been run, or belongs to the running loop or to one waiting call, through every cast, next to the end of the type and in ranges whose length is negative in the index type. `StaysInRange`: no range, however long, touches an index outside it |
| `parfor_wide_blocks` | expected to fail: ranges of 2^32 iterations and more (see 6) |
| `scan` | `ResultIsPrefix`: whatever is promoted, stolen and allocated, the prefix sums in order, unless freed partials change hands. `SplitFoundAgain`: the join computes the split that the handler gave to the job. `LeavesNothingBehind`: no job unjoined, no storage lost. `TypeOK`: no index outside the array |
| `scan_end_of_type`, `scan_partials` | expected to fail (see 6) |
| `marker_walk` | `FindsAllCopies`: a walk that succeeds found exactly the loops that a barrier-free path leads to, in whatever order. `GivesUpForAReason`: it fails only with nothing to find, an ambiguous entry, or too many blocks. `LeavesEachBlockOnce`: it ends. Then the rewrite. `PastExitSeesRealIndex`: in an accepted probe everything past an exit is computed from the index where the loop stopped, directly and through clones, of two loops too. `VerifiesUnlessTwoWays`: the verifier has a reason to refuse only if a limit reaches a value along two ways |

### Bounds, and why they are enough

* `SporkDeque`: three addresses, so three nested slots, or two and a dead
  frame that is built over; refills of three tokens, enough to promote all
  three slots at once or to run out in between.
  The theorems hold for any number.
* `SporkScheduler`: three workers and ten tasks for safety. The program has a `par`
  inside a job, a loop with two jobs inside the body of a `par`, and a `par`
  inside the left job of the loop, so that a job is taken back while others of
  its frame are stolen, and a waiting worker runs jobs whose forks are promoted
  in turn. Two workers and twelve tasks for liveness. Two tokens per heartbeat:
  one promotion leaves a token to give. The theorems hold for any program that is
  a tree, any number of workers and any tokens.
* `ParforLoop`: every range of a four-bit index, so every alignment of a range
  to steps of 1, 2, 3 and 4 and to the end of the type. The theorems hold for any
  width and all shapes.
* `FablePass`: two tokens, three markers with up to two copies each, seven kinds
  of probe, forced batches. Two copies that disagree need two markers, or one
  with two loops; both are there, with a second site beside them. The theorems
  hold for any tokens, markers, copies, batches and kinds of probe.
* `GemPass`: two tokens, three markers, counts to four. The theorems
  hold for any finite set of markers and any counts.
* `ParforWide`: blocks of two and narrow types of eight values, ranges to 15
  iterations from -10 to 20: bounds below, inside and above what either narrow
  type holds, and up to eight blocks. Factors of 1, 2 and 3, the last being the
  largest value of the signed type. The theorems hold for blocks of any size, all
  factors up to that value, and any range.
* `Scan`: all lengths to 26 of an index type of 32 values. The thirds are fifths
  of what is left, so lengths from 20 on split, with chunks of one to three
  elements and a last one that is shorter; up to 26, `PromI` never wraps.
  `scan_end_of_type` goes to the end of the type. The theorems hold for every
  length that is more than five below the end of the type.
* `MarkerWalk`: every graph of three bridges, a barrier and two loops, with at
  most two successors per block and each loop entered from elsewhere too or not, the limit scaled from 8 to 2. Three bridges and
  a limit of two let the walk find a block deeper than it lies. The theorems hold
  for any finite graph and any limit.
* `SnapshotSink`: two step loops, three values, two uses past the exits. Three
  values make a diamond, where the order of the uses matters, and a value computed
  from both limits, whose clone is cloned again.
  The theorems hold for any number of values, any graph of them and any uses.

### Fairness

* `deque`: weak fairness of `Walk`, the handler's own steps. A signal handler
  that has started runs on; nothing is asked of the worker or of the timer.
* `scheduler_live`: weak fairness of each worker's own steps, those of its
  handler included. A worker is a thread that the operating system keeps running.
  Heartbeats have no fairness: a program that gets none must finish too.
* `parfor_loop`: weak fairness of the loop's own steps. The handler has none.

`CHECK_DEADLOCK` is left on everywhere: a state in which the program is over has
a named stuttering step (`Terminated`, `Done`), all others must have a successor.

## 4. What is proved

Every theorem holds for all values of the constants that satisfy the named
assumptions of the modules. Where one needs more it says so itself: those of
`ScanProofs` assume `NoWrap`.

`SporkDequeProofs` proves, for any set of addresses and any token constants:
`TypeOK`, `HandlerSeesOpenSlots`, `OutermostFirst`,
`TokensOnlyWhenFullyPromoted`, `JoinsFullyPromoted`, `PromotedOnce`,
`PromotesOnlyOpenSlots`, and that `SporkDeque` implements `SlotStack`. Assumed is
that `Front` and `Null` are no stack addresses and that token counts are naturals.
The inductive invariant adds to the properties what the worker knows at each
place of its code: that `prev` of an open slot is the node before it; what a slot
under construction has and lacks; that heartbeats are disabled exactly between
`EagerSave` and `EagerRestore`; and that a handler's cursor has only promoted
slots behind it. The last is what makes `OutermostFirst` inductive: the walk
promotes the slot at its cursor without looking at those before it.

`ParforLoopProofs` proves, for any index width, any set of shapes and any
factor with `ShapeAssumption`: `TypeOK`, `CommittedStepFits`,
`ResultIsSequential` and `JoinsWhatItEnqueued`. The invariant says where the
register index, the published index, the loaded bound and `loop_end` stand
relative to each other at each `pc`, and that the accumulator holds exactly the
indices from `first` on. Its heart: at `check` and after, the step under way
ends at or below the bound loaded since the last publication, and the handler
moves `loop_end` to `sig_safe_i + FACTOR`, which no step that began at
`sig_safe_i` passes.

`ParforWideProofs` proves `EachIndexHasOneOwner` and `StaysInRange`, for blocks of
any size, so for 2^30, and any factor that the signed narrow type holds. The
invariant says of every call that waits or runs that its bounds are of its index
type and in order and that its indices, shifted, are of the range (`Good`); and of
the loop that its step under way ends below `loop_end`, which is the call's end
until the handler splits (`Running`). That `loop_end - ssi` is larger than the
factor means that it has not wrapped, since a difference that wraps comes out
negative (`DifferenceIs`); so the split's other sums and differences do not
wrap either (`SplitsAt`). An index keeps its one owner because the new jobs and what
the loop keeps are disjoint and make up what it had (`PromoteSplitInv`). That a new
job does not wait already, which a set of calls would hide, follows from the same:
its indices had their one owner in the loop.

`SporkSchedulerProofs` proves, for any program, any set of workers and any token
constants: `TypeOK`, `DequeMatchesFrames`, `WaitsFullyPromoted`,
`SyncDequeuesItsOwnJob`, `NoEnqueueInsideDequeOperation`, and that
`SporkScheduler` implements `ForkJoin`. Assumed of the program is that its tasks
form a tree, a fork spawning one or two tasks besides its body
(`ProgramAssumption`), as `par`, `spork` and `parfor` do. The deque of a worker
matches its frames for reasons that span all workers, so the inductive invariant
is about all of them: what stands above what on a stack (`Shape`); that open slots
are promoted from the outside in (`PromotedOutsideIn`), which tokens left over
extend to all of them (`TokensSpent`); when a worker's timer runs (`Timer`); that a
task is in one frame, or one deque, or not begun (`Owners`); that what a fork has
joined is finished (`Joins`); and that a deque is the end of what the frames above
the last wait have still to join, nothing below a wait being in it (`Jobs`).
`Owners` is what the refinement needs too: no task begins twice.

`GemPassProofs` and `FablePassProofs` prove `TypeOK`, `FactorCoversCopies` and
`NothingLeftBehind`, the second `CopiesShareOneBatch` as well, for any modules of
markers and queries and whatever LLVM makes of the loops. Assumed is that the
dummy names are no tokens and no probes, and of a probe (`ProbesAssumption`) that
if all its loops make whole trips then its last one steps by 1: a probe
runs every iteration of the loop however many there are. `FactorCoversCopies` says
`Covers`, which is what `ParforLoop` assumes of its constants
(`ShapeAssumption`). So the chain from the plugins' decisions to
`ResultIsSequential` is proved at both ends.

`MarkerWalkProofs` proves, on any graph with finitely many blocks to walk and for
any depth limit, `FindsAllCopies`, `GivesUpForAReason` and
`LeavesEachBlockOnce`, of `MarkerWalk` and of `SnapshotSink`, of which it is the
first part. The invariant says that a block which has been seen waits to be left,
is being left, or has been left with none of its successors owed (`Accounted`);
that every block seen is reachable; and that a block found at depth d was
found after d others (`Counted`), which is all that can be said, since the walk
does not find the shortest paths. That the reachable blocks are the *least* closed
set is used in one direction when the walk ends, in the other at each step. The
same module proves `SinkTypeOK`, for any number of values: each is cloned once per
exit and waits once on the worklist. The invariant says that the nodes which the
rewrite of an exit looks at are numbered below those that it makes (`Numbered`), and
that all that waits has been cloned, except for the limit, with which the worklist
begins (`ClonedOnce`).

It also proves `PastExitSeesRealIndex` and `VerifiesUnlessTwoWays`, for any two step
loops. The invariant is `PInv`, and its parts are:

* A set of *stale* nodes for each exit that has been come to: the limit, and all
  that is computed from it before the exit, except for merges (`Stale`). What of it
  is used past the exit is planned to be replaced, with all that this is computed
  from (`Planned`); a node that has been popped is used past the exit no more, except
  by the uses still at hand (`Swept`, `Pending`). So at the end of a rewrite nothing
  stale is used past the exit (`PhaseEnds`). That of the first exit outlasts the
  rewrite of the second (`Traced`), whose clones are of nothing stale for the first
  if it dominates the second, and lie where they cannot meet it if not (`Wanted`).
* What a node stands for, `Root`, never changes, and what a node is computed
  from stands for what its value was computed from (`Standing`). `Root` also ranks
  the nodes: that of an operand is smaller. So no proof has to walk the graph: a node
  of least or greatest rank is enough.
* That no memory sees the second limit is asked before the first rewrite, and the
  second plan is made after it. It still holds of what the values stand for (`Kept`).
* A clone is computed from the replacement it was made for (`Caused`), and no node
  sees a node and its replacement at once (`Either`). So a clone that is rewired
  later sees two nodes of its exit; one that is not stands below the only one
  (`Ordered`).

Each step that looks at a use is first shown to be a `Turn`, a relation that the
four actions have in common, and each part of the invariant is shown of it once.
`SinkPlan`'s sets, `FromFirst`, `From` and `Orig` are recursive functions over the
graph. They are related to their equations by way of *least sets* (`LeastSet`): the
least set closed under the equation satisfies it, so the function that the
definition picks does too (`ReachedIs`, `NeedsIs`, `FirstIs`, `FromWithin`, `OrigIs`).

`ScanProofs` proves `TypeOK`, `ResultIsPrefix`, `SplitFoundAgain` and
`LeavesNothingBehind` for every array that leaves the index type room for five more
indices (`NoWrap`; beyond is the finding on `scan.hpp:120`). The invariant
says where the loop, the job and the branches of the par stand relative to each
other (`Control`), that each third of a split has work to do (`Split`), and which sum
stands in every element and every partial at each moment (`Elements`, `Sweeps`). It
rests on lemmas about the chunks: that the last, clipped one ends where the middle
part does, that they are adjacent, and that dividing by the chunk size tells which
chunk an element is in; and on what running sums of adjacent parts are, by
induction on an interval.

Induction over data is stated of a set, so that it can be cited (`SetInduction`); it
follows from the library's theorem that the order of the naturals is well-founded,
by way of the least element of a set (`NatLeast`).

## 5. What is only model-checked

* `HandlerReturns`, `ProgramFinishes` and `LoopFinishes`: liveness, under fairness
  and with it ENABLED, is out of the prover's reach.

All other properties of the passing runs, 32 invariants, three action properties and
two refinements, are theorems.

No module of the project declares a recursive operator.

## 6. Findings

* `parfor.hpp:190` means to single out the last block of a long range but compares
  the block with a number it never reaches, and gives every block all the rest of
  the range, cut off to 32 bits. Ranges of 2^32 iterations and more run some
  indices several times and others never.

* `scan.hpp:120` looks five iterations ahead without regard to the end of the
  index type. For an unsigned `idx` and an array within five of the largest length
  the sum wraps, the handler breaks a loop that is at its end, and enqueues a job
  which then nobody joins: against the comment in line 123, and ruinous for
  the order of the deque. `scan` stays clear of such lengths.
* `scan.hpp:145` reads the partials in one branch of a par while the other frees
  them (line 65). When the par is not stolen, which is the usual case, the read
  always comes after the free. It goes unnoticed as long as nobody is given the
  storage in between; `ResultIsPrefix` is stated for that case.

A comment is worth a note too. `scheduler.hpp:84` concludes from promoting
"innermost-first" that all parallelism is promoted when a worker waits. The
conclusion holds (`JoinsFullyPromoted`, `WaitsFullyPromoted`), but promotion goes
from the outermost slot in, and must (theorem `PromotesOutermostFirst`): `sync`
would take the wrong job if it did not (mutants `HeartbeatAtBack`, `PromoteBack`).

## 7. What is not modelled

* The plugins' look at single instructions (`matchLoopProtocol`,
  `matchStepLoop`, `findProgressStore`, gempass's walk to the slot of the bound),
  the construction of the probe's function and the PHIs that carry results out of a
  batch: represented by their outcomes. The guards' integer casts are taken to
  lose nothing: no matcher asks that they widen, but the loop's own condition
  goes through the same casts.
* Step loops of which a later one's limit was computed from an earlier one's
  (`FromFirst` in `SnapshotSink`). `transplantProbe` does not look for it, and
  `PastExitSeesRealIndex` fails without the condition: the later limit has
  been replaced by a clone when its turn comes, and its uses are no longer found.
  LLVM computes each limit from the trip count.
* Two markers from which the walk reaches one loop; it would be planned twice.
* `seqfor`, `parlayfor`, `parSeq`, `fib`: no state shared with anything.
* Ranges of a narrow index type that run backwards: `parfor` passes them on
  unlooked at, and in an unsigned type a heartbeat before the loop's first check
  would split them. `Init` of `ParforWide` leaves them out; no caller in the
  repository makes one. `loop_end - ssi` of a signed `sig_atomic_t` over more than
  half of its values is undefined in C++ and modelled as wrapping: with a constant
  factor it compiles to a subtraction and a comparison.
* Exceptions (marked as not done in the code), the capacity of
  parlay's deque, 1000 jobs (`DequeMatchesFrames` says what the count depends on).
* Parfor promotions that give one job or none (`parfor.hpp:121,132`), in
  `SporkScheduler`: there a fork gives all the jobs it has, so that the program
  is a tree known beforehand and the fork-join abstraction can be stated. Fewer
  jobs are in `SporkDeque` (`Gifts`) and `ParforLoop`.
* A merge in an exit block whose operand is a limit that comes in along the edge
  from the latch, in `SnapshotSink`. `exitDominatesUse` attributes a PHI's use to
  its incoming block; the model places a merge where it stands, and
  replaces the limit in it. LCSSA form makes a PHI only of what is
  defined inside the loop. The rewriting of the exit PHIs themselves
  (`fablepass/SporkUnrollPass.cpp:1081-1092`) is left out: it adds the
  incoming value for a loop that is passed over.
* The identity of gempass's tags. The code makes a distinct node for each site
  and compares by identity, so that no other loop can be taken for the tagged
  one; `GemPass` keeps which markers are tagged and claims only that the tags go.
* `SporkSlot::reset`, on a thread's first heartbeat start, is the initial state
  of `SporkDeque`; the statistics counters change nothing that is read.
* `pass/` is unfinished and does not build; `old/` is superseded; benchmarks,
  samples and scripts are I/O.

## 8. Plan

Done: all the modules of section 2, their runs, and the proofs of section 4. What is
left are the parts of section 7, and liveness, which TLC checks.
