# A model of Redco

Redco (`src/src/redco/`) decides how much credit an agent's action deserves by
replaying a recorded rollout with that action changed.  It is a library without
threads or a server: its state is in replay engines, caches, graphs, an artifact
store on disk, target selectors and snapshot lifecycles.  What is hard about it is
reuse.  A sliced replay keeps most of an old run and must end up exactly where a
full replay ends up; a cache may answer only for exactly the same call; an edge that
was tried and refused must leave no trace; a file that was half written must never be
read; and an action whose credit is given to branches must not be trained twice.

This directory models those parts in TLA+, checks them with TLC on small instances,
and proves the results that matter most with TLAPS for all instances.

## The system

| Part | Source | State | Operations | What makes it correct |
|---|---|---|---|---|
| typed commands | `env/commands.py` | none | `execute_command` | a command's result depends on its inputs only; wrong arity or type raises |
| static replay | `env/replay.py` | program, original dict, descendant closures | `DeterministicExecutor.execute`, `ReplayEngine.replay` | sliced and full replay agree, also on failure |
| dynamic replay | `env/dynamic_replay.py` | program, original trace (dict, producers, active templates, decisions), policy cache | `DynamicReplayEngine.replay` | the same, although templates come and go; policy actions are reused by exact key |
| policy action cache | `env/policy_cache.py` | key -> action | `record`, `resolve`, `fork` | never answers for another key, never changes an answer |
| event graph | `env/tracer.py` | nodes, edge list, adjacency lists | `add_node`, `add_edge`, `descendants` | stays acyclic; both lists agree; a refused edge leaves no trace |
| artifact store, ledger | `env/artifacts.py` | files, temporary files; latest version per name | `put_bytes`, `get_bytes`, `write_json` | readers see whole files or an error; versions are consecutive |
| target selection | `algo/branching.py` | commitment, last decision | `consider`, `finalize` | at most one target, chosen before its action, with the logged probability |
| credit compilation | `algo/training.py`, `algo/branching.py` | none between calls | `compile_redco_records`, `assemble_redco_credit`, `decision_normalized_loss` | every decision is trained once, with its weight |
| snapshot lifecycles | `contracts.py` | phase, optimizer steps | `begin_collection`, `finish_collection`, `record_optimizer_step` | one batch per snapshot, a fixed number of steps |
| RLM-RAF campaign | `analysis/rlm_raf.py` | counters and work totals | `run_rlm_raf_campaign` | generated programs run in both modes; the accounting is of what was really done |
| stochastic campaign | `analysis/stochastic_replay_equivalence.py` | rewards per stratum | `run_stochastic_replay_equivalence` | a stratum holds what its name says |
| credit confusion analysis | `analysis/credit_confusion.py` | a learning trial: policy logit, step, records, calls | `build_credit_confusion_diagnostic` | both estimators are unbiased; trials take the steps whose moments are enumerated, from equal budgets |
| replay equivalence audit | `analysis/replay_equivalence.py` | counters | `run_randomized_equivalence` | every program it draws is replayed in both modes to the end, without a mismatch |
| other analyses | rest of `analysis/` | none | scripts that run fixed audits, evaluate tables and write reports | they use the parts above |
| records, probes, helpers | rest of `contracts.py`, `env/tracer.py`, `integrity.py`, `env/tasks/` | none | validated values | checked when they are built |

How they interact.  The two engines call `execute_command` for every event; the
dynamic engine forks a policy cache for each replay, and the cache calls the
caller's sampler when it has no answer.  The event graph, the store and the ledger
are used by the gate audit and by callers outside this repository.  The outcome of
replays becomes branch rewards, which credit compilation turns into trainer
records; the selectors say which node is the target, and a lifecycle says when the
records may be trained on.  Nothing calls back into an engine that is running,
except the sampler, which is a pure function in the repository; the cache is
nevertheless modelled on its own with samplers that use it while they run.  The
campaigns drive the dynamic engine with a workload of their own: a root turn that
answers directly or calls children first; the equivalence audit drives the static
engine with random programs of additions.  The credit confusion diagnostic calls the
compiler for every episode, and differentiates the loss of what it returns.

The hard behaviours, each at its line, are the `hazards` of `PROJECT.json`.

## Modules

| Module | What it is |
|---|---|
| `Commands` | values and the ten commands of `execute_command`, as an operator from command and dict to a value or `Raised` |
| `StaticReplay` | `ReplayEngine`: original execution, closures by breadth-first search, both replay modes, one event per step |
| `StaticReplayProofs` | theorems about it |
| `DynamicReplay` | `DynamicReplayEngine` with guards, policy calls and the cache, one template per step |
| `DynamicReplayProofs` | theorems about it, and about `RlmCampaign` which runs on it |
| `Reachability` | reachability and cycles in a list of edges, without recursion |
| `EventDag` | abstract: an acyclic multigraph whose calls are atomic |
| `EventGraph` | `EventGraph`: the two lists, Kahn's count-down and the search, one queue element per step |
| `EventGraphProofs` | theorems about it, among them that it implements `EventDag` |
| `ContentStore` | abstract: data that is stored whole, or known to be damaged |
| `ArtifactStore` | `ArtifactStore` and `ArtifactLedger` in several processes, one file operation per step |
| `ArtifactStoreProofs` | theorems about it, among them that it implements `ContentStore` |
| `WriteOnceTables` | abstract: tables whose entries never change, and copies of them |
| `PolicyCache` | `PolicyActionCache`: record, resolve and fork, with a stack of running samplers |
| `PolicyCacheProofs` | theorems about it, among them that it implements `WriteOnceTables` |
| `TargetSelection` | both selectors of `branching.py`, one `consider` or `finalize` per step |
| `TargetSelectionProofs` | theorems about it |
| `RlmProgram` | `_rlm_program` and `_replacement_action` as operators that make `DynamicReplay`'s programs |
| `RlmCampaign` | `run_rlm_raf_campaign` with its accounting, every step of its engines a step of `DynamicReplay` |
| `StochasticCampaign` | `run_stochastic_replay_equivalence` on the same workload, with its own sampler |
| `EquivalenceCampaign` | `run_randomized_equivalence` and its generator, every step of its engines a step of `StaticReplay` |
| `CreditCompiler` | `compile_redco_records`: the validation loop, then one trainer record per step; `assemble_redco_credit` and `decision_normalized_loss` as operators |
| `CreditConfusion` | the diagnostic: both estimators' moments, then learning trials whose records come from the steps of `CreditCompiler` and whose gradient is a difference of its loss |
| `CreditProofs` | theorems about both |
| `OptimizerBudget` | abstract: one batch per snapshot, which pays for a fixed number of optimizer steps |
| `SnapshotLifecycle` | both lifecycle classes, one call per step, refusals included |
| `SnapshotLifecycleProofs` | theorems about it, among them that it implements `OptimizerBudget` |
| `MC*` | small instances for TLC |

State and code.  Variables have the names of the fields or loop variables they stand
for, and a comment that says which; `PROJECT.json` maps every definition to its lines.
A loop is one action per turn, a call is the sequence of its turns, and an exception
is an action that ends the call with the state the code leaves behind.  Event ids,
node names and the like are positions or model values.  Some definitions are followed
or preceded by a variant called a mutant: it changes one thing as a bug in that code
would, and the corresponding property then fails.

Choices a reader should know:

* **Static replay.**  An event is the position of its command.  The replay's result
  records the dict, the event it stopped at and which events it executed.  Cost
  meters are left out.
* **Dynamic replay.**  The sampler is a constant operator `Sampler(prompt, seed)`:
  the repository's samplers are deterministic functions of these arguments, and the
  exactness claims are about such samplers.  It is always given, so the check that
  programs with policy calls have one is left out; the role of a template is only
  checked by the constructor.  Values are immutable.  Initial caches are
  empty or hold an action the sampler would not give, as the constructor allows.
* **Event graph.**  Both lists of the code hold the same edge objects, so an adjacency
  list is a set of indices into the edge list; only its last element is ever taken off.
  A deque is a set, any element of which may be served next: the code's order comes
  from the order of earlier calls, and neither verdict nor answer may depend on it.
  `done` is not in the code; it names the nodes that `visited` counts.
* **Artifact store.**  A digest stands for its datum.  `path.exists`, reading and
  comparing, creating the temporary file, filling it, and `os.replace` are separate
  steps of each process; between any two of them other processes run, the process may
  stop (and its pid may be used again), or the file system may raise.  `Damage` stands
  for whatever spoils a stored file; it is what makes `put_bytes` raise "content-address
  collision" and `get_bytes` fail its verification.  A process makes one call at a
  time, and no two live processes have the same pid.  `recorded` is not in the code; it
  is what the ledger has returned so far.
* **Policy cache.**  A cache refers to a dict, as in the code, so that a fork that
  shares the dict differs from one that copies it.  `resolve` is two steps, with the
  sampler between them, and calls nest; a sampler may raise.  `answers` is not in the
  code: it is all that was returned or recorded so far.
* **Target selection.**  One rollout is shown to one selector of each class, and
  `finalize` is called on both at any time.  Probabilities, scores and draws count in
  units of 1/`Unit`, and a draw is any of the `Unit` values below 1, so the probability
  of a selection is a number of draws.  Node ids, features and mode labels only travel
  through and are left out; empty ids and scores out of range are refused by the code
  before anything changes.
* **Campaigns.**  Random numbers are drawn from a set (`Draws`).  Texts are a few
  characters long and token counts small; they influence no decision of the code.  The
  needle, the seeds and the prompts are the code's.  Rewards of the stochastic campaign
  come from a hash, so they are any two values.
* **Credit compilation.**  Numbers are integers in units of 1/K and 1/(K-1) for K
  branches, so nothing is rounded: float rounding is outside the model.  A record whose
  constructor would raise leads to the phase `broken`.  The loss is the three sums the
  code forms, before they are divided by the sum of decision units; log-probabilities
  are any integers.
* **Credit confusion.**  Probabilities count in units of 1/`Whole`, so moments are exact
  integers with a known scale.  A trial's logit counts in steps of the learning rate from
  where it starts.  The sigmoid is any increasing map into the open interval, and the
  log-probability of an action is the action's share plus a term that both actions have in
  common; the difference of the loss depends on nothing else of them, because
  leave-one-out advantages sum to zero within a group.  The finite difference is then
  exact, where the code's has an error of the order of epsilon squared.  A draw of
  positive probability is a choice.  A behaviour is the diagnostic of one probe with one
  trial of one arm: probes, arms and trials share no state.
* **Equivalence audit.**  Programs are drawn from all that `_random_program` can build
  over a small dict; replacements are integers, as in the code.  The same engine model
  also serves anybody who calls it in any order.
* **Snapshot lifecycles.**  Checkpoints are compared when a collection begins, as in the
  code, and never again.  The clean class has no budget field; its budget is 1.

## What the runs check

Fairness is weak fairness of a running computation, and of nothing else: the steps of
the replay engine (`WF(EngineRuns)`) and of the loops of the three analyses
(`WF(CampaignRuns)`, `WF(CampaignNext)`, `WF(DiagnosticNext)`).  Each is one sequential
Python program that waits for nobody, so only its own guards could stop it.  No fairness is
assumed of callers: whoever uses an engine may stop asking.  What is checked under it is
that construction and replay always end (`EngineAnswers`), that every campaign of both
kinds reaches a passing report (`EveryCampaignPasses`, a property of the same name in
`EquivalenceCampaign` and in `RlmCampaign`; in the latter that the report passes is the
invariant `GateIsOpen`, named so that it can be proved), and that every call of the compiler is
answered and every diagnostic ends (`ComputationEnds`).  The graph, the store, the cache,
the selectors and the lifecycles promise safety only.

Deadlock checking is off where a call that has returned, or a constructor that has
raised, is the end of the behaviour (both replay models, the campaigns and the credit
run), and on for the others, which must never be stuck.

| Run | Instance | What it shows |
|---|---|---|
| `static_replay` | three-event programs that start with a copy and go on with copies and checks of any earlier artifact or additions of one to the latest, with at most one explicit dependency per event; two longer programs with all ten commands; refused programs; three replacement values, at every target, in both modes in either order; campaigns of two random programs of two additions each, with one explicit dependency of any kind | `SlicedEqualsFull`: same dict, or failure at the same event.  `OutcomesSolveProgram`: each executed event's output is what its command computes from the final dict, so nothing stale is left.  `ReplayKeepsOriginal` joins `UntouchedEventsAreOriginal` and `ReplayOfOriginalIsIdentity`.  `ClosuresAreDescendants`.  `EngineAnswers`, `EveryCampaignPasses` (temporal): also that no draw is refused, that slices never do more work, and that the edges counted by kind for the first program are as many as are searched |
| `dynamic_replay` | programs of five templates with guards that an intervention flips, rival producers, dependencies, policy calls on prompts that do or do not change | `SlicedEqualsFull` whenever the full replay returns; `BranchIsCoherent`; `ReuseIsByExactKey`, in both modes, for events whose prompt the branch produces, which are all of them when the full replay returns; `ReplayKeepsOriginal` as for the static engine |
| `vanishing_input` | one program | **violated**: a command and a policy call whose input leaves the branch are reused by the sliced replay, the call without a key, while the full replay raises |
| `later_output` | one program | **violated**: a newly active template reads the original run's output of a *later* template |
| `event_graph` | three nodes, two edge kinds, up to four edges, all calls in any order | the lists agree at every moment, no cycle survives a call, and the graph implements `EventDag`: exactly the edges that close no cycle are accepted and `descendants` is exactly reachability along the given kinds |
| `artifact_store` | two processes, two data, one name, two versions per ledger | `LedgerIsSound`: versions are consecutive whatever fails in between, a recorded name has a file, and the store implements `ContentStore` |
| `credit` | all lists of up to two decisions (and one of three) with any spans on all masks of three tokens; four rollouts with groups of zero to four branches, sound and unsound; the three tasks of the diagnostic in quarters, with two or three trajectories, two episodes of two branches or one of three, two or three updates | `RefusesExactly`: the validation refuses exactly the lists that do not partition the trainable tokens, and what it accepts never makes a record's constructor raise.  `LossIsPerDecision`: the loss of the compiled records is the sum over decisions of advantage times summed log-probability, divided by the number of decisions, branched or not.  `BranchAdvantagesBalance`, `AssemblyAgrees`.  `EstimatorsAreUnbiased`, `TrialsStepAsEnumerated`, `RedcoIsNeverMisled` (an action property), `BudgetIsShared`, `ComputationEnds` |
| `policy_cache` | three caches, two keys, two actions, samplers nested three deep | an answer stands, even if the sampler recorded the same key before it returned; the caches implement `WriteOnceTables` |
| `target_selection` | rollouts of up to three nodes of two kinds, all fractions, thresholds and scores in halves, all calls in any order | `TargetsAreFirst`: the target is the first node that qualifies; what an early `finalize` closes differs between the classes; the logged probability is the share of draws that select the node |
| `rlm_campaign` | two programs of one to three children, three alternatives, all routes | every draw runs to a passing report, eventually; topology diverges exactly where an alternative leaves the route; slices never do more work and pay for the same policy tokens |
| `stochastic_strata` | one program of each stratum | **violated**: the original runs of the recursive stratum are direct |
| `snapshot_lifecycle` | two lifecycles of either class, budgets 0 to 4 at construction, two checkpoints, every order of calls | the phase says updated exactly when the budget is spent, and both classes implement `OptimizerBudget`, refusals included |

Why the bounds are enough to meet the interesting cases.  Three static events are the
least that have an event between target and reader and a second path around it; the
longer programs reach every command.  Five templates hold a target, a guard computed
from it, two rival producers and a reader.  Three nodes and four edges hold a cycle of
three, a parallel edge that must be counted down twice, and an edge refused after one
was accepted.  Three caches hold a parent, a branch and a branch of it, and samplers three
deep can resolve one key twice and record it in between.  Three nodes hold one before,
at and after a call of `finalize`; halves hold a score below, at and above a threshold.
Two campaign programs and three alternatives hold a change of route, a return to it, and
a route kept; one or two children hold a join of one and of several.  Two processes on one datum meet every race on its file; two data
exercise a ledger whose versions differ in content.  Three tokens hold two spans that
touch, overlap or leave a gap.  Two random programs show that a campaign starts its second
engine afresh, and two events of two inputs hold every kind of edge.  Groups of two and
three are the least that have a leave-one-out baseline of one and of several; budgets
of 13 leave a rest that starts no update.  Lifecycles of budgets one to three are
all there are.

### Three disagreements

`vanishing_input`: `dynamic_replay.py:359` removes the output of a template that has
become inactive, but does not mark the artifact dirty.  A template that reads it is
therefore not executed again and counts as reused, although in the full replay its
input is missing and the replay raises.  `dynamic_replay`'s `SlicedEqualsFull` is
accordingly stated for the case that the full replay returns.
If the reader is a policy call and the artifact its prompt, the call has no key any more
and is still reported as `unchanged_event_reuse`; the run's program has one of each kind.
`ReuseIsByExactKey` holds in such a slice too, but leaves out the events whose prompt the
branch does not produce.

`later_output`: the sliced trace starts from the final dict of the original run, so a
template can read an output that its own branch has not produced yet, written by a
template that comes after it.  The class documents its templates as ordered, and the
per-name check of the constructor does not exclude it.

`stochastic_strata`: the campaign labels its programs alternately `direct` and
`recurse`, "balance the two strata by construction", and the label chooses the prompt of
the root turn.  Its engines, however, get the sampler `lambda *_args: (1,)`
(`stochastic_replay_equivalence.py:172`), which answers every prompt with the same
action, and the guard looks for the needle 9 in that action.  Every original run is
therefore direct; in the `recurse` stratum the even alternatives, meant to leave the
route, keep it, and the odd ones leave it.  The RLM-RAF campaign's sampler repeats the
prompt, and there the same property holds (`RouteDecidesTopology`).

## What is proved

`StaticReplayProofs`, for any set of programs and replacements:

* `TypeCorrect`, `ClosuresCorrect`, `ReplaysSolveTheProgram`, `UntouchedIsOriginal`,
  `IdentityReplay`, `OriginalIsKept`, and `SlicedReplayIsExact`, each `Spec => []P` for the property of
  the same run.

The argument: a command reads only its inputs (`ReadsOnlyInputs`), and in a well-formed
program it is preceded by its writers.  The inductive invariant `IInv` says that the
original dict solves the program, that a search's closure is closed except at its
frontier and contained in every closed set, and that a running replay has, at every
event, solved the program up to that event, with unlisted events still at their original
values.  Two solutions of the same prefix are equal, which gives exactness.  The
property alone is not inductive: it says nothing of a replay under way.

`DynamicReplayProofs`, for any set of programs, replacements, initial caches and any
sampler that is a function of its arguments:

* `TypeCorrect`, `BranchesAreCoherent`, `SlicedReplayIsExact`, `OriginalIsKept` and
  `ReuseByExactKey`, each `Spec => []P` for the property of the same run.

The argument: what `_execute_original` and `_full_suffix` leave behind is a *run* (`Run`),
that is, guards, values, cache and the reasons of decisions satisfy equations that refer
to earlier templates only, and artifacts are assigned once (`Ordered`).  Two runs with the
same base cache, target and target's value are equal, template by template, so a run is
determined by the request.  The invariant `IInv` has one part for each loop.  `PrefixAt`
and `FullAt` say that a full replay holds a run up to its position, which every branch
that could answer the request follows.  `Slice` and `SliceFollows` say what a sliced
replay holds in between: its active templates' outputs, and original outputs of templates
it has not reached; whatever the branch holds that is not marked dirty has its original
value; and the cache is the one the branch has there.  `ResultsAt` relates the
results of the two modes, whichever comes first.  The properties speak of results alone
and are not inductive.  `SlicedEqualsFull` needs the premise that the full replay
returned, and the proof shows where: without it, there is no branch for the slice to
follow, and the first two disagreements above are what happens then.  TLC checked `IInv` on the
instance of `dynamic_replay`, with the branch taken from the full replay's result or, for
the no-op intervention, from the original run.

`ReuseIsByExactKey` also speaks of slices whose full replay raises, of which `IInv` says
nothing.  It has an invariant of its own, `KeyInv`: in a slice under way, whatever is not
dirty is original, no cached action of the original run is lost, and every decision taken
so far goes by the key of its event if the prompt is produced; and so do the decisions of
every returned result.  A decision stands once it is taken, because a later template
touches neither the prompt nor the output of an earlier one.  That every prompt is produced
when the full replay returns is `PromptsAreProduced`, from `ResultsAt`.

The same module proves the safety of the RLM-RAF campaign, for any number of programs and
alternatives and any draws of children and tokens:

* `EveryDrawIsWellFormed`: the engine refuses no program that `_rlm_program` can return.
* `RoutesDecideTopology`, `SlicesSaveWork`, each `CampaignSetting /\ CampaignSpec => []P`
  for the property of the run, and `GateStaysOpen`, the same for `GateIsOpen`.

`CampaignSetting` says what the campaign gives its engines: its own programs and
replacements are among those of `DynamicReplay`, caches start empty, draws are naturals,
and the sampler answers the root turns as `_deterministic_sampler` does (it is left open
what it answers subcalls).  It is a hypothesis, because the stochastic campaign runs the
same programs with another sampler, and `RoutesDecideTopology` fails there; the
module of the run assumes it too, so that TLC evaluates it.

`CampaignInv` joins the engine's `IInv` with five parts.  `LoopInv`: which program the
campaign is at, and which replays it has results of.  `WorkInv`, about the engine: a
full replay executes all of its branch after the target, a slice only events of that
suffix, and among them all policy calls whose action is not in the cache.  With
exactness, which makes branch and decisions those of the full replay, this bounds the
work of a slice role by role, and makes policy tokens equal.  `SparesPartition`: a slice
never executes the partition of the task text again, because nothing marks the text
dirty; that one event makes the slices run *strictly* less, as the gate demands.
`TotalsInv` and `SpendInv` say what the counters have come to: the divergences are the
branches that have left their route so far, and in each role and metric the slices have
spent at most what the full replays have.  The route itself is decided by the root turn:
the needle is in its action if and only if the label says so, which needs that no prompt,
no appended token and no replacement equals it at any index (`program_index % 101` and
the replacements `200 + alternative` keep clear of it), and exactly one of two sets of
templates is active then (`RouteIsDecided`).  TLC checked the five parts as invariants of
the `rlm_campaign` run.

`ArtifactStoreProofs`, for any sets of processes, names and data and any number of
versions:

* `TypeCorrect`, `LedgersAreSound`, and `Implements` (`Spec => ImplementsStore`).

The inductive invariant adds to types and `LedgerIsSound` what the calls in progress rely
on.  `StepsAreBacked`: a process that compares has seen a file that cannot have gone, and
one that is about to rename has filled its own temporary file, so `os.replace` never
publishes a part of a datum.  `WritesAreNext`: a ledger does not move while one of its
writes is under way, so the version chosen at the start is still the next one at the end.
The refinement needs the first: only then is a rename the abstract "stored whole".

`TargetSelectionProofs`, for rollouts of any length and any fractions, thresholds and
draws in units of 1/`Unit`:

* `TypeCorrect`, `TargetsAlwaysFirst`, `LogIsExact`.

The invariant relates what a selector keeps (a commitment, the last decision) to the
nodes it has been shown: the online selector's target is the first of the eligible nodes
up to the call of `finalize` that closed it, and the randomized selector has a skip
exactly if `finalize` came before the first node.

`CreditProofs`, for any list of calls that `SequenceExample` and `PolicyDecision` let a
caller build, and for any probe, configuration, budget and draws of the diagnostic:

* `CompilerIsExact` (`Spec`): types and the four properties of the compiler in the
  `credit` run.
* For the diagnostic with its calls of the compiler (`DiagnosticSpec`) `TypeCorrect`,
  `RefusalsAreExact`, `BothAssembliesAgree`, `LossesCountDecisions`, `BranchesBalance`,
  `TrialsShareABudget`, `TrialsFollowTheEstimator` and `BranchesNeverMislead`, one for
  each safety property of the run but `EstimatorsAreUnbiased`.
* `AnyLossIsPerDecision`: `LossIsPerDecision` at *any* log-probabilities, where the run
  tries a few.

`CompilerInv` says who owns which token: the loop has claimed exactly the tokens of the
decisions it has looked at, and these are trainable and disjoint (`ClaimsAreSound`).  At
the end of the loop that is the partition, and where the loop refuses, there is none.  From
the partition follows that no record's constructor raises (`IncumbentIsAccepted`,
`BranchIsAccepted`), and after `c` branches the records are `Compiled(c)`.
`DiagnosticInv` adds that a trial has paid for the updates made and for what it has drawn
of the current one, an episode before it is compiled (`StepIsPaid`).  An episode adds
one record per branch, because its only decision is its target.

Loss and advantages are sums, which the model writes with `SumFunction` of the community
module `Functions`.  That a sum over a set is a sum over one part plus a sum over the rest
is proved by induction over the subsets of the set, stated with sets in place of the
predicate that the library's theorem takes: among the subsets for which the claim fails, if there
are any, there is one with fewest elements.  The loss then splits over the partition: the incumbent's
record sums the decisions that were not branched, each branch record its own span, and
the decision units count a branched decision once.

`SampleInv` is what a learning trial needs besides: every record of the batch has one
decision, its advantage is leave-one-out within its group, groups are consecutive blocks
of the batch, and the branches of an episode share one world.  Because the advantages of a
group add up to zero, the logit cancels from the difference of the loss, and the step is the
sum of `_loo_gradient_from_counts` over the groups (`TrialsStepAsEnumerated`).
Because branches share a world, and no probe's target loses reward in a fixed world, no
group points down (`RedcoIsNeverMisled`).  TLC checked `CompilerInv`, `DiagnosticInv`
and `SampleInv` (its blocks bounded by the batch) as invariants of the `credit` run.

`EventGraphProofs`, for any sets of nodes and edge kinds and any bound on edges:

* `TypeCorrect`, `ListsAlwaysAgree`, `AlwaysAcyclic`, and `Implements`
  (`Spec => ImplementsDag`).

The inductive invariant adds to the checked ones what the loops know.  `CountDownInv`:
each node's counter is the number of its edges from nodes not yet taken off the queue,
the queue holds exactly the nodes without such edges, and no node of a set that
precedes itself was ever queued.  `SearchInv`: what was seen is reachable, and what
was seen and served has its successors seen.  From the first follows the verdict
(`VerdictIsExact`): all nodes were counted if and only if there is no cycle.  That a new
edge closes a cycle exactly if its source is reachable from its target is proved
about reachability alone (`ReachableClosesCycle`, `CycleNeedsReachable`), where
"reachable" means "in every closed set", so that no induction over paths is needed.

`PolicyCacheProofs`, for any sets of caches, keys and actions and any nesting depth:

* `TypeCorrect`, `AnswersAlwaysStand`, and `Implements` (`Spec => ImplementsTables`).

The inductive invariant is the two properties themselves.  Type correctness carries the
part that matters: every cache has a dict of its own, so a write is seen by one cache
only.  That an answer stands when a sampler returns follows from the comparison `record`
makes at that moment (`RecordingWrites`), not from the lookup before the sampler ran.

`SnapshotLifecycleProofs`, for any sets of lifecycles, checkpoints and budgets tried:

* `TypeCorrect`, `PhasesCount`, and `Refinement` (`Spec => ImplementsBudget`).

The inductive invariant is types and `PhaseCountsSteps`.  The refinement needs it for the
refusals: the code refuses a step by looking at phase and counter, the abstract budget by
looking at what is left, and only the invariant makes the two the same.

Assumptions on constants, each checked by TLC for the values of a run:
`ProgramsAssumption` of either engine (programs are records of a dict and a command
sequence) and `CachesAssumption` (initial caches are dicts), `MaxEdgesAssumption` and
`MaxVersionsAssumption` (natural numbers), `CampaignAssumption` (there is a program and an
alternative) and `CampaignSetting` (above), `CacheAssumption` (the marker for a missing
action is no action; the depth is a natural number), `BudgetsAssumption` (budgets are
integers), `SelectionAssumption` (the unit of probability is positive; `None` is neither a
node nor a commitment), `InputsAssumption` (a call's masks, spans and weights are what
the constructors accept; its rewards and advantages are integers) and `ConfusionAssumption` (probabilities lie between 0 and 1,
sizes are natural numbers; `None` is neither a number nor the node of an episode).

Only model-checked:

* `EstimatorsAreUnbiased`.  The moments are sums over all counts of outcomes, weighted with
  multinomial coefficients.  That these weights add up to a power of `Whole` is the
  multinomial theorem for every group size, an induction through the recursive `factorial` and
  powers, which the installed provers cannot carry out.
* All liveness: `EngineAnswers`, `ComputationEnds`, and `EveryCampaignPasses` of both
  campaigns.  Of the RLM-RAF campaign's, the parts that are not liveness are proved:
  `EveryDrawIsWellFormed` and `GateStaysOpen`.

## What is not modelled

* Of the modelled analyses: means over trials or programs, percentiles, intervals,
  comparisons with fixed thresholds, the report files and command lines.
* `gate_gb.py`: runs the equivalence campaign and four audits of one fixed input each.
  What they assert of that input, `ImplementsDag`, `ImplementsStore`, `AnswersStand` and
  `LossIsPerDecision` say of all inputs.
* `channel_interchange.py` and `env/tasks/credit_probes.py`: closed-form arithmetic over
  fixed tables.  They keep no state and call no other part, so there is one behaviour, which
  the code itself evaluates.
* Records and probes are values that are validated once; `as_dict`, hashing, signing
  and JSON are formatting.
* `integrity.py` and `canonical_logits.py` are stateless checks and numerics.
* Float rounding, and lists mutated by a caller after they were returned.

## Plan

The order is by weight: what decides whether replays are exact comes first.

1. Done: `Commands`, `StaticReplay`, `EquivalenceCampaign`, `DynamicReplay`,
   `EventGraph`, `ArtifactStore`, `CreditCompiler`, `CreditConfusion`, `PolicyCache`,
   `TargetSelection`, `SnapshotLifecycle`, both campaigns; proofs for every component
   with state of its own.
2. A training round that composes selector, compilation, loss and lifecycle, once the
   repository has code that does: today only tests put them together.
3. Proofs that are left: for the equivalence campaign, that the programs it draws are
   never refused and that its gate stays open, as for the RLM-RAF campaign.
