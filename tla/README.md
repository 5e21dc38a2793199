# CodingActionGate: a verification project

CodingActionGate decides what a coding agent may do. An agent proposes an
action; the gate computes safety signals, evaluates the rules of a policy and
answers `PROCEED`, `DEFER`, `ESCALATE` or `BLOCK`. A `DEFER` asks for evidence
(read this file, run the validation) and is kept in a registry, so that the
action can be retried once the evidence is there.

The repository also holds an offline study of such interventions
(`research/risk_controlled_intervention/scripts`): Python scripts that recover
labelled prefixes from archived agent runs, choose warning and deferral
thresholds under risk limits, and check what their reports claim.

These modules model the gate's run-time core and the study's algorithms in
TLA+. TLC checks them on small instances; TLAPS proves the gate's safety, almost
all that is claimed of its router, and four of the study's claims for every value
of the constants. Paths below are
relative to the repository (`src/`, `docs/`, `test/`); a Python file named
without a directory is in the study's `scripts`.

## 1. The system

### Components

| Component | State | Operations | Correct when |
|---|---|---|---|
| Deferral registry (`src/defer`) | JSONL log; the last record of an id is its state | record, get, list, mark satisfied, mark superseded | a deferral is satisfied only after a verdict, and never pending again |
| `decide`, `retry` (`src/cli/commands`) | one process each, no lock | signals, decision, record, audit, mark | no action gets past evidence it lacks; logs agree |
| File observations (`src/observations`), `read` | JSONL log of hashes per path | record, latest, freshness | "fresh" means the content now is the content recorded |
| Audit log (`src/audit`) | JSONL log, each record with the hash of the one before | append | records chain; what is reported written is there |
| Decision engine (`src/decision`), default policy (`src/policy`) | none | match rules, choose a winner, explain a DEFER | BLOCK is never hidden, evidence comes before approval, a plan is complete and honest |
| Detectors (`src/signals`, `context`, `destructive`, `paths`, `secrets`, `workspace`) | none; read files, logs, git | one set of signals each, merged | the signals the rules rely on say what the evidence says |
| Git, commands, landing (`src/git`, `commands`, `landing`) | none; read the repository | classify, rate | pushes to protected branches, force and bypass are seen |
| Validation (`src/validation`), `validate` | JSONL log of results; a child process and a timer | run, record, latest, gate | a landing decision reflects how the commands last ended; runs settle |
| Policy loading, templates, actions, redaction | none | parse, check, rewrite | sequential handling of input |
| Uncertainty (`src/uncertainty`) | none | profile, plan, route | advisory; never laxer than the engine, plans keep their promise, secrets stay unread |
| Analytics, feedback, doctor, dashboard | own counters, or read-only | record, export, serve | no decision reads them |
| Study: extraction (`prefix_parsing.py`, `build_prefix_*.py`) | archives in, rows out | recover steps, label, settle, cut prefixes | a target is what came next, features do not see it |
| Study: pipeline (about 15 scripts) | files on disk | each script reads, computes, writes | files up to date agree; nothing unread counts as ready |
| Study: splits, baselines, risk control | rows | split, score, choose a threshold, evaluate | roles usable, a selection meets its target |
| Study: first-event calibration | calibration splits | Options A and C, corrections, a controller that refuses | what is refused is out of reach, corrections only tighten |
| Study: timed policies, oracles | trajectories | warn at fixed times, bound, decompose the gap | warnings are causal, no policy beats the oracle's bound |
| Study: dual-unit budgets, gates | decisions, evidence | select under two budgets, accept or fail closed | what is accepted keeps both budgets |
| Study: claim checkers | reports | look for forbidden and required phrases | a required statement never counts as a claim |
| Study: other experiments, figures | - | fit models, sweep, plot | - |
| Simulations, benchmarks, examples | offline | - | not part of the gate at run time |

### How they interact

Each CLI command is a process. `decide` normalises the action, runs eleven
detectors in order, asks the engine, appends a deferral to the registry if the
answer is `DEFER`, then appends to the audit log. `retry` reads the deferral,
checks that it is pending, evaluates its file requirements one by one, and only
if all are satisfied runs detectors and engine again; it audits, and marks the
deferral satisfied if the verdict is not `DEFER`. `read` hashes a file, appends
an observation and hands out the content. `validate` runs a command under a
timer and appends its result. The processes share the working tree, the git
repository and four append-only logs under `.coding-action-gate/`. Nothing
locks any of them; every `await` is a point where another process can run.

The study's scripts talk through files too. An operator runs them one at a
time, in an order nothing enforces, again after a change, and they can die
between two writes; nothing stamps a file with what it was made from. Within a
script the work is sequential: its modules are operators.

### What is hard

- **Interleaving**: two retries of one deferral, an edit between the freshness
  check and the decision, two appends to the hash chain, overlapping
  validation runs, the two readings of the results in one landing decision.
- **Failure half-way**: an append that fails after another log was written, a
  process that dies, an append that leaves an unterminated line which the next
  append runs into.
- **Time**: a timer racing the exit of its command, results growing too old.
- **Protocol**: whether what a `DEFER` asks for is what lifts it.
- **Liveness**: whether an agent that does as told gets an answer.
- **Stale files**: a script that reads what an earlier run, or half of one, left.
- **Leaks and boundaries**: a feature, a warning or a threshold that has seen
  what it must not; ties, empty cells, a budget that rounds to nothing.

`PROJECT.json` lists each hazard at its line with the properties that watch it,
and, for the few that none watches, why.

## 2. The modules

| Module | Models | Used by |
|---|---|---|
| `Verdicts` | freshness, observations, and the default policy as a function of evidence and risk | all below |
| `DeferRetry` | the core protocol: `decide`, `retry`, `read`, registry, observations, audit order | `MCDeferRetry`, `DeferRetryProofs` |
| `DeferralContract` | abstract: the life of a deferral | refined by `DeferRetry` |
| `DeferRetryProofs` | theorems on `DeferRetry` | - |
| `AuditLog` | the hash chain under concurrent and partial appends | `MCAuditLog` |
| `SignalRecords` | signals as functions from names to values | `Detectors`, `DecisionEngine`, `UncertaintyProfile` |
| `Detectors` | the eleven detectors on a proposal and a world | `Worlds` |
| `Worlds` | the worlds proposals are decided in, and what happens to them | `Reauthorization`, `AdvisoryRouting` |
| `DecisionEngine` | rules, winner, details of a DEFER, the 22 default rules | `Reauthorization`, `AdvisoryRouting` |
| `Reauthorization` | decide, gather evidence, decide again, under all rules | `MCReauthorization` |
| `UncertaintyProfile`, `ReductionPlan`, `UncertaintyRouter` | what signals and budget leave uncertain, the steps that reduce it, the advice | `AdvisoryRouting` |
| `AdvisoryRouting` | the router's advice beside the engine's decision, as world and budget change | `MCAdvisoryRouting` |
| `MCProposals` | constructors for the proposals of the instances | `MCReauthorization`, `MCAdvisoryRouting` |
| `ValidationGate` | runner, timer, result log with torn lines, landing decision | `MCValidationGate` |
| `Prefixes` | archives of five layouts to steps, labels, prefixes, features | `StudyWorlds` |
| `StudyPipeline` | scripts as readers and writers of files | `StudyPipelineProofs` |
| `Trajectories` | rates as pairs of integers, in place of floats; rows, first failures, first warnings, miss risk and burden | all below |
| `Calibration` | quantiles, Options A and C, bounds, the feasibility-aware controller | all below |
| `EventPolicies` | the first-event policies and the selectors of batch 9N | `OptionStudies` |
| `OptionStudies` | the drivers of T-3 to T-7 | `StudyWorlds` |
| `TimedPolicies`, `OracleGap` | T-6 and T-8 to T-12: timing rules, structural bound, oracles | `StudyWorlds` |
| `Baselines`, `Splits` | heuristic scores and metrics; single and repeated splits | `RiskControl`, `StudyWorlds` |
| `RiskControl`, `RiskStudy` | thresholds, budgets of deferrals; deciles, early intervention, mismatch, summaries | `StudyWorlds` |
| `DualUnit`, `PolicyGates` | row and trajectory budgets; support, stability and cost gates | `StudyWorlds` |
| `ClaimChecks` | every claim checker as a record, and their common verdict | `StudyWorlds` |
| `StudyWorlds` | the inputs of all these, grown step by step, and their properties | `MCStudyWorlds` |
| `AuditLogProofs`, `ValidationGateProofs`, `DecisionEngineProofs`, `StudyPipelineProofs`, `StudyWorldsProofs` | theorems on the modules they are named after | `DecisionEngineProofs` by the next two |
| `ReauthorizationProofs`, `AdvisoryRoutingProofs` | theorems on these modules, from those on the engine | - |

Definitions with the comment *faulty variant* or *Mutant* are bugs one could plausibly
write; no specification uses them. Each property of a passing run is known to
fail when the definition named in `PROJECT.json` is replaced by its variant.

### DeferRetry

`cli[p]` is the command process `p` runs: its program counter stands for the
`await` it has reached, the other fields for its local variables. A step runs
from one shared read or append to the next.

| Code | Actions |
|---|---|
| `runDecideCommand` | `StartDecide`, the signal steps, `RecordDeferral`, `WriteAudit`, `Return` |
| `runRetryCommand` | `StartRetry`, the evidence steps, `JudgeEvidence`, the signal steps, `WriteAudit`, `MarkSatisfied`, `Return` |
| `checkFileFreshness` | `LoadObservation`, then `CompareFile` |
| `findRelatedContext`, engine | `FindTests`, `JudgeEdit`, `JudgeLanding` |
| `runReadCommand` | `StartRead`, `HashFile`, `Observe`, `ReadContent`, `Return` |
| error results, death of a process | `Abandon`, from any point |
| an append that stops part-way | `TearRegistry`, `TearObservations`; the next append lands on the fragment and is lost (`AppendToRegistry`, `Observe`) |
| `markDeferredActionSuperseded` | `Supersede` |

The logs are kept as their readers see them: the latest record per id or path.
`WasObserved` needs two histories, `cli[p].basis` (the content a file was found
fresh with) and `observedEver`. `issued` says which random ids are taken and
`closed` which deferrals a retry has returned a verdict on. The rules appear as
`Risk`, the decision they would reach with all evidence at hand, and
`Verdicts`; `Reauthorization!SummaryAgrees` checks that this summary is right
for the 22 rules.

### Detectors, DecisionEngine, Reauthorization

A proposal is what the classifiers make of an action; a world is the files and
their observations, the results of the validation commands and the repository.
Signals are a function from the names of `signalKeyMap` to values, and a signal
no detector reports is outside its domain, as in the code. The rules are data:
adding one to `DefaultRules` changes nothing else. `Reauthorization` is
`DeferRetry` for one process with the rules in place of the risk: it follows
the plan (`todo`) and remembers whether anything but gathering happened since
the last decision (`since`).

### UncertaintyProfile, ReductionPlan, UncertaintyRouter, AdvisoryRouting

The uncertainty layer is pure: `buildUncertaintyProfile`,
`buildUncertaintyReductionPlan` and `routeUncertainty`. A profile is a set of
findings, one for each update of a dimension that routing can see; the maxima
over dimensions become quantifiers over findings. `driverStepMap` and the
router's driver lists are tables here too. No command acts on the advice (tests
and benchmarks call the router), so `AdvisoryRouting` asks how it relates to
what the gate does: the same merged signals go to the engine and to the router,
while files are read and changed, validation passes or fails, and a tracker
reports one field after another. Callers may provide signals, which override
what was detected; no detector calls an origin "trusted", so without a caller
that does the advice is never `PROCEED`.

Where advice and decision differ on purpose or by accident of the tables:

- a destructive change of an ordinary path: the engine defers it for missing
  evidence, the router asks a human at once;
- a file action whose target is missing: the engine defers it, the router has
  no step left and asks a human;
- a certificate: the engine defers it, the router blocks it;
- a failed validation: the engine blocks, the router asks a human;
- publishing and releasing: the router blocks, the engine asks a human.

### ValidationGate

A run is idle, running, closing (the child and its output have ended, the close
event has not come), or about to be recorded. The timer can fire while running
or closing. The log begins with the results of earlier runs (`Earlier`), and each
command may obey SIGTERM or not (`Children`). The gate reads each required result for the validation detector,
then again for the landing detector, with any number of steps in between.

Of the log the model keeps what readers make of it: `latest[c]`, the last record of
`c` that is alone on its line, and `tail`, the last line while it has no end. An
append (`AppendText`) is `Record` when it succeeds and `Tear` when it stops
part-way: within the record, or before its line end, where the record is readable
until something is appended to it. What is appended to an open line is lost, and
so is the record that stood there (`Behind`). `clock` orders the completions: a
result may get old only with all that completed before it (`Age`).

### StudyPipeline

`disk[f]` says what a file holds, `{}` while it is missing. A script reads its
inputs, computes and makes its first write in `Launch`; each further output, in the
order of the source, is a `WriteNext`, and `Crash` may come in between. `fresh`
holds the files that are up to date: made from files that were, none of them
rewritten since. Steps that matter to
staleness are kept: `download_verified_artifacts.py` takes a path that exists as
cached, `build_prefix_verified.py` writes its audit last, the quality report
reads audit and taxonomy. An archive is there or missing, torn (it cannot be
opened), or cut to a stub of fewer than two steps; it parses without giving a
row if it is a stub, if its layout is one no adapter knows (`Unsupported`) or if
it holds fewer than two steps to begin with (`Brief`).

### StudyWorlds

The study's algorithms are pure, so a world is an input and a step grows it: a
turn or a label to an archived run, a row to a set of decision rows, a row to a
calibration trajectory, a line to a report. Growing serves two ends: every small
world is reached once, and a property can compare a world with what it becomes
(does a feature change when the run goes on?). Heavy predicates are stated as
action properties, `[][part = ... => P(roles')]_vars`, so that TLC evaluates
them once, at the step that makes the world.

Rates are pairs of integers and compared exactly. Learned models enter as the
scores they give. The statistical bounds (Clopper-Pearson, Hoeffding, Wilson) are
constants of which `BoundsAssumption` and `WilsonAssumption` ask only for what
the selectors rely on: never below the empirical rate, not shrinking as the
correction grows.

### AuditLog

An append is `Begin`, `ReadPrevious` (or `RefuseUnreadable`), `Write`; it can
`Fail` anywhere and `Tear` while writing. Lines can be fragments or lack their
newline.

## 3. The runs

| Run | Instance | Shows |
|---|---|---|
| `audit_log` | 4 appends, 2 tears | links break only between appends that overlap; a tear costs at most one record reported as written; a damaged log stops |
| `defer_races` | 2 processes, a file and its test, 2 contents, 1 edit, 1 supersede | the core's safety and refinement under interleaving |
| `defer_failures` | an edit and a commit, 2 deferrals, 1 process, 1 fault, 1 tear, metadata-only reads | the same across failures |
| `defer_liveness` | 1 process, a file and its test, 1 edit, 1 fault, risk ESCALATE | deferred edits resolve under an agent that follows the plan |
| `defer_landing` | an edit and a commit | **violation**: deferred commits never resolve |
| `reauthorization` | 9 file actions and 35 commands, 2 tests, 2 contents, 2 drifts | plans are complete, outcomes are as foretold, evidence only lifts, no approval without evidence |
| `reauth_certificate` | a `*.crt` target | **violation**: reading it does not lift its DEFER |
| `advisory_routing` | 11 file actions and 16 commands, 1 test, 2 contents, 5 choices of provided signals, 1 of 6 reports, 1 drift | the advice beside the decision: never laxer, equal where it should be, and plans that keep their promise |
| `validation_gate` | 2 processes, 2 commands, one of which passed before and need not obey SIGTERM, 2 runs, 1 ageing, 1 torn append | the landing verdict reflects the last runs; timeouts leave nothing; runs of a command that obeys SIGTERM settle |
| `validation_torn` | 1 command that passed before, 2 processes, 2 runs, 1 torn append | **violation**: a failure reported as recorded does not block, the landing proceeds |
| `study_pipeline` | 3 trajectories with an archive, one of them of an unsupported layout, 1 without, 1 failing download at a time, 2 scripts out of turn, 1 crash | up-to-date files agree, nothing unread is ready |
| `study_worlds` | every run of up to 3 turns and 2 labels in 5 layouts, every 4 rows in 3 scores, every calibration split of up to 3 trajectories and 4 rows, every report of up to 2 lines | extraction, selection, splitting, warning, veto, correction, acceptance and claim checks keep their word |

### Properties

- `VerdictRestsOnObservation`: a verdict of a retry other than `DEFER` rests,
  file by file, on content found fresh in that retry against an observation
  that some read recorded, whatever happened in between.
- `NoRetryAfterReturn`: after a retry has returned a verdict, no retry of the
  same deferral starts. Overlapping retries can both return one, and a partial
  write of the registry can undo the mark; the property says so.
- `AuditNamesKnownDeferrals`: the audit log names no deferral the registry lacks.
- `ContractSpec`: satisfied only after a verdict, never pending again.
- `FileDeferralsResolve`: no deferred edit stays pending under an agent that
  reads and retries, unless a file is gone.
- `EvidenceBeforeApproval`, `EvidenceOnlyLifts`: no order of the rules gets an
  action past its evidence; evidence never makes a decision worse.
- `PlanSuffices`, `OutcomeForetold`: carried out once, a fetch plan lifts the
  deferral, and what comes is what `expectedNextDecision` and
  `pendingEscalation` said.
- `SummaryAgrees`: the 22 rules and the summary in `Verdicts` decide alike.
- `AdviceNeverLaxer`: profile and router never come to less than the rules do.
  Two things are excluded, and both are needed: a caller who overrides what is
  detected of landing, git or the path's sensitivity, and a tracker whose "ok"
  replaces the signals' "exceeded".
- `AdviceAgrees`: on a file action of a trusted origin profile, plan and router
  come to exactly what the rules come to; the one difference is the first of the
  list above.
- `SecretsAreNotRead`: no plan reads what holds a secret, whatever other drivers
  would have read.
- `PlanForetells`: once the files of a reading plan are read, the advice is no
  longer `DEFER`, and `ESCALATE` if that was expected. It speaks of callers who
  leave to the detectors what reading settles (freshness, related tests,
  completeness) and whether the path is a secret's: a freshness that a caller
  provides is one that no reading changes.
- `ExceededBudgetStops`: an exceeded budget, retry or context budget or a lack
  of progress stops the agent, except that a sensitive surface is still given
  the evidence it lacks. `docs/uncertainty.md:318` does not mention that
  exception; the router's rules do, in their order.
- `ReportsKeepAdvice`: reports never soften the advice, unless the tracker's own
  status replaces the one in the signals (`??` in `mapAutonomyBudgetSignals`), or a
  sensitive change lacked evidence that no step would bring: a validation still
  running goes to a human, until a report adds a step to wait for.
- `VerdictReflectsRuns`: a landing proceeds only if the last run of each command
  passed and blocks if one failed, whatever appends were torn. Three things are
  excluded for a command, and all are needed: it was running while read; its last
  runs overlapped, or one died before it had recorded; its last record went to a line
  that a torn append had left open (finding 3).
- `TimeoutsLeaveNoResult`: what readers take for the latest result becomes that of
  a run whose timer never fired, or an earlier one again when a record is lost.
- `ObedientRunsSettle`: see the table.
- `BrokenLinkMeansOverlap`, `LostRecordsAreTorn`, `DamageStopsTheLog`: see the
  table.
- `UpToDateFilesAgree`: once the build's audit is up to date, every file that is
  up to date is what one undisturbed run would have written. The audit is the
  build's commit record because it is written last.
- `NothingUnreadIsReady`: a report that does not refuse found every archive in
  place and readable, and its rows are those of all archives but the ones that the
  taxonomy documents as giving none. What is missing or does not parse reaches the
  gate through audit and taxonomy, and stops it; what parses to no row is counted
  and let through, as `SCHEMA_LOCK.md:162` has it.
- `CleanTargetsAreNextSteps`: if the extraction reports nothing malformed, a
  prefix's target is the label of the very next step, in all five layouts.
- `FeaturesIgnoreTheFuture`, `WarningsAreCausal`: growing a run or a trajectory
  changes no feature of an earlier prefix and no warning already given. The
  properties name the policies they hold of: those that weigh a row against the
  rest of its trajectory (`early_weighted_threshold`,
  `top_k_trajectory_first_warning`) are not causal.
- `SelectionsKeepTheirTarget`: the selector's running counts decide as an
  exhaustive search does, ties included; that allows as many rows as the target
  does; and no budget of deferrals is exceeded.
- `RolesKeepPositives`: however the trajectories, or those of each stratum, are
  shuffled, no role is left without rows, and calibration and test lack bad
  trajectories only when the training set has none to give.
- `VetoIsSound`: what the controller refuses no policy of the study's tables,
  and no oracle, reaches; what it vetoes would not have been selected.
- `CorrectionsOnlyTighten`: a correction only takes rows away, so the rows a cell
  loses are those T-4 blames on a bound.
- `AcceptedPoliciesAreSound`: what a gate accepts keeps both budgets and is not
  dominated.
- `DisclaimersNeverHurt`: the statements a checker requires pass, and never cost
  a report its verdict, though they contain the phrases the checker forbids.

### Bounds

Every bound is a constant used in a guard. `MaxEdits`, `MaxAgings`,
`MaxFaults`, `MaxTears`, `MaxSupersedes` limit the environment, `Ids` the
deferrals (`IdsLeft`), `MaxDrift` the drift, `MaxReports` the budget's reports, `MaxRuns` the commands run,
`Ops` the appends. Two processes make every pairwise race; two contents tell
fresh from stale; one related test makes "some" and "all" differ from the
target's freshness, and `reauthorization` has two tests to tell them from each
other. A report adds its own drivers and the advice
depends on their union, so one report beside signals that carry a status of their
own meets every rule of the router (`MaxReports = 2` passes too and takes more than
twice as long). One edit is enough to fall between any two steps, one tear to spoil any
one append and the next (a validation log that begins with a pass and two runs have a
torn append and the failure it swallows; the theorems of `ValidationGate` hold for
any logs and any number of runs), and the proofs cover all larger instances of `DeferRetry`'s safety.
Commands, reads and retries themselves are not bounded. `AuditNamesKnownDeferrals`
and `NoRetryAfterReturn` are checked in `defer_failures` and proved for every
instance, `defer_races` among them.

In the study a world has the least size at which its case arises: three turns
put a step before and after a torn one, four rows give ties on both sides of a
threshold, three trajectories fill three roles and are enough trials for the
stylised bounds of `MCStudyWorlds` to certify something, two lines separate a
phrase from its excuse. `MaxDetours` and `MaxCrashes` bound the scripts started
out of turn and the deaths; scripts in turn are not bounded. The study's runs
are the costliest (`study_worlds` has some 30,000 worlds and takes two to three
minutes). At these sizes two gates, `minimum_support` and the combined one,
accept nothing, as they ask for more trajectories than there are. Runs end in states
without successors (all bounds used up, all appends done), so deadlock is not
checked.

### Fairness

`DeferRetry!FairSpec`: commands wait for nothing but the file system, so a
command that runs takes its next step (weak fairness of `Step`). That the agent
goes on is an assumption, `AgentFollowsPlan`: strong fairness of reading each
file in full, of retrying each deferral and of a validation that passes, strong
because the environment and the agent's own other commands disable them for a
while. `FileDeferralsResolve` is about such an agent only.
`ValidationGate!FairSpec`: timers fire and events are handled; a child ends
after SIGTERM only if it is of the obedient kind. A run whose timer has not
fired need not end.

## 4. What is proved

Eight modules hold theorems on the module they are named after. All theorems hold
for every value of the constants that the named assumptions allow.

### DeferRetry

`DeferRetryProofs` proves, for all files, contents, actions, tests, risks, ids,
processes and bounds, from the named assumptions of `DeferRetry` (the
constants' types, and that contents are none of the marks and `None` is new):

| Theorem | Statement | Inductive invariant |
|---|---|---|
| `TypeCorrect` | `Spec => []TypeOK` | `TypeInv` |
| `VerdictsRestOnObservations` | `Spec => []VerdictRestsOnObservation` | `TypeInv /\ ObservedInv` |
| `AuditNamesAreKnown` | `Spec => []AuditNamesKnownDeferrals` | `TypeInv /\ RegistryInv` |
| `ReturnedStaysReturned` | `Spec => NoRetryAfterReturn` | `TypeInv /\ RegistryInv` |
| `ImplementsContract` | `Spec => ContractSpec` | `TypeInv /\ RegistryInv` |

- `TypeInv` adds to `TypeOK` that each program counter is one its command can
  have with the fields it then needs: a retry has an id and an action, a
  command checking tests an edit.
- `ObservedInv` follows content through a retry. An observation a process has
  loaded is one that was recorded (`ChecksKnown`), so a file found fresh has a
  recorded basis; between `evidence` and the verdict the requirements met are
  kept (`EvidenceKept`), and the verdict rests on them (`VerdictRests`). It is
  needed because the property speaks of the end of a command and the facts
  arise at its beginning, with edits and reads of others in between.
- `RegistryInv` is `ContractInv /\ LogsInv`. `ContractInv`: a retry at work has
  a deferral in the registry, and a satisfied deferral, or a retry about to
  mark one, has a verdict other than `DEFER` in the audit log. `LogsInv`, for
  behaviours without tears: ids a command carries and ids in the audit log are
  in the registry, and a returned deferral is not pending.

The step lemmas (`...Step`) go action by action, grouped by what the actions
touch (starting, checking, judging, recording, reading, mishaps, environment).
The refinement maps a record or audit append to a step of the contract and
every other step to a stutter.

### AuditLog

| Theorem | Statement | Inductive invariant |
|---|---|---|
| `TypeCorrect` | `Spec => []TypeOK` | `TypeOK` |
| `OnlyRacesBreakLinks` | `Spec => []BrokenLinkMeansOverlap` | `ChainInv` |
| `TearsBoundLosses` | `Spec => []LostRecordsAreTorn` | `LossInv` |
| `DamageStops` | `Spec => DamageStopsTheLog` | `TypeOK` |

`ChainInv` adds to the property what an append under way may rely on: either
the hash it holds is still that of the last record, or an append that overlaps it
has written since (`Racing`, `OutdatedRaced`). `LossInv` adds that a record
missing from the log has a tear to pay for it (`TearsPay`), and that an
unterminated last line is one that failed (`OpenTailFailed`). Assumed: `None` is
no append, the bound on tears is a number.

### ValidationGate

| Theorem | Statement | Inductive invariant |
|---|---|---|
| `TypeCorrect` | `Spec => []TypeOK` | `TypeInv` |
| `VerdictsReflectRuns` | `Spec => []VerdictReflectsRuns` | `TypeInv /\ ResultsInv /\ GateInv` |
| `TimeoutsRecordNothing` | `Spec => TimeoutsLeaveNoResult` | `TypeInv` |

`ResultsInv` (`AloneInv`, `RecordInv`, `TailInv`, `ResultInv`) ties the result log to
how the last run of a command ended, for commands about which there are no doubts;
`TailInv`, that a record which can still become unreadable is of a run that died, is
what keeps one command's torn append from changing another's result. `GateInv` (`ValidationInv`, `LandingInv`) ties what the gate has read so far, by
the first and by the second reading, to that log, for commands that did not run
in between. The verdict is the last step of a chain that begins with a child's
exit, so neither part is inductive without the other.

### DecisionEngine and Reauthorization

`DecisionEngineProofs` is first about any policy whose rules have one of the four
decisions (`IsPolicy`), of any length: a matched `BLOCK` decides
(`BlockIsNeverHidden`); a matched rule that asks for evidence or context keeps
the decision at `DEFER` or `BLOCK` (`EvidenceComesFirst`); else nothing that
matched is more severe than the decision (`SeverityDecidesTheRest`).

Then it is about the 22 default rules. `DefaultVerdict`: whatever signals are
reported, the rules come in four kinds (`BlockRules`, `EvidenceRules`,
`EscalationRules`, `PauseRules`) of which the first that matches decides.
`FileVerdict`: what they come to on any file action, in five lines. The lemmas
below them say what each of the eleven detectors reports and that no two report
the same name (`FileParts`, `CommandParts`), so that a merged signal is that of
the detector it belongs to.

`ReauthorizationProofs` proves every property of `Reauthorization`:

| Theorem | Statement | Inductive invariant |
|---|---|---|
| `TypeCorrect` | `Spec => []TypeOK` | `TypeOK` |
| `EvidenceComesBeforeApproval` | `Spec => []EvidenceBeforeApproval` | `StandingInv` |
| `SummaryHolds` | `Spec => []SummaryAgrees` | `StandingInv` |
| `PlansSuffice` | `Spec => PlanSuffices` | `ProgressInv` |
| `OutcomesForetold` | `Spec => OutcomeForetold` | the same |
| `GatheringLifts` | `Spec => EvidenceOnlyLifts` | the same |

- `StandingInv`: the last decision is still what the rules say of the world as
  long as nothing happened. Evidence that lacks shows in the merged signals and
  matches a rule that defers or blocks, and `EvidenceComesFirst` applies.
- `SummaryHolds` compares two algorithms, 22 rules on merged signals and the
  summary in `Verdicts` that `DeferRetry` is built on: `FileVerdict` and
  `LandingVerdict` bring both to the same few cases.
- `ProgressInv`: what the last decision says of the present world, as long as
  evidence is gathered and nothing else happens (`since` would say "drift"). After
  an approval nothing lacks and the risk is the decision; after a block that no
  failed validation caused the risk is still one that blocks; after a deferral the
  expected risk is the risk, and what was asked for and is no longer to do is there.
  It is needed because the properties compare two decisions with any number of
  readings and validations between them. Reading helps (`ReadingHelps`), passing
  helps (`PassingHelps`), and the plan of a deferral names all that lacks
  (`FilePlan`, `LandingPlan`), so that nothing lacks once it is carried out.

Assumed, besides types: a file action's target is the path its detectors look at,
its tests are test files, and it is either outside the workspace or not
(`FileProposalsAssumption`).

### AdvisoryRouting

| Theorem | Statement |
|---|---|
| `TypeCorrect` | `Spec => []TypeOK` |
| `SecretsStayUnread` | `Spec => []SecretsAreNotRead` |
| `ExceededBudgetsStop` | `Spec => []ExceededBudgetStops` |
| `ReportsNeverSoften` | `Spec => ReportsKeepAdvice` |
| `RouterAgrees` | `Spec => []AdviceAgrees` |
| `NeverLaxer` | `Spec => []AdviceNeverLaxer` |
| `PlansForetell` | `Spec => []PlanForetells` |

They hold for all proposals, files, contents, signals callers may provide, values a
tracker may report, and bounds. The inductive invariant is `StandingInv`: an
assessment is always that of the present world and budget. Everything else is
about the tables, whatever the signals are:

- the drivers of a profile are those of its findings, and each mapping brings its
  own (`ProfileDrivers`, `...Drivers`); what a driver asks for is in `StepsOf`,
  in eight groups;
- a driver that asks for a human gets one, unless a sensitive surface lacks
  evidence (`EscalationRoutes`), so a report that adds drivers keeps the advice
  (`AdviceStands`);
- a secret among the drivers takes all reading out of the plan
  (`SecretPlanIsQuiet`);
- of a file action whose origin is vouched for all findings can be told
  (`Vouched...`), which gives the advice (`VouchedAdvice`) to compare with
  `FileVerdict`;
- a rule that matches has a finding that weighs, whatever is reported
  (`RulesWeigh`), but for two landing rules and the one that pauses; a landing
  rated high or critical is seen as a landing, and a critical one has a cause
  that is reported by itself (`LandingIsSeen`); what blocks shows among the
  drivers the router blocks or asks a human for (`BlocksShow`). `DefaultVerdict`
  turns this into `NeverLaxer`;
- reading changes no signal but those it settles (`ReadSignals`), and so no
  finding, driver or step but theirs (`AlikeFindings`, `ReadProfile`): the drivers
  it settles are gone, those that stop or ask for a human stay (`ReadShows`), and
  what is left of a plan that only read asks for nothing but to stop
  (`ReadingSettles`). This is `PlansForetell`.

Proving corrected the model twice: `ReportsKeepAdvice` lacked the exception of
evidence that no step would bring, and `AdviceNeverLaxer` that of a tracker's "ok".
Neither case was in the instance then; both are now.

### StudyPipeline

`StudyPipelineProofs`, for any finite set of archives, and any number of detours
and crashes:

| Theorem | Statement |
|---|---|
| `FilesAgree` | `Spec => []UpToDateFilesAgree` |
| `NothingUnread` | `Spec => []NothingUnreadIsReady` |

The inductive invariant is `IInv == DiskInv /\ CombinedInv /\ AuditInv /\
QualityInv /\ JobInv`:

- `DiskInv`: the disk holds a content for each file, and a plan on disk names all
  archives;
- `CombinedInv`: combined rows that are up to date are those of a run straight
  through;
- `AuditInv`: once the audit is up to date, the shards hold the rows of a straight
  run, and every file downstream of it that is up to date holds what the properties
  ask (`Right`). The audit is written last, and so commits a build;
- `QualityInv`: a quality report that is up to date is right too, by the taxonomy it
  was made from, which gets out of date only together with it;
- `JobInv`: what a script may still write, by its kind. A build has the audit as its
  last write and works while nothing downstream is up to date; a report whose inputs
  are up to date, under an audit that is, writes what is right.

The properties are not inductive alone: a write is right because of what the script
holds, and that because of what was on disk when it began, with other scripts'
writes and crashes between. The proof has one step per script
(`DownloadManifestsStep` to `SummaryStep`). Assumed: the archives are finitely many,
none is among the unresolved (`PipelineAssumption`) and none is named like a report
(`ArchivesAreNoReports`).

### StudyWorlds

`StudyWorldsProofs` proves of the worlds of `StudyWorlds`, whatever the bounds on
their size, the scores and the archives' layouts:

| Theorem | Statement | Inductive invariant |
|---|---|---|
| `TargetsAreNextSteps` | `Spec => []CleanTargetsAreNextSteps` | `RunTyped` (`RunWorlds`) |
| `RolesStayUsable` | `Spec => []RolesKeepPositives` | `RowsTyped` (`RowWorlds`) |
| `SelectionsKeepTargets` | `Spec => []SelectionsKeepTheirTarget` | `ScoresTyped` (`ScoredWorlds`) |
| `CausalWarnings` | `Spec => WarningsAreCausal` | `TimingTyped` (`TimingWorlds`) |
| `DisclaimersStand` | `Spec => DisclaimersNeverHurt` | `ReportsTyped` (`ReportsTypeOK`) |

The invariants say what a world looks like however it was grown: members are of the
kinds their layout has, stages have labels in sequence, trajectories and rows are
numbered, reports are a full one and lines of one token. What is proved on top of them is about the algorithms.

- `TargetsAreNextSteps`. What is inferred from an archive are steps at their places
  and a count of what was left out (`InferredAreSteps`, layout by layout); the
  manifest's references add steps (`ReferredAreSteps`) and its labels mark the steps
  they name and no other (`LabelledAreMarked`). If nothing is malformed, none of the
  declared steps is missing, so those kept are 1 to the declared number and stay where
  they are when put in order (`SettledIsAligned`, `CleanIsAligned`): the
  next entry of the list, which prefix `k` takes for its target, is step `k + 1`. These
  lemmas are about every manifest and archive of the right shape (`IsSample`,
  `IsArchive`), not the grown ones only.
- `RolesStayUsable` is about every shuffle. Of three trajectories or more, rounding
  leaves each role at least one (`Portions`), and rebalancing stops only when a
  role has a positive trajectory or the training set has none.
- `SelectionsKeepTargets` is about any rows with scores, whatever the ties. Numbers
  are one in lowest terms (`LowestTerms`, `ReducedIsUnique`), so that the distinct
  scores can be sorted (`SortedRates`) and the counts run over them: each step adds
  the rows of one score (`NextRank`), and so the running counts are those of the
  thresholds (`RunningCounts`; a recursive function over data of any length, whose
  values follow from the least index at which they could be wrong). Both selectors
  then allow the most rows of the thresholds that pass (`SelectedIsBest`,
  `FastIsBest`). They may choose different thresholds, but the rows that thresholds
  allow are nested: as many are the same ones (`Nested`, `SameDecisions`), and the
  metrics say nothing else of a threshold (`MetricsAreOfTheAllowed`). A budget is
  kept because at least `n - d` scores are no higher than the `n - d`-th
  (`BudgetIsKept`).
- `CausalWarnings`. A row's score after a transformation depends on the rows up to
  it, for the transformations the property names; a first crossing at a row is then
  the first crossing of every longer trajectory.
- `DisclaimersStand` is about any number of reports, with any lines added in any
  order. What a report's text holds is what its lines hold (`FlattenedTokens`), and a
  line added goes after what there was (`FlattenedAppend`), so that no window a
  checker looks at loses an excuse (`WiderWindows`). All checkers but one are *fair*
  (`CheckersAreFair`): where one finds a phrase it forbids inside a disclaimer, the
  disclaimer itself excuses it; those that read line by line ask this only of what
  they require, and any disclaimer on the line will do. Of a fair checker, whatever
  its scope, `DenialsFound` and `NothingBrought` say the rest. For
  `check_batch9i_claim_boundaries` the proof fails where it should: "not causal" is
  not among its qualifiers, and a statement it requires is a hit.

The other theorems are about the controller and the corrections, on any split.
`RefusedIsOutOfReach`: limits `alpha` on the miss risk and `beta` on the burden that
the controller refuses because of the prevalence of failures, empirical or
certified, are met by no timing of warnings on that split
(`PrevalenceBoundsPolicies` is its core, on counts). The argument counts: of `B`
trajectories that fail, those not missed are warned, so `B - M <= W`, and refused
limits contradict that. That a certified lower bound of the prevalence is at most
the empirical rate is a hypothesis there; `CertifiedIsBelow` proves it of the bound
the controller computes.

`CorrectionsTighten` is about the four corrections and any table whose rates are
those of counts (`IsTable`): Option C's feasible thresholds are among Option A's and
among those that keep both limits empirically. Its core is that a corrected bound is
at least the rate (`UpperIsAbove`) and does not shrink with the number of
comparisons (`UpperGrows`), Option C making twice as many as Option A; that the
count recovered from a rate by rounding is the one it was made of
(`CountFromRate`); and the rows with no trial, where the two options differ.
`TablesOfSplits` proves that both tables the scripts build of a split are such
tables. `VetoCostsNothing` joins the two halves: where the controller refuses,
Option C would have selected nothing, so its early return changes the reason given
and never the selection.

Assumed of the numerical bounds (`BoundsAssumption`): they are rates, an upper bound
is at least the empirical rate and at most 1, a lower bound at most the empirical
rate, and neither an upper bound nor the Hoeffding slack shrinks when one comparison
is added. The `eps` that sets the outermost thresholds apart from the scores is above
0 (`EpsilonAssumption`; the code takes at least `1e-12`). Of the worlds
(`WorldsAssumption`): the bounds are numbers, a split may have rows, scores are
fractions, and layouts are among the five that `prefix_parsing.py` and its callers
know.

Proving corrected the model once: `Ascending` sorted by a strict comparison, which
says nothing of ties. The instance did not show it, as TLC sorts them all the same.
It is now defined by ranks: fewer than `k` scores are below the `k`-th, and `k` at
least are no higher.

## 5. What is only model-checked

- Liveness (`FileDeferralsResolve`, `ObedientRunsSettle`): TLAPS here proves no
  liveness from fairness and has no `ENABLED`.
- Of `StudyWorlds`: `FeaturesIgnoreTheFuture` and `AcceptedPoliciesAreSound`, and of
  `VetoIsSound` and `CorrectionsOnlyTighten` what is not about the two calibration
  tables (`StudyWorldsProofs` has those). They are about features folded over the
  steps and the tables of seven policy families: values of folds for inputs of any
  length need induction over data, for which these provers have no theorem.
- The refutations: a counterexample is an instance.

## 6. Findings

1. **A deferred landing action cannot be retried to a verdict**
   (`defer_landing`). `evaluateDeferredEvidence` never finds a
   `validation_result` satisfied. A new `decide` works; the retry the fetch
   plan speaks of does not, and the deferral stays pending.
2. **A certificate's DEFER cannot be lifted** (`reauth_certificate`). The
   freshness of a path that looks secret is skipped, also for `*.crt`, which no
   rule blocks.
3. **A recorded failure may not block** (`validation_torn`). After an append that
   stopped part-way, the next result, of any command, is written to the same line
   (`validationResultStore.ts:195`) and dropped by readers (`:52`), though `validate`
   reports it as recorded. With no older result of the command in the log the landing
   is deferred; with an older pass it proceeds.

### Observations

Behaviour the models have because the code has it. No document promises
otherwise in so many words, or the case lies outside the properties.

The gate:

- Two honest commands fork the audit chain: nothing locks the log between the
  reading of the last hash (`auditLogger.ts:71`) and the append (`:94`).
- The validation timeout is one SIGTERM to the shell, and the run settles at the
  close event: a command that does not obey outlasts it
  (`validationCommandRunner.ts:86`).
- A tracker's `autonomyBudgetStatus` replaces that of the signals
  (`uncertaintyProfileBuilder.ts:1086`), also "exceeded" by "ok": the advice is then
  to proceed where `pause-runaway-session` defers.

Extraction:

- After a step that could not be recovered, the target is the next *recovered*
  step (`build_prefix_preview.py:441`), where `SCHEMA_LOCK.md:34` speaks of the
  next step. A step listed without references is made up without text and not
  counted as malformed (`build_prefix_preview.py:358`), nor are torn
  `mini_traj` turns. Hence the premise of `CleanTargetsAreNextSteps`.
- Label mapping also counts steps that only a label created
  (`build_prefix_verified.py:119`, `:137`).

Pipeline:

- A copy that died is taken as cached (`download_verified_artifacts.py:187`). If
  it reads as a shorter run, nothing notices.
- An archive that parses to no row does not stop the quality gate
  (`inspect_verified_failures.py:42`). That is meant for unsupported layouts
  (`SCHEMA_LOCK.md:153`: "70 unsupported verified layouts remain documented
  exclusions"), but a copy that died early and reads as fewer than two steps is in
  the same class.
- A build that dies between shards leaves a prefix of the data, which
  `make_verified_splits.py` reads without a word; `--no-combined` leaves the
  combined rows of an earlier run. `UpToDateFilesAgree` therefore asks for the
  audit.
- `recover_missing_verified_artifacts.py:144` resolves an unpinned revision, and
  what it recovers never reaches the extraction.

Calibration, selection and metrics:

- `early_intervention_metrics.py:65` credits a policy that never defers with a
  full reduction.
- A `num(...) or 1.0` reads a rate of 0 as 1: where 0 bad rows are allowed a
  dominated policy may be chosen, the exception in `AcceptedPoliciesAreSound`.
- `evaluate_support_aware_dual_unit_intervention.py:54-92` implements the gates
  a second time, differently.
- `evaluate_option_c_synthetic.py:53` shifts the calibration data along with the
  test data.
- T-8 selects the ceiling of the budget's share of trajectories, and at least one
  (`t8_oracle_gap_utils.py:212`), so it can cover more failures than the `oracle_upper_bound`
  of that budget.
- A repeated split may leave the test role empty, and rebalancing may take the
  last positive trajectory of the training role.

Claim checks:

- The 9i checker's qualifiers lack "not causal", which its own required statement
  uses; a checker whose excuse counts anywhere in its report lets one disclaimer
  excuse every bare claim.

## 7. Abstractions, and what is not modelled

- One session and the default directories; `--no-audit` only skips a step.
  Analytics errors are swallowed by the code and analytics is left out.
- The policy decisions on `read` and `validate` themselves are taken to be
  `PROCEED`; the other answers end these commands without touching state.
- A content stands for its hash. In a freshness check the look at the file and
  its hash are one step (`CompareFile`), in `recordObservation` too.
- Reasons, wording, redaction and the text of paths and commands are left out;
  which pattern matches is part of the proposal. What `computeBranchRisk` calls
  less than "high" is "low" here: neither rules nor router tell it apart.
- Scores are in percent. What a single finding of an edit weighs (60 to 75 in
  `destructiveHeuristics`) is 75; no threshold lies between.
- Of a profile, drivers that neither a reduction step nor the router knows are
  left out, and so are evidence that is there, top drivers, the confidence and
  rationale of the advice, and the priorities and wording of steps.
- There is no clock but the order in which validations complete: growing too old is
  a step. A clock set back is a hazard without a property.
- A validation log that cannot be read at all counts as `not_run`
  (`validationFreshness.ts:32`), as an empty one does; it is not modelled apart.
- A validation result knows nothing of the files it was run on. That code
  changes after a pass leave the pass in force is what the code does; no
  property of it could fail or hold otherwise.
- The exit code of a validation command is chosen when the run closes.
- A file that does not exist cannot be read, so a new file (`write_file` to a
  path without a file) and a deleted target stay deferred.
- The git state is read at once, where five commands and two detectors read it in
  turn; a commit in between is not modelled.
- Study: medians, standard deviations, slopes, bootstrap intervals and log loss
  are left out; `delta` is fixed inside the bounds; a world is one seed. A
  shuffle is any order given, a hash a constant (`StableUnit`), keyword counts
  are flags, the evidence the cost-aware selector reads a constant (`Evidence`).
  Where the scripts break ties by the order of a grid, the choice is left open.
- Study: labels map to steps unless the layout is unsupported, so that the gate's
  share of mapped labels falls short for that reason only.
- Study: except for cached archives, files are written whole. Reports are lines
  of tokens, each a phrase a checker looks for.
- Not modelled: policy loading and templates, parsing and schemas, redaction,
  analytics, feedback, doctor, dashboard, simulations, examples, and the study's
  experiments that fit models, sweep variants of the modelled selectors or draw
  figures. `PROJECT.json` gives the reason for each.

## 8. Plan

1. *Done*: `AuditLog`, `DeferRetry` and its contract, `Detectors`,
   `DecisionEngine`, `Reauthorization`, `ValidationGate`, `AdvisoryRouting`; the
   study; the proofs of section 4.
2. *Open*: the git state at a finer grain, composed with `ValidationGate`'s gate;
   stat and hash of a file as two steps, with the atomic reading as the abstract
   specification; cloud, database and package commands; the order of policy
   discovery.
3. *Open proofs*: `FeaturesIgnoreTheFuture`, with the features as recursive
   functions, as `running_counts` is; `CorrectionsTighten` for the tables of the
   policy families.
