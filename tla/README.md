# TLA+ models of `se_support`

`se_support` runs controlled experiments on coding agents: the same software
engineering tasks are given to an LLM agent with and without *support layers*
(context pack C1, reproduction test C2, quality gates C3, workflow harness C4,
repository memory C5), each run leaves a directory of artifacts, an evaluator
judges the final patch, and an analysis pairs the runs. What can be wrong in
such a program is rarely a crash: it is a run that is scored for the wrong
patch, an infrastructure failure counted as a failure of the agent, a support
layer that is announced and not there, an enforcement that destroys work. These
modules state what keeps the experiment honest, check it with TLC on small
instances, and prove the most important parts of it with TLAPS for all
instances.

Paths below are relative to the repository; the package is `src/se_support/`.

## 1. Inventory

| Component | Code | State it keeps | Operations | Hard behaviour |
|---|---|---|---|---|
| Workflow harness (C4) | `support/harness.py` | `state`, `records`, `rejections` | `add_record`, `request_transition`, `can_edit`, `can_submit` | forward jumps over several states |
| Agent turn loop | `agents/llm_agent.py` | turn, message, `submitted`, `gate_revisions`, status | directives, bash blocks, revert, SUBMIT, gates, timeouts | limits that race, enforcement after the fact |
| Workspaces | `runner/workspace.py`, `runner/container_workspace.py` | working tree, index, HEAD | `run_command`, `is_dirty`, `revert_all`, `final_diff`, `git_state` | the agent uses git too; files the image ships untracked |
| Gate policy (C3) | `support/gate_policy.py` | the baseline counts, the last results | `compute_baseline`, `run_policy`, `blocking_failures` | counts of two trees are compared; the agent edits what configures the tools |
| Integrity snapshots | `runner/run_manager.py`, `runner/container_workspace.py` | the baseline of untracked files | `git_state` at S0, S1, S2, `classify_git_state`, the exclusions of the extraction | image, setup and agent write to one tree |
| Run pipeline | `runner/run_manager.py` | one run's locals, its container | `run_single`, `_run_body`, `_infrastructure_failure` | exceptions and containers that stop between stages |
| Run directory | `runner/run_dir.py` | the files of a run | `create`, `append_*`, `write_*` | files written in several steps, reused directories |
| Scheduler | `experiment/scheduler.py` | rows, attempts, pool | `run_experiment`, `_execute`, `_is_complete`, `_row_from_*` | workers, retries, kill and resume |
| Helper pipeline (C2) | `support/repro_tests/*`, `scripts/freeze_helpers.py` | candidates, frozen file | generate, select, classify, freeze, resolve, mount | two programs and one file; containers that stop |
| Evaluation | `evaluation/local_eval.py`, `evaluation/swebench_eval.py` | the harness report on disk | `evaluate_patch`, `run_pytest`, `evaluate_with_docker` | a report of an earlier attempt; counts of tests that have several cases |
| Quality card | `quality/*` | none | `build_card`, `recompute_card` | reads streams that may be torn |
| Analysis | `analysis/aggregate.py` | none | `load_runs`, `condition_summary`, `paired_contrast`, `mcnemar_exact` | asked at any time, of launches that were interrupted and may have changed the model |
| Conditions and bundle | `support/condition.py`, `support/bundle.py` | bundle, `support/`, manifest | `build_bundle`, `validate_against_condition`, `write` | a directory an earlier attempt has written to; a manifest that says more than is there |
| Context pack (C1), memory (C5) | `support/context_pack.py`, `support/memory.py`, `scripts/freeze_repo_memory.py` | the frozen memory | the three builders of a pack, `build_memory`, the freezing script | budgets; a script and a run that share a file |
| Prompt, isolation, records | `support/prompts.py`, `isolation/*`, `runner/run_manager.py` | `visible_inputs`, the manipulation check, provenance | `build_system_prompt`, `_apply_isolation`, `_write_manipulation_check`, `_write_provenance` | records written at different moments about one treatment |
| Importer, sampler, schemas, client, CLI | rest | none or one shot | pure data processing, argument parsing | none a model would show |

How they interact: the **scheduler** calls the **pipeline** once per attempt of
a cell, on worker threads of one process; the pipeline creates the **run
directory**, resolves the **helper**, starts the **workspace**, builds the
**bundle**, runs the **agent loop** against workspace, harness and gates,
extracts the patch, calls the **evaluator**, builds the **quality card**. They
share state through the file system only: the scheduler decides to skip a run
by a file the pipeline writes last, and the analysis reads what is left there
afterwards. The process may be killed at any point and is launched again by hand.

What makes each part correct:

* *loop and harness*: no phase without its evidence, no submission around the
  harness or the gates, read-only phases, a status that tells how the run
  ended, a patch that carries what the agent did as far as git looks at it, an end;
* *snapshots*: nobody but the agent writes what is in the patch, and a run is
  thrown away only when the tree it would start on is not the one it should be;
* *pipeline, directory, scheduler*: the card, the verdict and the patch of a
  directory belong together; an infrastructure failure is never analysed; a
  result is never overwritten; rows tell what is on disk; containers go; a
  launch ends if what it waits for does;
* *helper*: the selection is the one described, a confirmatory class means what
  it says, a frozen test stays frozen, a run's own generator is gone when its
  agent starts;
* *treatment*: the agent gets its condition and nothing else, the records of the
  run say what it got, and whether its commands could reach the network;
* *gates*: what passes is sound, what is stopped had a reason, new warnings are
  the agent's;
* *evaluation and analysis*: a resolved row is clean, a card can be had again
  from its files, one cohort is of one version where each evaluation leaves its
  report, a contrast is paired.

## 2. Modules

```
Harness <-- Workflow (abstract)         RunDirectory <-- RunPipeline <-- Scheduler
   ^            ^                                                           ^
   |            | refinement                          Scheduler_proofs, MCScheduler
   +------- AgentLoop <-- AgentLoop_proofs, MCAgentLoop
Workspace <----+
                                        Integrity <-- Integrity_proofs, MCIntegrity
ContextPack <-- Treatment               Gates <-- Gates_proofs, MCGates
   ^               ^                    HelperPipeline <-- HelperPipeline_proofs,
   |               +-- MCTreatment                         MCHelperPipeline
   |               |                    Evaluation <-- Analysis <-- Analysis_proofs,
   |               |                                                MCAnalysis
ContextPack_proofs <-- Treatment_proofs
```

An arrow points from a module to one it extends. Modules that are not connected
model the same run on different levels. What one of them leaves open another
one decides: the gates' answer is a choice in `AgentLoop` and a computation in
`Gates`; the changed files the gates get come from `Integrity`'s `GatedFiles`;
the stage `Setup` of `RunPipeline` is the whole of `Treatment`; the helper that
`Treatment` resolves is made by `HelperPipeline`; the verdict `Scheduler` names
by the patch it judges is computed in `Evaluation`. One model of all of it would
be too large for TLC and would show nothing that these do not, because what
crosses these borders is one value, written once and read once.

| Module | Models | Correspondence |
|---|---|---|
| `Harness` | `HarnessStateMachine` | `RequestTransition` is the answer of `request_transition`: the auto-walk over the skipped states is the union of the records they require |
| `Workflow` | nothing in particular: the promise of the C4 construct | abstract specification: evidence grows, phases only advance, delivery from the last phase |
| `Workspace` | a git repository as three trees, with ignore rules in one of its files | `IsDirty`, `RevertAll`, `StageAll`, `DiffCached`, `DiffTempIndex` for `git status --porcelain`, `checkout + clean -fdq`, `add -A`, `diff --cached HEAD` on the real index (host) and on a temporary one (container); what is untracked and `Hidden` by the rules is neither listed, nor removed, nor staged |
| `AgentLoop` | `LLMAgent.run` and the extraction after it | one action per outcome of a step of the loop: `Complete` (the model's message and `_apply_harness_directives`), `RunRead/RunEdit/RunPython/RunGitAdd/RunGitCommit` (one bash block), `RejectEdit`/`AcceptBlocks`, `RejectSubmit`, `GateFeedback`/`GateSubmit`/`SubmitUngated`, `WallTimeout`, `OutOfTurns`, `LoopRaises`, `Finish`, `Extract` |
| `RunDirectory` | the files of a run that something reads back | one operator per writer; `IsComplete`, `Loaded`, `StreamsParse` for the readers |
| `RunPipeline` | `run_single`, `_run_body`, `_infrastructure_failure` | one action per stage, cut where a kill would leave something different; `StageRaises` at any stage, then `Close` for the `finally`; `StartRaises` and `StartLeaks` for a start that fails before the `try` and leaves its container |
| `Scheduler` | `run_experiment` | `Launch`, `Skip`, `Execute`, `Retry`, `Return`, `GiveUp`, `Finish`, `Crash`, over `RunPipeline`'s `RunStep` for each cell |
| `HelperPipeline` | `generate_helper_in_container`, `freeze_helpers.py`, `_resolve_helper_artifact`, `_tests_artifact` | one action per stage of generation, plus writing, delivery, and the faults; the container of a killed process becomes a stray that only `StrayEnds` removes |
| `Integrity` | S0, setup, S1, agent and extraction of a container run, on the level of who wrote which path | `SnapshotS0`, `BaselineToolWrites`, `SnapshotS1`, `AgentWrites`, `Extract` along `_run_body`; `UnexplainedChanges` is `classify_git_state`, `FinalDiff` is `final_diff_with_manifest`, `GatedFiles` what `SUBMIT` hands to the gates |
| `Gates` | `gate_policy.py` and the SUBMIT handler of `LLMAgent.run` | `TakeBaseline`, the agent's `Edit`, `Touch`, `Restore`, `Move` and `Configure`, `Submit`; `ChangedFiles` is what the `+++ b/` lines of the diff name, `ImportedBy` what a path's module name imports; one operator per gate; `WarningCount` and `NewWarnings` for the advisory tools |
| `ContextPack` | `context_pack.py` | one operator per builder; `Best` sorts by counting the files `Before` one, `Emit` is the budget test of one block, `EmitAll` the loop around it |
| `Treatment` | `run_single` and `_run_body` up to `agent.run`, `build_bundle`, the records, `freeze_repo_memory.py` | one action per stage in the code's order, `Kill` with the files it may leave, `Retry`, and the freezing script's two steps |
| `Evaluation` | both evaluators, `quality_card.py`, `patch_utils.py` | `EvaluatePatch`, `EvalFromReport`, `BuildCard`, `RecomputeCard` as operators |
| `Analysis` | `aggregate.py` over the directories of interrupted launches | actions write a run's four files and the harness's reports (`EvaluateDocker` takes the one it finds, of whatever attempt), `Rows`, `Refused`, `PairedContrast`, `Summary`, `McNemarExact` read them; the tail of the test counts outcomes (`AtMost`), which `MCAnalysis` compares with the sum of binomials in the code |
| `MC*` | instances for TLC | constants only |
| `*_proofs` | theorems | section 5 |

Data is abstracted to what the properties tell apart. A message is a set of
records, a requested state and a kind; a file has a *content* out of five
(absent, as in base, an edit the gates accept, one they refuse, a cache), and the
content of the ignore file decides which files are hidden; a
patch is a function from files to contents in `AgentLoop`, and a model value in
`Scheduler`, where a report, a verdict and a card are identified by the patch
they judge; a candidate test is known by what pytest says of it on base and on
gold and by what the audit says of its literals. `Gates` knows a file by its worst
trait and by where its bytes come from, as a renamed file is one whose bytes were
another's in HEAD; `Treatment` names a text by where it came from; `Evaluation` knows a test
by how many of its cases pass, fail and are skipped. History variables
(`madeIn`, `patched`, `fate`, `hit`, `lost`, `sick`, `kills`, `judged`, `by`, `met`) record what a
property needs and influence no action.

Facts from outside the repository that are used: what git does on `checkout`,
`clean`, `add` and `diff`, with ignore rules, renames and patterns (`**/*.pyc`
without `glob` needs a slash, so the root's `x.pyc` is not excluded); that `docker exec` on a container that is not running
ends with exit code 1 (which `RunCandidate` reads as a failing test); what makes
ruff, flake8, mypy and bandit complain (`Sees` in `Gates`); and that pytest runs
nothing if a node it is given does not exist.

## 3. Runs that pass

Each run asks one question; its bounds are the smallest at which the mutants of
every mapped definition are found.

| Run | Instance | Shows |
|---|---|---|
| `agent_container` | one tracked file and `.gitignore`, which hides a new file until the agent deletes it; one file the image ships, one cache; C0, C3, C4 and both; all commands; 4 turns, 1 block a message, 1 revision | types, `EvidenceBeforeProgress`, `SubmissionEarned`, `StatusTellsSubmission`, `NoUnstagedEditBeforePatch`, `PatchCarriesTheTree`; the loop implements `Workflow`; the loop ends |
| `agent_host` | host clone with a new file the rules hide, and rules the agent may extend to the tracked file; a cache that is excluded and one at the root that is not; 3 turns, 2 blocks a message | `PatchCarriesTheTree` for extraction through the agent's own index |
| `scheduler_local` | 2 cells, 2 workers, 1 retry, 2 launches, 2 faults, local evaluation | verdicts are about the patch beside them (`EvalJudgesPatch`), each launch ends if the programs on the host do (`LaunchEnds`) |
| `scheduler_docker` | the same in containers with and without helpers | `InfraNeverAnalysed`, `ContainersRemoved`, `HelperRunsAreWhole`, `RowsTellTheDisk`, `NoResultOverwritten` |
| `helper_pipeline` | eight kinds of candidates, 2 asked for, 2 calls, 2 faults, three kinds of gold patches | `ChoiceIsPreferred`, `ConfirmatoryReproduces`, `GeneratorIsGone`, `FrozenHelperIsKept` |
| `integrity` | seven paths: tracked, `.gitignore`, tracked and new caches, a file the image may ship, an ignored one, the mount; with and without gates and helper | `PatchIsTheAgentsWork`, `AbortHasACause`, `AgentStartsClean` |
| `gates` | four modules, one with "test" in its name, one with a name that cannot be imported, which the image may ship untracked, and one test file; an import that runs two modules; import cap 1, budget 1, 3 edits or moves; both policies; base trees with one bad or missing file | `SubmittedIsSound`, `NoFalseAlarm`, `DeltaIsTheAgents` |
| `treatment` | every condition in the container and on the host with each sandbox and backend, with and without generator and frozen memory; repositories of 3 to 5 files for the packs; 2 attempts, 2 helper texts | `TreatmentIsTheConditions`, `RecordsTellTheTreatment`, `OpenNetworkIsRecorded`, `ContextIsRankedAndBounded` |
| `analysis` | two tasks under two conditions; one cell meets every kind of evaluation and two patches, a report of the launch before included; 2 versions, 1 fault, 2 launches | `CohortIsHomogeneous`, `ResolvedIsClean`, `ContrastIsPaired`, `CardIsRecomputable` |

Why the bounds are enough. *Loop*: four turns are what the workflow needs to go
from DISCOVER through a rejected message and a gate revision to SUBMIT, because
one message may carry all records and jump; two blocks are needed to stage and
then edit; one revision is the least at which both the budget and its exhaustion
occur. *Scheduler*: two cells are what two workers can disagree about; two
launches and one retry give a directory that is used three times; two faults
let one failure meet the remains of another. *Helper*: two candidates have an
order; two calls are a writer and a reader, or two writers, of the frozen file.
*Integrity*: the code tells paths apart by their kind only, the instance has
one of each, and nothing bounds the writes. *Gates*: a module beyond the cap, an
exempted name, one that cannot be imported, an import that reaches another module and
a test that maps to one are each there, a move makes a rename or an overwritten
file, and three edits break, repair and break again within one
budget; the theorems of section 5 lift all of these bounds. *Treatment*: a stage reads
only what the attempt before it left, so two attempts show what a third could.
*Analysis*: two launches are one that wrote part of the cohort and one that wrote the
rest; one fault leaves a run between two of its files; a pair has two members,
and two tasks allow a discordant pair beside a concordant one.

`scheduler_docker` uses symmetry in cells and patches and `analysis` in the
versions, which the specifications treat alike; the runs with a liveness property
use none. `gates`, `treatment` and `analysis` allow deadlock: a submitted patch, a
started agent and an experiment that nobody launches again are their ends.

Fairness. No `subprocess.run` of the package has a timeout. In a container a
command that hangs is ended by the container itself, whose process is `sleep 7200`
(`runner/container_workspace.py:163`); the requests to the model have the client's
timeout and retries; the official harness is given one of its own. Hence weak fairness of
the turn loop's step relation in `agent_container`, and not for a host: there nothing
ends a command that hangs. So the scheduler has weak fairness of a cell's next step
only while its worker waits for no program on the host (`~InCommand(c)`), and for the
end of the launch (a thread pool runs each submitted task); and `LaunchEnds`
says that a launch ends *provided that* every worker comes back from such programs
again and again. That one hanging command on the host keeps a launch from ever
ending is a fact of the code, not excluded by the model: without the proviso the
property fails in `scheduler_local`. Assumed is that docker itself and the model's
server answer; nothing is assumed of `Launch`, `Crash`, faults, or of anyone
launching again.

## 4. Runs that find a disagreement

Each of these checks one statement of the repository about itself and ends with
a counterexample.

| Run | Statement | What happens |
|---|---|---|
| `agent_submit_revert` | `agents/llm_agent.py`: "reject edits made outside PATCH/VALIDATE by reverting" | the revert takes edits made *in* PATCH too: one command after the move to SUBMIT discards the patch |
| `scheduler_infra_rows` | `runner/run_manager.py`: an invalid run "must NOT count as an agent failure" | on resume its row carries no mark and is summarised as unresolved |
| `scheduler_stale_report` | `evaluation/swebench_eval.py`: the report of this run is what is read | a report left by an earlier attempt is read for a new patch |

Further configurations are kept to reproduce other disagreements. Run them with
`tlc -config X.cfg M`, `M` the MC module of the name's first part:

| Configuration | Property | Statement it contradicts |
|---|---|---|
| `AgentLoop_false_reject` | `RejectedEditWasMade` | `runner/container_workspace.py:275` files untracked at start are "benign base-image artifacts": the first message, a plain read, is rejected as an edit and they are removed |
| `AgentLoop_commit` | `PatchIsAgainstBase` | `runner/workspace.py:10` "git diff vs base": the diff is against HEAD, and a commit of the agent leaves the patch |
| `AgentLoop_staged_edit` | `EarlyEditsReverted` | `support/prompts.py:54-55`: an edit staged in DISCOVER survives the revert |
| `AgentLoop_gate_deadend` | `FeedbackCanBeActedOn` | `support/gate_policy.py:377` "fix before submitting": under C4 the agent is in SUBMIT, where it may not edit |
| `Scheduler_torn_card` | `SkippedRunsAreComplete` | `experiment/scheduler.py:4-5` "completed runs are skipped by a deterministic run id + completion marker": the marker exists before it is written, and a kill leaves a run that is skipped and cannot be reloaded |
| `Scheduler_stale_status` | `ValidRunsAreLoaded` | `analysis/aggregate.py:36`: a status file of an earlier attempt excludes the valid run that followed it |
| `Scheduler_failed_lost` | `FailedRunsAreKept` | `docs/EXPERIMENT_PLAN_2026-07-21.md:969`: a retry replaces the patch of the attempt before |
| `Scheduler_one_attempt` | `StreamsAreOfOneAttempt` | `docs/run_directory_spec.md:3-5`: streams of several attempts are appended to each other |
| `Scheduler_shared_dir` | `NoResultOverwritten` | `experiment/scheduler.py:83-84` with a seed named twice: two cells share a directory (this is why the theorem assumes distinct ones) |
| `Scheduler_torn_line` | `ErrorsHaveACause` | `docs/EXPERIMENT_PLAN_2026-07-21.md:1232` "interrupted experiments resume": a torn line of a stream makes every later attempt of that cell fail |
| `Integrity_gate_files` | `GatesJudgeTheAgentsFiles` | `support/gate_policy.py:177` "every changed module": the files the image ships are judged as the agent's (`final_diff` without the baseline) |
| `Integrity_ignore_rules` | `PatchIsOnlyTheAgentsWork` | `runner/container_workspace.py:235` "contains only the agent's real repository edits": ignored files of the image reach the patch once `.gitignore` is edited |
| `Integrity_quoted` | `PatchIsTheAgentsWork` | the same: `git status` prints a path with a blank in quotes, and the exclusion of the quoted path names no file |
| `Integrity_lookalike` | `PatchIsTheAgentsWork` | `runner/container_workspace.py:52` "Modified/deleted TRACKED files are always suspicious": one whose name contains `.coverage` passes both snapshots and is delivered; so does a cache at the root (`.coverage`), which no pattern with a slash matches |
| `Gates_unimportable` | `ChangedModulesImport` | `support/gate_policy.py:177` "every changed module must import without error": not one with "test" in its name, one beyond the cap, or one that was only renamed |
| `HelperPipeline_unconfirmed` | `MountedIsConfirmatory` | `docs/PROTOCOL_0.3.1_FREEZE.md` "Only T3/T4 helpers are used for C2": a run without a usable frozen helper mounts what it generates, whatever its class |
| `HelperPipeline_ungold` | `ConfirmatoryPassesGold` | `support/repro_tests/schema.py:22`: a T3 helper may never have been run on gold |

Statements that are defined and do not hold, without a configuration of their
own. Name one as an INVARIANT in `Gates.cfg`, `Treatment.cfg`, `Analysis.cfg` or (for
`Scheduler`) `Scheduler_infra_rows.cfg` to see it:

| Definition | What happens |
|---|---|
| `LegacyNeverNew` (Gates) | `support/gate_policy.py:7-8` says legacy warnings "are never attributed to the agent's patch"; a tool that gave no count on the base tree, or was configured only by the agent, has them all counted as new |
| `InfraFailuresAreRetried` (Scheduler) | `docs/PROTOCOL_0.3.1_FREEZE.md:57`: an outcome "infrastructure failure" is returned, and only exceptions are retried |
| `NetworkClaimHolds` (Treatment) | `schemas/manipulation.py:31` calls `network_disabled` "Verified that the agent had no network access"; it is computed from the configuration, and on a host without a backend nothing disables the network |
| `SupportDirIsTheBundle` (Treatment) | a retry leaves the files in `support/` that this attempt's bundle does not have |
| `MemoryIsThere` (Treatment) | a memory file that the freezing script has opened and not yet written is taken as a memory, and the check calls the layer present |
| `AnnouncedIsReadable` (Treatment) | on the host the prompt names a helper file that nothing puts there |
| `PolicyFileIsInForce` (Treatment) | `support/gate_policy.json` is the policy v1; the gates run v2 |
| `VerdictsAreOfTheirSpec` (Analysis) | `analysis/aggregate.py:83` "different checkpoints are not comparable": a launch leaves a harness report and dies before its card, the next, with another model, takes it (the path of `scheduler_stale_report`), and its verdict stands in the cohort of that model |
| `ResolvedIsQ2` (Analysis) | `quality/quality_card.py:38`: a patch that only the harness's summary calls resolved gets the level Q0 |
| `ResolvedHasNoFailure` (Analysis) | `runner/workspace.py:187-195` counts passed cases for passed nodes: the cases of a parametrized test can make up for a failing one |
| `DeletionsAreTouched` (Analysis) | `diff_metrics` counts the files of a diff by their `+++` line (`runner/patch_utils.py:44-48`), though line 22 says "fall back to `--- a/path`": a deleted file is `/dev/null` there and not counted |
| `CardIsReproduced` (Analysis) | a recomputed card has lost what needs the gold patch |

Of the manipulation check one can also say, from `WriteManipulationCheck`, that
`passed` is never false: it leaves the tests layer out, and every other layer of a
bundle that passed `validate_against_condition` is present when it is switched on.

## 5. Theorems

All are proved for every value of the constants under the named assumptions of
the modules that declare them; the only further assumptions are stated in the
theorems.

`AgentLoop_proofs`. The inductive invariant is `IInv == TypeOK /\ LoopInv`.
`LoopInv` adds to the properties what they need to survive a step: the evidence
of every state on the way to the current one is recorded
(`RequiredBetween("DISCOVER", st)`), inside the loop nothing is submitted and
the status is untouched, the revisions never exceed the budget, and outside the
loop a submission has passed harness and gates. Every jump is handled by
`RequiredBetweenSplits`: what is required between two states is the union over
any state in between. The read-only property needs its own strengthening, about
the moments inside a message, and the patch theorem rests on `ExtractedPatch`,
which computes both ways of extraction from the operators of `Workspace`.
Theorems: `TypeCorrect`, `EvidenceIsComplete`, `SubmissionsAreEarned`,
`StatusIsTruthful`, `ReadOnlyBeforePatch`, `PatchIsFaithful`, and `Refinement`,
that the loop implements `Workflow`. `LoopsAreBounded` proves what `LoopEnds` needs
beside fairness: `StepsLeft`, the turns left times what a turn takes at most plus what is
left of this one, is a natural number, every step of the loop decreases it, and at
zero the loop has ended.

`Scheduler_proofs`. `TypeCorrect`; `ContainersAreRemoved` (outside the
stages of a run there is no container but one of a killed process or of a start that
failed half-way); `InfraIsNeverAnalysed` (the status
file precedes the card of a failed run and nothing removes it);
`HelperRunsAreScoredWhole` (a run with a helper whose container had stopped never
reaches a stage that scores); and, assuming that distinct cells have distinct
directories and that `Resume` holds, `ResultsAreKept` and `RowsAreTruthful` (a
cell past its skip test works in a directory without a result). Verdict and patch: the
invariant `JudgesInv` says, per stage, which of patch in memory, verdict in memory,
`final.patch` and `eval_result.json` agree already; it needs `ResultsAreKept`, because
an attempt that started over a result would take them apart. With the official
harness the statement is false (`scheduler_stale_report`), and
`NewReportsJudgeThePatch` says that there is only one reason: it holds of every
behaviour in which no step that reads a report although the harness left none finds
one of another patch (`ReportIsNew`, an action the specification does not
promise). The local evaluator takes no such step, hence
`VerdictsAreOfThePatch`. `LaunchesAreBounded` is the part of `LaunchEnds` that needs no
fairness: `StepsLeft(c)` counts the retries left and the stages left of this attempt,
a step of a cell decreases its own and leaves the others', and a cell at zero has its
row. The step lemmas treat `RunStep` stage by stage, once per group of variables.

`Integrity_proofs`. `TypeCorrect` needs `PathAssumption` alone. The other three assume `PlainNames`: the cache names of the snapshots are covered by the cache
patterns of the extraction, `.gitignore` is none of them, and `git status` quotes no
path; `Integrity_lookalike` and `Integrity_quoted` show what happens without the
first and the last.
The invariant says where a change that the agent did not make can be: up to S1
every file git lists is in the baseline or was written by the setup
(`SetupIsRecorded`), from S1 on everything the agent did not write is in the
baseline, reserved, a cache or ignored (`RestIsExplained`), and what is hidden
changes only with `.gitignore` (`RulesAreHeads`). `PatchIsClean`,
`AbortsAreJustified` and `AgentsStartClean` follow.

`Gates_proofs`. `IInv` adds to the types that what the last run of the policy
wrote is what the policy says of the tree it looked at (`ResultsAreThePolicys`),
that the tree is the base tree up to the baseline and the judged one after the submission
(`TreesAreTied`), and that failures go back as long as the budget lasts
(`FailuresAreSentBack`). `SubmissionSound`, `AlarmsAreTrue` and
`WarningsAreTheAgents` are then about one evaluation of the policy; the last is
arithmetic of cardinalities of finite sets. What the first two do not say belongs to
them: a file that was only renamed, a new empty one and one whose name git quotes have no
`+++ b/` line, and no gate but compileall looks at them; and compileall looks at
the whole tree, so it may fail for a file nobody touched.

`HelperPipeline_proofs`. Three invariants, each for its theorem: `Protocol` (which
stages have a container, and when the script may write) for `GeneratorGoes` and
`FrozenHelperStays`; `Choosing` (what the loop has passed over holds nothing it
should have taken) for `ChoiceIsRight`; `Evidence` (a verdict in memory is what
pytest says of the chosen test) for `ConfirmatoryIsRight`. They say no more than
they state: a killed process leaves its container running (`GeneratorIsGone` bounds
the strays by the kills), a torn frozen file is not kept, and a confirmatory class
means what it says only where the gold patch applies and no container stopped.

`Treatment_proofs`. The invariant `Known` has a part per artifact that says from
which stage on it is this attempt's: an attempt starts on a directory of which
nothing is known and knows everything when the agent starts. `TypeCorrect`,
`TreatmentIsRight`, `RecordsAreTrue` and `NetworkIsRecorded` follow for every set of
jobs and any number of attempts. `NetworkIsRecorded` is about the visible-input
manifest: that `network_disabled` in the manipulation check is claimed only when it is so
is false (`NetworkClaimHolds`). `ContextsAreRanked` adds that the pack in memory is one of
the job's (`PackIsOfJob`) and takes from `ContextPack_proofs` what the builders return.

`ContextPack_proofs`. For every repository and all bounds: what `Emit` does to the two
lengths of a pack, that the recursive function in `EmitAll` exists (nothing is
known of a recursive function before a function with its equation is shown), that a
section adds files of its own and no others, each once (`SectionSound`), and that those
it takes are its first ones, all of them if it never filled up (`SectionDense`). `BestAre` says that the
places of a finite set under `Before` are the numbers below its size, so `Best` is a
sorted list without repetition. `RandomPackIs`, `BestSectionIs` and
`V2PackIs` combine them per builder. The induction behind all of this is
`NumbersFrom0`, stated about a *set* of numbers and proved from the least number
outside of it, because the provers cannot instantiate the library's induction theorems.

`Analysis_proofs`. `IInv` says that a run under way has no card and is of this
launch, and that a card on disk fits the verdict and the patch beside it; the verdict
is what its evaluator says of the patch (`IsJudged`) and, if its evaluation left the
report it was taken from (`OwnReport`), of the version the specification names
(`IsOwn`). It holds because a resumed run with
a card is skipped, so `CohortsAreHomogeneous`, `CardsAreRecomputable` and
`ResolvedRunsAreClean` assume `Resume`. The last also needs
that as many passed items as nodes leave no room for a failing node when each is a
single case (`AllPassedNoneFailed`, by cardinality of the set of passed items).
`ContrastsArePaired` assumes nothing, since it is about what the readers make of any
directories: tasks are the rows of a condition, one for one; those of a
pair are split into shared and alone ones; and for the p-value turning every coin
pairs the outcomes with at most k heads with those with at least n - k, which makes a tie
1 (`TieIsOne`), while the outcomes of a more one-sided split are among those of
a less one-sided one (`OneSidedIsRarer`).

Only model-checked: the liveness properties `LoopEnds` and `LaunchEnds`. Proved
of them is that steps run out (`LoopsAreBounded`, `LaunchesAreBounded`); what is
left is that some step is always possible until the end and, being possible, is
taken, that is ENABLED and fairness, which are out of the prover's reach. Every other
property of a passing run is a theorem. The disagreements of section 4
are counterexamples and need no proof.

## 6. Not modelled

* *Importer, sampler, schemas, chat client, command line, one-off scripts*: they
  keep no state, or their effect is another program's. `AgentLoop` takes any
  answer the client may give, an exception included.
* *Text*: the wording of the prompt and of observations, the history window, how query
  terms are taken from an issue, how the text of a memory is distilled, the
  text-level audits of helpers (a candidate is known by their verdicts).
* *Argument vectors*: `build_sandbox_argv` and the `docker` commands, the
  rewriting of the image's git history, the hashes of files nothing reads back.
* *Host variant of helper generation* (`support/repro_tests/pregen.py`,
  `validator.py`): it has the stages of the container variant without the container
  and is not reached by a container run.
* *Statistics*: the bootstrap interval of a contrast, `p2p_regression_stats` and
  the averages of the process metrics are numbers of a data set; no step depends
  on them.
* *Inside one step*: `apply_patch` and `run_pytest` of a workspace are inside the
  step that evaluates a patch.

## 7. Plan

Done, in this order: `Harness`, `Workspace`, `AgentLoop` with `Workflow`;
`RunDirectory`, `RunPipeline`, `Scheduler`; their proofs; `HelperPipeline`;
`Integrity` and its proofs; `Gates`; `ContextPack` and `Treatment`; `Evaluation`
and `Analysis`; the proofs of `Gates`, `HelperPipeline`, `Treatment`,
`Analysis` and `VerdictsAreOfThePatch`; `ContextPack_proofs` and with it the packs of
`Treatment`; the resolved rows and the contrasts of `Analysis`; what official reports
need to be of the patch; the measures of loop and launch.

Next:
1. The host variant of helper generation beside the container one, against one
   abstract specification of what a validated helper promises.
2. `Scheduler` with seeds that share a directory, once the code says what should happen.
