# A TLA+ model of llm-status-machine

llm-status-machine (`lsm`) runs a pre-registered study of coding agents. A *study* is compiled into
a frozen *plan* of trials; a *run* executes the plan; every trial is one *attempt*: a workspace is
copied, an agent process runs in it under supervision, the final workspace is captured, and the
evidence is sealed into a *raw bundle*. Evaluations, datasets and analyses are derived from the
bundles; a SQLite index can be rebuilt from the files. Paths below are relative to
`src/src/llm_status_machine/` unless they start with `docs/` or `tests/`.

## 1. Inventory

| Component (code) | State it keeps | Operations | What makes it correct | Model |
|---|---|---|---|---|
| Study compiler and models (`study/compiler.py`, `domain/models.py`) | none: a function of document and seed | `load_study`, `compile_study`, `design_diagnostics`, validators | the gate decides: what it accepts compiles, for every seed | `StudyDesign` |
| Run engine (`execution/runner.py`) | `run.json`, one coroutine per trial, semaphore, dispatch counter, `_active` | `run`, `_run_trial` | order of evidence, one permit per attempt, plan order, run closed once, lineage stops at the first failure | `RunEngine`, `EvidenceLedger` |
| Workspaces (`workspaces/backend.py`) | a copied tree and its Git repository beside it | `validate_source`, `materialize`, `build_manifest`, `capture_final` | the manifests describe what the agent found and left | `Evidence`; as awaits in `RunEngine` |
| Raw bundle (`recording/bundle.py`) | files of an attempt, `seal.json` | `write_json`, `seal`, `validate_seal` | nothing is sealed before its outcomes; what counts is what was sealed | order in `RunEngine`; seal and validation in `Evidence` |
| Recorder (`recording/recorder.py`) | two pumps, transcript, sequence numbers, kill stage | `record_process`, `TranscriptWriter` | what is lost has its reason, records describe the raw files, the ladder ends the process | `Recorder`, `Framing` |
| Evaluation (`evaluation/runner.py`) | evaluation directories and the blinding map under a file lock; a scorer process | `evaluate_run`, `_execute_scorer_process`, `_safe_extract_git_snapshot` | a finished evaluation is never redone or lost; a score belongs to the sealed tree | `Research`, `Evidence` |
| Datasets (`analysis/dataset.py`) | dataset directories under another lock | `build_dataset` | stays reproducible; takes only finished evaluations | `Research`; rows in `Inference` |
| Inference (`analysis/inference.py`, `analysis/multiplicity.py`) | analysis directories under a third lock | `infer_run`, `holm_adjust`, `rebuild_report` | one confirmatory analysis; valid tests; nothing lost called confirmatory | `Research`, `Inference` |
| Index (`storage/index.py`) | four tables | upserts, `reindex` | shows only what files say; can be rebuilt | `IndexStore` (runs, episodes), `Research` (evaluations, analyses) |
| Runtimes and files (`runtimes/providers.py`, `utils.py`) | a content-addressed cache under a lock; temporary files | `fetch_runtime`, `lock_runtime`, `atomic_write` | whole or absent, executable, durable | `RuntimeCache`, `CachedObject` |
| CLI (`cli/app.py`) | none of its own | the commands that drive the above | a dead run is repaired | in the module each command drives |
| Power, agreement, prompts, harnesses, instances, built-in scorer | none | functions over floats or text | - | not modelled |

How they interact: `run start` calls the engine inside `asyncio.run`. The engine calls the workspace
backend in worker threads, awaits the recorder, writes the bundle and the run directory, and upserts
rows. `evaluate run`, `research dataset`, `research infer`, `research report`, `store reindex` and `run reconcile` are
other processes that read and write the same run directory and the same tables. Evaluation, dataset
and inference each take a file lock of their own, report, reindex and reconcile take none, and none of them
keeps away from a live run. The agent, the scorer, and any process they leave behind share
directories with the code.

What is hard: three awaits per trial at which another trial, a cancellation or a timeout gets in
between; `asyncio.gather`, which returns at the first exception and leaves the other trials running;
a crash between any two files; agents that fork, ignore signals, commit, exchange the Git pointer,
hold pipes open or outlive their attempt; a dataset built while evaluations are deleted and made
again; tests on what is left after losses. `PROJECT.json` lists each of these hazards at its line
with the properties that would notice it going wrong.

## 2. The modules

Each module also holds, next to the definition it stands for, operators marked `mutant:` that contain
the mistake a plausible edit would make. No specification uses them. They show that each property
notices a mistake.

### RunEngine, EvidenceLedger

One execution of a plan. A trial's coroutine holds the event loop except at its three awaits, so the
model has one action per stretch of code between two awaits, and inside the last stretch (which
writes files a crash can separate) one action per file.

| Model | Code in `execution/runner.py` |
|---|---|
| `pc`, `verdict`, `interrupted` | where `run()` is, and the result or exception it will be resumed with |
| `task[t]` | where `_run_trial` is: `materializing`, `recording`, `capturing`/`committing` are its awaits; `finalizing`, `outcomes`, `sealed`, `published` are file by file; `returned`, `raised`, `cancelled` its ends |
| `loop` | the trial in its last stretch, during which no other coroutine runs |
| `permits`, `dispatchCount`, `batch`, `active`, `maxActive` | the semaphore and the counters that `design_deviations` and `max_active` come from |
| `files[t]`, `run`, `runEpisodes`, `runRow` | evidence on disk, `run.json`, the row |
| `drift`, `edits`, `copied`, `snapshot`, `manifest` | versions of trees: edits of the source, edits of each workspace by its agent and by what the agent left behind, the version copied, staged by `git add`, and read by the manifest |
| `Open`, `Materialized`, `RecordReturns`, `CaptureAdd`, `CaptureDone`, `Finalize`, `Seal`, `PublishEpisode`, `IndexEpisode` | `_run_trial` from its first line to its return |
| `MaterializeFails`, `RecordRaises`, `CaptureFails`, disjuncts of `Open`, `Finalize`, `Seal`, `IndexEpisode` | its exceptions, inside and outside the try block |
| `Interrupt`, `Cancel...`, `Sweep` | Ctrl-C cancelling the main task, CancelledError at each await, the cancellation at the end of `asyncio.run`. An exception of a pump can replace the CancelledError (`RecordRaises`): the trial then goes on as a failed one and is sealed |
| `Begin`, `BeginRow`, `CloseRun`, `CloseRow`, `Exit` | `run()` |

A workspace is the number of edits it contains; a file is its presence, and a write is one step (the
steps inside `atomic_write` are in `RuntimeCache`; a full disk is not modelled); the fault a step
meets is a choice guarded by membership in `Faults`. A second Ctrl-C, which ends Python with
KeyboardInterrupt, is a `Crash`. The preflight check of a confirmatory study at the head of `run()`
raises before anything exists and is left out.

`EvidenceLedger` is the promise to a reader of a run directory: the evidence of a trial is absent,
attempted, sealed, published and never goes back; the run is opened, then closed once, with a status
its published episodes justify; in a carry-forward study a trial is attempted only after completed
ones. `MCRunEngine` maps the engine's files to it and checks the refinement at every crash point.

`MovesUntilItEnds` says why the command comes to an end without mentioning fairness. `NeverStuck`
lists, from the code, what lets a coroutine run: while the command is not over, one of them can.
`Forward` counts the stages that `run()` and each trial have before them: no step adds to them, and
every step of the program itself takes one away. `EndsClean` says what is left. `CommandEnds` adds the
one thing missing, that a program which can move does.

### Recorder, Framing

`Recorder` is one call of `record_process`. The agent writes lines, may fork a descendant that holds
the pipes and may leave the process group, ignore SIGTERM, or not read its stdin. `sup` is where the
coroutine is: `spawn`, `stdin` (the drain before the try block), `waiting`, `grace`, `killed`,
`cancelling`, `joining`. `PumpReads` is one turn of a pump: raw write, chunk record, one event per
line. `TranscriptWriter.append` never suspends while it holds its lock, which makes that one step.
`launch` is what the call was given, one choice per behaviour of the code: whether there is a stdin,
whether the adapter has terminal kinds (a custom command has none, and is the one that uses stdin),
whether stdout is decoded as JSONL or as text. Its last field, `eofWait`, is a difference between Python
releases: in some, a `wait()` that is already pending returns only when both pipes have been closed
too. `ProcessResult` is what a returned call hands to the engine.

A raw file is a prefix of what the agent wrote; `LossHasItsReason` says when it may be a proper one.
The documents promise the full raw bytes (`docs/how-it-works.md:31`,
`docs/architecture/design-principles.md:27`), which the code does not keep once a pump has died.

`Framing` is the byte level of one pump: chunks cut anywhere, the line buffer, and the offset
arithmetic `chunk_offset + len(chunk) - len(buffer) - len(line)`. The lines are kept as a sequence in
the order they are handed to the decoder, so a line handed over twice, or two that overlap, show.

### Evidence

One attempt from the source workspace to a score, with four others at work: an editor of the source,
the agent, the scorer, and the processes those two leave behind.

| Model | Code |
|---|---|
| `source`, `workspace`, `head`, `index`, `pointer` | trees as functions from paths to nodes (plain files, links inside or out of the tree, special files, nested repositories, files Git ignores on export or rewrites), the last commit, the staging area, and whether `.git` still names the trusted repository |
| `Baseline`, `Copy`, `CommitInitial` | `validate_source`, the digest check of `_run_trial`, `copytree` path by path, `materialize` |
| `Add`, `ListFinal`, `CommitFinal` | `capture_final`: `git add`, diff and status; the manifest; the commit. Every Git command first checks the pointer |
| `loose`, `Covered` | what may still change beside the files `RawBundle` writes: a file below `artifacts/`, one there that is named `seal.json` (which the sealed list passes over, `recording/bundle.py:38`), and the raw streams with the transcript, which a pump that outlived its call appends to |
| `ListArtifacts`, `Seal`, `SealIsValid` | the two walks of `artifacts/`, the sealed list, and `validate_seal` over all of it |
| `Validate`, `Export`, `Matches`, `SameOrder` | the seal check of `evaluate_run`, `git archive` through the workspace's own pointer, extraction, comparison of the two sorted lists |
| `ProtectFails` | making the snapshot read-only follows links and fails on one that leads nowhere |
| `Start`, `Deadline`, `Kill`, `ReadOutput`, `Judge`, `Strict` | the command scorer: process group, SIGTERM, two seconds, SIGKILL, output files, the snapshot compared before and after, strict parsing of the reply |
| `ExecutionIntegrity`, `PinsDrifted` | the built-in scorer; pinned files that changed |
| `found`, `quiet` | history: the tree the agent started on; nobody interfered and all entries were ordinary from the beginning, those of the source included |

### Research

What happens to a run after (and while) its episodes are sealed: processes that evaluate, build
datasets, infer, rebuild reports and reindex beside an engine that may still be publishing.

| Model | Code |
|---|---|
| `evaluation[k]` | the directory of one (episode, repetition) slot: nothing, cleared, with `evaluation.json`, with `manifest.json`; which attempt made it, and its result |
| `row`, `indexed` | the evaluations and analyses tables |
| `blinding`, `datasets`, `analysis` | `blinding/map.json`, published datasets, the two files of each analysis |
| `proc[p]` | the command a process runs, and what it has read |
| `Evaluate`, `Reuse`, `Clear`, `Score`, `Publish`, `IndexEvaluation`, `WriteMap`, `Summarise` | `_evaluate_run_unlocked`, under `evaluate.lock` |
| `OpenDataset`, `ScanEpisode`, `PublishDataset` | `_build_dataset_unlocked`, under `dataset.lock`: episodes are read one after another |
| `Infer`, `WriteResults`, `WriteManifest`, `IndexAnalysis` | `_infer_run_unlocked`, under `analysis.lock` |
| `RebuildReport`, `RewriteManifest` | `rebuild_report`, without a lock: it writes `report.md`, and then the manifest it had read with the digest of the new report |
| `Reindex`, `ReindexReads`, `ReindexWrites`, `ReindexAnalyses` | the second half of `IndexStore.reindex`, without a lock |
| `Fail` | a kill or an exception at any step; the lock goes with the process |

A dataset is its inputs; an analysis is named by the rows of its dataset, which are fewer, so two
datasets can meet in one analysis. That is why an analysis is a function of rows and keeps the
dataset of each of its files. The version of the application, which the name of an analysis also
depends on, is held fixed. One version rebuilds a report byte by byte as it was, so the text of reports
is not told apart; nor are files that a person has changed.

### StudyDesign, Inference

`StudyDesign` takes a study document through `StudySpec`'s validators, the compiler (comparison sets,
rotation, shuffle, batches, parents) and the diagnostics of the plan; the hashes that seed rotation
and order are free choices. `Inference` extends it: a compiled plan is observed (`Observe`, what a
row of the dataset holds for each planned episode) and analysed (`Analyse`): failure and missing
policies, units of the three designs, effects, permutation tests that enumerate relabelings or draw
them, censoring, and Holm's adjustment (which takes equal p-values in any order). That a test keeps its
level is stated in two halves: `EnumeratedTestIsValid` counts the relabelings that would have got a
p-value as small as the one reported; `DrawnTestIsValid` counts, over all sequences of an observed
labelling and the draws that follow it, those that would. The draws of a report are such a sequence,
seeded by the dataset. `HolmIsClosedTesting` compares the adjustment with the closed test at every level where
either of them changes: the adjusted p-values and the Bonferroni bounds of the families. Values are binary, probabilities are fractions, effects are integers scaled by the group sizes, so every comparison is exact; the code compares floats with a
tolerance of 1e-15.

### IndexStore

The runs and episodes tables beside the files. Runs write their files and then the matching row;
`reindex` reads a run, upserts it, then its episodes, one transaction each, while runs go on. After a
trial has raised, and even after `run.json` and its row are written, other coroutines may still seal and
index episodes until the event loop lets go of them (`failing`, `leaving`).
`Reconcile` is what `lsm run reconcile` does today. Episode ids are a function of the plan, as in the
compiler, so `PlanOf` decides whether two runs share them.

### RuntimeCache, CachedObject

Processes that fetch one pinned runtime: the file lock, the download, the four steps of
`atomic_write` (temporary file, fsync, rename, fsync of the directory), chmod, and the checks after
the lock is released. `target` is what readers see, `durable` the set of things a power loss may
leave. Syncing a directory is taken to keep the path that leads to it, which journalling file systems
do; the code syncs no other directory.

`CachedObject` is what a user of the cache sees: an object that is absent, published (whole, but a
power loss may take it back) or permanent, and the processes that were handed it. `RuntimeCache`
implements it with `ObjectSeen`, which reads the object's state off `target` and `durable`, and
`Users`, the processes whose fetch has returned. A torn target, a target that disappears, or a return
before the object is permanent has no counterpart there.

### Proof modules

One beside each component's module: `RunEngineProofs` (which also extends `MCRunEngine` for the
refinement mapping), `RecorderProofs`, `FramingProofs`, `EvidenceProofs`, `IndexStoreProofs`,
`ResearchProofs`, `RuntimeCacheProofs`, and `StudyProofs` for `StudyDesign` and `Inference` together.
Section 5 says what they hold.

## 3. Runs

| Run | Instance | What it shows |
|---|---|---|
| `engine_concurrent` | 3 trials, 2 permits; missing runtime, edited source, failing recorder, locked index, Ctrl-C, crash | batches as planned, at most two attempts, `run.json` saying "completed" only for a complete run; the row never contradicts it; cancellation leaves a whole chain or no seal; nobody waits for everybody (`MovesUntilItEnds`); the command ends |
| `engine_lineage` | 3 trials in sequence, every fault but edits of the source, one edit per workspace | the chain outcomes - seal - episode - row at every crash point; no trial after an episode that is not completed; a child inherits its parent's sealed workspace but for two exceptions the property names; what the engine has sealed is final; the engine implements `EvidenceLedger` |
| `recorder_supervision` | 3 lines on stdout and 1 on stderr, pipes of 2, all line kinds and agent behaviours, 4 launches, 2 cancellations | what the raw files lack has its reason, and nothing is moved; a closed transcript is dense; chunk records tile the raw file and events lie in recorded bytes; a result is exactly what was printed and nothing can write any more; supervision ends once no descendant holds the pipes, except in a `wait()` that needs the end of a clogged pipe |
| `framing` | all streams of up to 7 bytes, all cuts into reads of up to 4 | the lines, one after the other, and their offsets are those of the whole file |
| `index_two_plans` | 2 runs of 2 plans, 2 trials each, 2 reindex commands, crash, lock, lost database | rows show only what files said; an undisturbed reindex restores runs and episodes; a row of a finished run lags only after the one race `raced` records; episodes published after the close included |
| `evidence` | 2 paths, 2 edits, every kind of node, every behaviour of agent and scorer | the initial manifest is what the agent found; a score that counts was given to the sealed tree; an attempt nobody disturbed is exported as sealed, and scored unless the two orders of its paths disagree; every scoring ends |
| `research` | 2 episodes, 2 processes, 2 crashes, 2 datasets, reports rebuilt at any time | datasets stay grounded; the blinding map is last; one confirmatory analysis of complete data; an analysis is that of its dataset; what is published is never made again; rows follow evaluations |
| `study` | every small document, and every set of observations of 1 to 3 arms with up to 9 trials | the gate decides; confirmatory results lost nothing; enumerated and drawn tests are valid; Holm's adjustment is the closed test |
| `runtime_cache` | 3 processes, 3 deaths or power losses | the cache implements `CachedObject`: whole or absent, permanent when returned; a runtime that is found can be run |

Three runs each violate one sentence of the repository's documents:

| Run | Finding |
|---|---|
| `engine_four_outcomes` | line 260 labels an episode `completed` when its protocol, capture or workspace outcome failed but its process succeeded; `docs/architecture/design-principles.md:29` wants all four |
| `recorder_descendant` | the leader forks a descendant that keeps its pipes, and exits by itself: `wait()` returns, so no signal is ever sent, and the join of the pumps, outside the timeout, waits as long as the descendant lives; `docs/how-it-works.md:27` wants a timeout to kill the group |
| `evidence_changes` | changed files and diff are taken against HEAD, which is the agent's own commit once it commits in its workspace: they then omit its work, which `docs/architecture/design-principles.md:33` wants reviewable |

The models contain further divergences that no run states as a property of its own.

Engine and workspace:
- the executable's digest is read outside the try block (`execution/runner.py:137`), so a missing
  executable leaves an attempt without outcomes (first disjunct of `RunEngine!Open`);
- a link among the artifacts raises inside the finally block (line 195) and leaves captured evidence
  unsealed; `artifacts.json` is listed before the seal walks the same directory, so the two can differ;
- a carry-forward child copies the live directory of its parent (line 76), not what was sealed, against
  `docs/how-it-works.md:14` and `docs/architecture/design-principles.md:20`: a process its parent left
  behind can make it newer, and a parent whose capture failed counts as completed and hands on a
  workspace no manifest describes (the exceptions of `ChildInheritsParent`);
- the source baseline is compared before the copy and not after it, against
  `docs/how-it-works.md:13`; the initial manifest at least tells (`InitialIsWhatTheAgentFound`);
- `git add`, the manifest and the commit read the tree at different times, and a nested repository, a
  special file, `export-ignore` or rewritten line ends make commit and manifest differ without any
  race, against the comment "byte-for-byte aligned" at `workspaces/backend.py:191`. The comparison at
  export refuses all of these, so no score counts (`CountsAsSealed`); a nested repository without a
  commit makes the capture itself fail.

Recorder:
- an event that cannot be encoded (a lone surrogate) ends the stdout pump (`recorder.py:173`) and
  loses the bytes that were still in the pipe, against the full raw bytes the documents promise (the
  exceptions of `LossHasItsReason`); what the agent prints next can fill the buffer, and then a `wait()` that
  needs the end of the pipes never returns (the exception of `SupervisionEnds`); `gather` raises and the other pump still writes while
  the caller seals (`JoinFails`), or, in a cancellation, the exception replaces the CancelledError;
- a broken pipe in `drain()`, also when a running agent has closed its stdin, leaves the child running
  and unsupervised (`DrainFails`), and an agent
  that does not read a long stdin blocks the attempt outside every timeout.

Evaluation:
- `_snapshot_entries` sorts paths by component, the manifest sorts strings: a tree with `tests/`
  beside `tests.py` is always refused, though `tests/test_research.py:331` claims that nested order is
  accepted (`HonestAttemptCounts` states that the intact export is accepted exactly if the orders agree);
- a file named `seal.json` below `artifacts/` is not in the sealed list (`recording/bundle.py:38`) and can
  change under a valid seal (`Covered`);
- a link that leads nowhere inside the tree survives the export and makes the evaluation fail
  afterwards, when the snapshot is protected (`ProtectFails`);
- an episode whose capture failed has no `git_commit`; the KeyError is not caught and the whole
  `evaluate run` aborts (`Export`), against `docs/how-it-works.md:67` and `:73`;
- NaN passes both metric bounds (`Strict`); pinned support files are read again after their digest was
  checked; descendants of a scorer share the file its output is read from (`ReadOutput`).

Index and research:
- the second run of a plan overwrites the episode rows of the first (`storage/index.py:100`);
- reconcile raises KeyError on `run["path"]` (`cli/app.py:502`) and marks nothing;
- two exploratory datasets with equal rows collide in one analysis, and the second is refused; the
  row of an analysis lost to a crash comes back only with reindex;
- `rebuild_report` takes no lock and writes the report before the manifest; a crash in between matters
  only when the version of the application has changed, for otherwise the report is the same;
- a version 1 document that sets `study_mode: confirmatory` itself is accepted.

Runtime cache:
- a crash between rename and chmod leaves a target that is refused for its mode and never made
  executable again; chmod is not synced.

### Bounds

- *Three trials on two permits* is the smallest instance in which a trial waits for the semaphore
  while two others hold it: order of waiters, batches of unequal size and a permit released by a
  failure all need it. In a lineage three trials give a parent that is itself a child.
- *One edit, one drift* (engine): the properties compare versions, and one edit already separates any
  two reading times.
- *Three lines on stdout, one on stderr, pipes of two* (recorder): chunks of one, two and more lines, a
  chunk cut by the dying pump, a pipe that fills up after its pump has died, and both orders of terminal
  and other events; stderr is copied and never decoded. *Four launches*: an adapter with terminal kinds
  under both semantics of `wait()`, and custom commands with stdin, as JSONL and as text. *Two cancellations* because the
  second one abandons the first's wait.
- *Seven bytes, reads of four*: two complete lines, empty lines and a rest spread over several reads,
  and several lines in one read. The offset arithmetic only adds lengths.
- *Two runs, two reindex commands*: the race needs one of each; the second command shows repair.
- *Two paths, two edits* (evidence): one path may differ while the other agrees, their names are
  `d/f` and `d-f`, whose two orders differ; two edits let the agent commit and then write, or write
  after one reading and again after the next. The source holds a plain file, a link that leaves
  it or one that leads nowhere; the other nodes come from editors and agents.
- *Two episodes, one repetition, two processes, two faults, two datasets* (research): one slot can be
  done while the other is being cleared, scored or read; each lock is contended or free; one fault
  leaves an evaluation without a manifest and one an analysis; two datasets with equal rows meet in
  one analysis (an unscored slot that becomes "omitted" does not change a row). The processes are
  symmetric; the one action property treats them alike, and no liveness is checked, so symmetry is sound.
- *Small documents* (study): one to three arms, one to three repeats, up to two conditions and two
  blocks, which give sets of every size and strata of one and two; lists of up to two sets in every
  order, longer ones in two orders. Observations are enumerated for two arms with up to four trials
  and any losses, for blocks of eight trials and for three contrasts of three arms with one loss.
  `permutations` is 36 (everything is enumerated) or 3 (tests are drawn), for a real document's at
  least 100: the formulas compare it with the number of relabelings, which is at most 36 here.
- *Three processes, three crashes* (cache): one that holds the lock, one that finds its file, one that
  waits; a death and a power loss before and after each.

`CHECK_DEADLOCK` is off for `study` only, where a document's life ends. Elsewhere a system that has
stopped takes an explicit step (`Over`, `Stop`), or can always begin another command.

### Fairness

`RunEngine!FairSpec` is weak fairness of `System` as a whole: the event loop runs something that is
ready, worker threads and `record_process` come back. The last part is an assumption
`recorder_descendant` shows to be false for some agents; it is what separates the liveness of the
engine from that of the recorder. `Interrupt`, `Crash` and edits by others are never fair.

`Recorder!FairSpec`: timers expire, pumps and the supervisor run when they are ready, exits are
reaped, and an agent that does not ignore SIGTERM dies of it. An agent is never obliged to end on its
own. It is assumed to read its stdin unless it is `deaf`.

`Evidence!Spec` is weakly fair to `Evaluation`: the evaluator takes its next step, the deadline
expires, and a killed process dies. Nothing is assumed of agents, scorers or editors; a scorer that
neither answers nor obeys is ended by `Deadline` and `Kill`.

`Research` and `RuntimeCache` state no liveness: any process may be killed at any time, and the code
promises only that nothing wrong is left behind.

## 4. What is only model-checked

- Liveness: `CommandEnds`, `SupervisionEnds`, `ScoringEnds`. The proof system has no rules for
  fairness and ENABLED. Of `CommandEnds`, everything but the rule itself is proved: the program can
  always move and every move brings it nearer to its end (`MovesUntilItEndsHolds`). What no proof
  covers is that the condition of `NeverStuck` is that under which `System` is enabled.
- The type invariants of `Evidence`, `IndexStore`, `Recorder`, `Framing` and `RuntimeCache` are not
  stated as theorems of their own: each is the first conjunct of the inductive invariant of section 5.
- What the three runs that expect a violation show.

## 5. What is proved

Every theorem holds for every value of the constants, under the named assumptions of the module it
is about. Each rests on an inductive invariant that was checked with TLC on small instances before
it was proved.

| Theorem | Property | Argument |
|---|---|---|
| `TypeCorrect` | `RunEngine!TypeOK` | inductive as it stands; one step lemma per group of variables, one case per action |
| `EvidenceChainHolds` | `EvidenceChain` | not inductive: `PublishEpisode` needs to know that a trial at `sealed` has its seal. `LifeInv` says for each stage of a trial which files exist |
| `SealedForGoodHolds` | `SealedForGood` | from `LifeInv`: a step that changes outcomes, manifest, batch or status belongs to a stage without the file that covers them |
| `LineageHolds` | `LineageIsCompleted` | `LineageInv`: every earlier trial has returned with a completed episode, and a returned trial stays as it is; `LifeInv` gives a returned trial its seal and episode |
| `NoDesignDeviationHolds` | `NoDesignDeviation` | `DispatchInv`: the trials that were dispatched are the first `dispatchCount` ones, because waiting tasks are cancelled all together or not at all (`SameFate`) and the semaphore is first in, first out |
| `BoundedConcurrencyHolds` | `BoundedConcurrency` | `PermitInv`: free permits and attempts in flight make up the concurrency; the counter equals the number that record |
| `RowFollowsRunHolds` | `RowFollowsRun` | `RunFile`: `run.json` is written before its row, once to open and once to close, and before any evidence |
| `CompletedRunIsCompleteHolds` | `CompletedRunIsComplete` | `Closing`: `gather` has results only when the last coroutine returned, and a returned one rests; `Indexed`: it left its row; `LifeInv` gives it the rest |
| `CancelledIsAllOrNothingHolds` | `CancelledIsAllOrNothing` | from `LifeInv`: a cancellation is thrown only where the coroutine waits, which is before the seal or after the row |
| `ChildInheritsParentHolds` | `ChildInheritsParent` | `Versions` adds `Captured`: which of `edits`, `snapshot` and `manifest` a trial has at each stage, that they agree unless it left a process running, and that a manifest is missing only where the capture failed; the parent of a child is at rest (`LineageInv`), so only a leftover process edits its workspace |
| `ImplementsLedgerHolds` | `ImplementsLedger` | step-wise refinement of `EvidenceLedger` under `Stage`: one lemma per step that moves a stage, all others stutter. Needs `RunFile`, `Closing` and `AnswerInv` (an attempt whose process has no outcome is being cancelled and gets no `outcomes.json`) |
| `MovesUntilItEndsHolds` | `MovesUntilItEnds` | `NeverStuck`: if no trial in flight can go on, none is in flight, so all permits are back (`PermitInv`) and the next in the queue has its turn (`Waiting`); if there is no next, all have ended and `gather` has its answer (`Hopeful`). `Forward`: one case per step. `EndsClean`: the sweep waits for the last trial and the run was closed before it (`Closed`) |
| `LossHasItsReasonHolds` | `LossHasItsReason` | `Copied`: raw file, then pipe, is what was written; `Ended`: a pump that is done has emptied its pipe and nobody writes to it any more; `Reasoned`: a pump dies only of a line that is already in the raw file, or in a call that has raised |
| `ReturnIsCompleteHolds` | `ReturnIsComplete` | `Supervised` says what is known of the child at each place of the supervisor, `Ended` that a pump is done only when its pipe is empty and nobody can write to it, and that only done pumps let the transcript be closed |
| `ClosedTranscriptIsDenseHolds` | `ClosedTranscriptIsDense` | `Counted`: while no pump is dead, the counters are the numbers of entries and events, because a record is numbered and appended in one step. `Framed`: only a closed transcript ends with `process.finished`; a closed one has no dead pump (`Ended`) |
| `TranscriptFollowsRawHolds` | `TranscriptFollowsRaw` | `Tiled`: each byte of the raw file lies in exactly one chunk record, each chunk begins where an earlier one ended, and none reaches beyond the file; `Backed`: an event lies in a chunk recorded before it |
| `ResultMatchesOutputHolds` | `ResultMatchesOutput` | `Counted`: events, errors and the terminal flag tell of the lines of the raw file, which is all that was printed when the supervisor returns, and `ProcessResult` adds the launch's terminal kinds; `Supervised`: a timeout that did not fail has sent its signal |
| `SameAsWholeFileHolds` | `SameAsWholeFile` | `Tailed`: the buffer is what follows the bytes taken, without a newline between two reads; `Handed`: the lines are adjacent and not empty, say what the file holds at their offsets and end exactly at its newlines so far. The first newline of the buffer is therefore the next one of the file, however the file was cut |
| `IndexShowsOnlyFilesHolds` | `IndexShowsOnlyFiles` | `Life`: what a run has written, and what its rows may show, at each stage; `Walk`: what reindex carries in its hands was read from files that only grow |
| `RowLagsOnlyAfterRaceHolds` | `RowLagsOnlyAfterRace` | `LagInv`: of a run that ended, reindex still holds the last status, unless the race was recorded |
| `RunsRestoredHolds`, `ReindexRestoresHolds` | `ReindexRestores` | `RestoreInv`: in a quiet reindex the runs it has left behind are restored, row by row; an episode row written later for another run of the same plan still stands for an episode that one of these runs has published, and there is no other run if the plan was run once |
| `InitialIsWhatTheAgentFoundHolds` | `InitialIsWhatTheAgentFound` | `CopyInv`: up to the launch only the copy writes the workspace, and the initial manifest is that of the copy |
| `CountsAsSealedHolds` | `CountsAsSealed` | `ScoreInv`: a scorer is only started on a snapshot equal to the sealed manifest, no step after the seal writes the list, and the last step compares every listed file again; files that only grow and are as long as sealed were so when they were counted |
| `HonestAttemptCountsHolds` | `HonestAttemptCounts` | `HonestInv`: while nobody interferes, every tree read or written after the agent is the agent's last one (`Undisturbed`), so export and sealed manifest agree and only their orders can differ; `Judged` ties the score to what the scorer replied |
| `ResearchTypeCorrect` | `Research!TypeOK` | what a process carries at each stage (`Plain`), where the lock is (`Places`), and the number of attempts, which crashes bound (`Attempts`) |
| `DatasetsStayGroundedHolds` | `DatasetsStayGrounded` | `ResearchInv`: the lock makes the evaluator unique (`OneEvaluator`), and it only touches a directory without a manifest (`Progress`); so what a scan has read stays true (`Scans`), and with it what a dataset names (`Grounded`) |
| `BlindingMapIsLastHolds` | `BlindingMapIsLast` | from the same: an evaluator knows that the slots it has left behind are final, and `SlotsArePlanned` that these are all if its episodes are |
| `AnalysisMatchesItsDatasetHolds` | `AnalysisMatchesItsDataset` | `AnalysisInv`: the lock makes the process that infers unique; it starts only where no manifest is, so the results it replaces belong to nobody, and the manifest follows while the results are its own (`UnderWay`) |
| `ConfirmatoryAnalysisIsUniqueHolds` | `ConfirmatoryAnalysisIsUnique` | `Scope`: a dataset reads only evaluations of the episodes it lists; `Accepted`: nothing incomplete is analysed. With `Grounded`, two complete datasets read the same evaluations (`CompleteIsEverything`) and so are one |
| `RowsFollowEvaluationsHolds` | `RowsFollowEvaluations` | `Behind`: the rows of the slots an evaluator has left behind are current or in `stale`; nobody else evaluates meanwhile (`OneEvaluator`) |
| `PublishedIsFinalHolds` | `PublishedIsFinal` | from `ResearchInv` and `AnalysisInv`: who clears or writes a directory found it without a manifest, and its lock kept everybody else away since; a report writes back the input it has read, which is the one still there (`RewriteIsSilent`) |
| `ConfirmatoryStudiesCompileHolds` | `ConfirmatoryStudiesCompile` | no counting of trials: trial `o` sits at a remainder of `o - 1` in the set that is the quotient (`TrialPlace`); a set holds every arm once, turned by its repetition (`SetHasEveryArm`), and turning further pairs the trials with an arm at one place with those at another, which is a bijection when the repetitions are a multiple of the arms (`EquallyOften`). Holds for every order of the sets, drawn or listed |
| `ConfirmatoryMeansNothingLostHolds` | `ConfirmatoryMeansNothingLost` | `DataInv`: a compiled plan is sound (`SoundPlan`: its sets are complete and its contrasts compare arms it has); a contrast without losses has analysed all its planned rows (`AllIsAnalysed`) |
| `HolmIsClosedTestingHolds`, `HolmIsClosedTestingEverywhereHolds` | `HolmIsClosedTesting`, the second at every level below one | a family is significant exactly if its smallest p-value is; the family that decides for a contrast is the tail of the sorted order that begins where the running maximum is reached (`HolmRanks`, `AdjustedIsSignificant`, `UnadjustedIsNot`), in whichever order ties are taken; a running maximum of candidates capped at one is at most one (`AdjustedAreFractions`) |
| `EnumeratedTestIsValidHolds` | half of `PermutationTestIsValid` | of the relabelings that are as extreme as the observed one, take the least extreme: all the others lie in its tail, so they are at most as many as its p-value counts (`FewAreExtreme`). Holds for every number of relabelings |
| `DrawnTestIsValidHolds`, `PermutationTestIsValidHolds` | `PermutationTestIsValid` and its other half | the observed labels and the draws are exchangeable. Of any n + 1 labelings at most k + 1 have at most k others at least as extreme (`FewHaveFewRivals`); exchanging the observed one with each draw counts every sequence n + 1 times (`PairsAtMost`, `PairsAtLeast`), so at most (k + 1)/(n + 1) of the sequences get a p-value that small. Holds for every number of draws and of relabelings |
| `TargetIsWholeHolds`, `FoundMeansRunnableHolds`, `ReturnedSurvivesHolds` | those of `RuntimeCache`; two of them are what `ImplementsCachedObject` needs and no run states them | `CacheInv`: a process between look and chmod is alone (`Exclusive`); its file is synced before the rename and the directory before chmod (`Written`, `Kept`), so a power loss leaves the target absent or whole and never takes one back that runs; without crashes a target that does not run has its writer behind the lock (`Finished`) |
| `ImplementsCachedObjectHolds` | `ImplementsCachedObject` | step by step under `ObjectSeen` and `Users`, from `CacheInv`: the rename publishes, the fsync of the directory settles, a return hands over, a power loss takes back at most what was not settled; everything else stutters |

The assumptions on the constants are those a real study or machine meets. `PolicyAssumption` of the
engine (a carry-forward plan has concurrency 1) is a validator of the domain model;
`RecordResultsAssumption` and `EvidenceAssumption` list what a process, a node, an agent and a
scorer may be; the engine's and Research's bounds are numbers. `RunsAssumption` (`"none"` names no
run), `PlanOfAssumption` and `NTrialsAssumption` describe the plans of `IndexStore`;
`LineKindsAssumption`, `BehavioursAssumption`, `LaunchesAssumption` and `BoundsAssumption` the choices of
`Recorder` (a pipe holds something); `NewlineAssumption` and `SizeAssumption` say that no ordinary
byte is a newline and a read may return a byte. `DraftsAssumption` gives the fields of a document the
ranges its validators enforce: at least one repeat, permit and permutation, finitely many contrasts.

Frame lemmas (`OthersAlone` and `OwnStep` in the engine, `Becomes` and `WhoComesLater` in the
research) reduce a step of the system to a step of one process that leaves the others alone.
Induction over numbers and finite sets is done by least counterexample (`LeastNumber`,
`FewestFirst`), from the library's theorems about well-founded sets.

Three proof attempts failed because the model was wrong, and changed it. `HonestAttemptCounts` is
false for a source that holds extraordinary entries from the start, which the instance then did not
have: the source now may, and `quiet` says so. Holm's procedure was written with a sort by a strict
order, which defines nothing when two p-values are equal: any ascending order will do, as the code's
sort may leave ties in the order they came. And the model of documents lacked the ranges that the
divisions in the compiler rely on, now `DraftsAssumption`.

## 6. Not modelled, and why

- bootstrap intervals, the power formula and Krippendorff's alpha: floating point, without state;
- the numbers in summaries and the text of reports; a crash between `report.md` and the manifest that
  names its digest;
- prompts, harness adapters, instance packages and the counts of the built-in scorer: functions of
  text that keep nothing; what an adapter makes of a line is a kind of line in `Recorder`;
- the parsing, printing and option handling of the CLI; the pinning of files and the serialisation of
  plans in the compiler; the uniqueness and reference checks of documents;
- the contents of files and their digests: a digest is an injective name.

## 7. Plan

1. The version of the application as part of an analysis' name, with reports rebuilt by another version.
2. The other modules write files through `atomic_write` in one step; `CachedObject` could stand for
   each of their files.
