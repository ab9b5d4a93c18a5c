# TLA+ models of pi-bmad-pipeline

The package runs one *story* through a compiled pipeline of agent and code
stages, keeps its progress in one durable JSON file, and declares the story done
only with a *final scope receipt*: evidence that the code a review approved is the
code in the worktree. These modules model that state, the runner that drives it, the
run action around the runner, the lock that keeps two runs apart, the executors that
run a stage's process, what they read from it, and the Git observations behind a
receipt; TLC checks them on small instances and TLAPS proves the central invariants
for all of them.

Paths below are relative to the repository root (`src/src/...` is the package's
TypeScript; `src/README.md` and `src/CONTEXT.md` are its documents).

    tlc -workers 2 -config RunnerCore.cfg MCPipelineRunner     # any run of the table below
    tlapm RunnerProofs.tla                                     # any *Proofs module

## 1. Inventory

| Component | State it keeps | Operations | Hard behaviour | What makes it correct |
|---|---|---|---|---|
| Stage evaluation kernel `core/stage-decision.ts`, `routing.ts`, `budgets.ts`, `runner-evaluation.ts` | none (pure) | decide one executor result; route it; check budgets; classify | order of the failure checks; ceilings at the boundary | a failed check never continues; a regression goes strictly backwards and below the ceiling; no stage starts over budget |
| State and transitions `state/pipeline-state.ts`, `core/runner-transitions.ts` | the state file's contents | mark running, apply outcome, apply error, attach checkpoint/receipt, reset, invalidate, correct, finalize | long legal sequences: regress, resume, correct, regress again | approvals cover what they claim; evidence is append-only; history, attempts and spending agree |
| Repair `state/state-reconcile.ts` | none (pure) | reconcile a file on resume, first incomplete stage | attempt interrupted by a kill, numbers used again | a repaired file is valid and says the same as its histories |
| Validation and store `state/fs-state-validation.ts`, `scope-receipt-validation.ts`, `fs-state-store.ts` | the file | load, validate, atomic save | a transition whose result the store refuses | no runner state is ever refused |
| Pipeline runner `core/pipeline-runner.ts` | `context.state`, the step it is at | correction, legacy recovery, stage step, final step, finalize | kill or abort at every await; retry of a recovery; budget met half way | file and memory never part; every invocation ends; recovery applied once |
| Scope attestation `core/scope-attestation.ts`, `actions/git-scope-attestor.ts`, `security/final-scope-receipt.ts` | none; reads the worktree | attest a review, attest the final scope, backfill | worktree and base change between observation and use | a receipt covers code a review has seen |
| Run action `actions/run-pipeline-*.ts` | none; holds the lock | resolve the starting state, adopt or refuse it, run, settle | throws at every step; lock released on all of them | one result per run; a refused recovery writes nothing |
| Dispatch lock `state/dispatch-lock.ts` | a directory and an info file | acquire, reclaim, release | several processes, crash in the middle, torn file | one holder; a leftover lock never blocks |
| Executors `executors/code`, `executors/pi` | the child process | run, collect, time out, abort, escalate kills | races of exit, timeout, abort and stream end | exactly one settlement |
| Agent output `executors/pi/headless-jsonl-parser.ts`, `headless-stream-output.ts`, `run-bmad-stage.ts` | the parser's buffers | push a chunk, finish, choose the terminal output, add up usage, build the result | chunks cut anywhere; torn, forged and foreign output | the chunks do not matter; one output decides |
| Run definitions `rundef/` | none | discover, validate, select, compile, compare | edited between two runs of one file | a file keeps its pipeline; what compiles fits the runner |
| Payload gates `gates/` | none | judge a payload | payloads that contradict themselves | no critical finding passes unseen |
| Events `events/` | none | emit | a sink that throws | one result, last |
| Command line, model configuration, redaction | none | parse flags, print | | outside of what a state model helps with |

How they interact. The action takes the lock, loads and repairs the file and calls
the runner. The runner is a loop around one variable, `context.state`; each
iteration starts an executor and awaits it, computes the next state with a pure
transition and awaits the save before the next effect. It asks the attestor
(Git commands) after a passed review and at the end. There is no shared memory
between processes: the file, the lock directory and the worktree are all they
have in common, and the children of a stage write only the worktree.

The full list of hazards, each at its line, is in `PROJECT.json`.

## 2. Modules

| Module | Models | Kind |
|---|---|---|
| `StageEvaluation` | the kernel | operators |
| `PipelineState` | state, transitions, repair, validation | operators |
| `PipelineRunner` | the runner, the attestor's answers, the starting state, interruptions, the worktree | state machine |
| `RunnerProperties` | what is asked of it, and its refinement of the ledger | properties |
| `ScopeLedger` | what the file promises to a reader that only looks at approvals and receipts | abstract specification |
| `ScopeAttestor` | one attestation, read by read, in a repository others change | state machine |
| `DispatchLock` | the lock, one step per await, for several processes | state machine |
| `RunDefinitions` | discovery, validation, selection, compilation and comparison of RunDefs | operators |
| `RunActions` | runs of one story by several processes, from the request to the result | state machine, composition |
| `StageProcess` | one execution of a stage by either executor: its process group, timers, events and settlement | state machine |
| `PayloadGates` | the four payload gates | operators |
| `AgentOutput` | an agent's stdout, from its lines over chunks and records to the stage decision | state machine, composition |
| `MC...` | small pipelines, results, worktrees, processes, catalogs, streams and repositories | instances |
| `RunnerProofs`, `RunnerEvidenceProofs` | transitions and the runner's order; what its file proves to a later reader | proofs |
| `RunActionsProofs` | the lock, and the runs that use it | proofs |
| `FoldLemmas` | sums over finite sets, and what the largest member of one is: cited by the proofs of the runner and of the agent output | lemmas |
| `AgentOutputProofs`, `ScopeAttestorProofs`, `ScopeLedgerProofs`, `StageProcessProofs` | one component each | proofs |

`PipelineRunner` EXTENDS `PipelineState`, which EXTENDS `StageEvaluation`. `RunActions` EXTENDS
`DispatchLock` and `RunDefinitions`, takes their steps as its own, and instantiates
`StageEvaluation` with what a RunDef compiles to. `AgentOutput` EXTENDS `PayloadGates` and
`StageEvaluation`: its last step is the kernel's decision. Definitions
keep the names of the source; `map` in `PROJECT.json` gives the lines of each.
A definition whose name is another's with a suffix (`RepairStageOffByOne`) is a
plausible bug of it: substituted for the original, it makes the property it is
listed with under `mutants` fail.

### State of the runner

`disk` is the state file and `mem` the runner's `context.state`. `pc` is the await
the invocation is suspended at:

| `pc` | in the code |
|---|---|
| `idle` | no invocation (the lock is free) |
| `correct` | before `maybeApplyTerminalCorrection` |
| `recover` | before `persistLegacyReviewRecovery` |
| `select` | a review of an earlier runner has been reset: before the choice of the first stage |
| `step` | top of `runLoop`: `runStageStep`, or `runFinalScopeStep` when `cur` is `NoStage` |
| `exec` | awaiting the executor |
| `attest` | a passed review is saved and its scope not yet attested |
| `finalize` | before the save of `finalizeRun` |

A transition is `Transition(st, continue)`: `context.state` is assigned, the store
validates, the file is replaced, or the save throws and the run is over. The two
are one step because nothing else can see the moment in between; the death of
the process is an action of its own (`Die`), possible at every `pc`, and a
throwing save has the same effect. `BackfillCheckpoint` is the exception the code
makes: its failing save is caught and rolled back.

The worktree is five numbers: branch, synchronized default base, whether HEAD is at that
base, ahead of it or diverged, and the contents of reviewed and of
documentation paths. A child may edit contents and move HEAD while it runs
(`StageEdits`); anything may happen between invocations (`TreeChanges`), except
that the base does not go back.

`examined` is the one ghost variable: the latest review attempt this model has seen
pass, the code it ran on and the attempts of all stages then. No guard reads it.

### Data left out

Story, model and RunDef identity (fixed for the life of a file), timestamps except
whether `finishedAt` is set, reasons and messages. Attempts are identified by
their number where the code correlates them by number and finish time. A digest is
the number of its content. The two ceilings of a budget are one. Findings and
handoffs are the attempt they came from, which is what the properties ask about.

### Dispatch lock

`acquireDispatchLock` is `Mkdir`, then `WriteInfo`, or `ReadInfo`, `CheckStale`, the two steps of
`rm -r` (`Unlink`, `Rmdir`) and one more `Mkdir`. `Release` is the same removal,
without looking whose lock is there, as in the code. A write may be torn by a crash
or an I/O error (`Malformed`). `old` says that a holder is older than the stale period.

### Stage process

`run` holds the executor's `RunState` with its two timers and its abort listener; each callback of the event
loop is one action (`TimeoutFires`, `AbortRequested`, `KillTimerFires`, `ErrorEvent`, `CloseEvent`), and `CheckAborted` is
the end of the first callback, after the spawn. Between callbacks the processes act:
a helper is started, a process exits with any code, the findings file is written or half written. `traits` is
chosen once: code or agent, who ignores SIGTERM, which helper holds the child's
output and which has left the process group. The executors differ as in the code:

| | code stage | agent stage |
|---|---|---|
| signals go to | the process group | the direct child |
| asked to stop | once | once for each reason |
| resolved by | `close`, or the kill timer | `close` only |
| kill timer after settlement | kept if terminating | cleared |
| findings | lifted after exit 1 without a flag | none |

The diagnostic and the text of the findings are data. The output stream is, too, except
for when it is complete; what it says is `AgentOutput`'s.

### Agent output

A line of output is two symbols, the halves of a character it cannot be read without: the
smallest line that a chunk, an encoder or a decoder can cut where it hurts. `DataEvent` gives the parser any
part of what was written and not yet given, as `bytes` or as `text`; `parser` is its state, with the bytes
of an unfinished line (`pending`), the high surrogate a text chunk ended with (`held`), and what the
streaming decoder keeps (`carry`). `CloseEvent` is `finishParsing`, the choice of the terminal
output, the result and the kernel's decision about it, which `on("close")` makes in one go. An envelope
carries two bits, accepted (emission key and schema) and expected (of this workflow), and a payload with what the
gates tell apart, among it whether there is a record of counts at all (`counted`) and which of the counts in it are numbers. `wrote` is a ghost: the parser only ever sees chunks.

### Run action

`act` is where a process is in `runPipelineAction`, `pc` where it is in the lock. `def` is the RunDef it has
compiled from the catalog of that moment (each run finds another one), `mem` the state it works on, `out` the events its
sink has taken; `last` is a ghost, the file as this process loaded or saved it last. A
sink that throws is one "lost" event, wherever in a sequence of events. The runner is what it saves: any number of stages,
an approval made or dropped, an end with or without a save, a throw. A file is reduced to the RunDefs it names and its
approvals; digests are the RunDefs themselves. `EarlierFiles` are files of a runner version
that kept no copy of the RunDef. A process may die anywhere; another may then take its lock over.

### Scope attestation

`pc` is the await of an attestation, `todo` the reads of that await that have not returned, in whatever order
they will, `got` the answers, `obs` what earlier awaits established. `repo` has the branch, both default refs, HEAD, index and
worktree; between any two reads somebody may edit, stage, commit, fetch, switch to a new branch
or bring the branch up to date (`RepositoryChanges`). Assumed of the environment: refs only advance, the default
branch is one line of commits, origin/HEAD keeps its name, and one Git command or one file read is an
instant. A staged deletion and a staged addition of contents Git finds `Alike` (equal ones are, of others the constant says) are one
renamed record of the status, because the attestor asks for it without `--no-renames`; it is rejected. `seen` is a ghost: what was true of the repository while it was looked at.
`PipelineRunner` answers an attestation in one step; `QuietAnswer` says that this
is right for an undisturbed one, answer by answer.

## 3. Runs

| Run | Instance | Asks | Distinct states |
|---|---|---|---|
| `RunnerCore` | develop, review, verify; metered; 2 invocations on files of every version; aborts, deaths, executor and attestor failures; code edits | types, synchronization, approval coverage, saves never refused, ledgers agree, rejections explained, backfill possible, budget, append-only evidence | 1,250,846 |
| `RunnerAttended` | same pipeline, 2 uninterrupted invocations on files of every version, moving base and branch | the receipt covers examined code; regressions and approvals have their price; every invocation ends, its rounds paid for | 18,647 |
| `RunnerRecovery` | four stages, 3 invocations, deaths, recoveries for 2 reasons, edits of code and documents | recovery recorded before work, reruns after it, superseded once; refinement of `ScopeLedger` | 752,368 |
| `RunActions` | 2 processes that may die, changing catalogs, files of an earlier runner, recoveries, a throwing sink | no lost update, one result, lock given back, "passed" is durable, a file keeps its pipeline, refusals justified, what compiles fits the runner | 2,383,741 |
| `ScopeObservation` | code and documents, 3 default commits, 2 attestations, 4 changes | base synchronized, deletions confirmed, stale bases real, undisturbed answers exact | 3,497,475 |
| `LockContended` | 3 processes at once, crashes, holders that outlive the stale period | fresh locks are held; acquisitions end | 332,438 |
| `StageChild` | either executor, one helper of any kind, timeouts, aborts, failed spawns, supervisor deaths | results without a reason are final and untouched; a terminated stage gives no verdict; output complete; group killed; everything settles | 180,096 |
| `AgentOutput` | 3 lines of any kind, whole or torn, in chunks of any size, every gate, every exit | chunks do not matter; the last own output decides; usage is whole; a passed review is clean | 3,605,320 |
| `RunnerStaleReview` | violation | the receipt covers examined code, once an abort is possible | |
| `RunnerInheritedReview` | violation | a review inherited without checkpoint runs again | |
| `LockExclusion` | violation, 2 processes at once | exclusion | |
| `ScopeTornReceipt` | violation, 1 attested file, 3 changes | a receipt compares every changed path | |

### Bounds

*Pipelines.* Three stages are the least in which a stage lies between a regression
target and the stage that regresses (verify sends work back past the review); the
fourth of `RunnerRecovery` adds a stage after it, and documents the review does
not cover. One review per pipeline: with two, a lost checkpoint cannot be rebuilt at
all (`passedReviewQualityGate` wants exactly one), which the proofs cover and
`BackfillIsPossible` does not.
*Results.* One per class the kernel tells apart: passing, rejecting with findings,
no output, lifted findings, another exit code, aborted, timed out, and with usage
below and above the ceiling.
*Invocations* (`MaxRuns`). Two give a resume or a recovery of whatever the first
left; three give a recovery of a finished recovery, or of one that died. Three
versions of the file (1, 2 and 3) start the runs whose properties depend on how a file began.
*Regressions.* Ceiling 1: below and at the ceiling, once each; the counter is shared
by rejections and invalidated approvals, so the two compete for it.
*Worktrees.* Two contents, two bases, two branches, three positions of HEAD: enough
for equal, changed and changed back.
*Processes.* Three for the lock: one that holds it, one that reclaims, and one that gets in between.
For a stage one helper besides the child, with every combination of ignoring SIGTERM, holding the
output and leaving the group; two (4.5 million states) show nothing new, and the
proofs are for any number. The two reasons bound every counter.
*Runs of one story.* Two processes, any of which may be killed and its lock taken over, are a loader and
the one that saves behind its back. Acquisitions do not overlap and no holder is six hours old
(`Overlap`, `MayAge`): with either, exclusion fails, which is `LockExclusion`'s and the lock's own matter. The
catalogs hold the pipeline, the same with another timeout, with another command, and with
each mistake the schema rules out, alone, beside another file, twice, or not at all. The events of a run bound `out`, recoveries the archive.
*Attestations.* Two: a checkpoint, and the final attestation it is compared with, or a second review. Four changes
let the base move forth twice, a file be edited, staged, committed, and brought back, or one be staged as deleted and another one with its
contents as added; three suffice for the torn receipt. Of unequal contents none are alike in the run, any may be in the proofs.
*Streams.* Three lines are the least with something before and after a line that matters, and
two outputs with a usage report between or around them. Chunks are cut at every symbol.

`CHECK_DEADLOCK FALSE` everywhere: an idle runner with its invocations used up, or a
lock whose processes have all ended, is meant to stop.

### Fairness

`RunnerAttended`, `LockContended` and `StageChild` assume some. `WF_vars(RunnerStep)`: at each `pc` but
`exec` the runner awaits a local file operation or a Git command; at `exec` the
executor settles, because `ExecutionSettles` says so, with its one exception: an agent whose
helper keeps the output open. Starting, aborting, dying and editing are not fair.
The lock assumes that the file operations of a running process return. A stage assumes that
armed timers fire and due events are delivered while the supervisor lives, and that
a process a SIGTERM has reached exits unless it ignores the signal; SIGKILL takes
effect at once. Nothing else a process does is fair: it may run, write and fork for ever.

`RunsEnd` has two halves, because the stage loop can fail to end in two ways. A round that is not charged to the regressions (a revoked
approval, say) makes the attempt counters grow, so no state comes back and no finite counterexample to a leads-to exists; the first half bounds
every stage's attempts by the invocations and the regressions charged, and an uncharged round breaks it. A
round that changes nothing (a rejected final scope asked for again) is a cycle, and violates the second half. Each half has its mutant.

### Disagreements found

* `RunnerStaleReview` (code). `resetRegressionTarget` makes only its target pending;
  a review between target and failing stage stays `passed`. In memory the run
  comes past it again, but when it stops after the target has passed, the resume
  goes to the first *incomplete* stage, skips the review, and the final step
  backfills a checkpoint of the present code for the old attempt. The story is done
  with code no review has seen. Uninterrupted runs are right (`RunnerAttended`).
* `LockExclusion` (code). A process that looks between another's `mkdir` and its
  write of the info file finds no holder, takes the lock for stale and removes it.
  Serial acquisitions are right: `SerialExclusion` proves it, and `RunActions` shows what follows
  from it for the file (`NoLostUpdate`).
* `ScopeTornReceipt` (code). The committed paths are those of the HEAD an attestation reads first, the uncommitted
  ones those of a status it takes later, and only an observation with a deleted path is
  confirmed afterwards (`git-scope-attestor.ts:112`, `:133`). A file edited, staged and committed in between is in neither:
  a receipt is made without it, although `README.md:70` wants committed scope attested "so a clean
  worktree cannot hide post-review committed drift". `AbsentScopeIsWhole` shows that the
  confirmation closes this where it is made.
* `RunnerInheritedReview` (document). A version 1 file that *needs attention* is terminal, so the
  legacy reset skips it; its review is attested without being run again.

Noted while modelling, without a run of their own:

* A recovery retried on a terminal file keeps `finishedAt` while it runs (`runner-transitions.ts:125`);
  `pipeline-state.ts:269` has it for terminal states.
* Nothing removes the findings file before a code stage runs, so a command that exits 1 before writing it
  hands an earlier attempt's findings to the `onFail` stage (`findings-lift.ts:89`); `findings-lift.ts:80` rules that out for executions
  without a verdict.
* A line of agent output that ends inside a character (a log line that is not UTF-8) leaves its first bytes in the streaming
  decoder, which puts them at the start of the next line: that line is lost, its usage too, and with it the exception in
  `UsageIsWhole`. A line of nothing but such bytes is ignored without an issue.
* The lenient review gate passes an `approved` verdict with critical counts, which its documentation calls
  compatibility; `PassedReviewIsClean` is about the other two review gates.
* `release` swallows a failing removal of the lock directory: the run is over and the lock is
  left to the next one, which finds no live holder. Not modelled.
* `withActiveRunDefIdentity` changes nothing on an ordinary resume: only a timeout-only recovery passes the identity
  check with another RunDef.
* `CONTEXT.md:64` says a nonzero exit of a code stage never enters regression; exit 1
  with lifted findings does (`stage-decision.ts`, modelled as in the code).
* `CONTEXT.md:52` says a handoff is replayed unchanged on resume and `README.md:60` that a recovery's reason is
  in the reset target's findings; `buildFinishedStage` drops both when the
  target's next attempt fails.
* A run budget is looked at only after it was spent, so each resume executes one more
  stage (`NoSpendingPastBudget` therefore speaks of the stages after the first).
* A holder older than six hours loses its lock while it runs, by design.
* An agent stage whose helper holds its output stays open after SIGKILL of the child, with the run
  and its lock; `executors/CONTEXT.md` documents that only the direct child is signalled.
* `.pi/plans/code-stage-type.md:314` promises that no descendant survives a timeout or an
  abort. That holds of the process group while the supervisor lives (`GroupIsKilled`), not of
  a helper that left the group, nor if a second SIGTERM ends the supervisor during the grace period.
* A resumed run reuses the number of the attempt its predecessor died in.

## 4. Proofs

### Assumptions

Of the constants (TLC evaluates each in the runs): `StageDefsAssumption` (what the RunDef
schema enforces: at least one stage, `onFail` names an earlier stage, reviews
are gated agent stages), `RunnerAssumption` (the types of results, ceilings,
budgets, reasons, worktrees and versions), `DispatchLockAssumption` (markers
are no processes), `ApprovalsAndSeals` (shapes of the ledger's values), `HelpersAssumption`
(the child is not its own helper), `RunDefinitionsAssumption` and `RunActionsAssumption` (types of catalogs, requests and
earlier files), `AttestorAssumption` (types; no file is called like a ref), `AgentOutputAssumption` (the kinds and fields of lines). That
`StageDefsAssumption` is what a RunDef that compiles satisfies is itself proved: `CompiledPipelinesFit`.

Some theorems need more than the types. Each hypothesis is a named definition, holds in the run that checks
the property, and says where the property stops being true:

| Hypothesis | Of | Without it |
|---|---|---|
| `~Overlap`, `~MayAge` | mutual exclusion, `NoUpdateIsLost`, `PassedRunsAreDurable`, `ShapesAreKept`; `RefusalsAreJustified` needs the first only | two holders: `LockExclusion` |
| `VersionsMayHoldReceipts` | `SavesAreNeverRefused` | a version 1 file of a pipeline *without* a review, all of whose stages passed before it needed attention, is resumed straight to the final receipt; `scopeAttachmentFeatureVersion` (`runner-transitions.ts:597`) raises the version only of pending and running files, and the store refuses the save |
| `OneReview` | `BackfillFindsItsReview` | `passedReviewQualityGate` wants exactly one review |
| `Attended(review)` | `ReceiptsCoverExaminedCode` | any stop between a regression and the review's next attempt leaves the old approval to be rebuilt: `RunnerStaleReview`. A stage or run budget exceeded by a *passing* stage before the review is such a stop. A gate that sends work back to a stage *behind* the review needs no stop: the next attempt lies behind the review, and the checkpoint that the regression dropped is rebuilt for code written since |
| `NestedRejections` | `RejectionsAreExplained`, `RejectionsAreHandedOver` | with crossing rejections (two gates, the later one sending work back between the earlier one and its target) a stage may run again for a reason of its own while an older rejection of it is long answered, and TLC finds the property violated. The pipelines under `.pi/bmad/pipelines` send all work back to one stage |
| `RejectionsHaveFindings` | `RejectionsAreExplained` | a gate rejects a malformed payload without findings. `RejectionsAreHandedOver` says what is left then: the handoff |

### Runner

`RunnerProofs`: `TypeOK`, `InSync`, `ChildIsRecorded`,
`ApprovalCoversPrefix` and `ReceiptMeansComplete` hold for every pipeline, result set,
worktree set and number of invocations (`ChildIsRecorded` and `ReceiptMeansComplete` are proved only, no run checks
them any more). None is inductive alone. That an approval covers a
prefix survives `MarkStageRunning` only if the stage about to run lies
after the approving one, and that is a fact about where the runner is, not
about the file. The invariant `RunnerInv` is therefore

* `Orderly(disk)`: nothing is skipped, a running stage follows passed ones only,
  an approval covers its prefix, a receipt everything; and
* `Position`: at `step` with stage `s` the state has `Reached` it (all before it
  passed, nothing else running, any approval older than `s`, no receipt), at the final step all is
  passed, at `exec` the file names the stage, at `attest` everything up to the review is
  passed and `nxt` is its successor, at `finalize` the verdict is terminal.

The first part of `RunnerProofs` shows once per transition that it keeps states well-formed and
orderly, and `EvaluationShape` that the kernel only ever continues to the next stage or
regresses to an earlier one. The second has one lemma per action and three for the ways an
action ends (`EndRunKeepsInv`, `ContinueKeepsInv`, `TransitionKeepsInv`). A subtle
step is `ReviewInvalidated`: it reads `checkpoint.stage` without a check, and
is safe because without a checkpoint the attestor compares the worktree
with what it has just observed (`FreshObservationHolds`). The proofs also found the arms of a `CASE` overlapping where the
code has an `if` chain (an aborted result that has timed out, too); they are disjoint now.

`RunnerEvidenceProofs` proves the rest of what the runs check of the runner, in layers.

*What the file says* (`EvidenceInv`, for every pipeline). The file is `Accounted`: attempt numbers count the history, a
passed stage ends in a passed attempt, approval, receipt and superseded receipts name attempts that are there. `Progress`
ties that to the program point: a recovery beyond its eligibility check has its record, an invocation that has
worked has budget left. `FileStep` sums up what *one* step may do to the file (create it, touch no evidence, add an attempt,
send work back, approve, seal, revoke, supersede), once for all actions; the action properties and the refinement are read off it:
`EvidenceOnlyGrows`, `EveryRegressionIsEarned`, `EveryApprovalLossIsCharged`, `EverySupersessionIsGuarded`, and `RunnerImplementsLedger`,
where every kind of step is one action of `ScopeLedger` or a stutter.
`FileLedgerIsConsistent` then applies the theorem about the ledger to the state file itself (`INSTANCE ScopeLedgerProofs WITH`).

*What it has spent* (`LedgersAgree`). `spent` is maintained step by step and also recomputed from the histories on every load;
that the two never differ relates a running total to two nested folds, over the stages and over a history of any length. The
library's induction theorems take an operator, which no installed prover instantiates. `FoldLemmas` takes the smallest
counterexample instead: the folds are recursive functions over the subsets of a finite set, and a nonempty set of such subsets has
a minimal member (`SmallestSubset`, from `FS_StrictSubsetOrderingWellFounded` and `WFMin`). That gives existence of the sums,
independence of the order of summation (`SumsAgree`, `SumSplits`) and, for the state, three lemmas of `RunnerProofs` a step can cite: `SameHistoriesSpendTheSame`,
`NothingIsSpent`, `OneMoreAttemptSpends`.

*What a round costs* (`RoundsArePaidFor`, the first half of `RunsEnd`, for every pipeline and with every interruption). The bound on the attempts is not inductive: that a
stage has not yet used the round it is entitled to is known only of those this pass of the loop may still come to. `Ahead` reads them off the program point, and `RoundsPaid` counts one
round more for each. A settled stage leaves `Ahead` (`AttemptKeepsPaid`); whatever puts stages back into it is charged (`KeptKeepsPaid`) or is a new invocation.

*What a receipt covers* (`ExaminedInv`). The property compares the final receipt with the ghost `examined`. It is kept because an approval
in the file is of the examined attempt and code (`Covered`), and a passed review *without* approval is still `Owed`
an earlier stage, so that no resume can skip it, or the invocation is `OnTheWay` to it. The last disjunct is what an interruption
destroys, and why `Attended` is needed.

*What a rejected stage is told* (`AnsweredInv`). Whatever stage runs next, no rejection waits behind an unfinished stage
(`QuietAfter`), and of the stages that have rejected the one about to run, one is the first that rejected anything, its findings and handoff are those the file holds
for it, and all stages between have passed (`Explained`). The general case has several rejections open at once: a verify rejects,
the rerun is rejected by a gate before it. `NestedRejections` makes the later one the one to answer.

### Lock and runs

`RunActionsProofs`, first part, the lock: types and `FreshLockIsHeld` with no restriction; mutual exclusion
under `~Overlap /\ ~MayAge`, the strongest form that is true, from an invariant that
says who may stand between which steps while an info file of which kind is there. `HoldersAreNamed`, again without restriction: the process
the info file names holds the lock, is giving it back or was killed. With that and whose turn it is (`TurnInv`) `RefusalsAreJustified` follows.

The second part composes: `RunsUseTheLock` shows every step of a run to be a step of the lock's protocol or none, so the theorems
about the lock are cited, not repeated. `PointInv` ties `act` to the lock's `pc`, `ResultInv` to the events given, `ValidInv` the
file and the working state to what the store accepts, and `LastInv` says that behind the lock `last` is the file. From these come all
eight properties of the run `RunActions`.

### Attestor

`ScopeAttestorProofs`: the reads of an attestation are no snapshot, and no invariant over one state says what they have in common. The argument is order:
refs and HEAD only move forward (`RepoLeq`), so a ref read twice with the same answer has not moved in between, and all that was read between has one
instant in which it was true together (`SyncInv`, `SettledInv`, `WholeInv`). `IsStill` covers the reads of one await, whatever their order. `QuietInv` compares
each stage with the one-step answer, which is what entitles `PipelineRunner` to its one-step attestor. A force push or a reset would break the
order; the module rules both out, and nothing is claimed of them.

### Ledger and stage process

`ScopeLedgerProofs`: every behaviour of `ScopeLedger` keeps a seal equal to the
standing approval, done sealed, and superseded seals ordered by run and never standing
again (for the state file: `FileLedgerIsConsistent`).

`StageProcessProofs`: `TypeOK`, `UnflaggedIsUntouched`, `TerminatedIsNoVerdict` and
`OutputIsComplete`, for any set of helpers. The invariant adds what no property says: a
reason, the kill timer and the signals come together (`ReasonsAndSignals`), nothing armed outlives a settlement but
the kill timer of a terminated code stage (`SettlementIsFinal`), and a child that is gone
has left an exit code (`PhasesInOrder`). `TerminateStep` and `ResolveStep` cover what the five
callbacks share.

### Agent output

`AgentOutputProofs`: for every set of lines and streams of every length,

* `PassedReviewsAreClean`: a review passes the strict or the critical-only gate only for the active story and without a
  critical finding. `DecisionInv` keeps the decision tied to the output it was made from; the rest is what the two gates reject.
* `ChunksDoNotMatter` (`ParsingIsIncremental`): the parser is in the state one chunk with the whole stream so far would have put it in.
  The parser's loop is a fold, a recursive function over sets of indices; `PushIsRun` and `RunIsPush` turn it into a
  sequence of states that starts with the parser and takes one symbol per step, again by smallest counterexamples. `PushJoins` is then that a
  run over two parts is a run over the whole, `PushHolds` that what is held back plays no role in a run. The difficulty is in text mode, where each
  chunk is decoded for itself: `DecodedApart` shows that replacing lone halves before and after a border
  is replacing them in the whole, exactly because a trailing first half is held back for the next chunk. `ChunksJoin` puts these together, and
  `StreamGrows` says that what the child writes later does not change what it has written before.
* `LastOutputsDecide` (`LastOwnOutputDecides`) and `AllUsageCounts` (`UsageIsWhole`): what is decided, and what is added up, is what the
  child wrote. Neither is inductive: both speak of a parser at the end of a stream that was cut anywhere. `ChunksDoNotMatter` does away with the cuts: at
  "close" the parser is what one chunk with the whole stream gives (`ClosedInv`), and that is a function of what was written. So `ToldInv`
  follows the child, not the pipe: after every whole line, *one chunk with all of it* is `Settled` (nothing held, nothing pending,
  the decoder keeps at most the half character a `cut` line broke off with) and has `Told` what was written: the gated output of its records is the last
  own line, the usage of its records is what was reported, and it has issues exactly when some line is flawed. The step is `WholeLineRead`
  for a line with its newline and `LastPartRead` for one without it, torn or not, which only the end of the stream reads; `ToldOnceMore` says what
  that line adds to the records and the issues. A `cut` line is why the statement has two halves: the half character it leaves behind spoils the
  line after it, so from then on the records say nothing, but the issues say that the stream is not clean, and that is enough to fail the stage.
  `LastIndex` and `TotalGrows` are the two facts about an index set with one more member, for records and for writes alike.

### Model-checked only

Liveness (the second half of `RunsEnd`, `AcquisitionEnds`, `GroupIsKilled`, `ExecutionSettles`): out of the prover's reach, as is `ENABLED`. Every invariant
and every action property that a passing run checks is stated by a theorem as well.

No module declares a recursive operator.

## 5. Not modelled, and why

*Left out whole.* Argument vectors, environment and log capture of the agent's command line, redaction, event formatting,
command-line parsing and the precedence of model configuration have
no state that steps of others could disturb. Paths, hashes and the canonical form of
scopes are data. Loops, landing scripts, review-gate Python and checkpoint tooling (`.pi/`, `scripts/`,
`src/src/checkpoints`) are separate programs around the package.

*Left out of a modelled part.* In `PipelineRunner` the worktree changes only while a child runs and between
invocations. What may happen during an attestation is `ScopeAttestor`'s; the moment between the end of a review's child and
the first read of its attestation is in neither, because no code could close it. Process ids are
not reused: the kill timer that outlives a settled code stage may in principle signal a group that has
its predecessor's id. A holder that runs for more than six hours loses its lock by
design; `LockContended` shows only that fresh locks stay safe. A failing removal of a released lock and
a state file edited by hand are left out. `ScopeAttestor` has one worktree of regular files: the committed diff detects no renames, a
symbolic link is one more rejection (but for the one the code sanctions, which is like a file), and submodules do not occur. Commits never leave the history.
Of a status with renames only that it is rejected matters: which of several alike paths Git pairs is left out, and so are a rename limit, copies and a
`status.renames` of the user's configuration, with which the same change would be a deletion and an addition.

## 6. Plan

Done: all components of the table in section 2, model-checked; proofs of kernel, state, runner, ledger, lock, stage process,
runs, attestor and the way from an agent's output to the decision. What is left is what `ReceiptsCoverExaminedCode` and
`RejectionsAreExplained` say of pipelines outside of their hypotheses: the exact set of stops after which a receipt may cover unseen code.
