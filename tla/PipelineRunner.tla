--------------------------- MODULE PipelineRunner ---------------------------
(***************************************************************************)
(* The pipeline runner: one invocation at a time (a dispatch lock is held  *)
(* around it, see DispatchLock) takes the durable state of one story from  *)
(* stage to stage (core/pipeline-runner.ts), asks the Git attestor for     *)
(* review checkpoints and final receipts (core/scope-attestation.ts,       *)
(* actions/git-scope-attestor.ts), and persists every transition before    *)
(* the next effect.  An invocation may be aborted, may die between any two *)
(* steps, and may be repeated, as an ordinary resume or as a terminal      *)
(* recovery (actions/run-pipeline-execution.ts).                           *)
(*                                                                         *)
(* "disk" is the state file, "mem" the runner's context.state.  A program  *)
(* point stands for the await or the save the invocation is suspended at.  *)
(*                                                                         *)
(* An operator whose name is that of the one below it with a suffix is a   *)
(* plausible bug of it; the runs notice each of them (PROJECT.json).       *)
(***************************************************************************)
EXTENDS PipelineState

CONSTANTS
    Results,        \* the raw results an executor may return
    Ceilings,       \* the maxRegressions an invocation may be given
    RunBudgets,     \* the run budgets an invocation may be given
    Reasons,        \* the (normalized) reasons of a terminal recovery
    MaxRuns,        \* bound: number of invocations
    Trees,          \* the worktrees the environment may leave
    Versions,       \* runnerFeatureVersion of the files found at the start
    Interruptions   \* which of "abort", "die", "error", "attestor" may happen

\* A worktree: branch, synchronized default base, where HEAD is relative to it,
\* and the contents of its reviewed paths and of its documentation paths.
TreeType == [branch: Nat \ {0}, base: Nat \ {0}, head: {"atBase", "ahead", "diverged"},
             code: Nat \ {0}, docs: Nat \ {0}]

ASSUME RunnerAssumption ==
    /\ Results \subseteq ResultType
    /\ Ceilings \subseteq Nat
    /\ RunBudgets \subseteq Nat \cup {Absent}
    /\ Reasons \subseteq Nat \ {0}
    /\ MaxRuns \in Nat
    /\ Trees \subseteq TreeType
    /\ Versions \subseteq 1..RunnerFeatureVersion
    /\ Interruptions \subseteq {"abort", "die", "error", "attestor"}

VARIABLES
    disk,       \* the state file
    tree,       \* the worktree
    pc,         \* where the invocation is suspended; "idle" without one
    mem,        \* context.state
    run,        \* the invocation: run id, ceilings, recovery request, abort signal
    cur,        \* the stage runStageStep works on; NoStage is the final step
    nxt,        \* the stage the evaluation of cur routed to
    verdict,    \* the outcome to finalize, or of the last invocation
    examined    \* ghost: the latest passed review attempt, the code it has seen
                \* and the attempts of every stage at that time

vars == <<disk, tree, pc, mem, run, cur, nxt, verdict, examined>>

ProgramPoints ==
    {"idle", "correct", "recover", "select", "step", "exec", "attest", "finalize"}
Verdicts == {"none", "done", "failed", "needs-attention", "thrown", "invalid-state"}

\* No state file, and the worktree has no record of it.
NoFile == [InitialState EXCEPT !.status = "absent"]

NoRun(id) == [id |-> id, ceiling |-> 0, budget |-> Absent, expected |-> 0, reason |-> 0,
              aborted |-> FALSE, worked |-> FALSE]

\* A file an earlier runner left behind, before there were checkpoints: it had
\* passed the first k stages and then stopped, or was killed.
LegacyState(version, k, status) ==
    [InitialState EXCEPT
        !.version  = version,
        !.status   = status,
        !.finished = (status \in TerminalStatuses),
        !.stages   = [s \in StageIds |->
                        IF s <= k
                        THEN FinishedStage(InitialStage, TRUE, "passed", Absent)
                        ELSE InitialStage]]

LegacyStates ==
    {LegacyState(v, k, status) : v \in Versions \ {RunnerFeatureVersion}, k \in 0..N,
                                 status \in {"running", "needs-attention"}}

Init ==
    /\ disk \in {NoFile} \cup LegacyStates
    /\ tree \in Trees
    /\ pc = "idle"
    /\ mem = NoFile
    /\ run = NoRun(0)
    /\ cur = NoStage
    /\ nxt = NoStage
    /\ verdict = "none"
    /\ examined = [stage |-> NoStage, attempt |-> 0, code |-> 0,
                   attempts |-> [s \in StageIds |-> 0]]

-----------------------------------------------------------------------------
(* Leaving an invocation, and persisting a transition *)

\* The invocation is over; the lock is released and nothing is persisted.
EndRun(v) ==
    /\ pc' = "idle"
    /\ mem' = NoFile
    /\ run' = NoRun(run.id)
    /\ cur' = NoStage
    /\ nxt' = NoStage
    /\ verdict' = v

TransitionUnsaved(st, continue) == mem' = st /\ UNCHANGED disk /\ continue

\* transition(): context.state is set, then the state file is replaced
\* atomically; a state that does not validate is refused and ends the run.
Transition(st, continue) ==
    IF IsPipelineState(st)
    THEN mem' = st /\ disk' = st /\ continue
    ELSE EndRun("invalid-state") /\ UNCHANGED disk

-----------------------------------------------------------------------------
(* actions/git-scope-attestor.ts: what the attestor observes *)

ObservedCheckpointReusesId(gate) ==
    [run |-> IF run.expected = 0 THEN run.id ELSE run.expected, stage |-> gate.stage,
     attempt |-> gate.attempt, branch |-> tree.branch, base |-> tree.base, code |-> tree.code]

ObservedCheckpoint(gate) ==
    [run |-> run.id, stage |-> gate.stage, attempt |-> gate.attempt, branch |-> tree.branch,
     base |-> tree.base, code |-> tree.code]

AttestorMayFail == "attestor" \in Interruptions

FinalScopeResultTrusting(checkpoint) ==
    IF checkpoint.branch # tree.branch THEN "rejected"
    ELSE IF checkpoint.base = tree.base THEN "final-receipt"
         ELSE IF tree.head = "diverged" THEN "rejected" ELSE "review-base-stale"

\* finalScopeResult for an approval: a receipt, or why there is none.
FinalScopeResult(checkpoint) ==
    IF checkpoint.branch # tree.branch THEN "rejected"
    ELSE IF checkpoint.base = tree.base
         THEN IF checkpoint.code = tree.code THEN "final-receipt" ELSE "review-invalidated"
         ELSE IF tree.head = "diverged" THEN "rejected" ELSE "review-base-stale"

-----------------------------------------------------------------------------
(* actions/run-pipeline-execution.ts: resolveStartingState *)

NewRun(ceiling, budget, expected, reason) ==
    [id |-> run.id + 1, ceiling |-> ceiling, budget |-> budget, expected |-> expected,
     reason |-> reason, aborted |-> FALSE, worked |-> FALSE]

Enter(st) ==
    /\ pc' = "correct"
    /\ mem' = st
    /\ verdict' = "none"
    /\ UNCHANGED <<cur, nxt>>

StartFresh(r) ==
    /\ disk = NoFile
    /\ r.expected = 0
    /\ run' = r
    /\ disk' = InitialState
    /\ Enter(InitialState)

StartResume(r) ==
    /\ disk # NoFile
    /\ IsPipelineState(disk)
    /\ r.expected = 0
    /\ run' = r
    /\ disk' = ReconcilePipelineState(disk)
    /\ Enter(disk')

StartRecovery(r) ==
    /\ disk # NoFile
    /\ IsPipelineState(disk)
    /\ r.expected # 0
    /\ disk.status = "done" => ReconcilePipelineState(disk) = disk
    /\ run' = r
    /\ Enter(disk)
    /\ UNCHANGED disk

\* Preparing throws: no file to recover, an invalid file, or a done state that a
\* recovery would have to repair first.
StartThrows(r) ==
    /\ \/ disk = NoFile /\ r.expected # 0
       \/ disk # NoFile /\ ~IsPipelineState(disk)
       \/ /\ disk # NoFile /\ r.expected # 0
          /\ disk.status = "done" /\ ReconcilePipelineState(disk) # disk
    /\ run' = NoRun(r.id)
    /\ verdict' = "thrown"
    /\ UNCHANGED <<disk, pc, mem, cur, nxt>>

Start ==
    /\ pc = "idle"
    /\ run.id < MaxRuns
    /\ \E ceiling \in Ceilings, budget \in RunBudgets :
       \E request \in {<<0, 0>>} \cup ((1..run.id) \X Reasons) :
         LET r == NewRun(ceiling, budget, request[1], request[2])
         IN  StartFresh(r) \/ StartResume(r) \/ StartRecovery(r) \/ StartThrows(r)
    /\ UNCHANGED <<tree, examined>>

-----------------------------------------------------------------------------
(* core/pipeline-runner.ts: maybeApplyTerminalCorrection *)

CorrectionInProgressAnyReason ==
    /\ mem.superseded # <<>>
    /\ Last(mem.superseded).expected = run.expected
    /\ mem.status \in {"pending", "running", "failed", "needs-attention"}
    /\ ~HasCheckpoint(mem) /\ ~HasReceipt(mem)

\* The correction was already applied by an invocation that did not finish.
CorrectionInProgress ==
    /\ mem.superseded # <<>>
    /\ Last(mem.superseded).expected = run.expected
    /\ Last(mem.superseded).reason = run.reason
    /\ mem.status \in {"pending", "running", "failed", "needs-attention"}
    /\ ~HasCheckpoint(mem) /\ ~HasReceipt(mem)

\* inferTerminalCorrectionResetTarget; NoStage is undefined.
CorrectionTarget(receipt) ==
    IF /\ receipt.stage \in StageIds
       /\ IsCodeReviewStage(receipt.stage)
       /\ StageDefs[receipt.stage].onFail < receipt.stage
    THEN StageDefs[receipt.stage].onFail
    ELSE NoStage

CorrectionScopeHoldsForCode(receipt) ==
    /\ FinalScopeResult(CheckpointOf(receipt)) = "final-receipt"
    /\ tree.head = "atBase"

\* verifyCorrectionScope: the attested receipt equals the active one and HEAD is
\* still its base.
CorrectionScopeHolds(receipt) ==
    /\ FinalScopeResult(CheckpointOf(receipt)) = "final-receipt"
    /\ ReceiptOf(CheckpointOf(receipt), tree.code, tree.docs) = receipt
    /\ tree.head = "atBase"

CorrectionEligible ==
    /\ mem.status = "done"
    /\ ReconcilePipelineState(mem) = mem
    /\ HasCheckpoint(mem) /\ HasReceipt(mem)
    /\ mem.receipt.run = run.expected
    /\ CorrectionTarget(mem.receipt) # NoStage
    /\ CorrectionScopeHolds(mem.receipt)

SkipCorrection ==
    /\ pc = "correct"
    /\ run.expected = 0 \/ CorrectionInProgress
    /\ pc' = "recover"
    /\ UNCHANGED <<disk, tree, mem, run, cur, nxt, verdict, examined>>

\* A rejected recovery reports needs-attention and persists nothing.
RejectCorrection ==
    /\ pc = "correct"
    /\ run.expected # 0 /\ ~CorrectionInProgress
    /\ ~CorrectionEligible \/ AttestorMayFail
    /\ EndRun("needs-attention")
    /\ UNCHANGED <<disk, tree, examined>>

ApplyCorrection ==
    /\ pc = "correct"
    /\ run.expected # 0 /\ ~CorrectionInProgress
    /\ CorrectionEligible
    /\ Transition(ApplyTerminalCorrection(mem, CorrectionTarget(mem.receipt), run.reason, run.id),
                  pc' = "recover" /\ UNCHANGED <<run, cur, nxt, verdict>>)
    /\ UNCHANGED <<tree, examined>>

-----------------------------------------------------------------------------
(* core/pipeline-runner.ts: persistLegacyReviewRecovery, stage selection *)

LegacyPassedReviews ==
    IF /\ IsPipelineState(mem)
       /\ mem.version < ReceiptIntroducedFeatureVersion
       /\ ~IsTerminal(mem)
       /\ ~HasCheckpoint(mem) /\ ~HasReceipt(mem)
    THEN {s \in ReviewStages : mem.stages[s].status = "passed"}
    ELSE {}

\* Once in an invocation; the selection that follows asks nothing about it.
RecoverLegacyReview ==
    /\ pc = "recover"
    /\ LegacyPassedReviews # {}
    /\ Transition(ResetReviewAndDownstream(mem, Min(LegacyPassedReviews)),
                  pc' = "select" /\ UNCHANGED <<run, cur, nxt, verdict>>)
    /\ UNCHANGED <<tree, examined>>

SelectStage ==
    /\ \/ pc = "recover" /\ LegacyPassedReviews = {}
       \/ pc = "select"
    /\ cur' = GetFirstIncompleteStage(mem)
    /\ pc' = "step"
    /\ UNCHANGED <<disk, tree, mem, run, nxt, verdict, examined>>

-----------------------------------------------------------------------------
(* core/pipeline-runner.ts: runStageStep *)

AbortBeforeStage ==
    /\ pc = "step" /\ cur # NoStage
    /\ run.aborted
    /\ pc' = "finalize"
    /\ verdict' = "needs-attention"
    /\ UNCHANGED <<disk, tree, mem, run, cur, nxt, examined>>

BeginStage ==
    /\ pc = "step" /\ cur # NoStage
    /\ ~run.aborted
    /\ Transition(MarkStageRunning(mem, cur),
                  pc' = "exec" /\ UNCHANGED <<run, cur, nxt, verdict>>)
    /\ UNCHANGED <<tree, examined>>

\* A code stage has no output, and only a code stage lifts findings
\* (executors/code/local-code-executor.ts).
ReturnedBy(s) ==
    {r \in Results : IF StageDefs[s].kind = "code" THEN r.output = "null" ELSE ~r.lifted}

\* settleExecution up to the attestation of a passed review.
SettleStage ==
    /\ pc = "exec"
    /\ \E r \in ReturnedBy(cur) :
         LET e == EvaluateStageExecution(cur, r, mem.regressions, run.ceiling, run.budget,
                                         AccumulateEconomics(mem.economics, r.usage))
             outcome == StageFailureOutcome(e)
             attests == e.decision.passed /\ IsCodeReviewStage(cur)
         IN  /\ r.aborted => run.aborted
             /\ Transition(ApplyStageOutcome(mem, cur, e, r.output # "null"),
                  /\ verdict' = outcome
                  /\ nxt' = e.route.next
                  /\ \/ attests /\ pc' = "attest" /\ cur' = cur
                     \/ ~attests /\ outcome = "none" /\ pc' = "step" /\ cur' = e.route.next
                     \/ ~attests /\ outcome # "none" /\ pc' = "finalize" /\ cur' = cur
                  /\ run' = [run EXCEPT !.worked = TRUE])
             /\ examined' = IF attests
                            THEN [stage |-> cur, attempt |-> mem.stages[cur].attempts + 1,
                                  code |-> tree.code,
                                  attempts |-> [s \in StageIds |-> mem.stages[s].attempts]]
                            ELSE examined
    /\ UNCHANGED tree

\* settleExecutorError
ExecutorThrows ==
    /\ pc = "exec"
    /\ "error" \in Interruptions
    /\ Transition(ApplyExecutorError(mem, cur),
                  /\ pc' = "finalize" /\ verdict' = "needs-attention"
                  /\ UNCHANGED <<run, cur, nxt>>)
    /\ UNCHANGED <<tree, examined>>

\* persistPassedReviewAttestation, then concludeStep
AttestReview ==
    /\ pc = "attest"
    /\ Transition(
         AttachReviewCheckpoint(mem, ObservedCheckpoint(
             [stage |-> cur, attempt |-> mem.stages[cur].attempts])),
         /\ \/ verdict = "none" /\ pc' = "step" /\ cur' = nxt
            \/ verdict # "none" /\ pc' = "finalize" /\ cur' = cur
         /\ UNCHANGED <<run, nxt, verdict>>)
    /\ UNCHANGED <<tree, examined>>

ReviewAttestationRejected ==
    /\ pc = "attest"
    /\ AttestorMayFail
    /\ pc' = "finalize"
    /\ verdict' = "needs-attention"
    /\ UNCHANGED <<disk, tree, mem, run, cur, nxt, examined>>

-----------------------------------------------------------------------------
(* core/pipeline-runner.ts: runFinalScopeStep *)

NeedsReviewCheckpointBackfill == ~HasCheckpoint(mem) /\ ReviewStages # {}

\* isDurablyPassedReview; a backfill needs exactly one, with an attempt.
PassedReviews == {s \in ReviewStages : mem.stages[s].status = "passed"}

BackfillableReviews ==
    {s \in PassedReviews : PassedReviews = {s} /\ mem.stages[s].attempts > 0}

\* The loop of runLoop goes on to the final step again.
RejectFinalScopeAndRetry == UNCHANGED <<disk, pc, mem, run, cur, nxt, verdict>>

RejectFinalScope ==
    /\ pc' = "finalize"
    /\ verdict' = "needs-attention"
    /\ UNCHANGED <<disk, mem, run, cur, nxt>>

\* backfillReviewCheckpoint: unlike every other save, a failing one is caught
\* and restores the state of before.
BackfillCheckpoint ==
    /\ pc = "step" /\ cur = NoStage
    /\ NeedsReviewCheckpointBackfill
    /\ \/ /\ BackfillableReviews = {} \/ AttestorMayFail \/ "die" \in Interruptions
          /\ RejectFinalScope
       \/ \E s \in BackfillableReviews :
            LET st == AttachReviewCheckpoint(mem, ObservedCheckpoint(
                          [stage |-> s, attempt |-> mem.stages[s].attempts]))
            IN  IF IsPipelineState(st)
                THEN /\ mem' = st /\ disk' = st
                     /\ UNCHANGED <<pc, run, cur, nxt, verdict>>
                ELSE RejectFinalScope
    /\ UNCHANGED <<tree, examined>>

\* finalQualityGate of a state without a checkpoint: its last passed stage.
LastPassedStage ==
    LET passed == {s \in StageIds : mem.stages[s].status = "passed"}
    IN  IF passed = {} THEN NoStage ELSE Max(passed)

FinalCheckpoint ==
    IF HasCheckpoint(mem) THEN mem.checkpoint
    ELSE ObservedCheckpoint([stage   |-> LastPassedStage,
                             attempt |-> Max({1, mem.stages[LastPassedStage].attempts})])

FinalStep ==
    /\ pc = "step" /\ cur = NoStage
    /\ ~NeedsReviewCheckpointBackfill

FinalScopeAttested ==
    /\ FinalStep
    /\ LastPassedStage # NoStage
    /\ FinalScopeResult(FinalCheckpoint) = "final-receipt"
    /\ Transition(AttachFinalScopeReceipt(mem, ReceiptOf(FinalCheckpoint, tree.code, tree.docs)),
                  /\ pc' = "finalize" /\ verdict' = "done"
                  /\ UNCHANGED <<run, cur, nxt>>)
    /\ UNCHANGED <<tree, examined>>

FinalScopeRejected ==
    /\ FinalStep
    /\ \/ AttestorMayFail
       \/ LastPassedStage = NoStage
       \/ LastPassedStage # NoStage /\ FinalScopeResult(FinalCheckpoint) = "rejected"
    /\ RejectFinalScope
    /\ UNCHANGED <<tree, examined>>

\* reviewInvalidationStep: the approval is revoked and the review runs again,
\* at the price of one regression.
ReviewInvalidated ==
    /\ FinalStep
    /\ LastPassedStage # NoStage
    /\ FinalScopeResult(FinalCheckpoint) \in {"review-invalidated", "review-base-stale"}
    /\ IF mem.regressions >= run.ceiling
       THEN RejectFinalScope
       ELSE Transition(InvalidateReviewApproval(mem, mem.checkpoint.stage),
                       /\ cur' = mem.checkpoint.stage
                       /\ UNCHANGED <<pc, run, nxt, verdict>>)
    /\ UNCHANGED <<tree, examined>>

\* finalizeRun
Finalize ==
    /\ pc = "finalize"
    /\ LET st == FinalizeState(mem, verdict)
       IN  IF IsPipelineState(st)
           THEN disk' = st /\ EndRun(verdict)
           ELSE UNCHANGED disk /\ EndRun("invalid-state")
    /\ UNCHANGED <<tree, examined>>

-----------------------------------------------------------------------------
(* Interruptions and the environment *)

\* The process receives SIGINT or SIGTERM.
Abort ==
    /\ "abort" \in Interruptions
    /\ pc # "idle"
    /\ ~run.aborted
    /\ run' = [run EXCEPT !.aborted = TRUE]
    /\ UNCHANGED <<disk, tree, pc, mem, cur, nxt, verdict, examined>>

\* The process is killed, or a save fails and the action settles the throw:
\* either way the file keeps the last state that was renamed into place.
Die ==
    /\ "die" \in Interruptions
    /\ pc # "idle"
    /\ EndRun("thrown")
    /\ UNCHANGED <<disk, tree, examined>>

\* The child of the running stage edits the worktree.
StageEdits ==
    /\ pc = "exec"
    /\ tree' \in {t \in Trees : t.branch = tree.branch /\ t.base = tree.base}
    /\ tree' # tree
    /\ UNCHANGED <<disk, pc, mem, run, cur, nxt, verdict, examined>>

\* Between two invocations anything may happen to the worktree; the default
\* base only advances.
TreeChanges ==
    /\ pc = "idle" /\ run.id < MaxRuns
    /\ tree' \in {t \in Trees : t.base >= tree.base}
    /\ tree' # tree
    /\ UNCHANGED <<disk, pc, mem, run, cur, nxt, verdict, examined>>

-----------------------------------------------------------------------------
RunnerStep ==
    \/ SkipCorrection \/ RejectCorrection \/ ApplyCorrection
    \/ RecoverLegacyReview \/ SelectStage
    \/ AbortBeforeStage \/ BeginStage \/ SettleStage \/ ExecutorThrows
    \/ AttestReview \/ ReviewAttestationRejected
    \/ BackfillCheckpoint \/ FinalScopeAttested \/ FinalScopeRejected \/ ReviewInvalidated
    \/ Finalize

Next == Start \/ RunnerStep \/ Abort \/ Die \/ StageEdits \/ TreeChanges

Spec == Init /\ [][Next]_vars

\* A started invocation is never left waiting: an executor settles after its
\* timeout at the latest (ExecutionSettles of StageProcess; an agent's helper that
\* keeps its output open is the exception), every other await is a local effect.
FairSpec == Spec /\ WF_vars(RunnerStep)
=============================================================================
