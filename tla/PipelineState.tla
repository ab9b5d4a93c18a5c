---------------------------- MODULE PipelineState ----------------------------
(***************************************************************************)
(* The durable state of one pipeline (state/pipeline-state.ts), the pure   *)
(* transitions the runner applies to it (core/runner-transitions.ts), its  *)
(* repair on resume (state/state-reconcile.ts) and the validation every    *)
(* load and every save goes through (state/fs-state-validation.ts).        *)
(*                                                                         *)
(* Data abstraction.  The story, model and RunDef identity of a state are  *)
(* fixed for its life and left out.  Timestamps are left out except        *)
(* whether the pipeline's finishedAt is set; an attempt number stands for  *)
(* the finish time that correlates a quality gate with its attempt.  The   *)
(* digest of a repository scope is the number of its content ("code" for   *)
(* reviewed paths, "docs" for documentation paths).  Findings and handoffs *)
(* are the attempt they came from; findings of stage 0 are the reason of   *)
(* the recovery of that number.                                            *)
(*                                                                         *)
(* An operator whose name is that of the one below it with a suffix, and   *)
(* ResetTargetOnly and ResetKeepsApproval, are plausible bugs; the runs    *)
(* notice each of them (PROJECT.json).                                     *)
(***************************************************************************)
EXTENDS StageEvaluation, FiniteSetsExt, SequencesExt

RunnerFeatureVersion == 3
ReceiptIntroducedFeatureVersion == 2

PipelineStatuses == {"pending", "running", "done", "failed", "needs-attention"}
StageStatuses    == {"pending", "running", "passed", "failed", "skipped"}

TerminalStatuses == {"done", "failed", "needs-attention"}

Origin  == [stage: Nat, attempt: Nat]
Attempt == [attempt: Nat, kind: DecisionKinds, usage: Nat \cup {Absent}]

StageStateType ==
    [status: StageStatuses, attempts: Nat, history: Seq(Attempt),
     findings: Origin, handoff: Origin]

\* ReviewScopeCheckpoint and FinalScopeReceipt; the absent one has stage 0.
CheckpointType == [run: Nat, stage: Nat, attempt: Nat, branch: Nat, base: Nat, code: Nat]
ReceiptType    == [run: Nat, stage: Nat, attempt: Nat, branch: Nat, base: Nat, code: Nat,
                   docs: Nat, final: Nat \X Nat]
SupersededType == [sequence: Nat, expected: Nat, reason: Nat, target: Nat, by: Nat,
                   receipt: ReceiptType]

\* A well-formed state; what "economics" is, the histories say.
IsState(st) ==
    st \in [version: 1..RunnerFeatureVersion, status: PipelineStatuses,
            current: {NoStage} \cup StageIds, stages: [StageIds -> StageStateType],
            regressions: Nat, economics: {st.economics}, finished: BOOLEAN,
            checkpoint: CheckpointType, receipt: ReceiptType, superseded: Seq(SupersededType)]

NoOrigin     == [stage |-> NoStage, attempt |-> 0]
NoCheckpoint == [run |-> 0, stage |-> NoStage, attempt |-> 0, branch |-> 0, base |-> 0,
                 code |-> 0]
NoReceipt    == [run |-> 0, stage |-> NoStage, attempt |-> 0, branch |-> 0, base |-> 0,
                 code |-> 0, docs |-> 0, final |-> <<0, 0>>]

InitialStage ==
    [status |-> "pending", attempts |-> 0, history |-> <<>>,
     findings |-> NoOrigin, handoff |-> NoOrigin]

InitialState ==
    [version |-> RunnerFeatureVersion, status |-> "pending", current |-> NoStage,
     stages |-> [s \in StageIds |-> InitialStage], regressions |-> 0, economics |-> 0,
     finished |-> FALSE, checkpoint |-> NoCheckpoint, receipt |-> NoReceipt,
     superseded |-> <<>>]

HasCheckpoint(st) == st.checkpoint # NoCheckpoint
HasReceipt(st)    == st.receipt # NoReceipt

IsTerminal(st) == st.status \in TerminalStatuses

CheckpointOf(receipt) ==
    [run |-> receipt.run, stage |-> receipt.stage, attempt |-> receipt.attempt,
     branch |-> receipt.branch, base |-> receipt.base, code |-> receipt.code]

\* createFinalScopeReceipt: the identity and the reviewed digest come from the
\* checkpoint, the documents and the digest of the whole from the worktree.
ReceiptOf(checkpoint, code, docs) ==
    [run |-> checkpoint.run, stage |-> checkpoint.stage, attempt |-> checkpoint.attempt,
     branch |-> checkpoint.branch, base |-> checkpoint.base, code |-> checkpoint.code,
     docs |-> docs, final |-> <<code, docs>>]

WithoutApproval(st) == [st EXCEPT !.checkpoint = NoCheckpoint, !.receipt = NoReceipt]

-----------------------------------------------------------------------------
(* core/runner-transitions.ts: stage attempts *)

MarkStageRunning(st, s) ==
    [st EXCEPT !.status = "running", !.current = s, !.stages[s].status = "running"]

\* buildFinishedStage: the attempt joins the history; findings and handoff of
\* the finished stage are dropped.
FinishedStage(previous, passed, kind, usage) ==
    [status   |-> IF passed THEN "passed" ELSE "failed",
     attempts |-> previous.attempts + 1,
     history  |-> Append(previous.history,
                         [attempt |-> previous.attempts + 1, kind |-> kind, usage |-> usage]),
     findings |-> NoOrigin,
     handoff  |-> NoOrigin]

ResetStageForgets(previous, findings, handoff) ==
    [status |-> "pending", attempts |-> previous.attempts, history |-> <<>>,
     findings |-> findings, handoff |-> handoff]

ResetStage(previous, findings, handoff) ==
    [status |-> "pending", attempts |-> previous.attempts, history |-> previous.history,
     findings |-> findings, handoff |-> handoff]

ResetRegressionTargetKeepsApproval(st, target, findings, handoff) ==
    [st EXCEPT !.stages[target] = ResetStage(st.stages[target], findings, handoff)]

ResetRegressionTargetUnexplained(st, target, findings, handoff) ==
    [WithoutApproval(st) EXCEPT
        !.stages[target] = ResetStage(st.stages[target], NoOrigin, handoff)]

\* A regression drops the approval and resets its target only: the stages
\* between the target and the failing stage keep their status.
ResetRegressionTarget(st, target, findings, handoff) ==
    [WithoutApproval(st) EXCEPT
        !.stages[target] = ResetStage(st.stages[target], findings, handoff)]

ReplaceSuccessorHandoff(st, s, handoff) == [st EXCEPT !.stages[s].handoff = handoff]

AccumulateEconomicsOverwrites(spent, usage) == IF usage = Absent THEN spent ELSE usage

AccumulateEconomics(spent, usage) == IF usage = Absent THEN spent ELSE spent + usage

\* e is the evaluation of the execution; hasPayload says that the child left an
\* output a handoff can be made of.
ApplyStageOutcome(st, s, e, hasPayload) ==
    LET previous == st.stages[s]
        this     == [stage |-> s, attempt |-> previous.attempts + 1]
        handoff  == IF hasPayload THEN this ELSE NoOrigin
        base     == [st EXCEPT
                       !.regressions = e.route.regressions,
                       !.economics   = AccumulateEconomics(@, e.decision.usage),
                       !.stages[s]   = FinishedStage(previous, e.decision.passed,
                                                     e.decision.kind, e.decision.usage)]
    IN  IF e.route.action = "regress"
        THEN ResetRegressionTarget(base, e.route.next,
                                   IF e.decision.findings THEN this ELSE NoOrigin, handoff)
        ELSE IF e.route.next = NoStage THEN base
        ELSE ReplaceSuccessorHandoff(base, e.route.next, handoff)

\* A thrown executor error is a failed attempt without usage.
ApplyExecutorError(st, s) ==
    [st EXCEPT !.stages[s] = FinishedStage(@, FALSE, "failed", Absent)]

-----------------------------------------------------------------------------
(* core/runner-transitions.ts: scope approval *)

ScopeAttachmentFeatureVersion(st) ==
    IF /\ st.status \in {"pending", "running"}
       /\ st.version < RunnerFeatureVersion
       /\ ~HasCheckpoint(st) /\ ~HasReceipt(st)
    THEN RunnerFeatureVersion
    ELSE st.version

AttachReviewCheckpoint(st, checkpoint) ==
    [st EXCEPT !.version = ScopeAttachmentFeatureVersion(st),
               !.checkpoint = checkpoint, !.receipt = NoReceipt]

AttachFinalScopeReceipt(st, receipt) ==
    [st EXCEPT !.version = ScopeAttachmentFeatureVersion(st),
               !.checkpoint = IF HasCheckpoint(st) THEN @ ELSE CheckpointOf(receipt),
               !.receipt = receipt]

FinalizeState(st, status) ==
    [st EXCEPT !.status = status, !.current = NoStage, !.finished = TRUE]

ResetTargetOnly(st, target, findings) ==
    [WithoutApproval(st) EXCEPT
        !.status = "running", !.current = NoStage, !.finished = FALSE,
        !.stages[target] = ResetStage(@, findings, NoOrigin)]

ResetKeepsApproval(st, target, findings) ==
    [st EXCEPT
        !.status = "running", !.current = NoStage, !.finished = FALSE,
        !.stages = [s \in StageIds |->
                      IF s < target THEN st.stages[s]
                      ELSE ResetStage(st.stages[s],
                                      IF s = target THEN findings ELSE NoOrigin, NoOrigin)]]

\* Stages before "target" keep their state; the others are pending again with
\* their attempts and history.
ResetStageAndDownstream(st, target, findings) ==
    [WithoutApproval(st) EXCEPT
        !.status = "running", !.current = NoStage, !.finished = FALSE,
        !.stages = [s \in StageIds |->
                      IF s < target THEN st.stages[s]
                      ELSE ResetStage(st.stages[s],
                                      IF s = target THEN findings ELSE NoOrigin, NoOrigin)]]

ResetReviewAndDownstream(st, review) == ResetStageAndDownstream(st, review, NoOrigin)

InvalidateReviewApprovalFree(st, review) == ResetReviewAndDownstream(st, review)

InvalidateReviewApproval(st, review) ==
    ResetReviewAndDownstream([st EXCEPT !.regressions = @ + 1], review)

\* The active receipt moves to the superseded ones and the reason becomes the
\* findings of the reset target.
ApplyTerminalCorrection(st, target, reason, run) ==
    LET sequence == Len(st.superseded) + 1
        archived == [sequence |-> sequence, expected |-> st.receipt.run, reason |-> reason,
                     target |-> target, by |-> run, receipt |-> st.receipt]
    IN  [ResetStageAndDownstream(st, target, [stage |-> NoStage, attempt |-> sequence])
           EXCEPT !.version = RunnerFeatureVersion,
                  !.superseded = Append(st.superseded, archived)]

-----------------------------------------------------------------------------
(* state/state-reconcile.ts *)

IsComplete(stage) == stage.status \in {"passed", "skipped"}

GetFirstIncompleteStage(st) ==
    IF \A s \in StageIds : IsComplete(st.stages[s])
    THEN NoStage
    ELSE CHOOSE s \in StageIds :
           ~IsComplete(st.stages[s]) /\ \A t \in 1..(s - 1) : IsComplete(st.stages[t])

UsageOf(attempt) == IF attempt.usage = Absent THEN 0 ELSE attempt.usage

RecomputeEconomics(stages) ==
    MapThenSumSet(
        LAMBDA s : FoldSeq(LAMBDA a, spent : spent + UsageOf(a), 0, stages[s].history),
        StageIds)

RepairStageOffByOne(stage) ==
    [stage EXCEPT !.status = IF @ = "running" THEN "pending" ELSE @,
                  !.attempts = Len(stage.history) - 1]

RepairStage(stage) ==
    [stage EXCEPT !.status = IF @ = "running" THEN "pending" ELSE @,
                  !.attempts = Len(stage.history)]

ReconcilePipelineState(st) ==
    LET status == IF st.status = "running" THEN "pending" ELSE st.status
        stages == [s \in StageIds |-> RepairStage(st.stages[s])]
    IN  [st EXCEPT !.status    = status,
                   !.stages    = stages,
                   !.current   = IF status \in TerminalStatuses THEN NoStage ELSE @,
                   !.finished  = status \in TerminalStatuses,
                   !.economics = RecomputeEconomics(stages)]

-----------------------------------------------------------------------------
(* state/fs-state-validation.ts, state/scope-receipt-validation.ts *)

GateInHistory(gate, st) ==
    /\ gate.stage \in StageIds
    /\ \E i \in DOMAIN st.stages[gate.stage].history :
         /\ st.stages[gate.stage].history[i].attempt = gate.attempt
         /\ st.stages[gate.stage].history[i].kind = "passed"

\* The gate names the latest attempt of a stage that is passed now.
GateIsCurrent(gate, st) ==
    /\ GateInHistory(gate, st)
    /\ st.stages[gate.stage].status = "passed"
    /\ st.stages[gate.stage].attempts = gate.attempt

VersionsFit(st) ==
    /\ st.version <= RunnerFeatureVersion
    /\ HasCheckpoint(st) \/ HasReceipt(st) =>
         st.version \in {ReceiptIntroducedFeatureVersion, RunnerFeatureVersion}
    /\ st.superseded # <<>> => st.version = RunnerFeatureVersion

ReceiptIntegrity(st) ==
    /\ HasCheckpoint(st) => GateIsCurrent(st.checkpoint, st)
    /\ HasReceipt(st) => st.checkpoint = CheckpointOf(st.receipt)
    /\ st.status = "done" => HasReceipt(st)

SupersededIntegrity(st) ==
    \A i \in DOMAIN st.superseded :
      /\ st.superseded[i].sequence = i
      /\ st.superseded[i].expected = st.superseded[i].receipt.run
      /\ GateInHistory(st.superseded[i].receipt, st)
      /\ \A j \in DOMAIN st.superseded :
           st.superseded[i].expected = st.superseded[j].expected => i = j

IsPipelineState(st) == VersionsFit(st) /\ ReceiptIntegrity(st) /\ SupersededIntegrity(st)
=============================================================================
