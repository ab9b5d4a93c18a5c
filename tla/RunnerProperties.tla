--------------------------- MODULE RunnerProperties ---------------------------
(***************************************************************************)
(* What the pipeline runner promises about its durable state.              *)
(***************************************************************************)
EXTENDS PipelineRunner

\* The state file, and the runner's copy while an invocation is alive.
LiveStates == {disk, mem} \ {NoFile}

RunType ==
    [id: Nat, ceiling: Nat, budget: Nat \cup {Absent}, expected: Nat, reason: Nat,
     aborted: BOOLEAN, worked: BOOLEAN]

ExaminedType == [stage: Nat, attempt: Nat, code: Nat, attempts: [StageIds -> Nat]]

\* Every variable has its type.
TypeOK ==
    /\ disk = NoFile \/ IsState(disk)
    /\ mem = NoFile \/ IsState(mem)
    /\ tree \in Trees
    /\ pc \in ProgramPoints
    /\ run \in RunType
    /\ cur \in {NoStage} \cup StageIds
    /\ nxt \in {NoStage} \cup StageIds
    /\ verdict \in Verdicts
    /\ examined \in ExaminedType

\* At every await the file holds exactly what the runner works with: a death at
\* any point loses nothing the run has acted on.
InSync == pc # "idle" => disk = mem

\* While a child runs, the file says which stage it is running, no other stage is
\* marked running, and no stage the child could follow is unfinished.
ChildIsRecorded ==
    pc = "exec" =>
        /\ disk.status = "running" /\ disk.current = cur
        /\ \A s \in StageIds : disk.stages[s].status = "running" <=> s = cur
        /\ \A s \in 1..(cur - 1) : IsComplete(disk.stages[s])

\* A durable approval covers the pipeline up to its review: no stage at or
\* before the approving one is pending, running or failed while it stands.
ApprovalCoversPrefix ==
    \A st \in LiveStates :
      HasCheckpoint(st) => \A s \in 1..st.checkpoint.stage : st.stages[s].status = "passed"

\* A final receipt is only ever held by a state with every stage passed.
ReceiptMeansComplete ==
    \A st \in LiveStates :
      HasReceipt(st) => \A s \in StageIds : IsComplete(st.stages[s])

\* The store never refuses a state the runner built: no transition leads to a
\* state its own validation rejects, on save or on the next load.
NoSaveRefused == verdict # "invalid-state" /\ (disk # NoFile => IsPipelineState(disk))

\* Attempt numbers, histories and spent budget tell the same story.
LedgerConsistent ==
    \A st \in LiveStates :
      /\ \A s \in StageIds :
           /\ st.stages[s].attempts = Len(st.stages[s].history)
           /\ \A i \in DOMAIN st.stages[s].history : st.stages[s].history[i].attempt = i
           /\ st.stages[s].status = "passed" =>
                /\ st.stages[s].history # <<>>
                /\ Last(st.stages[s].history).kind = "passed"
      /\ st.economics = RecomputeEconomics(st.stages)

\* Stages whose rejection of the work of "target" is not answered yet.
Rejecters(target) ==
    {s \in (target + 1)..N :
        /\ StageDefs[s].onFail = target
        /\ mem.stages[s].status = "failed"
        /\ mem.stages[s].history # <<>> /\ Last(mem.stages[s].history).kind = "gate-failed"}

\* A stage that runs again because its work was sent back is given the findings
\* of the latest attempt of a stage that rejected it and, when that stage is an
\* agent, its handoff, however often the runner was killed in between.
RejectionIsExplained ==
    pc = "exec" =>
      LET stage == mem.stages[cur] IN
      /\ stage.history # <<>> /\ Last(stage.history).kind = "passed"
      /\ Rejecters(cur) # {}
      => \E s \in Rejecters(cur) :
        LET rejection == [stage |-> s, attempt |-> mem.stages[s].attempts]
        IN  /\ stage.findings = rejection
            /\ StageDefs[s].kind = "agent" => stage.handoff = rejection

\* A done pipeline's receipt names the latest passed review, covers exactly the
\* code that review has seen, and no stage it approves has run again since.  What
\* an earlier version's review has seen is unknown (InheritedReviewIsRerun).
ReceiptCoversExaminedCode ==
    disk # NoFile /\ disk.status = "done" /\ examined.stage # NoStage =>
        /\ disk.receipt.stage = examined.stage
        /\ disk.receipt.attempt = examined.attempt
        /\ disk.receipt.code = examined.code /\ disk.receipt.final[1] = examined.code
        /\ \A s \in 1..(examined.stage - 1) :
             disk.stages[s].attempts = examined.attempts[s]

\* A recovery gets past its eligibility check only once the file shows the
\* receipt it named as superseded, for the reason it gave: no child of a recovery
\* starts before that save.
RecoveryIsRecorded ==
    pc \notin {"idle", "correct"} /\ run.expected # 0 =>
        /\ disk.superseded # <<>>
        /\ Last(disk.superseded).expected = run.expected
        /\ Last(disk.superseded).reason = run.reason

\* An approval that stands after a correction was earned after it: by the
\* correcting invocation or a later one, with a newer attempt of the review.
CorrectionReruns ==
    \A st \in LiveStates :
      HasCheckpoint(st) =>
        \A i \in DOMAIN st.superseded :
          LET old == st.superseded[i]
          IN  /\ st.checkpoint.run >= old.by
              /\ st.checkpoint.stage = old.receipt.stage =>
                   st.checkpoint.attempt > old.receipt.attempt

\* Once an invocation has executed a stage, it starts no other one with the run
\* budget exceeded.
NoSpendingPastBudget ==
    pc = "exec" /\ run.worked => RunBudgetPassed(run.budget, mem.economics)

\* A completed pipeline with one code review always has a review attempt its
\* missing checkpoint can be rebuilt from.
BackfillIsPossible ==
    pc = "step" /\ cur = NoStage /\ NeedsReviewCheckpointBackfill => BackfillableReviews # {}

-----------------------------------------------------------------------------
(* What one step may never do to the file *)

\* Attempt histories and superseded receipts are append-only evidence.
EvidenceIsAppendOnly ==
    [][disk # NoFile =>
        /\ \A s \in StageIds : IsPrefix(disk.stages[s].history, disk'.stages[s].history)
        /\ IsPrefix(disk.superseded, disk'.superseded)]_disk

\* The regression counter moves by one, below the ceiling of the invocation, only
\* with a rejected gate or a revoked approval, and drops every approval.
RegressionsAreEarned ==
    [][disk # NoFile /\ disk'.regressions # disk.regressions =>
        /\ disk'.regressions = disk.regressions + 1
        /\ disk.regressions < run.ceiling
        /\ ~HasCheckpoint(disk') /\ ~HasReceipt(disk')
        /\ \/ /\ HasCheckpoint(disk)
              /\ \A s \in StageIds : disk'.stages[s].history = disk.stages[s].history
           \/ \E s \in StageIds :
                /\ disk.stages[s].status = "running"
                /\ Last(disk'.stages[s].history).kind = "gate-failed"]_disk

\* An approval is lost only at a price: a regression, or a supersession that is
\* recorded with the receipt.
ApprovalLossIsCharged ==
    [][disk # NoFile /\ HasCheckpoint(disk) /\ ~HasCheckpoint(disk') =>
        \/ disk'.regressions = disk.regressions + 1
        \/ Len(disk'.superseded) = Len(disk.superseded) + 1]_disk

\* A receipt is superseded at most once, only while it is the active receipt of a
\* done state and still describes the worktree, and leaves the budgets alone.
SupersedeIsGuarded ==
    [][disk # NoFile /\ disk'.superseded # disk.superseded =>
        /\ disk.status = "done"
        /\ Last(disk'.superseded).receipt = disk.receipt
        /\ \A i \in DOMAIN disk.superseded : disk.superseded[i].expected # disk.receipt.run
        /\ disk.receipt.code = tree.code /\ disk.receipt.docs = tree.docs
        /\ disk'.regressions = disk.regressions /\ disk'.economics = disk.economics
        /\ ~HasCheckpoint(disk')]_disk

\* A checkpoint is only ever attached for a review attempt this runner has seen
\* pass: a review inherited from a file without checkpoints is run again.
InheritedReviewIsRerun ==
    [][disk # NoFile /\ disk'.checkpoint \notin {NoCheckpoint, disk.checkpoint} =>
        /\ disk'.checkpoint.stage = examined.stage
        /\ disk'.checkpoint.attempt = examined.attempt]_disk

-----------------------------------------------------------------------------
(* The runner implements the ledger *)

Ledger ==
    INSTANCE ScopeLedger WITH
        Approvals  <- CheckpointType,
        Seals      <- ReceiptType,
        NoApproval <- NoCheckpoint,
        NoSeal     <- NoReceipt,
        ApprovalOf <- CheckpointOf,
        approval   <- disk.checkpoint,
        seal       <- disk.receipt,
        done       <- (disk.status = "done"),
        ledger     <- [i \in DOMAIN disk.superseded |-> disk.superseded[i].receipt]

\* Every change of the state file is a step of the ledger: whatever the stages
\* do, approvals, seals and superseded seals follow its rules.
ImplementsLedger == Ledger!Spec

-----------------------------------------------------------------------------
\* No round of the stage loop is free: a stage has run at most once in every
\* invocation, once more for every regression that was charged, and once before in
\* a file of an earlier runner (runLoop; routeQualityFailure, reviewInvalidationStep).
AttemptsArePaidFor ==
    disk # NoFile =>
        \A s \in StageIds : disk.stages[s].attempts <= run.id + disk.regressions + 1

\* Every invocation comes to an end, however often the worktree changes and work is
\* sent back: its rounds are paid for from the bounded regressions, and no round
\* waits for anything.
RunsEnd ==
    /\ [][AttemptsArePaidFor']_disk
    /\ (pc # "idle") ~> (pc = "idle")
===============================================================================
