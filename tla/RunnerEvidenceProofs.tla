-------------------------- MODULE RunnerEvidenceProofs --------------------------
(***************************************************************************)
(* What the state file proves to a later reader, for every pipeline and    *)
(* every sequence of invocations: attempts, approvals, receipts and        *)
(* superseded receipts tell one story, the store accepts every state the   *)
(* runner builds, a receipt covers what its review examined, a rejected    *)
(* stage is told why, no round of the stage loop is free, and the runner   *)
(* implements the ledger of ScopeLedger.                                   *)
(***************************************************************************)
EXTENDS RunnerProofs

\* Every file the runner meets is of a version that may hold approvals, or the
\* pipeline has a review, whose checkpoint raises the version.
VersionsMayHoldReceipts == ReviewStages # {} \/ 1 \notin Versions

\* What the file records, and of which invocations.
FileEvidence ==
    disk # NoFile =>
      /\ Accounted(disk)
      /\ \A i \in DOMAIN disk.superseded : disk.superseded[i].by <= run.id
      /\ 1 \notin Versions => disk.version # 1

\* The superseded receipt that a recovery names, with its reason, is the last.
RecoveryRecorded(st) ==
    /\ st.superseded # <<>>
    /\ Last(st.superseded).expected = run.expected
    /\ Last(st.superseded).reason = run.reason

\* The invocation may start another stage.
MayGoOn == pc \in {"step", "exec"} \/ (pc = "attest" /\ verdict = "none")

\* What the program point says about the invocation and what it has recorded.
Progress ==
    /\ pc # "idle" => run.expected < run.id
    /\ pc = "attest" => mem.status = "running" /\ verdict # "done"
    /\ pc = "finalize" /\ verdict = "done" => HasReceipt(mem)
    /\ pc \notin {"idle", "correct"} /\ run.expected # 0 => RecoveryRecorded(mem)
    /\ pc \in {"correct", "recover", "select"} => ~run.worked
    /\ run.worked /\ MayGoOn => RunBudgetPassed(run.budget, mem.economics)
    /\ VersionsMayHoldReceipts => verdict # "invalid-state"

Evidence == FileEvidence /\ Progress

\* The inductive invariant.
EvidenceInv == RunnerInv /\ Evidence

-----------------------------------------------------------------------------
(* The steps of the file *)

\* What one step may do to the file: nothing; create it; change what is no
\* evidence; add an attempt, sending work back or not; approve, seal, revoke or
\* supersede.
Created == disk = NoFile /\ disk' = InitialState


KeepsEvidence ==
    /\ disk # NoFile
    /\ SameAttempts(disk, disk') /\ SameApproval(disk, disk')
    /\ disk'.superseded = disk.superseded /\ disk'.regressions = disk.regressions
    /\ disk'.economics \in {disk.economics, RecomputeEconomics(disk'.stages)}

Attempted ==
    /\ disk # NoFile /\ disk'.superseded = disk.superseded
    /\ disk.status # "done" /\ disk'.status # "done" /\ ~HasReceipt(disk)
    /\ \E s \in StageIds, kind \in DecisionKinds :
         /\ RunningIn(disk, s)
         /\ OneMoreAttempt(disk, disk', s, kind) /\ Booked(disk, disk', s)
         /\ \/ SameApproval(disk, disk') /\ disk'.regressions = disk.regressions
            \/ /\ Unapproved(disk')
               /\ kind = "gate-failed"
               /\ disk.regressions < run.ceiling
               /\ disk'.regressions = disk.regressions + 1

Approved ==
    /\ disk # NoFile
    /\ disk'.economics = disk.economics
    /\ SameAttempts(disk, disk')
    /\ disk'.superseded = disk.superseded /\ disk'.regressions = disk.regressions
    /\ disk.status # "done" /\ disk'.status # "done"
    /\ HasCheckpoint(disk') /\ disk'.receipt = NoReceipt
    /\ disk'.checkpoint.run = run.id

Sealed ==
    /\ disk # NoFile
    /\ disk'.economics = disk.economics
    /\ SameAttempts(disk, disk')
    /\ disk'.superseded = disk.superseded /\ disk'.regressions = disk.regressions
    /\ disk'.status = disk.status
    /\ HasReceipt(disk') /\ disk'.checkpoint = CheckpointOf(disk'.receipt)
    /\ HasCheckpoint(disk) => disk'.checkpoint = disk.checkpoint
    /\ ~HasCheckpoint(disk) => disk'.receipt.run = run.id

Revoked ==
    /\ disk # NoFile
    /\ disk'.economics = disk.economics
    /\ SameAttempts(disk, disk')
    /\ disk'.superseded = disk.superseded
    /\ Unapproved(disk') /\ disk'.status = "running"
    /\ \/ /\ ~HasCheckpoint(disk) /\ disk'.regressions = disk.regressions
       \/ /\ HasCheckpoint(disk) /\ disk.regressions < run.ceiling
          /\ disk'.regressions = disk.regressions + 1

Superseded ==
    /\ disk # NoFile /\ pc = "correct"
    /\ SameAttempts(disk, disk')
    /\ disk.status = "done" /\ disk'.status = "running"
    /\ HasReceipt(disk) /\ Unapproved(disk')
    /\ disk'.regressions = disk.regressions /\ disk'.economics = disk.economics
    /\ disk.receipt.code = tree.code /\ disk.receipt.docs = tree.docs
    /\ \E entry \in SupersededType :
         /\ disk'.superseded = Append(disk.superseded, entry)
         /\ entry.receipt = disk.receipt
         /\ entry.expected = run.expected /\ entry.expected = disk.receipt.run
         /\ entry.reason = run.reason

FileStep ==
    \/ disk' = disk \/ Created \/ KeepsEvidence \/ Attempted
    \/ Approved \/ Sealed \/ Revoked \/ Superseded

-----------------------------------------------------------------------------
\* While an invocation is alive its state is accounted for.
LEMMA LiveEvidence ==
    ASSUME EvidenceInv, pc # "idle"
    PROVE  /\ IsState(mem) /\ Orderly(mem) /\ Accounted(mem)
           /\ disk = mem /\ disk # NoFile
           /\ \A i \in DOMAIN mem.superseded : mem.superseded[i].by <= run.id
           /\ 1 \notin Versions => mem.version # 1
           /\ run.id \in Nat /\ run.expected \in Nat /\ run.reason \in Nat
  BY LiveState DEF EvidenceInv, Evidence, FileEvidence, RunnerInv, TypeOK, RunType

\* Leaving an invocation without a save keeps the evidence.
LEMMA EndRunKeepsEvidence ==
    ASSUME EvidenceInv, NEW v, EndRun(v), disk' = disk,
           VersionsMayHoldReceipts => v # "invalid-state"
    PROVE  Evidence'
<1>1. run'.id = run.id /\ ~run'.worked /\ run'.expected = 0 /\ pc' = "idle" /\ verdict' = v
  BY DEF EndRun, NoRun
<1>2. FileEvidence'
  BY <1>1 DEF EvidenceInv, Evidence, FileEvidence
<1>3. Progress'
  BY <1>1 DEF Progress, MayGoOn
<1> QED
  BY <1>2, <1>3 DEF Evidence

\* An accounted state is saved, and the evidence kept.
LEMMA SavedKeepsEvidence ==
    ASSUME EvidenceInv, pc # "idle", NEW st, IsState(st), Orderly(st), Accounted(st),
           \A i \in DOMAIN st.superseded : st.superseded[i].by <= run.id,
           st.version >= mem.version,
           NEW continue, Transition(st, continue),
           continue /\ mem' = st => run'.id = run.id /\ Progress'
    PROVE  Evidence' /\ mem' = st /\ disk' = st /\ continue
<1>1. IsPipelineState(st)
  BY AccountedIsAccepted
<1>2. mem' = st /\ disk' = st /\ continue
  BY <1>1 DEF Transition
<1>3. 1 \notin Versions => st.version # 1
  <2>1. mem.version \in 1..RunnerFeatureVersion /\ st.version \in 1..RunnerFeatureVersion
    BY LiveEvidence DEF IsState
  <2> QED
    BY <2>1, LiveEvidence DEF RunnerFeatureVersion
<1>4. FileEvidence'
  BY <1>2, <1>3 DEF FileEvidence
<1> QED
  BY <1>2, <1>4 DEF Evidence

-----------------------------------------------------------------------------
LEMMA InitEvidence == Init => Evidence
<1> SUFFICES ASSUME Init PROVE Evidence
  OBVIOUS
<1>1. ASSUME NEW version \in Versions, NEW k \in 0..N,
             NEW status \in {"running", "needs-attention"}
      PROVE  LET st == LegacyState(version, k, status)
             IN  Accounted(st) /\ st.superseded = <<>> /\ st.version = version
  <2> DEFINE st     == LegacyState(version, k, status)
             passed == FinishedStage(InitialStage, TRUE, "passed", Absent)
             stages == [s \in StageIds |-> IF s <= k THEN passed ELSE InitialStage]
             finished == status \in TerminalStatuses
  <2>1. st = [InitialState EXCEPT !.version = version, !.status = status,
                                  !.finished = finished, !.stages = stages]
    BY DEF LegacyState
  <2>2. Numbered(InitialStage)
    BY DEF Numbered, InitialStage
  <2>3. Numbered(passed)
    <3> DEFINE x == [attempt |-> 1, kind |-> "passed", usage |-> Absent]
    <3>1. passed.attempts = 1 /\ passed.history = <<x>>
      BY DEF FinishedStage, InitialStage
    <3>2. x.attempt = 1 /\ x.kind = "passed"
      OBVIOUS
    <3> HIDE DEF x, passed
    <3>3. Len(<<x>>) = 1 /\ DOMAIN <<x>> = {1} /\ <<x>>[1] = x /\ <<x>> # <<>>
      OBVIOUS
    <3> QED
      BY <3>1, <3>2, <3>3 DEF Numbered
  <2> HIDE DEF passed
  <2>4. \A s \in StageIds : Numbered(stages[s])
    BY <2>2, <2>3
  <2> HIDE DEF stages, finished, st
  <2>5. /\ st.stages = stages /\ st.version = version /\ st.status = status
        /\ st.superseded = <<>> /\ st.checkpoint = NoCheckpoint /\ st.receipt = NoReceipt
    BY <2>1 DEF InitialState
  <2>6. Accounted(st)
    BY <2>4, <2>5 DEF Accounted, HasCheckpoint, HasReceipt
  <2> QED
    BY <2>5, <2>6 DEF st
<1>2. disk # NoFile => Accounted(disk) /\ disk.superseded = <<>> /\ disk.version \in Versions
  BY <1>1 DEF Init, LegacyStates
<1>3. FileEvidence
  BY <1>2 DEF FileEvidence
<1>4. Progress
  BY DEF Init, Progress, MayGoOn, NoRun
<1> QED
  BY <1>3, <1>4 DEF Evidence

LEMMA InitialStateIsAccounted ==
    Accounted(InitialState) /\ InitialState.superseded = <<>> /\ InitialState.version = 3
<1>1. \A s \in StageIds : Numbered(InitialState.stages[s])
  BY DEF InitialState, InitialStage, Numbered
<1> QED
  BY <1>1 DEF Accounted, InitialState, HasCheckpoint, HasReceipt, RunnerFeatureVersion

LEMMA StartKeepsEvidence == EvidenceInv /\ Start => Evidence' /\ FileStep
<1> SUFFICES ASSUME EvidenceInv, Start PROVE Evidence' /\ FileStep
  OBVIOUS
<1>1. PICK ceiling \in Ceilings, budget \in RunBudgets,
           request \in {<<0, 0>>} \cup ((1..run.id) \X Reasons) :
             LET r == NewRun(ceiling, budget, request[1], request[2])
             IN  StartFresh(r) \/ StartResume(r) \/ StartRecovery(r) \/ StartThrows(r)
  BY DEF Start
<1> DEFINE r == NewRun(ceiling, budget, request[1], request[2])
<1>2. run.id \in Nat /\ pc = "idle"
  BY DEF EvidenceInv, RunnerInv, TypeOK, RunType, Start
<1>3. request[1] \in Nat /\ request[1] <= run.id
  <2>1. CASE request = <<0, 0>>
    BY <1>2, <2>1
  <2>2. CASE request \in (1..run.id) \X Reasons
    <3>1. request[1] \in 1..run.id
      BY <2>2
    <3> QED
      BY <1>2, <3>1
  <2> QED
    BY <2>1, <2>2
<1>4. /\ r.id = run.id + 1 /\ r.expected < r.id /\ r.worked = FALSE
      /\ NoRun(r.id).id = run.id + 1 /\ NoRun(r.id).worked = FALSE
  BY <1>2, <1>3 DEF NewRun, NoRun
<1> HIDE DEF r
<1>5. disk # NoFile => /\ IsState(disk) /\ Orderly(disk) /\ Accounted(disk)
                       /\ \A i \in DOMAIN disk.superseded : disk.superseded[i].by <= run.id
                       /\ 1 \notin Versions => disk.version # 1
  BY DEF EvidenceInv, Evidence, FileEvidence, RunnerInv, TypeOK
<1>6. disk # NoFile => \A i \in DOMAIN disk.superseded :
                         disk.superseded[i].by \in Nat /\ disk.superseded[i].by <= run.id + 1
  <2> SUFFICES ASSUME disk # NoFile, NEW i \in DOMAIN disk.superseded
               PROVE  disk.superseded[i].by \in Nat /\ disk.superseded[i].by <= run.id + 1
    OBVIOUS
  <2>1. disk.superseded[i] \in SupersededType
    BY <1>5, LedgerFacts
  <2>2. disk.superseded[i].by \in Nat
    BY <2>1 DEF SupersededType
  <2> QED
    BY <1>2, <1>5, <2>2
<1>7. ASSUME NEW st, Accounted(st), Enter(st), run' = r, disk' = st,
             \A i \in DOMAIN st.superseded : st.superseded[i].by <= run.id + 1,
             1 \notin Versions => st.version # 1
      PROVE  Evidence'
  <2>1. pc' = "correct" /\ verdict' = "none"
    BY <1>7 DEF Enter
  <2>2. FileEvidence'
    BY <1>4, <1>7 DEF FileEvidence
  <2>3. Progress'
    BY <1>4, <1>7, <2>1 DEF Progress, MayGoOn
  <2> QED
    BY <2>2, <2>3 DEF Evidence
<1>8. CASE StartFresh(r)
  <2>1. disk = NoFile /\ disk' = InitialState /\ run' = r /\ Enter(InitialState)
    BY <1>8 DEF StartFresh
  <2>2. Evidence'
    BY <1>7, <2>1, InitialStateIsAccounted
  <2> QED
    BY <2>1, <2>2 DEF FileStep, Created
<1>9. CASE StartResume(r)
  <2>1. disk # NoFile /\ disk' = ReconcilePipelineState(disk) /\ run' = r /\ Enter(disk')
    BY <1>9 DEF StartResume
  <2>2. /\ SameAttempts(disk, disk') /\ SameApproval(disk, disk') /\ Carried(disk, disk')
        /\ disk'.regressions = disk.regressions
        /\ disk'.economics = RecomputeEconomics(disk'.stages)
        /\ disk'.status = "done" <=> disk.status = "done"
    BY <1>5, <2>1, ReconcilePipelineStateKeeps
  <2>3. IsState(disk')
    BY <1>5, <2>1, ReconcilePipelineStateOrderly
  <2>4. disk'.status = "done" => HasReceipt(disk')
    BY <1>5, <2>1, <2>2 DEF Accounted, SameApproval, HasReceipt
  <2>5. Accounted(disk')
    BY <1>5, <2>1, <2>2, <2>3, <2>4, KeptIsAccounted DEF Carried
  <2>6. Evidence'
    BY <1>5, <1>6, <1>7, <2>1, <2>2, <2>5 DEF Carried
  <2> QED
    BY <2>1, <2>2, <2>6 DEF FileStep, KeepsEvidence, Carried
<1>10. CASE StartRecovery(r)
  <2>1. disk # NoFile /\ disk' = disk /\ run' = r /\ Enter(disk)
    BY <1>10 DEF StartRecovery
  <2> QED
    BY <1>5, <1>6, <1>7, <2>1 DEF FileStep
<1>11. CASE StartThrows(r)
  <2>1. disk' = disk /\ pc' = pc /\ mem' = mem /\ run' = NoRun(r.id) /\ verdict' = "thrown"
    BY <1>11 DEF StartThrows
  <2>2. FileEvidence'
    BY <1>4, <1>5, <1>6, <2>1 DEF FileEvidence
  <2>3. Progress'
    BY <1>2, <1>4, <2>1 DEF Progress, MayGoOn
  <2> QED
    BY <2>1, <2>2, <2>3 DEF Evidence, FileStep
<1> QED
  BY <1>1, <1>8, <1>9, <1>10, <1>11 DEF r

-----------------------------------------------------------------------------
(* Correction, recovery and selection *)

LEMMA SkipCorrectionKeepsEvidence == EvidenceInv /\ SkipCorrection => Evidence' /\ FileStep
<1> SUFFICES ASSUME EvidenceInv, SkipCorrection PROVE Evidence' /\ FileStep
  OBVIOUS
<1>1. /\ pc = "correct" /\ pc' = "recover"
      /\ (run.expected = 0 \/ CorrectionInProgress)
      /\ UNCHANGED <<disk, tree, mem, run, cur, nxt, verdict, examined>>
  BY DEF SkipCorrection
<1>2. run.expected # 0 => RecoveryRecorded(mem)
  BY <1>1 DEF SkipCorrection, CorrectionInProgress, RecoveryRecorded
<1>3. Progress'
  BY <1>1, <1>2 DEF EvidenceInv, Evidence, Progress, MayGoOn, RecoveryRecorded
<1> QED
  BY <1>1, <1>3 DEF EvidenceInv, Evidence, FileEvidence, FileStep

LEMMA RejectCorrectionKeepsEvidence ==
    EvidenceInv /\ RejectCorrection => Evidence' /\ FileStep
  BY EndRunKeepsEvidence DEF RejectCorrection, FileStep

LEMMA ApplyCorrectionKeepsEvidence == EvidenceInv /\ ApplyCorrection => Evidence' /\ FileStep
<1> SUFFICES ASSUME EvidenceInv, ApplyCorrection PROVE Evidence' /\ FileStep
  OBVIOUS
<1> DEFINE target   == CorrectionTarget(mem.receipt)
           st       == ApplyTerminalCorrection(mem, target, run.reason, run.id)
           continue == pc' = "recover" /\ UNCHANGED <<run, cur, nxt, verdict>>
           entry    == [sequence |-> Len(mem.superseded) + 1, expected |-> mem.receipt.run,
                        reason |-> run.reason, target |-> target, by |-> run.id,
                        receipt |-> mem.receipt]
<1>1. /\ pc = "correct" /\ run.expected # 0 /\ CorrectionEligible
      /\ Transition(st, continue) /\ UNCHANGED <<tree, examined>>
  BY DEF ApplyCorrection
<1>2. /\ mem.status = "done" /\ HasReceipt(mem) /\ mem.receipt.run = run.expected
      /\ target # NoStage /\ CorrectionScopeHolds(mem.receipt)
  BY <1>1 DEF CorrectionEligible
<1>3. target \in StageIds /\ target <= mem.receipt.stage
  <2>1. mem.receipt.stage \in StageIds /\ target = StageDefs[mem.receipt.stage].onFail
        /\ target < mem.receipt.stage
    BY <1>2 DEF CorrectionTarget
  <2>2. target \in Nat
    BY <2>1, StagesAreNumbered DEF StageDefType
  <2> HIDE DEF target
  <2> QED
    BY <1>2, <2>1, <2>2, StagesAreNumbered DEF StageIds, NoStage
<1>4. /\ IsState(mem) /\ Orderly(mem) /\ Accounted(mem) /\ disk = mem /\ disk # NoFile
      /\ \A i \in DOMAIN mem.superseded : mem.superseded[i].by <= run.id
      /\ run.id \in Nat /\ run.reason \in Nat
  BY <1>1, LiveEvidence
<1>5. mem.receipt.run < run.id
  BY <1>1, <1>2 DEF EvidenceInv, Evidence, Progress
<1> HIDE DEF target
<1>6. /\ SameAttempts(mem, st) /\ Unapproved(st)
      /\ st.version = RunnerFeatureVersion
      /\ st.superseded = Append(mem.superseded, entry)
      /\ st.regressions = mem.regressions /\ st.economics = mem.economics
      /\ st.status = "running"
      /\ Accounted(st)
  BY <1>2, <1>3, <1>4, <1>5, ApplyTerminalCorrectionAccounted
<1>7. IsState(st) /\ Orderly(st)
  BY <1>3, <1>4, ApplyTerminalCorrectionOrderly
<1>8. /\ entry.by = run.id /\ entry.expected = run.expected /\ entry.reason = run.reason
      /\ entry.receipt = mem.receipt /\ entry.expected = mem.receipt.run
  BY <1>2
<1>9. entry \in SupersededType
  <2>1. mem.receipt \in ReceiptType /\ mem.superseded \in Seq(SupersededType)
    BY <1>4 DEF IsState
  <2>2. mem.receipt.run \in Nat /\ Len(mem.superseded) + 1 \in Nat
    BY <2>1 DEF ReceiptType
  <2> QED
    BY <1>3, <1>4, <2>1, <2>2, StagesAreNumbered DEF SupersededType
<1> HIDE DEF st, entry
<1>10. /\ mem.superseded \in Seq(SupersededType) /\ Len(mem.superseded) \in Nat
       /\ DOMAIN mem.superseded = 1..Len(mem.superseded)
  BY <1>4, LedgerFacts
<1>11. /\ DOMAIN st.superseded = 1..(Len(mem.superseded) + 1)
       /\ Len(st.superseded) = Len(mem.superseded) + 1
       /\ st.superseded[Len(mem.superseded) + 1] = entry
       /\ \A i \in 1..Len(mem.superseded) : st.superseded[i] = mem.superseded[i]
       /\ st.superseded # <<>>
  BY <1>6, <1>9, <1>10
<1>12. \A i \in DOMAIN st.superseded : st.superseded[i].by <= run.id
  <2> SUFFICES ASSUME NEW i \in DOMAIN st.superseded PROVE st.superseded[i].by <= run.id
    OBVIOUS
  <2>1. CASE i \in 1..Len(mem.superseded)
    BY <1>4, <1>10, <1>11, <2>1
  <2>2. CASE i = Len(mem.superseded) + 1
    BY <1>4, <1>8, <1>11, <2>2
  <2> QED
    BY <1>10, <1>11, <2>1, <2>2
<1>13. RecoveryRecorded(st)
  BY <1>8, <1>11 DEF RecoveryRecorded, Last
<1>14. continue /\ mem' = st => run'.id = run.id /\ Progress'
  BY <1>1, <1>13 DEF EvidenceInv, Evidence, Progress, MayGoOn, RecoveryRecorded
<1>15. st.version >= mem.version
  BY <1>4, <1>6 DEF IsState, RunnerFeatureVersion
<1>16. pc # "idle"
  BY <1>1
<1> HIDE DEF continue
<1>17. Evidence' /\ disk' = st
  BY <1>1, <1>6, <1>7, <1>12, <1>14, <1>15, <1>16, SavedKeepsEvidence
<1>18. mem.receipt.code = tree.code /\ mem.receipt.docs = tree.docs
  <2>1. /\ FinalScopeResult(CheckpointOf(mem.receipt)) = "final-receipt"
        /\ ReceiptOf(CheckpointOf(mem.receipt), tree.code, tree.docs) = mem.receipt
    BY <1>2 DEF CorrectionScopeHolds
  <2>2. CheckpointOf(mem.receipt).code = tree.code
    BY <2>1 DEF FinalScopeResult
  <2>3. CheckpointOf(mem.receipt).code = mem.receipt.code
    BY DEF CheckpointOf
  <2>4. ReceiptOf(CheckpointOf(mem.receipt), tree.code, tree.docs).docs = tree.docs
    BY DEF ReceiptOf
  <2> QED
    BY <2>1, <2>2, <2>3, <2>4
<1>19. Superseded
  BY <1>1, <1>2, <1>4, <1>6, <1>8, <1>9, <1>17, <1>18 DEF Superseded
<1> QED
  BY <1>17, <1>19 DEF FileStep

\* Resets keep the evidence: what they leave is accounted for, and later steps
\* of the same invocation find what it has recorded.
LEMMA ResetIsAccounted ==
    ASSUME EvidenceInv, pc # "idle", NEW st, IsState(st),
           SameAttempts(mem, st), Unapproved(st), Carried(mem, st), st.status = "running"
    PROVE  /\ Accounted(st)
           /\ \A i \in DOMAIN st.superseded : st.superseded[i].by <= run.id
           /\ st.version >= mem.version
           /\ RecoveryRecorded(st) <=> RecoveryRecorded(mem)
<1>1. /\ IsState(mem) /\ Orderly(mem) /\ Accounted(mem)
      /\ \A i \in DOMAIN mem.superseded : mem.superseded[i].by <= run.id
  BY LiveEvidence
<1>2. Accounted(st)
  BY <1>1, KeptIsAccounted DEF Carried
<1>3. st.version >= mem.version
  BY <1>1 DEF Carried, IsState, RunnerFeatureVersion
<1> QED
  BY <1>1, <1>2, <1>3 DEF Carried, RecoveryRecorded

LEMMA RecoverLegacyReviewKeepsEvidence ==
    EvidenceInv /\ RecoverLegacyReview => Evidence' /\ FileStep
<1> SUFFICES ASSUME EvidenceInv, RecoverLegacyReview PROVE Evidence' /\ FileStep
  OBVIOUS
<1> DEFINE review   == Min(LegacyPassedReviews)
           st       == ResetReviewAndDownstream(mem, review)
           continue == pc' = "select" /\ UNCHANGED <<run, cur, nxt, verdict>>
<1>1. pc = "recover" /\ LegacyPassedReviews # {} /\ Transition(st, continue)
      /\ UNCHANGED <<tree, examined>>
  BY DEF RecoverLegacyReview
<1>2. review \in StageIds
  <2>1. LegacyPassedReviews \subseteq StageIds
    BY DEF LegacyPassedReviews, ReviewStages
  <2>2. PICK m \in LegacyPassedReviews : \A k \in LegacyPassedReviews : m <= k
    BY <1>1, <2>1, SmallestElement, StagesAreNumbered
  <2>3. review \in LegacyPassedReviews
    BY <2>2 DEF Min
  <2> QED
    BY <2>1, <2>3
<1>3. IsState(mem) /\ Orderly(mem) /\ disk = mem /\ disk # NoFile
  BY <1>1, LiveEvidence
<1> HIDE DEF review
<1>4. NoOrigin \in Origin
  BY DEF NoOrigin, Origin, NoStage
<1>5. IsState(st) /\ Orderly(st)
  BY <1>2, <1>3, <1>4, ResetStageAndDownstreamOrderly DEF ResetReviewAndDownstream
<1>6. /\ SameAttempts(mem, st) /\ Unapproved(st) /\ Carried(mem, st)
      /\ st.regressions = mem.regressions /\ st.economics = mem.economics
      /\ st.status = "running"
  BY <1>3, ResetDownstreamKeeps DEF ResetReviewAndDownstream
<1>7. pc # "idle"
  BY <1>1
<1> HIDE DEF st
<1>8. /\ Accounted(st)
      /\ \A i \in DOMAIN st.superseded : st.superseded[i].by <= run.id
      /\ st.version >= mem.version
      /\ RecoveryRecorded(st) <=> RecoveryRecorded(mem)
  BY <1>5, <1>6, <1>7, ResetIsAccounted
<1>9. continue /\ mem' = st => run'.id = run.id /\ Progress'
  BY <1>1, <1>8 DEF EvidenceInv, Evidence, Progress, MayGoOn, RecoveryRecorded
<1> HIDE DEF continue
<1>10. Evidence' /\ disk' = st
  BY <1>1, <1>5, <1>7, <1>8, <1>9, SavedKeepsEvidence
<1>11. ~HasCheckpoint(mem)
  BY <1>1 DEF LegacyPassedReviews
<1>12. Revoked
  BY <1>3, <1>6, <1>10, <1>11 DEF Revoked, Carried
<1> QED
  BY <1>10, <1>12 DEF FileStep

\* A step that neither saves nor leaves the invocation keeps the evidence if it
\* keeps what the program points say.
LEMMA UnsavedKeepsEvidence ==
    ASSUME EvidenceInv, disk' = disk, run'.id = run.id, Progress'
    PROVE  Evidence' /\ FileStep
  BY DEF EvidenceInv, Evidence, FileEvidence, FileStep

LEMMA SelectStageKeepsEvidence == EvidenceInv /\ SelectStage => Evidence' /\ FileStep
<1> SUFFICES ASSUME EvidenceInv, SelectStage PROVE Evidence' /\ FileStep
  OBVIOUS
<1>1. /\ pc \in {"recover", "select"} /\ pc' = "step"
      /\ UNCHANGED <<disk, tree, mem, run, nxt, verdict, examined>>
  BY DEF SelectStage
<1>2. Progress'
  BY <1>1 DEF EvidenceInv, Evidence, Progress, MayGoOn, RecoveryRecorded
<1> QED
  BY <1>1, <1>2, UnsavedKeepsEvidence

-----------------------------------------------------------------------------
(* The stage step *)

LEMMA AbortBeforeStageKeepsEvidence ==
    EvidenceInv /\ AbortBeforeStage => Evidence' /\ FileStep
<1> SUFFICES ASSUME EvidenceInv, AbortBeforeStage PROVE Evidence' /\ FileStep
  OBVIOUS
<1>1. /\ pc = "step" /\ pc' = "finalize" /\ verdict' = "needs-attention"
      /\ UNCHANGED <<disk, tree, mem, run, cur, nxt, examined>>
  BY DEF AbortBeforeStage
<1>2. Progress'
  BY <1>1 DEF EvidenceInv, Evidence, Progress, MayGoOn, RecoveryRecorded
<1> QED
  BY <1>1, <1>2, UnsavedKeepsEvidence

\* A state with the same approval and attempts is accounted for as before.
LEMMA KeptWhileRunning ==
    ASSUME EvidenceInv, pc # "idle", NEW st, IsState(st),
           SameAttempts(mem, st), SameApproval(mem, st), Carried(mem, st),
           st.status = "done" => HasReceipt(mem)
    PROVE  /\ Accounted(st)
           /\ \A i \in DOMAIN st.superseded : st.superseded[i].by <= run.id
           /\ st.version >= mem.version
           /\ RecoveryRecorded(st) <=> RecoveryRecorded(mem)
<1>1. /\ IsState(mem) /\ Orderly(mem) /\ Accounted(mem)
      /\ \A i \in DOMAIN mem.superseded : mem.superseded[i].by <= run.id
  BY LiveEvidence
<1>2. st.status = "done" => HasReceipt(st)
  BY DEF SameApproval, HasReceipt
<1>3. Accounted(st)
  BY <1>1, <1>2, KeptIsAccounted DEF Carried
<1>4. st.version >= mem.version
  BY <1>1 DEF Carried, IsState, RunnerFeatureVersion
<1> QED
  BY <1>1, <1>3, <1>4 DEF Carried, RecoveryRecorded

LEMMA BeginStageKeepsEvidence == EvidenceInv /\ BeginStage => Evidence' /\ FileStep
<1> SUFFICES ASSUME EvidenceInv, BeginStage PROVE Evidence' /\ FileStep
  OBVIOUS
<1> DEFINE st       == MarkStageRunning(mem, cur)
           continue == pc' = "exec" /\ UNCHANGED <<run, cur, nxt, verdict>>
<1>1. pc = "step" /\ cur # NoStage /\ Transition(st, continue) /\ UNCHANGED <<tree, examined>>
  BY DEF BeginStage
<1>2. IsState(mem) /\ Orderly(mem) /\ disk = mem /\ disk # NoFile
  BY <1>1, LiveEvidence
<1>3. cur \in StageIds /\ Reached(mem, cur)
  BY <1>1 DEF EvidenceInv, RunnerInv, TypeOK, Position, AtStage
<1>4. IsState(st) /\ Orderly(st)
  BY <1>2, <1>3, MarkStageRunningOrderly DEF Reached
<1>5. /\ SameAttempts(mem, st) /\ SameApproval(mem, st) /\ Carried(mem, st)
      /\ st.regressions = mem.regressions /\ st.economics = mem.economics
      /\ st.status = "running"
  BY <1>2, <1>3, MarkStageRunningKeeps
<1>6. pc # "idle" /\ st.status # "done"
  BY <1>1, <1>5
<1> HIDE DEF st
<1>7. /\ Accounted(st)
      /\ \A i \in DOMAIN st.superseded : st.superseded[i].by <= run.id
      /\ st.version >= mem.version
      /\ RecoveryRecorded(st) <=> RecoveryRecorded(mem)
  BY <1>4, <1>5, <1>6, KeptWhileRunning
<1>8. continue /\ mem' = st => run'.id = run.id /\ Progress'
  BY <1>1, <1>5, <1>7 DEF EvidenceInv, Evidence, Progress, MayGoOn, RecoveryRecorded
<1> HIDE DEF continue
<1>9. Evidence' /\ disk' = st
  BY <1>1, <1>4, <1>6, <1>7, <1>8, SavedKeepsEvidence
<1>10. KeepsEvidence
  BY <1>2, <1>5, <1>9 DEF KeepsEvidence, Carried
<1> QED
  BY <1>9, <1>10 DEF FileStep

\* An attempt of the running stage, with the approval kept or dropped.
LEMMA AttemptWhileRunning ==
    ASSUME EvidenceInv, pc = "exec", NEW st, IsState(st), NEW kind \in DecisionKinds,
           OneMoreAttempt(mem, st, cur, kind), Carried(mem, st), st.status = mem.status,
           SameApproval(mem, st) \/ Unapproved(st)
    PROVE  /\ Accounted(st)
           /\ \A i \in DOMAIN st.superseded : st.superseded[i].by <= run.id
           /\ st.version >= mem.version
           /\ RecoveryRecorded(st) <=> RecoveryRecorded(mem)
<1>1. /\ IsState(mem) /\ Orderly(mem) /\ Accounted(mem)
      /\ \A i \in DOMAIN mem.superseded : mem.superseded[i].by <= run.id
  BY LiveEvidence
<1>2. cur \in StageIds /\ Reached(mem, cur) /\ mem.status = "running"
  BY DEF EvidenceInv, RunnerInv, TypeOK, Position
<1>3. HasCheckpoint(st) => st.checkpoint.stage # cur
  <2>1. HasCheckpoint(st) => HasCheckpoint(mem) /\ st.checkpoint = mem.checkpoint
    BY DEF SameApproval, Unapproved, HasCheckpoint
  <2>2. HasCheckpoint(mem) => mem.checkpoint.stage < cur /\ mem.checkpoint.stage \in StageIds
    BY <1>1, <1>2 DEF Reached, Orderly
  <2> QED
    BY <1>2, <2>1, <2>2, StagesAreNumbered
<1>4. Accounted(st)
  BY <1>1, <1>2, <1>3, OneMoreIsAccounted DEF Carried
<1>5. st.version >= mem.version
  BY <1>1 DEF Carried, IsState, RunnerFeatureVersion
<1> QED
  BY <1>1, <1>4, <1>5 DEF Carried, RecoveryRecorded

LEMMA ExecutorThrowsKeepsEvidence == EvidenceInv /\ ExecutorThrows => Evidence' /\ FileStep
<1> SUFFICES ASSUME EvidenceInv, ExecutorThrows PROVE Evidence' /\ FileStep
  OBVIOUS
<1> DEFINE st       == ApplyExecutorError(mem, cur)
           continue == /\ pc' = "finalize" /\ verdict' = "needs-attention"
                       /\ UNCHANGED <<run, cur, nxt>>
<1>1. pc = "exec" /\ Transition(st, continue) /\ UNCHANGED <<tree, examined>>
  BY DEF ExecutorThrows
<1>2. IsState(mem) /\ Orderly(mem) /\ disk = mem /\ disk # NoFile
  BY <1>1, LiveEvidence
<1>3. /\ cur \in StageIds /\ Reached(mem, cur) /\ mem.status = "running"
      /\ RunningIn(mem, cur)
  BY <1>1 DEF EvidenceInv, RunnerInv, TypeOK, Position
<1>4. IsState(st) /\ Orderly(st)
  BY <1>2, <1>3, ApplyExecutorErrorOrderly
<1>5. /\ OneMoreAttempt(mem, st, cur, "failed") /\ Carried(mem, st)
      /\ SameApproval(mem, st)
      /\ st.regressions = mem.regressions /\ Booked(mem, st, cur)
      /\ st.status = mem.status
  BY <1>2, <1>3, ApplyExecutorErrorRecords
<1>6. pc # "idle" /\ "failed" \in DecisionKinds
  BY <1>1 DEF DecisionKinds
<1> HIDE DEF st
<1>7. /\ Accounted(st)
      /\ \A i \in DOMAIN st.superseded : st.superseded[i].by <= run.id
      /\ st.version >= mem.version
      /\ RecoveryRecorded(st) <=> RecoveryRecorded(mem)
  BY <1>1, <1>4, <1>5, <1>6, AttemptWhileRunning
<1>8. continue /\ mem' = st => run'.id = run.id /\ Progress'
  BY <1>1, <1>7 DEF EvidenceInv, Evidence, Progress, MayGoOn, RecoveryRecorded
<1> HIDE DEF continue
<1>9. Evidence' /\ disk' = st
  BY <1>1, <1>4, <1>6, <1>7, <1>8, SavedKeepsEvidence
<1>10. disk.status # "done" /\ disk'.status # "done" /\ ~HasReceipt(disk)
  BY <1>2, <1>3, <1>5, <1>9 DEF Reached
<1>11. Attempted
  BY <1>2, <1>3, <1>5, <1>6, <1>9, <1>10 DEF Attempted, Carried
<1> QED
  BY <1>9, <1>11 DEF FileStep

LEMMA SettleStageKeepsEvidence == EvidenceInv /\ SettleStage => Evidence' /\ FileStep
<1> SUFFICES ASSUME EvidenceInv, SettleStage PROVE Evidence' /\ FileStep
  OBVIOUS
<1> DEFINE spent(r) == AccumulateEconomics(mem.economics, r.usage)
           eval(r)  == EvaluateStageExecution(cur, r, mem.regressions, run.ceiling, run.budget,
                                              spent(r))
           moves(e) == /\ verdict' = StageFailureOutcome(e)
                       /\ nxt' = e.route.next
                       /\ \/ /\ e.decision.passed /\ IsCodeReviewStage(cur)
                             /\ pc' = "attest" /\ cur' = cur
                          \/ /\ ~(e.decision.passed /\ IsCodeReviewStage(cur))
                             /\ StageFailureOutcome(e) = "none"
                             /\ pc' = "step" /\ cur' = e.route.next
                          \/ /\ ~(e.decision.passed /\ IsCodeReviewStage(cur))
                             /\ StageFailureOutcome(e) # "none"
                             /\ pc' = "finalize" /\ cur' = cur
                       /\ run' = [run EXCEPT !.worked = TRUE]
<1>1. pc = "exec"
  BY DEF SettleStage
<1>2. PICK r \in ReturnedBy(cur) :
        Transition(ApplyStageOutcome(mem, cur, eval(r), r.output # "null"), moves(eval(r)))
  BY DEF SettleStage
<1>3. IsState(mem) /\ Orderly(mem) /\ disk = mem /\ disk # NoFile
  BY <1>1, LiveEvidence
<1>4. /\ cur \in StageIds /\ Reached(mem, cur) /\ mem.status = "running"
      /\ RunningIn(mem, cur)
  BY <1>1 DEF EvidenceInv, RunnerInv, TypeOK, Position
<1>5. r \in ResultType
  BY RunnerAssumption DEF ReturnedBy
<1>6. mem.regressions \in Nat /\ run.ceiling \in Nat /\ run \in RunType
  BY <1>3 DEF IsState, EvidenceInv, RunnerInv, TypeOK, RunType
<1> DEFINE e  == eval(r)
           st == ApplyStageOutcome(mem, cur, e, r.output # "null")
<1>7. IsEvaluation(cur, e)
  BY <1>4, <1>5, <1>6, EvaluationShape
<1>8. /\ IsCharged(e, mem.regressions, run.ceiling)
      /\ e.decision.usage = r.usage
      /\ StageFailureOutcome(e) = "none" => RunBudgetPassed(run.budget, spent(r))
  BY <1>4, <1>5, <1>6, EvaluationCharges
<1> HIDE DEF eval, e
<1>9. /\ IsState(st) /\ Orderly(st)
  BY <1>3, <1>4, <1>7, ApplyStageOutcomeOrderly
<1>10. /\ OneMoreAttempt(mem, st, cur, e.decision.kind) /\ Carried(mem, st)
       /\ IF e.route.action = "regress" THEN Unapproved(st) ELSE SameApproval(mem, st)
       /\ st.regressions = e.route.regressions
       /\ st.economics = AccumulateEconomics(mem.economics, e.decision.usage)
       /\ Booked(mem, st, cur)
       /\ st.status = mem.status
  BY <1>3, <1>4, <1>7, <1>8, ApplyStageOutcomeRecords
<1>11. e.decision.kind \in DecisionKinds /\ pc # "idle"
  BY <1>1, <1>7 DEF IsEvaluation
<1>12. StageFailureOutcome(e) \in {"none", "failed", "needs-attention"}
  BY DEF StageFailureOutcome
<1> DEFINE continue == moves(e)
<1>13. Transition(st, continue)
  BY <1>2 DEF e
<1> HIDE DEF st
<1>14. /\ Accounted(st)
       /\ \A i \in DOMAIN st.superseded : st.superseded[i].by <= run.id
       /\ st.version >= mem.version
       /\ RecoveryRecorded(st) <=> RecoveryRecorded(mem)
  BY <1>1, <1>9, <1>10, <1>11, AttemptWhileRunning
<1>15. StageFailureOutcome(e) = "none" => RunBudgetPassed(run.budget, st.economics)
  BY <1>8, <1>10
<1> HIDE DEF spent
<1>16. continue /\ mem' = st => run'.id = run.id /\ Progress'
  <2> SUFFICES ASSUME moves(e), mem' = st PROVE run'.id = run.id /\ Progress'
    OBVIOUS
  <2>1. /\ run'.id = run.id /\ run'.expected = run.expected /\ run'.reason = run.reason
        /\ run'.budget = run.budget
    BY <1>6 DEF RunType
  <2>2. pc' \in {"attest", "step", "finalize"} /\ verdict' = StageFailureOutcome(e)
        /\ (MayGoOn' => StageFailureOutcome(e) = "none")
    BY DEF MayGoOn
  <2>3. run.expected < run.id /\ (run.expected # 0 => RecoveryRecorded(mem))
    BY <1>1 DEF EvidenceInv, Evidence, Progress
  <2>4. run'.expected # 0 => RecoveryRecorded(mem)'
    BY <1>14, <2>1, <2>3 DEF RecoveryRecorded
  <2> QED
    BY <1>4, <1>10, <1>12, <1>15, <2>1, <2>2, <2>3, <2>4 DEF Progress
<1> HIDE DEF continue
<1>17. Evidence' /\ disk' = st
  BY <1>9, <1>11, <1>13, <1>14, <1>16, SavedKeepsEvidence
<1>18. disk.status # "done" /\ disk'.status # "done" /\ ~HasReceipt(disk)
  BY <1>3, <1>4, <1>10, <1>17 DEF Reached
<1>19. \/ SameApproval(disk, disk') /\ disk'.regressions = disk.regressions
       \/ /\ Unapproved(disk')
          /\ e.decision.kind = "gate-failed"
          /\ disk.regressions < run.ceiling
          /\ disk'.regressions = disk.regressions + 1
  BY <1>3, <1>8, <1>10, <1>17 DEF IsCharged
<1>20. Attempted
  BY <1>3, <1>4, <1>10, <1>11, <1>17, <1>18, <1>19 DEF Attempted, Carried
<1> QED
  BY <1>17, <1>20 DEF FileStep

\* Attaching the checkpoint of a stage whose latest attempt has passed.
LEMMA ApprovalWhileLive ==
    ASSUME EvidenceInv, pc # "idle", ~HasReceipt(mem), mem.status # "done",
           NEW s \in StageIds
    PROVE  LET c     == ObservedCheckpoint([stage |-> s, attempt |-> mem.stages[s].attempts])
               after == AttachReviewCheckpoint(mem, c)
           IN  /\ SameAttempts(mem, after) /\ HasCheckpoint(after)
               /\ after.checkpoint = c /\ after.checkpoint.run = run.id
               /\ after.receipt = NoReceipt /\ after.status = mem.status
               /\ after.superseded = mem.superseded /\ after.version >= mem.version
               /\ after.regressions = mem.regressions /\ after.economics = mem.economics
               /\ \A i \in DOMAIN after.superseded : after.superseded[i].by <= run.id
               /\ RecoveryRecorded(after) <=> RecoveryRecorded(mem)
               /\ mem.status \in {"pending", "running"} => Accounted(after)
               /\ IsPipelineState(after) => Accounted(after)
<1> DEFINE c     == ObservedCheckpoint([stage |-> s, attempt |-> mem.stages[s].attempts])
           after == AttachReviewCheckpoint(mem, c)
<1>1. /\ IsState(mem) /\ Orderly(mem) /\ Accounted(mem)
      /\ \A i \in DOMAIN mem.superseded : mem.superseded[i].by <= run.id
  BY LiveEvidence
<1>2. mem.stages[s].attempts \in Nat
  BY <1>1 DEF IsState, StageStateType
<1>3. c \in CheckpointType /\ c.stage = s
  BY <1>2, ObservedIsCheckpoint DEF EvidenceInv
<1>4. c.attempt = mem.stages[s].attempts /\ c.run = run.id
  BY DEF ObservedCheckpoint
<1> HIDE DEF c
<1>5. /\ SameAttempts(mem, after) /\ after.checkpoint = c /\ after.receipt = NoReceipt
      /\ HasCheckpoint(after)
      /\ after.superseded = mem.superseded /\ after.version >= mem.version
      /\ after.regressions = mem.regressions /\ after.economics = mem.economics
      /\ after.status = mem.status
      /\ mem.status \in {"pending", "running"} => Accounted(after)
      /\ IsPipelineState(after) => Accounted(after)
  BY <1>1, <1>3, <1>4, AttachReviewCheckpointAccounted
<1> HIDE DEF after
<1>6. /\ \A i \in DOMAIN after.superseded : after.superseded[i].by <= run.id
      /\ RecoveryRecorded(after) <=> RecoveryRecorded(mem)
  BY <1>1, <1>5 DEF RecoveryRecorded
<1>7. after.checkpoint.run = run.id
  BY <1>4, <1>5
<1> QED
  BY <1>5, <1>6, <1>7 DEF after, c

LEMMA AttestReviewKeepsEvidence == EvidenceInv /\ AttestReview => Evidence' /\ FileStep
<1> SUFFICES ASSUME EvidenceInv, AttestReview PROVE Evidence' /\ FileStep
  OBVIOUS
<1> DEFINE c        == ObservedCheckpoint([stage |-> cur, attempt |-> mem.stages[cur].attempts])
           st       == AttachReviewCheckpoint(mem, c)
           continue == /\ \/ verdict = "none" /\ pc' = "step" /\ cur' = nxt
                          \/ verdict # "none" /\ pc' = "finalize" /\ cur' = cur
                       /\ UNCHANGED <<run, nxt, verdict>>
<1>1. pc = "attest" /\ Transition(st, continue) /\ UNCHANGED <<tree, examined>>
  BY DEF AttestReview
<1>2. IsState(mem) /\ Orderly(mem) /\ disk = mem /\ disk # NoFile
  BY <1>1, LiveEvidence
<1>3. /\ cur \in StageIds
      /\ \A t \in StageIds : t <= cur => PassedIn(mem, t)
      /\ ~HasReceipt(mem)
  BY <1>1 DEF EvidenceInv, RunnerInv, TypeOK, Position
<1>4. mem.status = "running" /\ verdict # "done"
  BY <1>1 DEF EvidenceInv, Evidence, Progress
<1>5. mem.stages[cur].attempts \in Nat
  BY <1>2, <1>3 DEF IsState, StageStateType
<1>6. c \in CheckpointType /\ c.stage = cur
  BY <1>3, <1>5, ObservedIsCheckpoint DEF EvidenceInv
<1>7. /\ SameAttempts(mem, st) /\ HasCheckpoint(st)
      /\ st.checkpoint.run = run.id
      /\ st.receipt = NoReceipt /\ st.status = mem.status
      /\ st.superseded = mem.superseded /\ st.version >= mem.version
      /\ st.regressions = mem.regressions /\ st.economics = mem.economics
      /\ \A i \in DOMAIN st.superseded : st.superseded[i].by <= run.id
      /\ RecoveryRecorded(st) <=> RecoveryRecorded(mem)
      /\ Accounted(st)
  <2>1. pc # "idle" /\ mem.status # "done" /\ mem.status \in {"pending", "running"}
    BY <1>1, <1>4
  <2> QED
    BY <1>3, <2>1, ApprovalWhileLive
<1> HIDE DEF c
<1>8. IsState(st) /\ Orderly(st)
  BY <1>2, <1>3, <1>6, AttachReviewCheckpointOrderly
<1>9. pc # "idle"
  BY <1>1
<1> HIDE DEF st
<1>10. continue /\ mem' = st => run'.id = run.id /\ Progress'
  BY <1>1, <1>4, <1>7 DEF EvidenceInv, Evidence, Progress, MayGoOn, RecoveryRecorded
<1> HIDE DEF continue
<1>11. Evidence' /\ disk' = st
  BY <1>1, <1>7, <1>8, <1>9, <1>10, SavedKeepsEvidence
<1>12. Approved
  BY <1>2, <1>4, <1>7, <1>11 DEF Approved
<1> QED
  BY <1>11, <1>12 DEF FileStep

LEMMA ReviewAttestationRejectedKeepsEvidence ==
    EvidenceInv /\ ReviewAttestationRejected => Evidence' /\ FileStep
<1> SUFFICES ASSUME EvidenceInv, ReviewAttestationRejected PROVE Evidence' /\ FileStep
  OBVIOUS
<1>1. /\ pc = "attest" /\ pc' = "finalize" /\ verdict' = "needs-attention"
      /\ UNCHANGED <<disk, tree, mem, run, cur, nxt, examined>>
  BY DEF ReviewAttestationRejected
<1>2. Progress'
  BY <1>1 DEF EvidenceInv, Evidence, Progress, MayGoOn, RecoveryRecorded
<1> QED
  BY <1>1, <1>2, UnsavedKeepsEvidence

-----------------------------------------------------------------------------
(* The final step *)

\* A rejected final scope changes nothing but the way on.
LEMMA RejectFinalScopeKeepsEvidence ==
    ASSUME EvidenceInv, pc = "step", RejectFinalScope
    PROVE  Evidence' /\ FileStep
<1>1. Progress'
  BY DEF EvidenceInv, Evidence, Progress, MayGoOn, RecoveryRecorded, RejectFinalScope
<1> QED
  BY <1>1, UnsavedKeepsEvidence DEF RejectFinalScope

LEMMA BackfillCheckpointKeepsEvidence ==
    EvidenceInv /\ BackfillCheckpoint => Evidence' /\ FileStep
<1> SUFFICES ASSUME EvidenceInv, BackfillCheckpoint PROVE Evidence' /\ FileStep
  OBVIOUS
<1>1. pc = "step" /\ cur = NoStage /\ ~HasCheckpoint(mem)
  BY DEF BackfillCheckpoint, NeedsReviewCheckpointBackfill
<1>2. CASE RejectFinalScope
  BY <1>1, <1>2, RejectFinalScopeKeepsEvidence
<1>3. CASE ~RejectFinalScope
  <2> DEFINE st(s) == AttachReviewCheckpoint(mem, ObservedCheckpoint(
                          [stage |-> s, attempt |-> mem.stages[s].attempts]))
  <2>1. PICK s \in BackfillableReviews :
          /\ IsPipelineState(st(s))
          /\ mem' = st(s) /\ disk' = st(s) /\ UNCHANGED <<pc, run, cur, nxt, verdict>>
    BY <1>3 DEF BackfillCheckpoint
  <2>2. s \in StageIds
    BY <2>1 DEF BackfillableReviews, PassedReviews, ReviewStages
  <2>3. /\ IsState(mem) /\ Orderly(mem) /\ Accounted(mem) /\ disk = mem /\ disk # NoFile
        /\ 1 \notin Versions => mem.version # 1
    BY <1>1, LiveEvidence
  <2>4. ~HasReceipt(mem) /\ mem.status # "done" /\ pc # "idle"
    BY <1>1, <2>3 DEF Accounted
  <2> DEFINE after == st(s)
  <2>5. mem' = after /\ disk' = after /\ IsPipelineState(after)
    BY <2>1
  <2>6. /\ SameAttempts(mem, after) /\ HasCheckpoint(after)
        /\ after.checkpoint.run = run.id
        /\ after.receipt = NoReceipt /\ after.status = mem.status
        /\ after.superseded = mem.superseded /\ after.version >= mem.version
        /\ after.regressions = mem.regressions /\ after.economics = mem.economics
        /\ \A i \in DOMAIN after.superseded : after.superseded[i].by <= run.id
        /\ RecoveryRecorded(after) <=> RecoveryRecorded(mem)
        /\ Accounted(after)
    BY <2>2, <2>4, <2>5, ApprovalWhileLive
  <2>7. after.version \in Nat /\ mem.version \in 1..RunnerFeatureVersion
    <3>1. ScopeAttachmentFeatureVersion(mem) \in Nat
      BY <2>3, VersionForApproval DEF RunnerFeatureVersion
    <3>2. mem.version \in 1..RunnerFeatureVersion
      BY <2>3 DEF IsState
    <3>3. after.version = ScopeAttachmentFeatureVersion(mem)
      BY <2>3 DEF AttachReviewCheckpoint, IsState
    <3> QED
      BY <3>1, <3>2, <3>3
  <2> HIDE DEF after, st
  <2>8. FileEvidence'
    BY <2>1, <2>3, <2>5, <2>6, <2>7 DEF FileEvidence, RunnerFeatureVersion
  <2>9. Progress'
    BY <1>1, <2>1, <2>5, <2>6 DEF EvidenceInv, Evidence, Progress, MayGoOn, RecoveryRecorded
  <2>10. Approved
    BY <2>3, <2>4, <2>5, <2>6 DEF Approved
  <2> QED
    BY <2>8, <2>9, <2>10 DEF Evidence, FileStep
<1> QED
  BY <1>2, <1>3


\* What the final receipt is made from: the standing approval, or the latest
\* attempt of the last stage, which has passed.
LEMMA FinalCheckpointIsCurrent ==
    ASSUME EvidenceInv, pc = "step", cur = NoStage, LastPassedStage # NoStage
    PROVE  /\ HasCheckpoint(mem) => FinalCheckpoint = mem.checkpoint
           /\ ~HasCheckpoint(mem) =>
                /\ FinalCheckpoint.attempt = mem.stages[FinalCheckpoint.stage].attempts
                /\ FinalCheckpoint.run = run.id
<1>1. CASE HasCheckpoint(mem)
  BY <1>1 DEF FinalCheckpoint
<1>2. CASE ~HasCheckpoint(mem)
  <2> DEFINE attempts == mem.stages[LastPassedStage].attempts
             attempt  == Max({1, attempts})
  <2>1. FinalCheckpoint = ObservedCheckpoint([stage |-> LastPassedStage, attempt |-> attempt])
    BY <1>2 DEF FinalCheckpoint
  <2>2. /\ FinalCheckpoint.stage = LastPassedStage /\ FinalCheckpoint.attempt = attempt
        /\ FinalCheckpoint.run = run.id
    BY <2>1 DEF ObservedCheckpoint
  <2>3. IsState(mem) /\ Accounted(mem) /\ \A t \in StageIds : PassedIn(mem, t)
    BY FinalStepIsComplete, LiveEvidence DEF EvidenceInv
  <2>4. LastPassedStage \in StageIds
    BY <2>2, FinalCheckpointIsCheckpoint DEF EvidenceInv
  <2>5. /\ mem.stages[LastPassedStage].history # <<>>
        /\ attempts = Len(mem.stages[LastPassedStage].history)
    BY <2>3, <2>4 DEF Accounted, Numbered, PassedIn
  <2>6. mem.stages[LastPassedStage].history \in Seq(Attempt)
    BY <2>3, <2>4, HistoryFacts
  <2>7. attempts \in Nat /\ attempts >= 1
    BY <2>5, <2>6
  <2>8. attempt = attempts
    <3> HIDE DEF attempts
    <3>1. attempts \in {1, attempts} /\ \A y \in {1, attempts} : attempts >= y
      BY <2>7
    <3>2. attempt \in {1, attempts} /\ attempt >= attempts /\ attempt >= 1
      BY <3>1 DEF Max
    <3> QED
      BY <2>7, <3>2
  <2> QED
    BY <1>2, <2>2, <2>8
<1> QED
  BY <1>1, <1>2

LEMMA FinalScopeAttestedKeepsEvidence ==
    EvidenceInv /\ FinalScopeAttested => Evidence' /\ FileStep
<1> SUFFICES ASSUME EvidenceInv, FinalScopeAttested PROVE Evidence' /\ FileStep
  OBVIOUS
<1> DEFINE receipt  == ReceiptOf(FinalCheckpoint, tree.code, tree.docs)
           st       == AttachFinalScopeReceipt(mem, receipt)
           continue == /\ pc' = "finalize" /\ verdict' = "done"
                       /\ UNCHANGED <<run, cur, nxt>>
<1>1. /\ pc = "step" /\ cur = NoStage /\ LastPassedStage # NoStage
      /\ ~NeedsReviewCheckpointBackfill
      /\ FinalScopeResult(FinalCheckpoint) = "final-receipt"
      /\ Transition(st, continue)
  BY DEF FinalScopeAttested, FinalStep
<1>2. /\ IsState(mem) /\ Orderly(mem) /\ Accounted(mem) /\ disk = mem /\ disk # NoFile
      /\ \A i \in DOMAIN mem.superseded : mem.superseded[i].by <= run.id
      /\ 1 \notin Versions => mem.version # 1
  BY <1>1, LiveEvidence
<1>3. FinalCheckpoint \in CheckpointType /\ FinalCheckpoint.stage \in StageIds
  BY <1>1, FinalCheckpointIsCheckpoint DEF EvidenceInv
<1>4. /\ receipt \in ReceiptType /\ receipt.stage \in StageIds
      /\ receipt.final = <<receipt.code, receipt.docs>>
      /\ CheckpointOf(receipt) = FinalCheckpoint
      /\ receipt.stage = FinalCheckpoint.stage /\ receipt.attempt = FinalCheckpoint.attempt
      /\ receipt.run = FinalCheckpoint.run
  <2>1. tree.code \in Nat /\ tree.docs \in Nat
    BY RunnerAssumption DEF EvidenceInv, RunnerInv, TypeOK, TreeType
  <2>2. receipt \in ReceiptType
    BY <1>3, <2>1 DEF ReceiptOf, CheckpointType, ReceiptType
  <2>3. CheckpointOf(receipt) = FinalCheckpoint
    BY <1>3 DEF ReceiptOf, CheckpointOf, CheckpointType
  <2>4. /\ receipt.stage = FinalCheckpoint.stage /\ receipt.attempt = FinalCheckpoint.attempt
        /\ receipt.run = FinalCheckpoint.run
        /\ receipt.code = FinalCheckpoint.code /\ receipt.docs = tree.docs
    BY DEF ReceiptOf
  <2>5. receipt.final = <<tree.code, tree.docs>>
    BY DEF ReceiptOf
  <2>6. FinalCheckpoint.code = tree.code
    BY <1>1 DEF FinalScopeResult
  <2> HIDE DEF receipt
  <2> QED
    BY <1>3, <2>2, <2>3, <2>4, <2>5, <2>6
<1>5. /\ HasCheckpoint(mem) => CheckpointOf(receipt) = mem.checkpoint
      /\ ~HasCheckpoint(mem) =>
           /\ receipt.attempt = mem.stages[receipt.stage].attempts
           /\ receipt.run = run.id
           /\ \A i \in DOMAIN mem.superseded : mem.superseded[i].by <= receipt.run
  BY <1>1, <1>2, <1>4, FinalCheckpointIsCurrent
<1> HIDE DEF receipt
<1>6. /\ SameAttempts(mem, st)
      /\ st.checkpoint = CheckpointOf(receipt) /\ st.receipt = receipt
      /\ HasCheckpoint(st) /\ HasReceipt(st)
      /\ st.superseded = mem.superseded /\ st.version >= mem.version
      /\ st.regressions = mem.regressions /\ st.economics = mem.economics
      /\ st.status = mem.status
      /\ HasCheckpoint(mem) \/ mem.version # 1 => Accounted(st)
      /\ IsPipelineState(st) => Accounted(st)
  BY <1>2, <1>4, <1>5, AttachFinalScopeReceiptAccounted
<1>7. IsState(st) /\ Orderly(st)
  <2>1. \A t \in StageIds : PassedIn(mem, t)
    BY <1>1, FinalStepIsComplete DEF EvidenceInv
  <2> QED
    BY <1>2, <1>4, <2>1, AttachFinalScopeReceiptOrderly
<1>8. VersionsMayHoldReceipts => Accounted(st)
  BY <1>1, <1>2, <1>6 DEF VersionsMayHoldReceipts, NeedsReviewCheckpointBackfill
<1> HIDE DEF st
<1>9. CASE Accounted(st)
  <2>1. \A i \in DOMAIN st.superseded : st.superseded[i].by <= run.id
    BY <1>2, <1>6
  <2>2. continue /\ mem' = st => run'.id = run.id /\ Progress'
    BY <1>1, <1>6 DEF EvidenceInv, Evidence, Progress, MayGoOn, RecoveryRecorded
  <2>3. pc # "idle"
    BY <1>1
  <2> HIDE DEF continue
  <2>4. Evidence' /\ disk' = st
    BY <1>1, <1>6, <1>7, <1>9, <2>1, <2>2, <2>3, SavedKeepsEvidence
  <2>5. ~HasCheckpoint(disk) => disk'.receipt.run = run.id
    BY <1>2, <1>5, <1>6, <2>4
  <2>6. Sealed
    BY <1>2, <1>5, <1>6, <2>4, <2>5 DEF Sealed
  <2> QED
    BY <2>4, <2>6 DEF FileStep
<1>10. CASE ~Accounted(st)
  <2>1. EndRun("invalid-state") /\ disk' = disk
    BY <1>1, <1>6, <1>10 DEF Transition
  <2> QED
    BY <1>8, <1>10, <2>1, EndRunKeepsEvidence DEF FileStep
<1> QED
  BY <1>9, <1>10

LEMMA FinalScopeRejectedKeepsEvidence ==
    EvidenceInv /\ FinalScopeRejected => Evidence' /\ FileStep
  BY RejectFinalScopeKeepsEvidence DEF FinalScopeRejected, FinalStep

LEMMA ReviewInvalidatedKeepsEvidence ==
    EvidenceInv /\ ReviewInvalidated => Evidence' /\ FileStep
<1> SUFFICES ASSUME EvidenceInv, ReviewInvalidated PROVE Evidence' /\ FileStep
  OBVIOUS
<1> DEFINE review   == mem.checkpoint.stage
           st       == InvalidateReviewApproval(mem, review)
           continue == cur' = review /\ UNCHANGED <<pc, run, nxt, verdict>>
<1>1. /\ pc = "step" /\ cur = NoStage /\ LastPassedStage # NoStage
      /\ FinalScopeResult(FinalCheckpoint) \in {"review-invalidated", "review-base-stale"}
  BY DEF ReviewInvalidated, FinalStep
<1>2. IsState(mem) /\ Orderly(mem) /\ disk = mem /\ disk # NoFile
  BY <1>1, LiveEvidence
<1>3. CASE RejectFinalScope
  BY <1>1, <1>3, RejectFinalScopeKeepsEvidence
<1>4. CASE ~RejectFinalScope
  <2>1. Transition(st, continue) /\ ~(mem.regressions >= run.ceiling)
    BY <1>4 DEF ReviewInvalidated
  <2>2. HasCheckpoint(mem)
    BY <1>1, FreshObservationHolds DEF FinalCheckpoint
  <2>3. IsState(st) /\ Orderly(st)
    BY <1>2, <2>2, InvalidateReviewApprovalOrderly
  <2> HIDE DEF review
  <2>4. /\ SameAttempts(mem, st) /\ Unapproved(st) /\ Carried(mem, st)
        /\ st.regressions = mem.regressions + 1 /\ st.economics = mem.economics
        /\ st.status = "running"
    BY <1>2, InvalidateReviewApprovalKeeps
  <2>5. pc # "idle"
    BY <1>1
  <2> HIDE DEF st
  <2>6. /\ Accounted(st)
        /\ \A i \in DOMAIN st.superseded : st.superseded[i].by <= run.id
        /\ st.version >= mem.version
        /\ RecoveryRecorded(st) <=> RecoveryRecorded(mem)
    BY <2>3, <2>4, <2>5, ResetIsAccounted
  <2>7. continue /\ mem' = st => run'.id = run.id /\ Progress'
    BY <1>1, <2>4, <2>6 DEF EvidenceInv, Evidence, Progress, MayGoOn, RecoveryRecorded
  <2> HIDE DEF continue
  <2>8. Evidence' /\ disk' = st
    BY <2>1, <2>3, <2>5, <2>6, <2>7, SavedKeepsEvidence
  <2>9. mem.regressions < run.ceiling
    BY <1>2, <2>1 DEF IsState, EvidenceInv, RunnerInv, TypeOK, RunType
  <2>10. Revoked
    BY <1>2, <2>2, <2>4, <2>8, <2>9 DEF Revoked, Carried
  <2> QED
    BY <2>8, <2>10 DEF FileStep
<1> QED
  BY <1>3, <1>4

-----------------------------------------------------------------------------
(* Finalization, interruptions and the environment *)

LEMMA FinalizeKeepsEvidence == EvidenceInv /\ Finalize => Evidence' /\ FileStep
<1> SUFFICES ASSUME EvidenceInv, Finalize PROVE Evidence' /\ FileStep
  OBVIOUS
<1> DEFINE st == FinalizeState(mem, verdict)
<1>1. pc = "finalize" /\ pc # "idle"
  BY DEF Finalize
<1>2. IsState(mem) /\ Orderly(mem) /\ disk = mem /\ disk # NoFile
  BY <1>1, LiveEvidence
<1>3. verdict \in TerminalStatuses /\ (verdict = "done" => HasReceipt(mem))
  BY <1>1 DEF EvidenceInv, RunnerInv, Position, Evidence, Progress
<1>4. IsState(st) /\ Orderly(st)
  BY <1>2, <1>3, FinalizeStateOrderly
<1>5. /\ SameAttempts(mem, st) /\ SameApproval(mem, st) /\ Carried(mem, st)
      /\ st.regressions = mem.regressions /\ st.economics = mem.economics
      /\ st.status = verdict
  BY <1>2, FinalizeStateKeeps
<1>6. IsPipelineState(st) => disk' = st /\ EndRun(verdict)
  BY DEF Finalize
<1> HIDE DEF st
<1>7. /\ Accounted(st)
      /\ \A i \in DOMAIN st.superseded : st.superseded[i].by <= run.id
      /\ st.version >= mem.version
  BY <1>1, <1>3, <1>4, <1>5, KeptWhileRunning
<1>8. disk' = st /\ EndRun(verdict)
  BY <1>4, <1>6, <1>7, AccountedIsAccepted
<1>9. run'.id = run.id /\ ~run'.worked /\ run'.expected = 0 /\ pc' = "idle"
      /\ verdict' = verdict
  BY <1>8 DEF EndRun, NoRun
<1>10. FileEvidence'
  BY <1>5, <1>7, <1>8, <1>9, LiveEvidence, <1>1 DEF FileEvidence, Carried
<1>11. Progress'
  BY <1>3, <1>9 DEF Progress, MayGoOn, TerminalStatuses
<1>12. KeepsEvidence
  BY <1>2, <1>5, <1>8 DEF KeepsEvidence, Carried
<1> QED
  BY <1>10, <1>11, <1>12 DEF Evidence, FileStep

LEMMA InterruptionsKeepEvidence ==
    EvidenceInv /\ (Abort \/ Die \/ StageEdits \/ TreeChanges) => Evidence' /\ FileStep
<1> SUFFICES ASSUME EvidenceInv, Abort \/ Die \/ StageEdits \/ TreeChanges
             PROVE  Evidence' /\ FileStep
  OBVIOUS
<1>1. CASE Abort
  <2>1. run \in RunType
    BY DEF EvidenceInv, RunnerInv, TypeOK
  <2>2. /\ run' = [run EXCEPT !.aborted = TRUE]
        /\ UNCHANGED <<disk, tree, pc, mem, cur, nxt, verdict, examined>>
    BY <1>1 DEF Abort
  <2>3. /\ run'.id = run.id /\ run'.expected = run.expected /\ run'.reason = run.reason
        /\ run'.worked = run.worked /\ run'.budget = run.budget
    BY <2>1, <2>2 DEF RunType
  <2>4. Progress'
    BY <2>2, <2>3 DEF EvidenceInv, Evidence, Progress, MayGoOn, RecoveryRecorded
  <2> QED
    BY <2>2, <2>3, <2>4, UnsavedKeepsEvidence
<1>2. CASE Die
  <2>1. EndRun("thrown") /\ disk' = disk
    BY <1>2 DEF Die
  <2> QED
    BY <2>1, EndRunKeepsEvidence DEF FileStep
<1>3. CASE StageEdits \/ TreeChanges
  <2>1. UNCHANGED <<disk, pc, mem, run, cur, nxt, verdict, examined>>
    BY <1>3 DEF StageEdits, TreeChanges
  <2>2. Progress'
    BY <2>1 DEF EvidenceInv, Evidence, Progress, MayGoOn, RecoveryRecorded
  <2> QED
    BY <2>1, <2>2, UnsavedKeepsEvidence
<1> QED
  BY <1>1, <1>2, <1>3

LEMMA StepKeepsEvidence == EvidenceInv /\ [Next]_vars => EvidenceInv' /\ FileStep
<1> SUFFICES ASSUME EvidenceInv, [Next]_vars PROVE EvidenceInv' /\ FileStep
  OBVIOUS
<1>1. RunnerInv'
  BY StepKeepsInv DEF EvidenceInv
<1>2. Evidence' /\ FileStep
  <2>1. CASE UNCHANGED vars
    BY <2>1 DEF vars, EvidenceInv, Evidence, FileEvidence, Progress, MayGoOn,
                RecoveryRecorded, FileStep
  <2>2. CASE Start
    BY <2>2, StartKeepsEvidence
  <2>3. CASE SkipCorrection
    BY <2>3, SkipCorrectionKeepsEvidence
  <2>4. CASE RejectCorrection
    BY <2>4, RejectCorrectionKeepsEvidence
  <2>5. CASE ApplyCorrection
    BY <2>5, ApplyCorrectionKeepsEvidence
  <2>6. CASE RecoverLegacyReview
    BY <2>6, RecoverLegacyReviewKeepsEvidence
  <2>7. CASE SelectStage
    BY <2>7, SelectStageKeepsEvidence
  <2>8. CASE AbortBeforeStage
    BY <2>8, AbortBeforeStageKeepsEvidence
  <2>9. CASE BeginStage
    BY <2>9, BeginStageKeepsEvidence
  <2>10. CASE SettleStage
    BY <2>10, SettleStageKeepsEvidence
  <2>11. CASE ExecutorThrows
    BY <2>11, ExecutorThrowsKeepsEvidence
  <2>12. CASE AttestReview
    BY <2>12, AttestReviewKeepsEvidence
  <2>13. CASE ReviewAttestationRejected
    BY <2>13, ReviewAttestationRejectedKeepsEvidence
  <2>14. CASE BackfillCheckpoint
    BY <2>14, BackfillCheckpointKeepsEvidence
  <2>15. CASE FinalScopeAttested
    BY <2>15, FinalScopeAttestedKeepsEvidence
  <2>16. CASE FinalScopeRejected
    BY <2>16, FinalScopeRejectedKeepsEvidence
  <2>17. CASE ReviewInvalidated
    BY <2>17, ReviewInvalidatedKeepsEvidence
  <2>18. CASE Finalize
    BY <2>18, FinalizeKeepsEvidence
  <2>19. CASE Abort \/ Die \/ StageEdits \/ TreeChanges
    BY <2>19, InterruptionsKeepEvidence
  <2> QED
    BY <2>1, <2>2, <2>3, <2>4, <2>5, <2>6, <2>7, <2>8, <2>9, <2>10, <2>11, <2>12, <2>13,
       <2>14, <2>15, <2>16, <2>17, <2>18, <2>19 DEF Next, RunnerStep
<1> QED
  BY <1>1, <1>2 DEF EvidenceInv

\* Whatever happened to the worktree, the processes and the executors, the file
\* accounts for every attempt, approval, receipt and superseded receipt.
THEOREM EvidenceInvariant == Spec => []EvidenceInv
<1>1. Init => EvidenceInv
  BY InitInv, InitEvidence DEF EvidenceInv
<1>2. EvidenceInv /\ [Next]_vars => EvidenceInv'
  BY StepKeepsEvidence
<1> QED
  BY <1>1, <1>2, PTL DEF Spec


-----------------------------------------------------------------------------
(* What holds in every state *)

LEMMA LiveStatesAreAccounted ==
    ASSUME EvidenceInv, NEW st \in LiveStates
    PROVE  IsState(st) /\ Orderly(st) /\ Accounted(st)
  BY LiveEvidence DEF EvidenceInv, RunnerInv, TypeOK, Evidence, FileEvidence, LiveStates

\* transition() never ends a run with a state its own validation refuses, and
\* the next load never refuses the file: for every pipeline with a review, and
\* for a pipeline without one whose file is not of the first version.
THEOREM SavesAreNeverRefused ==
    ASSUME VersionsMayHoldReceipts
    PROVE  Spec => []NoSaveRefused
<1>1. EvidenceInv => NoSaveRefused
  BY AccountedIsAccepted DEF EvidenceInv, RunnerInv, TypeOK, Evidence, FileEvidence, Progress,
                             NoSaveRefused
<1> QED
  BY <1>1, EvidenceInvariant, PTL

\* No recovery goes beyond its check before the file names what it superseded.
THEOREM RecoveriesAreRecorded == Spec => []RecoveryIsRecorded
<1>1. EvidenceInv => RecoveryIsRecorded
  BY LiveEvidence DEF EvidenceInv, Evidence, Progress, RecoveryRecorded, RecoveryIsRecorded
<1> QED
  BY <1>1, EvidenceInvariant, PTL

\* After a correction only a newer attempt of the review, in the correcting
\* invocation or a later one, is ever approved.
THEOREM CorrectionsRerunTheReview == Spec => []CorrectionReruns
<1>1. ASSUME EvidenceInv, NEW st \in LiveStates, HasCheckpoint(st), NEW i \in DOMAIN st.superseded
      PROVE  LET old == st.superseded[i]
             IN  /\ st.checkpoint.run >= old.by
                 /\ st.checkpoint.stage = old.receipt.stage =>
                      st.checkpoint.attempt > old.receipt.attempt
  <2> DEFINE old == st.superseded[i]
  <2>1. IsState(st) /\ Orderly(st) /\ Accounted(st)
    BY <1>1, LiveStatesAreAccounted
  <2>2. old \in SupersededType
    BY <2>1, LedgerFacts
  <2>3. /\ old.by \in Nat /\ old.receipt.attempt \in Nat
        /\ st.checkpoint.run \in Nat /\ st.checkpoint.attempt \in Nat
    BY <2>1, <2>2 DEF SupersededType, ReceiptType, CheckpointType, IsState
  <2>4. old.by <= st.checkpoint.run
    BY <1>1, <2>1 DEF Accounted
  <2>5. ASSUME st.checkpoint.stage = old.receipt.stage
        PROVE  old.receipt.attempt < st.checkpoint.attempt
    <3>1. Archived(st, i) /\ st.checkpoint.attempt = st.stages[st.checkpoint.stage].attempts
      BY <1>1, <2>1 DEF Accounted
    <3>2. st.checkpoint.stage \in StageIds /\ PassedIn(st, st.checkpoint.stage)
      BY <1>1, <2>1, StagesAreNumbered DEF Orderly, StageIds
    <3> QED
      BY <2>5, <3>1, <3>2 DEF Archived
  <2> HIDE DEF old
  <2> QED
    BY <2>3, <2>4, <2>5 DEF old
<1>2. EvidenceInv => CorrectionReruns
  BY <1>1 DEF CorrectionReruns
<1> QED
  BY <1>2, EvidenceInvariant, PTL

\* An invocation that has executed a stage starts no other past its budget.
THEOREM NoStageBeyondTheBudget == Spec => []NoSpendingPastBudget
<1>1. EvidenceInv => NoSpendingPastBudget
  BY DEF EvidenceInv, Evidence, Progress, MayGoOn, NoSpendingPastBudget
<1> QED
  BY <1>1, EvidenceInvariant, PTL

\* A pipeline with one code review.
OneReview == \A s, t \in ReviewStages : s = t

\* backfillReviewCheckpoint always finds the review attempt to rebuild from.
THEOREM BackfillFindsItsReview ==
    ASSUME OneReview
    PROVE  Spec => []BackfillIsPossible
<1>1. ASSUME EvidenceInv, pc = "step", cur = NoStage, ReviewStages # {}
      PROVE  BackfillableReviews # {}
  <2>1. PICK s \in ReviewStages : TRUE
    BY <1>1
  <2>2. s \in StageIds
    BY <2>1 DEF ReviewStages
  <2>3. IsState(mem) /\ Accounted(mem) /\ \A t \in StageIds : PassedIn(mem, t)
    BY <1>1, FinalStepIsComplete, LiveEvidence DEF EvidenceInv
  <2>4. PassedReviews = {s}
    BY <2>1, <2>2, <2>3 DEF OneReview, PassedReviews, PassedIn, ReviewStages
  <2>5. mem.stages[s].attempts = Len(mem.stages[s].history) /\ mem.stages[s].history # <<>>
    BY <2>2, <2>3 DEF Accounted, Numbered, PassedIn
  <2>6. mem.stages[s].history \in Seq(Attempt)
    BY <2>2, <2>3, HistoryFacts
  <2>7. mem.stages[s].attempts > 0
    BY <2>5, <2>6
  <2> QED
    BY <2>4, <2>7 DEF BackfillableReviews
<1>2. EvidenceInv => BackfillIsPossible
  BY <1>1 DEF BackfillIsPossible, NeedsReviewCheckpointBackfill
<1> QED
  BY <1>2, EvidenceInvariant, PTL

-----------------------------------------------------------------------------
(* What the pipeline has spent *)

\* The file's economics are the sum over the attempts of every stage.
Balanced(st) == st.economics = RecomputeEconomics(st.stages)

LEMMA InitialStateIsBalanced == Balanced(InitialState)
<1>1. \A s \in StageIds : InitialState.stages[s].history = <<>>
  BY DEF InitialState, InitialStage
<1>2. <<>> \in Seq(Attempt) /\ DOMAIN <<>> = {}
  OBVIOUS
<1>3. RecomputeEconomics(InitialState.stages) = 0
  <2> DEFINE stages == InitialState.stages
  <2>1. \A s \in StageIds : stages[s].history = <<>>
    BY <1>1
  <2> HIDE DEF stages
  <2>2. RecomputeEconomics(stages) = 0
    BY <1>2, <2>1, NothingIsSpent
  <2> QED
    BY <2>2 DEF stages
<1> QED
  BY <1>3 DEF Balanced, InitialState

\* The program before this one kept no usage: its files report nothing spent.
LEMMA LegacyStateIsBalanced ==
    ASSUME NEW version, NEW k, NEW status
    PROVE  Balanced(LegacyState(version, k, status))
<1> DEFINE passed == FinishedStage(InitialStage, TRUE, "passed", Absent)
           x      == [attempt |-> 1, kind |-> "passed", usage |-> Absent]
           stages == LegacyState(version, k, status).stages
<1>1. x \in Attempt /\ x.usage = Absent
  BY DEF Attempt, DecisionKinds
<1>2. passed.history = <<x>>
  BY DEF FinishedStage, InitialStage
<1>3. InitialStage.history = <<>>
  BY DEF InitialStage
<1>4. \A s \in StageIds : stages[s] \in {passed, InitialStage}
  <2> HIDE DEF passed
  <2> QED
    BY DEF LegacyState, InitialState, passed
<1> HIDE DEF passed, x
<1>5. /\ <<x>> \in Seq(Attempt) /\ DOMAIN <<x>> = {1} /\ <<x>>[1] = x
      /\ <<>> \in Seq(Attempt) /\ DOMAIN <<>> = {}
  BY <1>1
<1>6. LegacyState(version, k, status).economics = 0
  BY DEF LegacyState, InitialState
<1> HIDE DEF stages
<1>7. \A s \in StageIds : stages[s].history \in {<<x>>, <<>>}
  BY <1>2, <1>3, <1>4
<1>8. \A s \in StageIds : stages[s].history \in Seq(Attempt)
  BY <1>5, <1>7
<1>9. \A s \in StageIds : \A i \in DOMAIN stages[s].history :
        stages[s].history[i].usage = Absent
  <2> SUFFICES ASSUME NEW s \in StageIds, NEW i \in DOMAIN stages[s].history
               PROVE  stages[s].history[i].usage = Absent
    OBVIOUS
  <2>1. CASE stages[s].history = <<x>>
    BY <1>1, <1>5, <2>1
  <2>2. CASE stages[s].history = <<>>
    BY <1>5, <2>2
  <2> QED
    BY <1>7, <2>1, <2>2
<1>10. RecomputeEconomics(stages) = 0
  BY <1>8, <1>9, NothingIsSpent
<1> QED
  BY <1>6, <1>10 DEF Balanced, stages

LEMMA SameAttemptsStayBalanced ==
    ASSUME NEW a, NEW b, IsState(a), Balanced(a), SameAttempts(a, b),
           b.economics \in {a.economics, RecomputeEconomics(b.stages)}
    PROVE  Balanced(b)
<1>1. \A s \in StageIds : a.stages[s].history \in Seq(Attempt)
  BY HistoryFacts
<1>2. \A s \in StageIds : b.stages[s].history = a.stages[s].history
  BY DEF SameAttempts
<1>3. RecomputeEconomics(b.stages) = RecomputeEconomics(a.stages)
  BY <1>1, <1>2, SameHistoriesSpendTheSame
<1> QED
  BY <1>3 DEF Balanced

LEMMA BookedAttemptStaysBalanced ==
    ASSUME NEW a, NEW b, IsState(a), IsState(b), Balanced(a), NEW s \in StageIds,
           NEW kind, OneMoreAttempt(a, b, s, kind), Booked(a, b, s)
    PROVE  Balanced(b)
<1>1. \A t \in StageIds : /\ a.stages[t].history \in Seq(Attempt)
                          /\ b.stages[t].history \in Seq(Attempt)
  BY HistoryFacts
<1>2. PICK x : b.stages[s].history = Append(a.stages[s].history, x)
  BY DEF OneMoreAttempt
<1>3. Last(b.stages[s].history) = x
  BY <1>1, <1>2, LastAppended
<1>4. x \in Attempt
  <2> DEFINE h == a.stages[s].history
             g == b.stages[s].history
  <2>1. h \in Seq(Attempt) /\ g \in Seq(Attempt)
    BY <1>1
  <2>2. g = Append(h, x)
    BY <1>2
  <2> HIDE DEF h, g
  <2>3. Len(g) = Len(h) + 1 /\ Len(h) \in Nat /\ g[Len(h) + 1] = x
    BY <2>1, <2>2
  <2> QED
    BY <2>1, <2>3
<1>5. \A t \in StageIds \ {s} : b.stages[t].history = a.stages[t].history
  BY DEF OneMoreAttempt
<1>6. RecomputeEconomics(b.stages)
        = AccumulateEconomics(RecomputeEconomics(a.stages), x.usage)
  BY <1>1, <1>2, <1>4, <1>5, OneMoreAttemptSpends
<1> QED
  BY <1>3, <1>6 DEF Balanced, Booked, LatestUsage

LEMMA StepKeepsBalance ==
    ASSUME EvidenceInv, EvidenceInv', FileStep, disk # NoFile => Balanced(disk)
    PROVE  (disk # NoFile => Balanced(disk))'
<1>1. /\ disk # NoFile => IsState(disk)
      /\ disk' # NoFile => IsState(disk')
  BY DEF EvidenceInv, RunnerInv, TypeOK
<1>2. CASE disk' = disk
  BY <1>2 DEF Balanced
<1>3. CASE Created
  BY <1>3, InitialStateIsBalanced DEF Created
<1>4. CASE KeepsEvidence \/ Approved \/ Sealed \/ Revoked \/ Superseded
  <2>1. /\ disk # NoFile /\ SameAttempts(disk, disk')
        /\ disk'.economics \in {disk.economics, RecomputeEconomics(disk'.stages)}
    BY <1>4 DEF KeepsEvidence, Approved, Sealed, Revoked, Superseded
  <2>2. Balanced(disk')
    BY <1>1, <2>1, SameAttemptsStayBalanced
  <2> QED
    BY <2>2
<1>5. CASE Attempted
  <2>1. PICK s \in StageIds, kind \in DecisionKinds :
          OneMoreAttempt(disk, disk', s, kind) /\ Booked(disk, disk', s)
    BY <1>5 DEF Attempted
  <2>2. disk' # NoFile => Balanced(disk')
    BY <1>1, <1>5, <2>1, BookedAttemptStaysBalanced DEF Attempted
  <2> QED
    BY <2>2
<1> QED
  BY <1>2, <1>3, <1>4, <1>5 DEF FileStep

\* In every state the runner persists or works on, attempt numbers count the
\* history, a passed stage's last attempt has passed, and the totals that the
\* budget is checked against are the sum of what the attempts have reported,
\* through every repair, regression, crash and correction.
THEOREM LedgersAgree == Spec => []LedgerConsistent
<1> DEFINE Inv == EvidenceInv /\ (disk # NoFile => Balanced(disk))
<1>1. Init => Inv
  <2>1. Init /\ disk # NoFile => Balanced(disk)
    BY LegacyStateIsBalanced DEF Init, LegacyStates
  <2> QED
    BY <2>1, InitInv, InitEvidence DEF EvidenceInv
<1>2. Inv /\ [Next]_vars => Inv'
  BY StepKeepsEvidence, StepKeepsBalance
<1>3. Inv => LedgerConsistent
  <2>1. ASSUME Inv, NEW st \in LiveStates
        PROVE  Balanced(st) /\ \A s \in StageIds : Numbered(st.stages[s])
    <3>1. Accounted(st)
      BY <2>1, LiveStatesAreAccounted
    <3>2. st = disk
      BY <2>1, LiveEvidence DEF EvidenceInv, RunnerInv, LiveStates
    <3> QED
      BY <2>1, <3>1, <3>2 DEF Accounted, LiveStates
  <2> QED
    BY <2>1 DEF LedgerConsistent, Balanced, Numbered, Last
<1> QED
  BY <1>1, <1>2, <1>3, PTL DEF Spec

-----------------------------------------------------------------------------
(* What one step may never do to the file *)

LEMMA PrefixOfItself ==
    ASSUME NEW S, NEW s \in Seq(S)
    PROVE  IsPrefix(s, s)
  BY DEF IsPrefix

LEMMA PrefixOfAppended ==
    ASSUME NEW S, NEW s \in Seq(S), NEW x
    PROVE  IsPrefix(s, Append(s, x))
<1>1. s \in Seq(S \cup {x}) /\ x \in S \cup {x}
  OBVIOUS
<1>2. /\ Len(Append(s, x)) = Len(s) + 1 /\ Len(s) \in Nat
      /\ \A i \in 1..Len(s) : Append(s, x)[i] = s[i]
  BY <1>1
<1>3. SubSeq(s, 1, Len(s)) = SubSeq(Append(s, x), 1, Len(s))
  BY <1>1, <1>2
<1> QED
  BY <1>2, <1>3 DEF IsPrefix

\* No invocation ever drops, rewrites or reorders an attempt or a superseded
\* receipt, whether it repairs, regresses, invalidates or corrects.
THEOREM EvidenceOnlyGrows == Spec => EvidenceIsAppendOnly
<1>1. ASSUME EvidenceInv, FileStep, disk # NoFile
      PROVE  /\ \A s \in StageIds : IsPrefix(disk.stages[s].history, disk'.stages[s].history)
             /\ IsPrefix(disk.superseded, disk'.superseded)
  <2>1. IsState(disk) /\ disk.superseded \in Seq(SupersededType)
    BY <1>1, LedgerFacts DEF EvidenceInv, RunnerInv, TypeOK
  <2>2. \A s \in StageIds : disk.stages[s].history \in Seq(Attempt)
    BY <2>1, HistoryFacts
  <2>3. ASSUME NEW s \in StageIds
        PROVE  IsPrefix(disk.stages[s].history, disk'.stages[s].history)
    <3>1. CASE disk'.stages[s].history = disk.stages[s].history
      BY <2>2, <3>1, PrefixOfItself
    <3>2. CASE Attempted
      <4>1. PICK t \in StageIds, kind \in DecisionKinds : OneMoreAttempt(disk, disk', t, kind)
        BY <3>2 DEF Attempted
      <4>2. CASE s = t
        BY <2>2, <4>1, <4>2, PrefixOfAppended DEF OneMoreAttempt
      <4>3. CASE s # t
        BY <3>1, <4>1, <4>3 DEF OneMoreAttempt
      <4> QED
        BY <4>2, <4>3
    <3>3. CASE ~Attempted
      BY <1>1, <3>1, <3>3 DEF FileStep, Created, KeepsEvidence, Approved, Sealed, Revoked,
                              Superseded, SameAttempts
    <3> QED
      BY <3>2, <3>3
  <2>4. IsPrefix(disk.superseded, disk'.superseded)
    <3>1. CASE disk'.superseded = disk.superseded
      BY <2>1, <3>1, PrefixOfItself
    <3>2. CASE Superseded
      BY <2>1, <3>2, PrefixOfAppended DEF Superseded
    <3>3. CASE ~Superseded
      BY <1>1, <3>1, <3>3 DEF FileStep, Created, KeepsEvidence, Attempted, Approved, Sealed,
                              Revoked
    <3> QED
      BY <3>2, <3>3
  <2> QED
    BY <2>3, <2>4
<1>2. EvidenceInv /\ [Next]_vars =>
        [disk # NoFile =>
           /\ \A s \in StageIds : IsPrefix(disk.stages[s].history, disk'.stages[s].history)
           /\ IsPrefix(disk.superseded, disk'.superseded)]_disk
  BY <1>1, StepKeepsEvidence
<1> QED
  BY <1>2, EvidenceInvariant, PTL DEF Spec, EvidenceIsAppendOnly


\* The regression counter never runs past the ceiling of the invocation, never
\* jumps, and never moves while an approval survives.
THEOREM EveryRegressionIsEarned == Spec => RegressionsAreEarned
<1> DEFINE Earned ==
             disk # NoFile /\ disk'.regressions # disk.regressions =>
               /\ disk'.regressions = disk.regressions + 1
               /\ disk.regressions < run.ceiling
               /\ ~HasCheckpoint(disk') /\ ~HasReceipt(disk')
               /\ \/ /\ HasCheckpoint(disk)
                     /\ \A s \in StageIds : disk'.stages[s].history = disk.stages[s].history
                  \/ \E s \in StageIds :
                       /\ disk.stages[s].status = "running"
                       /\ Last(disk'.stages[s].history).kind = "gate-failed"
<1>1. ASSUME EvidenceInv, FileStep, disk # NoFile, disk'.regressions # disk.regressions
      PROVE  Earned
  <2>1. CASE Attempted
    <3>1. PICK s \in StageIds, kind \in DecisionKinds :
            /\ RunningIn(disk, s) /\ OneMoreAttempt(disk, disk', s, kind)
            /\ Unapproved(disk') /\ kind = "gate-failed"
            /\ disk.regressions < run.ceiling /\ disk'.regressions = disk.regressions + 1
      BY <1>1, <2>1 DEF Attempted
    <3>2. IsState(disk)
      BY <1>1 DEF EvidenceInv, RunnerInv, TypeOK
    <3>3. PICK usage : disk'.stages[s].history =
                         Append(disk.stages[s].history,
                                [attempt |-> disk.stages[s].attempts + 1, kind |-> kind,
                                 usage |-> usage])
      BY <3>1 DEF OneMoreAttempt
    <3> DEFINE h == disk.stages[s].history
               x == [attempt |-> disk.stages[s].attempts + 1, kind |-> kind, usage |-> usage]
    <3>4. x.kind = kind
      OBVIOUS
    <3>5. h \in Seq(Attempt) /\ disk'.stages[s].history = Append(h, x)
      BY <3>2, <3>3, HistoryFacts
    <3> HIDE DEF h, x
    <3>6. h \in Seq(Attempt \cup {x}) /\ x \in Attempt \cup {x}
      BY <3>5
    <3>7. Last(Append(h, x)) = x
      BY <3>6 DEF Last
    <3>8. Last(disk'.stages[s].history).kind = "gate-failed"
      BY <3>1, <3>4, <3>5, <3>7
    <3> QED
      BY <3>1, <3>8 DEF RunningIn, Unapproved
  <2>2. CASE Revoked
    BY <1>1, <2>2 DEF Revoked, SameAttempts, Unapproved
  <2>3. CASE ~Attempted /\ ~Revoked
    BY <1>1, <2>3 DEF FileStep, Created, KeepsEvidence, Approved, Sealed, Superseded
  <2> QED
    BY <2>1, <2>2, <2>3
<1>2. EvidenceInv /\ [Next]_vars => [Earned]_disk
  BY <1>1, StepKeepsEvidence
<1> QED
  BY <1>2, EvidenceInvariant, PTL DEF Spec, RegressionsAreEarned

\* Nothing makes a durable approval disappear for free: not a resume, not a
\* failing stage, not a base that moved.
THEOREM EveryApprovalLossIsCharged == Spec => ApprovalLossIsCharged
<1> DEFINE Charged ==
             disk # NoFile /\ HasCheckpoint(disk) /\ ~HasCheckpoint(disk') =>
               \/ disk'.regressions = disk.regressions + 1
               \/ Len(disk'.superseded) = Len(disk.superseded) + 1
<1>1. ASSUME EvidenceInv, EvidenceInv', FileStep, disk # NoFile,
             HasCheckpoint(disk), ~HasCheckpoint(disk')
      PROVE  Charged
  <2>1. CASE Superseded
    <3>1. disk.superseded \in Seq(SupersededType)
      BY <1>1, LedgerFacts DEF EvidenceInv, RunnerInv, TypeOK
    <3> QED
      BY <2>1, <3>1 DEF Superseded
  <2>2. CASE Sealed
    <3>1. IsState(disk') /\ disk' # NoFile
      BY <1>1, <2>2, NoFileIsNoState DEF EvidenceInv, RunnerInv, TypeOK, Sealed, HasReceipt, NoFile,
                            InitialState
    <3>2. HasCheckpoint(disk')
      BY <1>1, <2>2, <3>1 DEF Sealed, EvidenceInv, Evidence, FileEvidence, Accounted
    <3> QED
      BY <1>1, <3>2
  <2>3. CASE ~Superseded /\ ~Sealed
    BY <1>1, <2>3 DEF FileStep, Created, KeepsEvidence, Attempted, Approved, Revoked,
                            SameApproval, HasCheckpoint
  <2> QED
    BY <2>1, <2>2, <2>3
<1>2. EvidenceInv /\ [Next]_vars => [Charged]_disk
  BY <1>1, StepKeepsEvidence
<1> QED
  BY <1>2, EvidenceInvariant, PTL DEF Spec, ApprovalLossIsCharged

\* A receipt is archived once, and only the active receipt of a done pipeline
\* that still describes the worktree.
THEOREM EverySupersessionIsGuarded == Spec => SupersedeIsGuarded
<1> DEFINE Guarded ==
             disk # NoFile /\ disk'.superseded # disk.superseded =>
               /\ disk.status = "done"
               /\ Last(disk'.superseded).receipt = disk.receipt
               /\ \A i \in DOMAIN disk.superseded :
                    disk.superseded[i].expected # disk.receipt.run
               /\ disk.receipt.code = tree.code /\ disk.receipt.docs = tree.docs
               /\ disk'.regressions = disk.regressions /\ disk'.economics = disk.economics
               /\ ~HasCheckpoint(disk')
<1>1. ASSUME EvidenceInv, FileStep, disk # NoFile, disk'.superseded # disk.superseded
      PROVE  Guarded
  <2>1. Superseded
    BY <1>1 DEF FileStep, Created, KeepsEvidence, Attempted, Approved, Sealed, Revoked
  <2>2. IsState(disk) /\ Accounted(disk)
    BY <1>1 DEF EvidenceInv, RunnerInv, TypeOK, Evidence, FileEvidence
  <2>3. disk.superseded \in Seq(SupersededType)
    BY <2>2, LedgerFacts
  <2>4. PICK entry \in SupersededType :
          disk'.superseded = Append(disk.superseded, entry) /\ entry.receipt = disk.receipt
    BY <2>1 DEF Superseded
  <2>5. Last(disk'.superseded) = entry
    BY <2>3, <2>4 DEF Last
  <2>6. ASSUME NEW i \in DOMAIN disk.superseded
        PROVE  disk.superseded[i].expected # disk.receipt.run
    <3>1. disk.superseded[i] \in SupersededType
      BY <2>3
    <3>2. HasReceipt(disk)
      BY <2>1 DEF Superseded
    <3>3. /\ disk.superseded[i].by <= disk.checkpoint.run
          /\ disk.superseded[i].expected < disk.superseded[i].by
          /\ disk.checkpoint.run = disk.receipt.run
      BY <2>2, <3>2 DEF Accounted, Archived, CheckpointOf
    <3>4. /\ disk.superseded[i].by \in Nat /\ disk.superseded[i].expected \in Nat
          /\ disk.checkpoint.run \in Nat
      BY <2>2, <3>1 DEF SupersededType, IsState, CheckpointType
    <3> QED
      BY <3>3, <3>4
  <2> QED
    BY <2>1, <2>4, <2>5, <2>6 DEF Superseded, Unapproved
<1>2. EvidenceInv /\ [Next]_vars => [Guarded]_disk
  BY <1>1, StepKeepsEvidence
<1> QED
  BY <1>2, EvidenceInvariant, PTL DEF Spec, SupersedeIsGuarded


-----------------------------------------------------------------------------
(* The refinement *)

\* The archived receipts of a file.
ArchiveOf(st) == [i \in DOMAIN st.superseded |-> st.superseded[i].receipt]

\* An approval that an accounted file gives is newer than its whole archive.
LEMMA ApprovalsAreFresh ==
    ASSUME NEW st, IsState(st), Accounted(st), HasCheckpoint(st)
    PROVE  \A i \in DOMAIN ArchiveOf(st) : st.checkpoint.run > ArchiveOf(st)[i].run
<1> SUFFICES ASSUME NEW i \in DOMAIN st.superseded
             PROVE  st.checkpoint.run > st.superseded[i].receipt.run
  BY DEF ArchiveOf
<1>1. st.superseded[i] \in SupersededType
  BY LedgerFacts
<1>2. /\ st.superseded[i].by \in Nat /\ st.superseded[i].expected \in Nat
      /\ st.checkpoint.run \in Nat
  BY <1>1 DEF SupersededType, IsState, CheckpointType
<1>3. /\ st.superseded[i].by <= st.checkpoint.run
      /\ st.superseded[i].expected < st.superseded[i].by
      /\ st.superseded[i].expected = st.superseded[i].receipt.run
  BY DEF Accounted, Archived
<1> QED
  BY <1>2, <1>3

LEMMA ArchiveGrows ==
    ASSUME NEW a, IsState(a), NEW b, NEW entry \in SupersededType,
           b.superseded = Append(a.superseded, entry)
    PROVE  ArchiveOf(b) = Append(ArchiveOf(a), entry.receipt)
<1>1. /\ a.superseded \in Seq(SupersededType) /\ Len(a.superseded) \in Nat
      /\ DOMAIN a.superseded = 1..Len(a.superseded)
      /\ \A i \in DOMAIN a.superseded : a.superseded[i] \in SupersededType
  BY LedgerFacts
<1> DEFINE n == Len(a.superseded)
<1>2. /\ DOMAIN b.superseded = 1..(n + 1)
      /\ \A i \in 1..n : b.superseded[i] = a.superseded[i]
      /\ b.superseded[n + 1] = entry
  BY <1>1
<1>3. \A e \in SupersededType : e.receipt \in ReceiptType
  BY DEF SupersededType
<1>4. /\ ArchiveOf(a) \in Seq(ReceiptType) /\ Len(ArchiveOf(a)) = n
      /\ DOMAIN ArchiveOf(a) = 1..n
      /\ \A i \in 1..n : ArchiveOf(a)[i] = a.superseded[i].receipt
  BY <1>1, <1>3 DEF ArchiveOf
<1>5. /\ ArchiveOf(b) \in Seq(ReceiptType) /\ Len(ArchiveOf(b)) = n + 1
      /\ \A i \in 1..(n + 1) : ArchiveOf(b)[i] = b.superseded[i].receipt
  <2>1. \A i \in 1..(n + 1) : b.superseded[i] \in SupersededType
    BY <1>1, <1>2
  <2> QED
    BY <1>1, <1>2, <1>3, <2>1 DEF ArchiveOf
<1> QED
  BY <1>1, <1>2, <1>3, <1>4, <1>5

\* What a step of the file is in the ledger.
LEMMA FileStepIsLedgerStep ==
    ASSUME EvidenceInv, EvidenceInv', FileStep
    PROVE  [Ledger!Next]_(Ledger!ledgerVars)
<1> DEFINE approval  == disk.checkpoint
           seal      == disk.receipt
           isDone    == disk.status = "done"
           archive   == ArchiveOf(disk)
           archive2  == ArchiveOf(disk')
<1>1. disk # NoFile => IsState(disk) /\ Orderly(disk) /\ Accounted(disk)
  BY DEF EvidenceInv, RunnerInv, TypeOK, Evidence, FileEvidence
<1>2. disk' # NoFile => IsState(disk') /\ Orderly(disk') /\ Accounted(disk')
  BY DEF EvidenceInv, RunnerInv, TypeOK, Evidence, FileEvidence
<1>3. disk # NoFile /\ disk'.superseded = disk.superseded => archive2 = archive
  BY DEF ArchiveOf
<1>4. ASSUME disk'.checkpoint = approval, disk'.receipt = seal,
             disk'.superseded = disk.superseded, disk'.status = "done" <=> isDone
      PROVE  UNCHANGED Ledger!ledgerVars
  BY <1>4 DEF Ledger!ledgerVars
<1>5. CASE disk' = disk
  BY <1>5, <1>4
<1>6. CASE Created
  BY <1>4, <1>6 DEF Created, NoFile, InitialState
<1>7. CASE KeepsEvidence
  <2>1. /\ disk # NoFile /\ disk'.checkpoint = approval /\ disk'.receipt = seal
        /\ disk'.superseded = disk.superseded
    BY <1>7 DEF KeepsEvidence, SameApproval
  <2>2. CASE disk'.status = "done" <=> isDone
    BY <1>4, <2>1, <2>2
  <2>3. CASE isDone /\ disk'.status # "done"
    BY <2>1, <2>3 DEF Ledger!Reopen, Ledger!Next
  <2>4. CASE ~isDone /\ disk'.status = "done"
    <3>1. seal # NoReceipt
      <4>1. disk' # NoFile
        BY <2>4 DEF NoFile, InitialState
      <4> QED
        BY <1>2, <2>1, <2>4, <4>1 DEF Accounted, HasReceipt
    <3> QED
      BY <2>1, <2>4, <3>1 DEF Ledger!Complete, Ledger!Next
  <2> QED
    BY <2>2, <2>3, <2>4
<1>8. CASE Attempted
  <2>1. /\ disk # NoFile /\ disk'.superseded = disk.superseded
        /\ ~isDone /\ disk'.status # "done"
        /\ SameApproval(disk, disk') \/ Unapproved(disk')
    BY <1>8 DEF Attempted
  <2>2. CASE SameApproval(disk, disk')
    BY <1>4, <2>1, <2>2 DEF SameApproval
  <2>3. CASE Unapproved(disk') /\ HasCheckpoint(disk)
    BY <2>1, <2>3 DEF Unapproved, HasCheckpoint, HasReceipt, Ledger!Revoke, Ledger!Next
  <2>4. CASE Unapproved(disk') /\ ~HasCheckpoint(disk)
    <3>1. ~HasReceipt(disk)
      BY <1>1, <2>1, <2>4 DEF Accounted
    <3> QED
      BY <1>4, <2>1, <2>4, <3>1 DEF Unapproved, HasCheckpoint, HasReceipt
  <2> QED
    BY <2>1, <2>2, <2>3, <2>4
<1>9. CASE Approved
  <2>1. /\ disk # NoFile /\ disk'.superseded = disk.superseded
        /\ ~isDone /\ disk'.status # "done"
        /\ HasCheckpoint(disk') /\ disk'.receipt = NoReceipt
    BY <1>9 DEF Approved
  <2>2. disk' # NoFile
    BY <2>1 DEF HasCheckpoint, NoFile, InitialState
  <2>3. IsState(disk') /\ Accounted(disk') /\ disk'.checkpoint \in CheckpointType
    BY <1>2, <2>2 DEF IsState
  <2>4. \A i \in DOMAIN archive2 : disk'.checkpoint.run > archive2[i].run
    BY <2>1, <2>3, ApprovalsAreFresh
  <2>5. \A i \in DOMAIN archive : disk'.checkpoint.run > archive[i].run
    BY <1>3, <2>1, <2>4
  <2>6. Ledger!IsFresh(disk'.checkpoint)
    BY <2>5 DEF Ledger!IsFresh, ArchiveOf
  <2> QED
    BY <2>1, <2>3, <2>6 DEF HasCheckpoint, Ledger!Approve, Ledger!Next
<1>10. CASE Sealed
  <2>1. /\ disk # NoFile /\ disk'.superseded = disk.superseded
        /\ disk'.status = disk.status
        /\ HasReceipt(disk') /\ disk'.checkpoint = CheckpointOf(disk'.receipt)
        /\ HasCheckpoint(disk) => disk'.checkpoint = disk.checkpoint
    BY <1>10 DEF Sealed
  <2>2. disk' # NoFile
    BY <2>1 DEF HasReceipt, NoFile, InitialState
  <2>3. IsState(disk') /\ Accounted(disk') /\ disk'.receipt \in ReceiptType
        /\ HasCheckpoint(disk')
    BY <1>2, <2>1, <2>2 DEF IsState, Accounted
  <2>4. \A i \in DOMAIN archive2 : disk'.checkpoint.run > archive2[i].run
    BY <2>1, <2>3, ApprovalsAreFresh
  <2>5. \A i \in DOMAIN archive : disk'.receipt.run > archive[i].run
    BY <1>3, <2>1, <2>4 DEF CheckpointOf
  <2>6. Ledger!IsFresh(disk'.receipt)
    BY <2>5 DEF Ledger!IsFresh, ArchiveOf
  <2> QED
    BY <2>1, <2>3, <2>6 DEF HasReceipt, HasCheckpoint, Ledger!Seal, Ledger!Next
<1>11. CASE Revoked
  <2>1. /\ disk # NoFile /\ disk'.superseded = disk.superseded
        /\ Unapproved(disk') /\ disk'.status = "running"
    BY <1>11 DEF Revoked
  <2>2. CASE HasCheckpoint(disk)
    BY <2>1, <2>2 DEF Unapproved, HasCheckpoint, HasReceipt, Ledger!Revoke, Ledger!Next
  <2>3. CASE ~HasCheckpoint(disk)
    <3>1. ~HasReceipt(disk) /\ ~isDone
      BY <1>1, <2>1, <2>3 DEF Accounted
    <3> QED
      BY <1>4, <2>1, <2>3, <3>1 DEF Unapproved, HasCheckpoint, HasReceipt
  <2> QED
    BY <2>2, <2>3
<1>12. CASE Superseded
  <2>1. /\ disk # NoFile /\ isDone /\ disk'.status = "running" /\ HasReceipt(disk)
        /\ Unapproved(disk')
        /\ \E entry \in SupersededType :
             /\ disk'.superseded = Append(disk.superseded, entry)
             /\ entry.receipt = disk.receipt
    BY <1>12 DEF Superseded
  <2>2. archive2 = Append(archive, seal)
    BY <1>1, <2>1, ArchiveGrows
  <2> QED
    BY <2>1, <2>2 DEF Unapproved, HasCheckpoint, HasReceipt, ArchiveOf, Ledger!Supersede,
                      Ledger!Next
<1> QED
  BY <1>5, <1>6, <1>7, <1>8, <1>9, <1>10, <1>11, <1>12 DEF FileStep

\* The runner implements the ledger: a landing script that only reads the file
\* sees approvals, seals and an archive that follow the rules of ScopeLedger.
THEOREM RunnerImplementsLedger == Spec => ImplementsLedger
<1>1. Init => Ledger!Init
  <2> SUFFICES ASSUME Init PROVE Ledger!Init
    OBVIOUS
  <2>1. /\ disk.checkpoint = NoCheckpoint /\ disk.receipt = NoReceipt
        /\ disk.superseded = <<>> /\ disk.status # "done"
    <3>1. ASSUME NEW version, NEW k, NEW status \in {"running", "needs-attention"},
                 disk = LegacyState(version, k, status)
          PROVE  /\ disk.checkpoint = NoCheckpoint /\ disk.receipt = NoReceipt
                 /\ disk.superseded = <<>> /\ disk.status # "done"
      BY <3>1 DEF LegacyState, InitialState
    <3>2. CASE disk = NoFile
      BY <3>2 DEF NoFile, InitialState
    <3> QED
      BY <3>1, <3>2 DEF Init, LegacyStates
  <2>2. ArchiveOf(disk) = <<>>
    BY <2>1 DEF ArchiveOf
  <2> QED
    BY <2>1, <2>2 DEF Ledger!Init, ArchiveOf
<1>2. EvidenceInv /\ EvidenceInv' /\ [Next]_vars => [Ledger!Next]_(Ledger!ledgerVars)
  BY StepKeepsEvidence, FileStepIsLedgerStep
<1> QED
  BY <1>1, <1>2, EvidenceInvariant, PTL DEF Spec, ImplementsLedger, Ledger!Spec

\* The proofs about the ledger, for the ledger that the state file is.
Archive ==
    INSTANCE ScopeLedgerProofs WITH
        Approvals  <- CheckpointType,
        Seals      <- ReceiptType,
        NoApproval <- NoCheckpoint,
        NoSeal     <- NoReceipt,
        ApprovalOf <- CheckpointOf,
        approval   <- disk.checkpoint,
        seal       <- disk.receipt,
        done       <- (disk.status = "done"),
        ledger     <- [i \in DOMAIN disk.superseded |-> disk.superseded[i].receipt]

\* Whatever the stages do, the receipt in the state file is that of the standing
\* approval, a pipeline that is done has one, superseded receipts are in the order
\* of their runs, and none of them ever stands again.
THEOREM FileLedgerIsConsistent == Spec => [](Archive!LedgerTypeOK /\ Archive!Consistent)
<1>1. Archive!ApprovalsAndSeals
  BY DEF Archive!ApprovalsAndSeals, CheckpointType, ReceiptType, NoCheckpoint, NoReceipt,
         CheckpointOf, NoStage
<1>2. Archive!Spec => [](Archive!LedgerTypeOK /\ Archive!Consistent)
  BY <1>1, Archive!LedgerIsConsistent
<1>3. Ledger!Init => Archive!Init
  BY DEF Ledger!Init, Archive!Init
<1>4. [Ledger!Next]_(Ledger!ledgerVars) => [Archive!Next]_(Archive!ledgerVars)
  BY DEF Ledger!Next, Archive!Next, Ledger!ledgerVars, Archive!ledgerVars,
         Ledger!Approve, Archive!Approve, Ledger!Seal, Archive!Seal,
         Ledger!Complete, Archive!Complete, Ledger!Reopen, Archive!Reopen,
         Ledger!Revoke, Archive!Revoke, Ledger!Supersede, Archive!Supersede,
         Ledger!IsFresh, Archive!IsFresh
<1> QED
  BY <1>2, <1>3, <1>4, RunnerImplementsLedger, PTL
     DEF ImplementsLedger, Ledger!Spec, Archive!Spec

-----------------------------------------------------------------------------
(* What a receipt covers *)

\* A pipeline with one code review whose invocations run to their end: nobody
\* interrupts them, the attestor answers, no budget stops a run between the stages
\* whose work the review examines, and rejected work goes back to them or to the
\* review itself.
Attended(review) ==
    /\ ReviewStages = {review}
    /\ Interruptions \subseteq {"error"}
    /\ RunBudgets \subseteq {Absent}
    /\ \A s \in StageIds : /\ StageDefs[s].onFail <= review
                           /\ s < review => StageDefs[s].budget = Absent

\* The ghost of the latest passed review attempt describes a state.
Examined(st, review) ==
    /\ examined.stage = review
    /\ examined.attempt = st.stages[review].attempts
    /\ \A s \in StageIds : s < review => examined.attempts[s] = st.stages[s].attempts

\* An approval is that of the review and, once one has been seen to pass, of the
\* code that was examined.
Covered(st, review) ==
    HasCheckpoint(st) =>
      /\ st.checkpoint.stage = review
      /\ examined.stage = review =>
           Examined(st, review) /\ examined.code = st.checkpoint.code

\* A passed review without an approval is still owed an earlier stage, whose next
\* attempt leads to the review again ...
Owed(st, review) ==
    examined.stage = review /\ ~HasCheckpoint(st) /\ PassedIn(st, review) =>
      \E s \in StageIds : s < review /\ ~PassedIn(st, s)

\* ... or the invocation is on its way to it.
OnTheWay(review) ==
    \/ pc \in {"step", "exec"} /\ cur # NoStage /\ cur <= review
    \/ pc = "attest"

ExaminedInv(review) ==
    /\ ~run.aborted
    /\ pc # "idle" => run.budget = Absent
    /\ examined.stage \in {NoStage, review}
    /\ pc = "attest" =>
         cur = review /\ Examined(mem, review) /\ examined.code = tree.code
    /\ disk # NoFile => Covered(disk, review) /\ (Owed(disk, review) \/ OnTheWay(review))

\* Attempts and approval kept: what was covered or owed is so still.
LEMMA KeptIsCovered ==
    ASSUME NEW a, NEW b, SameAttempts(a, b), SameApproval(a, b), NEW review \in StageIds
    PROVE  /\ Covered(a, review) => Covered(b, review)
           /\ Owed(a, review) => Owed(b, review)
  BY DEF SameAttempts, SameApproval, Covered, Owed, Examined, HasCheckpoint

\* The approval dropped and a stage up to the review to be run again: the review
\* is owed.
LEMMA ResetIsOwed ==
    ASSUME NEW st, Unapproved(st), NEW review \in StageIds,
           NEW s \in StageIds, s <= review, ~PassedIn(st, s)
    PROVE  Covered(st, review) /\ Owed(st, review)
<1>1. s = review \/ s < review
  BY StagesAreNumbered DEF StageIds
<1> QED
  BY <1>1 DEF Unapproved, Covered, Owed, HasCheckpoint

\* The store accepts what the runner of a pipeline with a review builds.
LEMMA ReviewedIsSaved ==
    ASSUME NEW review \in StageIds, Attended(review), Evidence', NEW st, NEW continue,
           Transition(st, continue)
    PROVE  mem' = st /\ disk' = st /\ continue
<1>1. VersionsMayHoldReceipts
  BY DEF Attended, VersionsMayHoldReceipts
<1>2. verdict' # "invalid-state"
  BY <1>1 DEF Evidence, Progress
<1> QED
  BY <1>2 DEF Transition, EndRun

\* Saving a state that is covered and owed its review.
LEMMA SavedIsExamined ==
    ASSUME NEW review \in StageIds, ExaminedInv(review), pc # "idle", NEW st,
           disk' = st, examined' = examined, pc' # "attest", pc' # "idle",
           run'.aborted = run.aborted, run'.budget = run.budget,
           Covered(st, review), Owed(st, review) \/ OnTheWay(review)'
    PROVE  ExaminedInv(review)'
  BY DEF ExaminedInv, Covered, Owed, Examined

\* Going on without a save, not on the way to the review.
LEMMA UnsavedIsExamined ==
    ASSUME NEW review \in StageIds, ExaminedInv(review), ~OnTheWay(review),
           disk' = disk, examined' = examined, pc' # "attest",
           ~run'.aborted, pc' # "idle" => run'.budget = Absent
    PROVE  ExaminedInv(review)'
  BY DEF ExaminedInv, Covered, Owed, Examined

-----------------------------------------------------------------------------
LEMMA StartKeepsExamined ==
    ASSUME NEW review \in StageIds, Attended(review), EvidenceInv, ExaminedInv(review), Start
    PROVE  ExaminedInv(review)'
<1>1. PICK ceiling \in Ceilings, budget \in RunBudgets,
           request \in {<<0, 0>>} \cup ((1..run.id) \X Reasons) :
             LET r == NewRun(ceiling, budget, request[1], request[2])
             IN  StartFresh(r) \/ StartResume(r) \/ StartRecovery(r) \/ StartThrows(r)
  BY DEF Start
<1> DEFINE r == NewRun(ceiling, budget, request[1], request[2])
<1>2. pc = "idle" /\ examined' = examined /\ ~OnTheWay(review)
  BY DEF Start, OnTheWay
<1>3. ~r.aborted /\ r.budget = Absent /\ ~NoRun(r.id).aborted
  BY DEF NewRun, NoRun, Attended
<1> HIDE DEF r
<1>4. ASSUME NEW st, disk' = st, Covered(st, review), Owed(st, review), Enter(st), run' = r
      PROVE  ExaminedInv(review)'
  BY <1>2, <1>3, <1>4 DEF ExaminedInv, Covered, Owed, Examined, Enter
<1>5. CASE StartFresh(r)
  <2>1. disk' = InitialState /\ Enter(InitialState) /\ run' = r
    BY <1>5 DEF StartFresh
  <2>2. ~HasCheckpoint(InitialState) /\ ~PassedIn(InitialState, review)
    BY DEF InitialState, InitialStage, HasCheckpoint, PassedIn
  <2> QED
    BY <1>4, <2>1, <2>2 DEF Covered, Owed
<1>6. CASE StartResume(r)
  <2>1. disk # NoFile /\ disk' = ReconcilePipelineState(disk) /\ run' = r /\ Enter(disk')
    BY <1>6 DEF StartResume
  <2>2. IsState(disk) /\ Accounted(disk)
    BY <2>1 DEF EvidenceInv, Evidence, FileEvidence, RunnerInv, TypeOK
  <2> DEFINE st == ReconcilePipelineState(disk)
  <2>3. SameAttempts(disk, st) /\ SameApproval(disk, st)
    BY <2>2, ReconcilePipelineStateKeeps
  <2>4. Covered(disk, review) /\ Owed(disk, review)
    BY <1>2, <2>1 DEF ExaminedInv
  <2>5. disk' = st /\ Enter(st)
    BY <2>1
  <2> HIDE DEF st
  <2> QED
    BY <1>4, <2>1, <2>3, <2>4, <2>5, KeptIsCovered
<1>7. CASE StartRecovery(r)
  <2>1. disk # NoFile /\ disk' = disk /\ run' = r /\ Enter(disk)
    BY <1>7 DEF StartRecovery
  <2> QED
    BY <1>2, <1>4, <2>1 DEF ExaminedInv
<1>8. CASE StartThrows(r)
  <2>1. disk' = disk /\ pc' = pc /\ run' = NoRun(r.id)
    BY <1>8 DEF StartThrows
  <2> QED
    BY <1>2, <1>3, <2>1, UnsavedIsExamined
<1> QED
  BY <1>1, <1>5, <1>6, <1>7, <1>8 DEF r

\* A reset of the pipeline from a stage on leaves that stage to be run.
LEMMA ResetDownstreamIsPending ==
    ASSUME NEW st, IsState(st), NEW target \in StageIds, NEW findings
    PROVE  ~PassedIn(ResetStageAndDownstream(st, target, findings), target)
<1> DEFINE stages == [s \in StageIds |->
                        IF s < target THEN st.stages[s]
                        ELSE ResetStage(st.stages[s],
                                        IF s = target THEN findings ELSE NoOrigin, NoOrigin)]
           after  == ResetStageAndDownstream(st, target, findings)
<1>1. after = [st EXCEPT !.checkpoint = NoCheckpoint, !.receipt = NoReceipt,
                         !.status = "running", !.current = NoStage, !.finished = FALSE,
                         !.stages = stages]
  BY DEF ResetStageAndDownstream, WithoutApproval, IsState
<1>2. stages[target].status = "pending"
  BY StagesAreNumbered DEF ResetStage, StageIds
<1> HIDE DEF stages, after
<1>3. after.stages = stages
  BY <1>1 DEF IsState
<1> QED
  BY <1>2, <1>3 DEF PassedIn, after

\* What Start and the correction leave to be selected.
LEMMA CorrectionKeepsExamined ==
    ASSUME NEW review \in StageIds, Attended(review), EvidenceInv, ExaminedInv(review),
           Evidence', SkipCorrection \/ RejectCorrection \/ ApplyCorrection
    PROVE  ExaminedInv(review)'
<1>1. pc = "correct" /\ ~OnTheWay(review) /\ examined' = examined
  BY DEF SkipCorrection, RejectCorrection, ApplyCorrection, OnTheWay
<1>2. CASE SkipCorrection
  BY <1>1, <1>2, UnsavedIsExamined DEF SkipCorrection, ExaminedInv
<1>3. CASE RejectCorrection
  <2>1. disk' = disk /\ pc' = "idle" /\ ~run'.aborted
    BY <1>3 DEF RejectCorrection, EndRun, NoRun
  <2> QED
    BY <1>1, <2>1, UnsavedIsExamined
<1>4. CASE ApplyCorrection
  <2> DEFINE target   == CorrectionTarget(mem.receipt)
             reset    == ResetStageAndDownstream(mem, target, [stage |-> NoStage,
                             attempt |-> Len(mem.superseded) + 1])
             st       == ApplyTerminalCorrection(mem, target, run.reason, run.id)
             continue == pc' = "recover" /\ UNCHANGED <<run, cur, nxt, verdict>>
  <2>1. Transition(st, continue) /\ target # NoStage
    BY <1>4 DEF ApplyCorrection, CorrectionEligible
  <2>2. disk' = st /\ pc' = "recover" /\ run' = run
    BY <2>1, ReviewedIsSaved
  <2>3. target \in StageIds /\ target <= review
    <3>1. /\ mem.receipt.stage \in StageIds /\ target = StageDefs[mem.receipt.stage].onFail
          /\ target < mem.receipt.stage
      BY <2>1 DEF CorrectionTarget
    <3>2. mem.receipt.stage = review
      BY <2>1 DEF CorrectionTarget, ReviewStages, Attended
    <3>3. target \in Nat
      BY <3>1, StagesAreNumbered DEF StageDefType
    <3> HIDE DEF target
    <3> QED
      BY <2>1, <3>1, <3>2, <3>3, StagesAreNumbered DEF StageIds, NoStage
  <2> HIDE DEF target
  <2>4. IsState(mem)
    BY <1>1, LiveEvidence
  <2>5. ~PassedIn(reset, target) /\ Unapproved(reset)
    BY <2>3, <2>4, ResetDownstreamIsPending, ResetDownstreamKeeps
  <2>6. st.stages = reset.stages /\ Unapproved(st)
    <3> DEFINE stages == reset.stages
    <3>1. reset = [mem EXCEPT !.checkpoint = NoCheckpoint, !.receipt = NoReceipt,
                              !.status = "running", !.current = NoStage, !.finished = FALSE,
                              !.stages = stages]
      BY <2>4 DEF ResetStageAndDownstream, WithoutApproval, IsState
    <3> DEFINE superseded == st.superseded
    <3>2. st = [reset EXCEPT !.version = RunnerFeatureVersion, !.superseded = superseded]
      BY <2>4 DEF ApplyTerminalCorrection, ResetStageAndDownstream, WithoutApproval, IsState
    <3> HIDE DEF stages, superseded, st, reset
    <3> QED
      BY <2>4, <3>1, <3>2 DEF IsState, Unapproved, HasCheckpoint, HasReceipt
  <2> HIDE DEF st, reset
  <2>7. ~PassedIn(st, target) /\ Unapproved(st)
    BY <2>5, <2>6 DEF PassedIn
  <2> QED
    BY <1>1, <2>2, <2>3, <2>7, ResetIsOwed, SavedIsExamined
<1> QED
  BY <1>2, <1>3, <1>4

LEMMA SelectionKeepsExamined ==
    ASSUME NEW review \in StageIds, Attended(review), EvidenceInv, ExaminedInv(review),
           Evidence', RecoverLegacyReview \/ SelectStage
    PROVE  ExaminedInv(review)'
<1>1. pc \in {"recover", "select"} /\ ~OnTheWay(review) /\ examined' = examined
  BY DEF RecoverLegacyReview, SelectStage, OnTheWay
<1>2. CASE SelectStage
  BY <1>1, <1>2, UnsavedIsExamined DEF SelectStage, ExaminedInv
<1>3. CASE RecoverLegacyReview
  <2> DEFINE st       == ResetReviewAndDownstream(mem, review)
             continue == pc' = "select" /\ UNCHANGED <<run, cur, nxt, verdict>>
  <2>1. /\ LegacyPassedReviews # {}
        /\ Transition(ResetReviewAndDownstream(mem, Min(LegacyPassedReviews)), continue)
    BY <1>3 DEF RecoverLegacyReview
  <2>2. Min(LegacyPassedReviews) = review
    <3>1. LegacyPassedReviews = {review}
      BY <2>1 DEF LegacyPassedReviews, Attended
    <3> QED
      BY <3>1, StagesAreNumbered DEF Min, StageIds
  <2>3. disk' = st /\ pc' = "select" /\ run' = run
    BY <2>1, <2>2, ReviewedIsSaved
  <2>4. IsState(mem)
    BY <1>1, LiveEvidence
  <2>5. ~PassedIn(st, review) /\ Unapproved(st)
    BY <2>4, ResetDownstreamIsPending, ResetDownstreamKeeps DEF ResetReviewAndDownstream
  <2>6. review <= review
    BY StagesAreNumbered DEF StageIds
  <2> HIDE DEF st
  <2> QED
    BY <1>1, <2>3, <2>5, <2>6, ResetIsOwed, SavedIsExamined
<1> QED
  BY <1>2, <1>3

LEMMA BeginStageKeepsExamined ==
    ASSUME NEW review \in StageIds, Attended(review), EvidenceInv, ExaminedInv(review),
           Evidence', BeginStage
    PROVE  ExaminedInv(review)'
<1> DEFINE st       == MarkStageRunning(mem, cur)
           continue == pc' = "exec" /\ UNCHANGED <<run, cur, nxt, verdict>>
<1>1. /\ pc = "step" /\ cur # NoStage /\ Transition(st, continue) /\ examined' = examined
  BY DEF BeginStage
<1>2. disk' = st /\ pc' = "exec" /\ run' = run /\ cur' = cur
  BY <1>1, ReviewedIsSaved
<1>3. cur \in StageIds /\ IsState(mem) /\ disk = mem /\ disk # NoFile
  BY <1>1, LiveEvidence DEF EvidenceInv, RunnerInv, TypeOK
<1>4. SameAttempts(mem, st) /\ SameApproval(mem, st)
  BY <1>3, MarkStageRunningKeeps
<1> HIDE DEF st
<1>5. Covered(st, review) /\ (Owed(st, review) \/ OnTheWay(review))
  BY <1>3, <1>4, KeptIsCovered DEF ExaminedInv
<1>6. OnTheWay(review) => OnTheWay(review)'
  BY <1>1, <1>2 DEF OnTheWay
<1> QED
  BY <1>1, <1>2, <1>5, <1>6, SavedIsExamined

\* While a stage runs that is not after the review, there is no approval; while a
\* later one runs, there is one if the review has been seen to pass.
LEMMA ApprovalBehindTheStage ==
    ASSUME NEW review \in StageIds, EvidenceInv, ExaminedInv(review), pc = "exec"
    PROVE  /\ cur \in StageIds /\ IsState(mem) /\ Orderly(mem) /\ Reached(mem, cur)
           /\ disk = mem /\ disk # NoFile
           /\ Covered(mem, review)
           /\ cur <= review => ~HasCheckpoint(mem)
           /\ review < cur /\ examined.stage = review => HasCheckpoint(mem)
<1>1. /\ cur \in StageIds /\ Reached(mem, cur)
      /\ IsState(mem) /\ Orderly(mem) /\ disk = mem /\ disk # NoFile
  BY LiveEvidence DEF EvidenceInv, RunnerInv, TypeOK, Position
<1>2. Covered(mem, review) /\ (Owed(mem, review) \/ OnTheWay(review))
  BY <1>1 DEF ExaminedInv
<1>3. StageIds = 1..N /\ N \in Nat
  BY StagesAreNumbered DEF StageIds
<1>4. cur <= review => ~HasCheckpoint(mem)
  BY <1>1, <1>2, <1>3 DEF Reached, Covered
<1>5. ASSUME review < cur, examined.stage = review
      PROVE  HasCheckpoint(mem)
  <2>1. ~OnTheWay(review)
    BY <1>1, <1>3, <1>5 DEF OnTheWay
  <2>2. PassedIn(mem, review) /\ \A s \in StageIds : s < review => PassedIn(mem, s)
    BY <1>1, <1>3, <1>5 DEF Reached
  <2> QED
    BY <1>2, <1>5, <2>1, <2>2 DEF Owed
<1> QED
  BY <1>1, <1>2, <1>4, <1>5

\* An attempt that keeps the approval, of a stage behind the review or one that
\* has not passed.
LEMMA AttemptIsCovered ==
    ASSUME NEW review \in StageIds, EvidenceInv, ExaminedInv(review), pc = "exec",
           NEW st, NEW kind, OneMoreAttempt(mem, st, cur, kind), SameApproval(mem, st)
    PROVE  /\ Covered(st, review)
           /\ kind # "passed" \/ review < cur => Owed(st, review)
<1>1. /\ cur \in StageIds /\ Covered(mem, review)
      /\ cur <= review => ~HasCheckpoint(mem)
      /\ review < cur /\ examined.stage = review => HasCheckpoint(mem)
  BY ApprovalBehindTheStage
<1>2. /\ StageIds = 1..N /\ N \in Nat
      /\ HasCheckpoint(st) <=> HasCheckpoint(mem)
      /\ st.checkpoint = mem.checkpoint
  BY StagesAreNumbered DEF StageIds, SameApproval, HasCheckpoint
<1>3. Covered(st, review)
  <2>1. CASE cur <= review
    BY <1>1, <1>2, <2>1 DEF Covered
  <2>2. CASE review < cur
    <3>1. \A s \in StageIds : s <= review => st.stages[s].attempts = mem.stages[s].attempts
      BY <1>1, <1>2, <2>2 DEF OneMoreAttempt
    <3>2. \A s \in StageIds : s < review => s <= review
      BY <1>2
    <3>3. review <= review
      BY <1>2
    <3> QED
      BY <1>1, <1>2, <3>1, <3>2, <3>3 DEF Covered, Examined
  <2> QED
    BY <1>1, <1>2, <2>1, <2>2
<1>4. ASSUME review < cur PROVE Owed(st, review)
  BY <1>1, <1>2, <1>4 DEF Owed
<1>5. ASSUME kind # "passed", cur <= review PROVE Owed(st, review)
  <2>1. ~PassedIn(st, cur)
    BY <1>5 DEF OneMoreAttempt
  <2>2. cur = review \/ cur < review
    BY <1>1, <1>2, <1>5
  <2> QED
    BY <1>1, <2>1, <2>2 DEF Owed
<1> QED
  BY <1>1, <1>2, <1>3, <1>4, <1>5

LEMMA ExecutorThrowsKeepsExamined ==
    ASSUME NEW review \in StageIds, Attended(review), EvidenceInv, ExaminedInv(review),
           Evidence', ExecutorThrows
    PROVE  ExaminedInv(review)'
<1> DEFINE st       == ApplyExecutorError(mem, cur)
           continue == /\ pc' = "finalize" /\ verdict' = "needs-attention"
                       /\ UNCHANGED <<run, cur, nxt>>
<1>1. pc = "exec" /\ Transition(st, continue) /\ examined' = examined
  BY DEF ExecutorThrows
<1>2. disk' = st /\ pc' = "finalize" /\ run' = run
  BY <1>1, ReviewedIsSaved
<1>3. cur \in StageIds /\ IsState(mem)
  BY <1>1, ApprovalBehindTheStage
<1>4. OneMoreAttempt(mem, st, cur, "failed") /\ SameApproval(mem, st)
  BY <1>3, ApplyExecutorErrorRecords
<1> HIDE DEF st
<1>5. Covered(st, review) /\ Owed(st, review)
  BY <1>1, <1>4, AttemptIsCovered
<1> QED
  BY <1>1, <1>2, <1>5, SavedIsExamined

\* The verdict, the target of a rejection and what a pass without ceilings leads to.
LEMMA EvaluationTargets ==
    ASSUME NEW s \in StageIds, NEW r \in ResultType, NEW regressions \in Nat, NEW max \in Nat,
           NEW budget, NEW spent
    PROVE  LET e == EvaluateStageExecution(s, r, regressions, max, budget, spent)
           IN  /\ e.decision.kind = "passed" => e.decision.passed
               /\ e.route.action = "regress" =>
                    e.route.next \in StageIds /\ e.route.next = StageDefs[s].onFail
               /\ e.decision.passed /\ StageDefs[s].budget = Absent /\ budget = Absent =>
                    StageFailureOutcome(e) = "none"
<1> DEFINE d == CheckStageDecision(s, r)
           e == EvaluateStageExecution(s, r, regressions, max, budget, spent)
<1>1. d.passed <=> d.kind = "passed"
  BY DEF CheckStageDecision
<1> HIDE DEF d
<1>2. /\ e.decision = d /\ e.route = RouteStageDecision(s, d, regressions, max)
      /\ e.budgetOk <=> (StageBudgetPassed(s, d.usage) /\ RunBudgetPassed(budget, spent))
  BY DEF EvaluateStageExecution, d
<1> HIDE DEF e
<1>3. ASSUME e.route.action = "regress"
      PROVE  e.route.next \in StageIds /\ e.route.next = StageDefs[s].onFail
  BY <1>2, <1>3 DEF RouteStageDecision, PassedRoute, FailRoute, GateFailedRoute
<1>4. ASSUME d.passed, StageDefs[s].budget = Absent, budget = Absent
      PROVE  StageFailureOutcome(e) = "none"
  <2>1. e.decision.kind = "passed" /\ e.budgetOk
    BY <1>1, <1>2, <1>4 DEF StageBudgetPassed, RunBudgetPassed
  <2>2. e.route.action \in {"continue", "complete"}
    BY <1>2, <1>4 DEF RouteStageDecision, PassedRoute
  <2> QED
    BY <2>1, <2>2 DEF StageFailureOutcome
<1> QED
  BY <1>1, <1>2, <1>3, <1>4 DEF e

\* Work that is sent back is to be done again.
LEMMA SentBackIsPending ==
    ASSUME NEW st, IsState(st), Orderly(st), NEW s \in StageIds, Reached(st, s),
           NEW e, IsEvaluation(s, e), e.route.action = "regress",
           e.decision.passed => e.decision.kind = "passed", NEW hasPayload
    PROVE  ~PassedIn(ApplyStageOutcome(st, s, e, hasPayload), e.route.next)
<1> DEFINE previous == st.stages[s]
           this     == [stage |-> s, attempt |-> previous.attempts + 1]
           handoff  == IF hasPayload THEN this ELSE NoOrigin
           findings == IF e.decision.findings THEN this ELSE NoOrigin
           finished == FinishedStage(previous, e.decision.passed, e.decision.kind,
                                     e.decision.usage)
           spent    == AccumulateEconomics(st.economics, e.decision.usage)
           base     == Recorded(st, s, finished, e.route.regressions, spent)
           after    == ApplyStageOutcome(st, s, e, hasPayload)
           target   == e.route.next
<1>1. previous \in StageStateType
  BY DEF IsState
<1>2. finished \in StageStateType /\ finished.status \in {"passed", "failed"}
  BY <1>1, FinishedStageType DEF IsEvaluation
<1>3. target \in StageIds /\ e.route.regressions \in Nat
  BY DEF IsEvaluation
<1>4. after = ResetRegressionTarget(base, target, findings, handoff)
  BY DEF ApplyStageOutcome, Recorded, IsState
<1> HIDE DEF this, handoff, findings, finished, spent, after
<1>5. IsState(base)
  BY <1>2, <1>3, StageFinished
<1> HIDE DEF base, target
<1> DEFINE reset  == ResetStage(base.stages[target], findings, handoff)
           stages == [base.stages EXCEPT ![target] = reset]
<1>6. reset.status = "pending"
  BY DEF ResetStage
<1> HIDE DEF reset
<1>7. stages[target] = reset
  BY <1>3, <1>5 DEF IsState
<1>8. after = [base EXCEPT !.checkpoint = NoCheckpoint, !.receipt = NoReceipt,
                           !.stages = stages]
  BY <1>4, <1>5 DEF ResetRegressionTarget, WithoutApproval, IsState, reset
<1> HIDE DEF stages
<1>9. after.stages = stages
  BY <1>5, <1>8 DEF IsState
<1> QED
  BY <1>6, <1>7, <1>9 DEF PassedIn, after, target

LEMMA SettleStageKeepsExamined ==
    ASSUME NEW review \in StageIds, Attended(review), EvidenceInv, ExaminedInv(review),
           Evidence', SettleStage
    PROVE  ExaminedInv(review)'
<1> DEFINE spent(r) == AccumulateEconomics(mem.economics, r.usage)
           eval(r)  == EvaluateStageExecution(cur, r, mem.regressions, run.ceiling, run.budget,
                                              spent(r))
           attests(e) == e.decision.passed /\ IsCodeReviewStage(cur)
           moves(e) == /\ verdict' = StageFailureOutcome(e)
                       /\ nxt' = e.route.next
                       /\ \/ attests(e) /\ pc' = "attest" /\ cur' = cur
                          \/ /\ ~attests(e) /\ StageFailureOutcome(e) = "none"
                             /\ pc' = "step" /\ cur' = e.route.next
                          \/ /\ ~attests(e) /\ StageFailureOutcome(e) # "none"
                             /\ pc' = "finalize" /\ cur' = cur
                       /\ run' = [run EXCEPT !.worked = TRUE]
           sees(e) == IF attests(e)
                      THEN [stage |-> cur, attempt |-> mem.stages[cur].attempts + 1,
                            code |-> tree.code,
                            attempts |-> [s \in StageIds |-> mem.stages[s].attempts]]
                      ELSE examined
<1>1. pc = "exec" /\ tree' = tree
  BY DEF SettleStage
<1>2. PICK r \in ReturnedBy(cur) :
        /\ Transition(ApplyStageOutcome(mem, cur, eval(r), r.output # "null"), moves(eval(r)))
        /\ examined' = sees(eval(r))
  BY DEF SettleStage
<1>3. /\ cur \in StageIds /\ IsState(mem) /\ Orderly(mem) /\ Reached(mem, cur)
      /\ Covered(mem, review)
      /\ cur <= review => ~HasCheckpoint(mem)
  BY <1>1, ApprovalBehindTheStage
<1>4. r \in ResultType
  BY RunnerAssumption DEF ReturnedBy
<1>5. mem.regressions \in Nat /\ run.ceiling \in Nat /\ run \in RunType
  BY <1>3 DEF IsState, EvidenceInv, RunnerInv, TypeOK, RunType
<1> DEFINE e  == eval(r)
           st == ApplyStageOutcome(mem, cur, e, r.output # "null")
<1>6. IsEvaluation(cur, e)
  BY <1>3, <1>4, <1>5, EvaluationShape
<1>7. IsCharged(e, mem.regressions, run.ceiling)
  BY <1>3, <1>4, <1>5, EvaluationCharges
<1>8. /\ e.decision.kind = "passed" => e.decision.passed
      /\ e.route.action = "regress" =>
           e.route.next \in StageIds /\ e.route.next = StageDefs[cur].onFail
      /\ e.decision.passed /\ StageDefs[cur].budget = Absent /\ run.budget = Absent =>
           StageFailureOutcome(e) = "none"
  BY <1>3, <1>4, <1>5, EvaluationTargets
<1> HIDE DEF eval, e
<1>9. /\ OneMoreAttempt(mem, st, cur, e.decision.kind)
      /\ IF e.route.action = "regress" THEN Unapproved(st) ELSE SameApproval(mem, st)
  BY <1>3, <1>6, <1>7, ApplyStageOutcomeRecords
<1>10. e.route.action = "regress" => ~PassedIn(st, e.route.next)
  BY <1>3, <1>6, <1>7, SentBackIsPending DEF IsCharged
<1> DEFINE continue == moves(e)
<1>11. Transition(st, continue) /\ examined' = sees(e)
  BY <1>2 DEF e
<1> HIDE DEF st, continue
<1>12. mem' = st /\ disk' = st /\ continue
  BY <1>11, ReviewedIsSaved
<1>13. /\ run'.aborted = run.aborted /\ run'.budget = run.budget
       /\ ~run.aborted /\ run.budget = Absent
  BY <1>1, <1>5, <1>12 DEF continue, RunType, ExaminedInv
<1>14. StageIds = 1..N /\ N \in Nat
  BY StagesAreNumbered DEF StageIds
<1>15. CASE attests(e)
  <2>1. cur = review
    BY <1>3, <1>15 DEF Attended, ReviewStages
  <2>2. /\ pc' = "attest" /\ cur' = cur
        /\ examined' = [stage |-> cur, attempt |-> mem.stages[cur].attempts + 1,
                        code |-> tree.code,
                        attempts |-> [s \in StageIds |-> mem.stages[s].attempts]]
    BY <1>11, <1>12, <1>15 DEF continue
  <2>3. e.route.action # "regress"
    BY <1>6, <1>15 DEF IsEvaluation
  <2>4. ~HasCheckpoint(st)
    BY <1>3, <1>9, <1>14, <2>1, <2>3 DEF SameApproval, HasCheckpoint
  <2>5. /\ st.stages[review].attempts = mem.stages[review].attempts + 1
        /\ \A s \in StageIds : s < review => st.stages[s].attempts = mem.stages[s].attempts
    BY <1>9, <1>14, <2>1 DEF OneMoreAttempt
  <2> QED
    BY <1>1, <1>12, <1>13, <2>1, <2>2, <2>4, <2>5
       DEF ExaminedInv, Examined, Covered, OnTheWay
<1>16. CASE ~attests(e)
  <2>1. /\ examined' = examined
        /\ \/ StageFailureOutcome(e) = "none" /\ pc' = "step" /\ cur' = e.route.next
           \/ StageFailureOutcome(e) # "none" /\ pc' = "finalize" /\ cur' = cur
    BY <1>11, <1>12, <1>16 DEF continue
  <2>2. cur = review => e.decision.kind # "passed"
    BY <1>8, <1>16 DEF Attended, ReviewStages
  <2>3. Covered(st, review) /\ (Owed(st, review) \/ OnTheWay(review)')
    <3>1. CASE e.route.action = "regress"
      BY <1>3, <1>8, <1>9, <1>10, <3>1, ResetIsOwed DEF Attended
    <3>2. CASE e.route.action # "regress" /\ (e.decision.kind # "passed" \/ review < cur)
      BY <1>1, <1>9, <3>2, AttemptIsCovered
    <3>3. CASE e.route.action # "regress" /\ e.decision.kind = "passed" /\ ~(review < cur)
      <4>1. cur < review
        BY <1>3, <1>14, <2>2, <3>3
      <4>2. pc' = "step" /\ cur' = e.route.next
        BY <1>3, <1>8, <1>13, <2>1, <3>3, <4>1 DEF Attended
      <4>3. e.route.next = cur + 1
        BY <1>3, <1>6, <1>8, <1>14, <3>3, <4>1 DEF IsEvaluation
      <4>4. OnTheWay(review)'
        BY <1>3, <1>14, <4>1, <4>2, <4>3 DEF OnTheWay, NoStage
      <4> QED
        BY <1>1, <1>9, <3>3, <4>4, AttemptIsCovered
    <3> QED
      BY <3>1, <3>2, <3>3
  <2> QED
    BY <1>1, <1>12, <1>13, <2>1, <2>3, SavedIsExamined
<1> QED
  BY <1>15, <1>16

LEMMA AttestReviewKeepsExamined ==
    ASSUME NEW review \in StageIds, Attended(review), EvidenceInv, ExaminedInv(review),
           Evidence', AttestReview
    PROVE  ExaminedInv(review)'
<1> DEFINE c        == ObservedCheckpoint([stage |-> cur, attempt |-> mem.stages[cur].attempts])
           st       == AttachReviewCheckpoint(mem, c)
           continue == /\ \/ verdict = "none" /\ pc' = "step" /\ cur' = nxt
                          \/ verdict # "none" /\ pc' = "finalize" /\ cur' = cur
                       /\ UNCHANGED <<run, nxt, verdict>>
<1>1. pc = "attest" /\ Transition(st, continue) /\ examined' = examined
  BY DEF AttestReview
<1>2. disk' = st /\ run' = run /\ pc' \in {"step", "finalize"}
  BY <1>1, ReviewedIsSaved
<1>3. IsState(mem) /\ cur = review /\ Examined(mem, review) /\ examined.code = tree.code
  BY <1>1, LiveEvidence DEF ExaminedInv
<1>4. c.stage = review /\ c.code = tree.code
  BY <1>3 DEF ObservedCheckpoint
<1> HIDE DEF c
<1>5. st.checkpoint = c /\ st.stages = mem.stages
  BY <1>3 DEF AttachReviewCheckpoint, IsState
<1>6. review # NoStage
  BY StagesAreNumbered
<1> HIDE DEF st
<1>7. Covered(st, review) /\ Owed(st, review)
  BY <1>3, <1>4, <1>5, <1>6 DEF Covered, Owed, Examined, HasCheckpoint, NoCheckpoint
<1> QED
  BY <1>1, <1>2, <1>7, SavedIsExamined

-----------------------------------------------------------------------------
\* Rejecting the final scope saves nothing.
LEMMA FinalRejectionKeepsExamined ==
    ASSUME NEW review \in StageIds, ExaminedInv(review), pc = "step", cur = NoStage,
           RejectFinalScope, examined' = examined
    PROVE  ExaminedInv(review)'
<1>1. ~OnTheWay(review)
  BY DEF OnTheWay
<1> QED
  BY <1>1, UnsavedIsExamined DEF RejectFinalScope, ExaminedInv

\* A checkpoint is only ever rebuilt for a review this runner has not seen to pass.
LEMMA BackfillCheckpointKeepsExamined ==
    ASSUME NEW review \in StageIds, Attended(review), EvidenceInv, ExaminedInv(review),
           Evidence', BackfillCheckpoint
    PROVE  ExaminedInv(review)'
<1>1. pc = "step" /\ cur = NoStage /\ ~HasCheckpoint(mem) /\ examined' = examined
  BY DEF BackfillCheckpoint, NeedsReviewCheckpointBackfill
<1>2. CASE RejectFinalScope
  BY <1>1, <1>2, FinalRejectionKeepsExamined
<1>3. CASE ~RejectFinalScope
  <2> DEFINE c(s)  == ObservedCheckpoint([stage |-> s, attempt |-> mem.stages[s].attempts])
             st(s) == AttachReviewCheckpoint(mem, c(s))
  <2>1. PICK s \in BackfillableReviews :
          disk' = st(s) /\ UNCHANGED <<pc, run, cur, nxt, verdict>>
    BY <1>3 DEF BackfillCheckpoint
  <2>2. s = review
    BY <2>1 DEF BackfillableReviews, PassedReviews, Attended
  <2>3. /\ IsState(mem) /\ disk = mem /\ disk # NoFile
        /\ \A t \in StageIds : PassedIn(mem, t)
    BY <1>1, LiveEvidence DEF EvidenceInv, RunnerInv, Position, AtStage
  <2>4. examined.stage # review
    <3>1. Owed(mem, review)
      BY <1>1, <2>3 DEF ExaminedInv, OnTheWay
    <3> QED
      BY <1>1, <2>3, <3>1 DEF Owed
  <2>5. c(s).stage = review
    BY <2>2 DEF ObservedCheckpoint
  <2> HIDE DEF c
  <2>6. st(s).checkpoint = c(s)
    BY <2>3 DEF AttachReviewCheckpoint, IsState
  <2> DEFINE after == st(s)
  <2>7. disk' = after /\ after.checkpoint.stage = review
    BY <2>1, <2>5, <2>6
  <2> HIDE DEF after, st
  <2>8. Covered(after, review) /\ Owed(after, review)
    BY <2>4, <2>7 DEF Covered, Owed
  <2> QED
    BY <1>1, <2>1, <2>7, <2>8, SavedIsExamined
<1> QED
  BY <1>2, <1>3

LEMMA FinalScopeAttestedKeepsExamined ==
    ASSUME NEW review \in StageIds, Attended(review), EvidenceInv, ExaminedInv(review),
           Evidence', FinalScopeAttested
    PROVE  ExaminedInv(review)'
<1> DEFINE receipt  == ReceiptOf(FinalCheckpoint, tree.code, tree.docs)
           st       == AttachFinalScopeReceipt(mem, receipt)
           continue == /\ pc' = "finalize" /\ verdict' = "done"
                       /\ UNCHANGED <<run, cur, nxt>>
<1>1. /\ pc = "step" /\ cur = NoStage /\ ~NeedsReviewCheckpointBackfill
      /\ Transition(st, continue) /\ examined' = examined
  BY DEF FinalScopeAttested, FinalStep
<1>2. disk' = st /\ pc' = "finalize" /\ run' = run
  BY <1>1, ReviewedIsSaved
<1>3. IsState(mem) /\ disk = mem /\ disk # NoFile
  BY <1>1, LiveEvidence
<1>4. HasCheckpoint(mem)
  BY <1>1 DEF NeedsReviewCheckpointBackfill, Attended
<1>5. Covered(mem, review)
  BY <1>3 DEF ExaminedInv
<1> HIDE DEF receipt
<1>6. st.checkpoint = mem.checkpoint /\ st.stages = mem.stages
  BY <1>3, <1>4 DEF AttachFinalScopeReceipt, IsState
<1> HIDE DEF st
<1>7. Covered(st, review) /\ Owed(st, review)
  BY <1>4, <1>5, <1>6 DEF Covered, Owed, Examined, HasCheckpoint
<1> QED
  BY <1>1, <1>2, <1>7, SavedIsExamined

LEMMA ReviewInvalidatedKeepsExamined ==
    ASSUME NEW review \in StageIds, Attended(review), EvidenceInv, ExaminedInv(review),
           Evidence', ReviewInvalidated
    PROVE  ExaminedInv(review)'
<1> DEFINE st       == InvalidateReviewApproval(mem, mem.checkpoint.stage)
           continue == cur' = mem.checkpoint.stage /\ UNCHANGED <<pc, run, nxt, verdict>>
<1>1. /\ pc = "step" /\ cur = NoStage /\ ~NeedsReviewCheckpointBackfill
      /\ examined' = examined
  BY DEF ReviewInvalidated, FinalStep
<1>2. CASE RejectFinalScope
  BY <1>1, <1>2, FinalRejectionKeepsExamined
<1>3. CASE ~RejectFinalScope
  <2>1. Transition(st, continue)
    BY <1>3 DEF ReviewInvalidated
  <2>2. disk' = st /\ pc' = pc /\ run' = run
    BY <2>1, ReviewedIsSaved
  <2>3. IsState(mem) /\ disk = mem /\ disk # NoFile
    BY <1>1, LiveEvidence
  <2>4. mem.checkpoint.stage = review
    <3>1. HasCheckpoint(mem)
      BY <1>1 DEF NeedsReviewCheckpointBackfill, Attended
    <3> QED
      BY <2>3, <3>1 DEF ExaminedInv, Covered
  <2> DEFINE charged == [mem EXCEPT !.regressions = @ + 1]
  <2>5. st = ResetStageAndDownstream(charged, review, NoOrigin)
    BY <2>4 DEF InvalidateReviewApproval, ResetReviewAndDownstream
  <2>6. IsState(charged)
    BY <2>3 DEF IsState
  <2> HIDE DEF charged, st
  <2>7. ~PassedIn(st, review) /\ Unapproved(st)
    BY <2>5, <2>6, ResetDownstreamIsPending, ResetDownstreamKeeps
  <2>8. review <= review
    BY StagesAreNumbered DEF StageIds
  <2> QED
    BY <1>1, <2>2, <2>7, <2>8, ResetIsOwed, SavedIsExamined
<1> QED
  BY <1>2, <1>3

LEMMA FinalizeKeepsExamined ==
    ASSUME NEW review \in StageIds, EvidenceInv, ExaminedInv(review), Finalize
    PROVE  ExaminedInv(review)'
<1> DEFINE st == FinalizeState(mem, verdict)
<1>1. /\ pc = "finalize" /\ examined' = examined
      /\ \/ disk' = st /\ EndRun(verdict)
         \/ disk' = disk /\ EndRun("invalid-state")
  BY DEF Finalize
<1>2. pc' = "idle" /\ ~run'.aborted
  BY <1>1 DEF EndRun, NoRun
<1>3. IsState(mem) /\ disk = mem /\ disk # NoFile
  BY <1>1, LiveEvidence
<1>4. SameAttempts(mem, st) /\ SameApproval(mem, st)
  BY <1>3, FinalizeStateKeeps
<1>5. ~OnTheWay(review)
  BY <1>1 DEF OnTheWay
<1> HIDE DEF st
<1>6. Covered(st, review) /\ Owed(st, review)
  BY <1>3, <1>4, <1>5, KeptIsCovered DEF ExaminedInv
<1>7. CASE disk' = st
  BY <1>1, <1>2, <1>6, <1>7 DEF ExaminedInv, Covered, Owed, Examined
<1>8. CASE disk' = disk
  BY <1>1, <1>2, <1>5, <1>8, UnsavedIsExamined
<1> QED
  BY <1>1, <1>7, <1>8

LEMMA StepKeepsExamined ==
    ASSUME NEW review \in StageIds, Attended(review), EvidenceInv, ExaminedInv(review),
           Evidence', [Next]_vars
    PROVE  ExaminedInv(review)'
<1>1. CASE UNCHANGED vars
  BY <1>1 DEF vars, ExaminedInv, Covered, Owed, Examined, OnTheWay
<1>2. CASE Start
  BY <1>2, StartKeepsExamined
<1>3. CASE SkipCorrection \/ RejectCorrection \/ ApplyCorrection
  BY <1>3, CorrectionKeepsExamined
<1>4. CASE RecoverLegacyReview \/ SelectStage
  BY <1>4, SelectionKeepsExamined
<1>5. CASE BeginStage
  BY <1>5, BeginStageKeepsExamined
<1>6. CASE SettleStage
  BY <1>6, SettleStageKeepsExamined
<1>7. CASE ExecutorThrows
  BY <1>7, ExecutorThrowsKeepsExamined
<1>8. CASE AttestReview
  BY <1>8, AttestReviewKeepsExamined
<1>9. CASE BackfillCheckpoint
  BY <1>9, BackfillCheckpointKeepsExamined
<1>10. CASE FinalScopeAttested
  BY <1>10, FinalScopeAttestedKeepsExamined
<1>11. CASE FinalScopeRejected
  BY <1>11, FinalRejectionKeepsExamined DEF FinalScopeRejected, FinalStep
<1>12. CASE ReviewInvalidated
  BY <1>12, ReviewInvalidatedKeepsExamined
<1>13. CASE Finalize
  BY <1>13, FinalizeKeepsExamined
<1>14. CASE AbortBeforeStage \/ ReviewAttestationRejected \/ Abort \/ Die
  \* None of them happens to an attended invocation.
  BY <1>14 DEF AbortBeforeStage, ReviewAttestationRejected, AttestorMayFail, Abort, Die,
               Attended, ExaminedInv
<1>15. CASE StageEdits \/ TreeChanges
  BY <1>15 DEF StageEdits, TreeChanges, ExaminedInv, Covered, Owed, Examined, OnTheWay
<1> QED
  BY <1>1, <1>2, <1>3, <1>4, <1>5, <1>6, <1>7, <1>8, <1>9, <1>10, <1>11, <1>12, <1>13,
     <1>14, <1>15 DEF Next, RunnerStep

LEMMA InitExamined == ASSUME NEW review \in StageIds, Init PROVE ExaminedInv(review)
<1>1. /\ pc = "idle" /\ ~run.aborted /\ examined.stage = NoStage /\ NoStage # review
  BY StagesAreNumbered DEF Init, NoRun
<1>2. disk # NoFile => ~HasCheckpoint(disk)
  <2>1. CASE disk \in LegacyStates
    <3>1. PICK v \in Versions, k \in 0..N, status \in {"running", "needs-attention"} :
            disk = LegacyState(v, k, status)
      BY <2>1 DEF LegacyStates
    <3>2. LegacyState(v, k, status).checkpoint = NoCheckpoint
      BY DEF LegacyState, InitialState
    <3> QED
      BY <3>1, <3>2 DEF HasCheckpoint
  <2> QED
    BY <2>1 DEF Init
<1> QED
  BY <1>1, <1>2 DEF ExaminedInv, Covered, Owed

\* The final receipt of an attended pipeline is about the code its review has
\* seen: the attempt it names is the one that was seen to pass, and no stage
\* before the review has run since.
THEOREM ReceiptsCoverExaminedCode ==
    ASSUME NEW CONSTANT review \in StageIds, Attended(review)
    PROVE  Spec => []ReceiptCoversExaminedCode
<1>1. Init => ExaminedInv(review)
  BY InitExamined
<1>2. EvidenceInv /\ EvidenceInv' /\ ExaminedInv(review) /\ [Next]_vars => ExaminedInv(review)'
  BY StepKeepsExamined DEF EvidenceInv
<1>3. EvidenceInv /\ ExaminedInv(review) => ReceiptCoversExaminedCode
  <2> SUFFICES ASSUME EvidenceInv, ExaminedInv(review), disk # NoFile,
                      disk.status = "done", examined.stage # NoStage
               PROVE  /\ disk.receipt.stage = examined.stage
                      /\ disk.receipt.attempt = examined.attempt
                      /\ disk.receipt.code = examined.code
                      /\ disk.receipt.final[1] = examined.code
                      /\ \A s \in 1..(examined.stage - 1) :
                           disk.stages[s].attempts = examined.attempts[s]
    BY DEF ReceiptCoversExaminedCode
  <2>1. IsState(disk) /\ Accounted(disk)
    BY DEF EvidenceInv, RunnerInv, TypeOK, Evidence, FileEvidence
  <2>2. /\ HasCheckpoint(disk) /\ disk.checkpoint = CheckpointOf(disk.receipt)
        /\ disk.receipt.final = <<disk.receipt.code, disk.receipt.docs>>
        /\ disk.checkpoint.attempt = disk.stages[disk.checkpoint.stage].attempts
    BY <2>1 DEF Accounted
  <2>3. /\ examined.stage = review /\ disk.checkpoint.stage = review
        /\ Examined(disk, review) /\ examined.code = disk.checkpoint.code
    BY <2>2 DEF ExaminedInv, Covered
  <2>4. /\ disk.receipt.stage = disk.checkpoint.stage
        /\ disk.receipt.attempt = disk.checkpoint.attempt
        /\ disk.receipt.code = disk.checkpoint.code
    BY <2>2 DEF CheckpointOf
  <2>5. \A s \in 1..(review - 1) : s \in StageIds /\ s < review
    BY StagesAreNumbered DEF StageIds
  <2> QED
    BY <2>2, <2>3, <2>4, <2>5 DEF Examined
<1>4. Spec => []EvidenceInv
  BY EvidenceInvariant
<1> QED
  BY <1>1, <1>2, <1>3, <1>4, PTL DEF Spec

-----------------------------------------------------------------------------
(* What a stage whose work is sent back is told *)

\* Rejections do not cross: a later gate sends work back at least as far as an
\* earlier one whose range its own reaches into.
NestedRejections ==
    \A s, t \in StageIds :
      s < t /\ StageDefs[s].onFail # NoStage /\ StageDefs[t].onFail # NoStage =>
        StageDefs[t].onFail <= StageDefs[s].onFail \/ s <= StageDefs[t].onFail

\* A child whose output its gate rejects says what it has found.
RejectionsHaveFindings == \A r \in Results : r.output # "reject"

LastWas(stage, kind) == stage.history # <<>> /\ Last(stage.history).kind = kind

\* The latest attempt of s has rejected the work of g, and s has not begun anew.
Rejects(st, s, g) ==
    /\ StageDefs[s].onFail = g
    /\ st.stages[s].status = "failed" /\ LastWas(st.stages[s], "gate-failed")

SentBack(st, g) == LastWas(st.stages[g], "passed") /\ \E s \in StageIds : Rejects(st, s, g)

\* What the rejecting stage s has found, when it has found anything to tell.
FindingsOf(rejection, findings) ==
    findings = rejection \/ (findings = NoOrigin /\ ~RejectionsHaveFindings)

\* g has the findings and the handoff of s, which was the first to reject anything.
Explains(st, s, g) ==
    LET rejection == [stage |-> s, attempt |-> st.stages[s].attempts] IN
    /\ Rejects(st, s, g)
    /\ FindingsOf(rejection, st.stages[g].findings)
    /\ StageDefs[s].kind = "agent" => st.stages[g].handoff = rejection
    /\ \A t \in StageIds : t < s /\ t # g => PassedIn(st, t)

Explained(st, g) == SentBack(st, g) => \E s \in StageIds : Explains(st, s, g)

\* No rejection waits behind an unfinished stage.
QuietAfter(st, s) == \A g \in StageIds : s < g => ~SentBack(st, g)

Answered(st) ==
    \A g \in StageIds : ~PassedIn(st, g) => QuietAfter(st, g) /\ Explained(st, g)

AnsweredInv ==
    /\ disk # NoFile => Answered(disk)
    /\ pc \in {"step", "exec", "attest"} /\ cur # NoStage => QuietAfter(disk, cur)
    /\ pc = "step" /\ cur # NoStage => Explained(disk, cur)

\* Nothing a rejection depends on has changed.
SameStages(a, b) ==
    \A s \in StageIds :
      /\ b.stages[s].history = a.stages[s].history
      /\ b.stages[s].attempts = a.stages[s].attempts
      /\ b.stages[s].findings = a.stages[s].findings
      /\ b.stages[s].handoff = a.stages[s].handoff
      /\ PassedIn(b, s) <=> PassedIn(a, s)
      /\ b.stages[s].status = "failed" <=> a.stages[s].status = "failed"

LEMMA SameStagesAreAnswered ==
    ASSUME NEW a, NEW b, SameStages(a, b)
    PROVE  /\ \A g \in StageIds : QuietAfter(a, g) => QuietAfter(b, g)
           /\ \A g \in StageIds : Explained(a, g) => Explained(b, g)
           /\ Answered(a) => Answered(b)
<1>1. ASSUME NEW s \in StageIds, NEW g PROVE Rejects(b, s, g) <=> Rejects(a, s, g)
  BY DEF SameStages, Rejects, LastWas
<1>2. ASSUME NEW g \in StageIds PROVE SentBack(b, g) <=> SentBack(a, g)
  BY <1>1 DEF SameStages, SentBack, LastWas
<1>3. ASSUME NEW s \in StageIds, NEW g \in StageIds, Explains(a, s, g)
      PROVE  Explains(b, s, g)
  BY <1>1, <1>3 DEF SameStages, Explains
<1>4. \A g \in StageIds : QuietAfter(a, g) => QuietAfter(b, g)
  BY <1>2 DEF QuietAfter
<1>5. \A g \in StageIds : Explained(a, g) => Explained(b, g)
  BY <1>2, <1>3 DEF Explained
<1> QED
  BY <1>4, <1>5 DEF SameStages, Answered

\* Stage s begins, with everything before it passed.
LEMMA BegunIsAnswered ==
    ASSUME NEW st, IsState(st), NEW s \in StageIds, \A t \in StageIds : t < s => PassedIn(st, t),
           QuietAfter(st, s), Explained(st, s)
    PROVE  LET after == MarkStageRunning(st, s)
           IN  Answered(after) /\ QuietAfter(after, s)
<1> DEFINE stages == [st.stages EXCEPT ![s].status = "running"]
           after  == MarkStageRunning(st, s)
<1>1. after = [st EXCEPT !.status = "running", !.current = s, !.stages = stages]
  BY DEF MarkStageRunning, IsState
<1>2. /\ stages[s].status = "running"
      /\ \A t \in StageIds : /\ stages[t].history = st.stages[t].history
                             /\ stages[t].attempts = st.stages[t].attempts
                             /\ stages[t].findings = st.stages[t].findings
                             /\ stages[t].handoff = st.stages[t].handoff
      /\ \A t \in StageIds \ {s} : stages[t] = st.stages[t]
  BY DEF IsState, StageStateType
<1> HIDE DEF stages, after
<1>3. after.stages = stages
  BY <1>1 DEF IsState
<1>4. ASSUME NEW v \in StageIds, NEW g \in StageIds
      PROVE  /\ Rejects(after, v, g) => Rejects(st, v, g)
             /\ v # s /\ Rejects(st, v, g) => Rejects(after, v, g)
  BY <1>2, <1>3 DEF Rejects, LastWas
<1>5. ASSUME NEW g \in StageIds, SentBack(after, g) PROVE SentBack(st, g)
  BY <1>2, <1>3, <1>4, <1>5 DEF SentBack, LastWas
<1>6. QuietAfter(after, s)
  BY <1>5 DEF QuietAfter
<1>7. StageIds = 1..N /\ N \in Nat
  BY StagesAreNumbered DEF StageIds
<1>8. Explained(after, s)
  <2> SUFFICES ASSUME SentBack(after, s) PROVE \E v \in StageIds : Explains(after, v, s)
    BY DEF Explained
  <2>1. PICK v \in StageIds : Explains(st, v, s)
    BY <1>5 DEF Explained
  <2>2. v # s
    BY <2>1, StageDefsAssumption, <1>7 DEF Explains, Rejects, CrossFieldInvariants
  <2> QED
    BY <1>2, <1>3, <1>4, <2>1, <2>2 DEF Explains, PassedIn
<1>9. ASSUME NEW g \in StageIds, ~PassedIn(after, g)
      PROVE  QuietAfter(after, g) /\ Explained(after, g)
  <2>1. g = s \/ s < g
    BY <1>2, <1>3, <1>7, <1>9 DEF PassedIn
  <2> QED
    BY <1>6, <1>7, <1>8, <2>1 DEF QuietAfter, Explained
<1> QED
  BY <1>6, <1>9 DEF Answered, after

\* Stage s has ended, and nothing is sent back.
LEMMA EndedIsAnswered ==
    ASSUME NEW a, IsState(a), NEW s \in StageIds, \A t \in StageIds : t < s => PassedIn(a, t),
           QuietAfter(a, s), NEW b, NEW kind, OneMoreAttempt(a, b, s, kind),
           \A t \in StageIds \ {s} : b.stages[t].status = a.stages[t].status,
           PassedIn(b, s) \/ kind # "passed"
    PROVE  Answered(b) /\ QuietAfter(b, s)
<1>1. ASSUME NEW g \in StageIds, s < g, SentBack(b, g) PROVE SentBack(a, g)
  <2>1. PICK v \in StageIds : Rejects(b, v, g)
    BY <1>1 DEF SentBack
  <2>2. v # s /\ g # s
    BY <1>1, <2>1, StageDefsAssumption, StagesAreNumbered
       DEF Rejects, CrossFieldInvariants, StageIds
  <2>3. /\ b.stages[v].history = a.stages[v].history
        /\ b.stages[g].history = a.stages[g].history
        /\ b.stages[v].status = a.stages[v].status
    BY <2>2 DEF OneMoreAttempt
  <2> QED
    BY <1>1, <2>1, <2>3 DEF SentBack, Rejects, LastWas
<1>2. QuietAfter(b, s)
  BY <1>1 DEF QuietAfter
<1>3. StageIds = 1..N /\ N \in Nat
  BY StagesAreNumbered DEF StageIds
<1>4. kind # "passed" => ~SentBack(b, s)
  <2>1. PICK usage : b.stages[s].history =
          Append(a.stages[s].history,
                 [attempt |-> a.stages[s].attempts + 1, kind |-> kind, usage |-> usage])
    BY DEF OneMoreAttempt
  <2>2. a.stages[s].history \in Seq(Attempt)
    BY HistoryFacts
  <2> DEFINE entry == [attempt |-> a.stages[s].attempts + 1, kind |-> kind, usage |-> usage]
  <2>3. entry.kind = kind
    OBVIOUS
  <2> HIDE DEF entry
  <2>4. Last(Append(a.stages[s].history, entry)) = entry
    BY <2>2 DEF Last
  <2> QED
    BY <2>1, <2>3, <2>4 DEF SentBack, LastWas, entry
<1>5. ASSUME NEW g \in StageIds, ~PassedIn(b, g)
      PROVE  QuietAfter(b, g) /\ Explained(b, g)
  <2>1. g = s \/ s < g
    BY <1>3, <1>5 DEF PassedIn
  <2> QED
    BY <1>2, <1>3, <1>4, <1>5, <2>1 DEF QuietAfter, Explained
<1> QED
  BY <1>2, <1>5 DEF Answered

\* The gate of stage s has rejected the work of "target", which is told so.
LEMMA RejectedIsAnswered ==
    ASSUME NestedRejections, NEW a, IsState(a), NEW s \in StageIds,
           \A t \in StageIds : t < s => PassedIn(a, t), QuietAfter(a, s),
           NEW b, OneMoreAttempt(a, b, s, "gate-failed"), b.stages[s].status = "failed",
           NEW target \in StageIds, target = StageDefs[s].onFail,
           b.stages[target].status = "pending",
           \A t \in StageIds \ {s, target} : b.stages[t].status = a.stages[t].status,
           FindingsOf([stage |-> s, attempt |-> b.stages[s].attempts],
                      b.stages[target].findings),
           StageDefs[s].kind = "agent" =>
             b.stages[target].handoff = [stage |-> s, attempt |-> b.stages[s].attempts]
    PROVE  Answered(b) /\ QuietAfter(b, target) /\ Explained(b, target)
<1>1. StageIds = 1..N /\ N \in Nat /\ target < s /\ NoStage \notin StageIds
  BY StagesAreNumbered, StageDefsAssumption DEF CrossFieldInvariants, StageIds
<1>2. LastWas(b.stages[s], "gate-failed")
  <2>1. PICK usage : b.stages[s].history =
          Append(a.stages[s].history,
                 [attempt |-> a.stages[s].attempts + 1, kind |-> "gate-failed",
                  usage |-> usage])
    BY DEF OneMoreAttempt
  <2>2. a.stages[s].history \in Seq(Attempt)
    BY HistoryFacts
  <2> DEFINE entry == [attempt |-> a.stages[s].attempts + 1, kind |-> "gate-failed",
                       usage |-> usage]
  <2>3. entry.kind = "gate-failed"
    OBVIOUS
  <2> HIDE DEF entry
  <2>4. /\ Append(a.stages[s].history, entry) # <<>>
        /\ Last(Append(a.stages[s].history, entry)) = entry
    BY <2>2 DEF Last
  <2> QED
    BY <2>1, <2>3, <2>4 DEF LastWas, entry
<1>3. QuietAfter(b, target)
  <2> SUFFICES ASSUME NEW g \in StageIds, target < g, SentBack(b, g) PROVE FALSE
    BY DEF QuietAfter
  <2>1. PICK v \in StageIds : Rejects(b, v, g)
    BY DEF SentBack
  <2>2. v # s /\ v # target /\ g < v
    BY <1>1, <2>1, StageDefsAssumption DEF Rejects, CrossFieldInvariants
  <2>3. g # s
    BY <1>2 DEF SentBack, LastWas
  <2>4. /\ b.stages[v].history = a.stages[v].history
        /\ b.stages[g].history = a.stages[g].history
        /\ b.stages[v].status = a.stages[v].status
    BY <1>1, <2>2, <2>3 DEF OneMoreAttempt
  <2>5. Rejects(a, v, g) /\ SentBack(a, g)
    BY <2>1, <2>4 DEF SentBack, Rejects, LastWas
  <2>6. s < v
    BY <1>1, <2>2, <2>5 DEF Rejects, PassedIn
  <2>7. g < s
    BY <1>1, <2>3, <2>5 DEF QuietAfter
  <2>8. StageDefs[v].onFail = g
    BY <2>5 DEF Rejects
  <2> QED
    BY <1>1, <2>6, <2>7, <2>8 DEF NestedRejections
<1>4. Explained(b, target)
  <2>1. Rejects(b, s, target)
    BY <1>2 DEF Rejects
  <2>2. \A t \in StageIds : t < s /\ t # target => PassedIn(b, t)
    BY <1>1 DEF PassedIn
  <2> QED
    BY <2>1, <2>2 DEF Explained, Explains
<1>5. ASSUME NEW g \in StageIds, ~PassedIn(b, g)
      PROVE  QuietAfter(b, g) /\ Explained(b, g)
  <2>1. g = target \/ target < g
    BY <1>1, <1>5 DEF PassedIn
  <2> QED
    BY <1>1, <1>3, <1>4, <2>1 DEF QuietAfter, Explained
<1> QED
  BY <1>3, <1>4, <1>5 DEF Answered

\* The pipeline is reset from a stage on: nothing there rejects anything.
LEMMA ResetIsAnswered ==
    ASSUME NEW st, IsState(st), Answered(st), NEW target \in StageIds, NEW findings
    PROVE  LET after == ResetStageAndDownstream(st, target, findings)
           IN  Answered(after) /\ QuietAfter(after, target) /\ Explained(after, target)
<1> DEFINE stages == [s \in StageIds |->
                        IF s < target THEN st.stages[s]
                        ELSE ResetStage(st.stages[s],
                                        IF s = target THEN findings ELSE NoOrigin, NoOrigin)]
           after  == ResetStageAndDownstream(st, target, findings)
<1>1. after = [st EXCEPT !.checkpoint = NoCheckpoint, !.receipt = NoReceipt,
                         !.status = "running", !.current = NoStage, !.finished = FALSE,
                         !.stages = stages]
  BY DEF ResetStageAndDownstream, WithoutApproval, IsState
<1>2. StageIds = 1..N /\ N \in Nat
  BY StagesAreNumbered DEF StageIds
<1>3. \A t \in StageIds :
        /\ t < target => stages[t] = st.stages[t]
        /\ ~(t < target) => stages[t].status = "pending"
        /\ stages[t].history = st.stages[t].history
  BY DEF ResetStage
<1> HIDE DEF stages, after
<1>4. after.stages = stages
  BY <1>1 DEF IsState
<1>5. ASSUME NEW v \in StageIds, NEW g \in StageIds, Rejects(after, v, g)
      PROVE  Rejects(st, v, g) /\ v < target /\ g < v
  BY <1>3, <1>4, <1>5, StageDefsAssumption DEF Rejects, LastWas, CrossFieldInvariants
<1>6. ASSUME NEW g \in StageIds, SentBack(after, g)
      PROVE  SentBack(st, g) /\ g < target
             /\ \E v \in StageIds : Rejects(st, v, g) /\ v < target /\ g < v
  <2>1. PICK v \in StageIds : Rejects(after, v, g)
    BY <1>6 DEF SentBack
  <2>2. Rejects(st, v, g) /\ v < target /\ g < v
    BY <1>5, <2>1
  <2>3. g < target
    BY <1>2, <2>2
  <2> QED
    BY <1>3, <1>4, <1>6, <2>2, <2>3 DEF SentBack, LastWas
<1>7. QuietAfter(after, target) /\ Explained(after, target)
  BY <1>2, <1>6 DEF QuietAfter, Explained
<1>8. ASSUME NEW g \in StageIds, ~PassedIn(after, g)
      PROVE  QuietAfter(after, g) /\ Explained(after, g)
  <2>1. CASE ~(g < target)
    BY <1>2, <1>6, <2>1 DEF QuietAfter, Explained
  <2>2. CASE g < target
    <3>1. QuietAfter(st, g) /\ Explained(st, g)
      BY <1>3, <1>4, <1>8, <2>2 DEF Answered, PassedIn
    <3>2. QuietAfter(after, g)
      BY <1>6, <3>1 DEF QuietAfter
    <3>3. ASSUME SentBack(after, g) PROVE \E s \in StageIds : Explains(after, s, g)
      <4>1. PICK v \in StageIds : Rejects(st, v, g) /\ v < target /\ g < v
        BY <1>6, <3>3
      <4>2. PICK s \in StageIds : Explains(st, s, g)
        BY <1>6, <3>1, <3>3 DEF Explained
      <4>3. ~PassedIn(st, v) /\ v # g
        BY <1>2, <4>1 DEF Rejects, PassedIn
      <4>4. s <= v
        BY <1>2, <4>2, <4>3 DEF Explains
      <4>5. s < target /\ \A t \in StageIds : t < s => t < target
        BY <1>2, <4>1, <4>4
      <4>6. Rejects(after, s, g)
        BY <1>3, <1>4, <4>2, <4>5 DEF Explains, Rejects, LastWas
      <4> QED
        BY <1>3, <1>4, <2>2, <4>2, <4>5, <4>6 DEF Explains, PassedIn
    <3> QED
      BY <3>2, <3>3 DEF Explained
  <2> QED
    BY <2>1, <2>2
<1> QED
  BY <1>7, <1>8 DEF Answered, after

\* What settling stage s does to the stages.
LEMMA OutcomeOfTheStages ==
    ASSUME NEW st, IsState(st), Orderly(st), NEW s \in StageIds, Reached(st, s),
           NEW e, IsEvaluation(s, e), e.decision.passed => e.decision.kind = "passed",
           NEW hasPayload
    PROVE  LET after  == ApplyStageOutcome(st, s, e, hasPayload)
               this   == [stage |-> s, attempt |-> st.stages[s].attempts + 1]
               target == e.route.next
           IN  /\ after.stages[s].status = IF e.decision.passed THEN "passed" ELSE "failed"
               /\ e.route.action # "regress" =>
                    \A t \in StageIds \ {s} : after.stages[t].status = st.stages[t].status
               /\ e.route.action = "regress" =>
                    /\ \A t \in StageIds \ {s, target} :
                         after.stages[t].status = st.stages[t].status
                    /\ after.stages[target].status = "pending"
                    /\ after.stages[target].findings =
                         IF e.decision.findings THEN this ELSE NoOrigin
                    /\ hasPayload => after.stages[target].handoff = this
<1> DEFINE previous == st.stages[s]
           this     == [stage |-> s, attempt |-> previous.attempts + 1]
           handoff  == IF hasPayload THEN this ELSE NoOrigin
           findings == IF e.decision.findings THEN this ELSE NoOrigin
           finished == FinishedStage(previous, e.decision.passed, e.decision.kind,
                                     e.decision.usage)
           spent    == AccumulateEconomics(st.economics, e.decision.usage)
           base     == Recorded(st, s, finished, e.route.regressions, spent)
           after    == ApplyStageOutcome(st, s, e, hasPayload)
           target   == e.route.next
<1>1. previous \in StageStateType
  BY DEF IsState
<1>2. /\ finished \in StageStateType /\ finished.status \in {"passed", "failed"}
      /\ finished.status = IF e.decision.passed THEN "passed" ELSE "failed"
  BY <1>1, FinishedStageType DEF IsEvaluation
<1>3. /\ e.route.regressions \in Nat
      /\ e.route.action = "regress" => target \in StageIds /\ target < s
      /\ e.route.action # "regress" => target \in {NoStage} \cup (StageIds \ {s})
  BY StagesAreNumbered DEF IsEvaluation, StageIds
<1>4. after = IF e.route.action = "regress"
              THEN ResetRegressionTarget(base, target, findings, handoff)
              ELSE IF target = NoStage THEN base
              ELSE ReplaceSuccessorHandoff(base, target, handoff)
  BY DEF ApplyStageOutcome, Recorded, IsState
<1> DEFINE outcome == finished.status
<1>5. /\ IsState(base) /\ base.stages[s] = finished
      /\ \A t \in StageIds \ {s} : base.stages[t] = st.stages[t]
  <2> HIDE DEF finished, spent
  <2> QED
    BY <1>2, <1>3, StageFinished
<1> HIDE DEF finished, spent, base, after, target, handoff, findings, this
<1>6. CASE e.route.action = "regress"
  <2> DEFINE reset  == ResetStage(base.stages[target], findings, handoff)
             stages == [base.stages EXCEPT ![target] = reset]
  <2>1. reset.status = "pending" /\ reset.findings = findings /\ reset.handoff = handoff
    BY DEF ResetStage
  <2> HIDE DEF reset
  <2>2. /\ stages[target] = reset
        /\ \A t \in StageIds \ {target} : stages[t] = base.stages[t]
    BY <1>3, <1>5, <1>6 DEF IsState
  <2>3. after = [base EXCEPT !.checkpoint = NoCheckpoint, !.receipt = NoReceipt,
                             !.stages = stages]
    BY <1>4, <1>5, <1>6 DEF ResetRegressionTarget, WithoutApproval, IsState, reset
  <2> HIDE DEF stages
  <2>4. after.stages = stages
    BY <1>5, <2>3 DEF IsState
  <2>5. s # target
    BY <1>3, <1>6, StagesAreNumbered DEF StageIds
  <2>6. /\ after.stages[s].status = IF e.decision.passed THEN "passed" ELSE "failed"
        /\ \A t \in StageIds \ {s, target} : after.stages[t].status = st.stages[t].status
    BY <1>2, <1>5, <2>2, <2>4, <2>5
  <2>7. /\ after.stages[target].status = "pending"
        /\ after.stages[target].findings = IF e.decision.findings THEN this ELSE NoOrigin
        /\ hasPayload => after.stages[target].handoff = this
    BY <2>1, <2>2, <2>4 DEF findings, handoff
  <2> QED
    BY <1>6, <2>6, <2>7 DEF after, target, this
<1>7. CASE e.route.action # "regress" /\ target = NoStage
  <2>1. after = base
    BY <1>4, <1>7
  <2> QED
    BY <1>2, <1>5, <1>7, <2>1 DEF after, target
<1>8. CASE e.route.action # "regress" /\ target # NoStage
  <2> DEFINE stages == [base.stages EXCEPT ![target].handoff = handoff]
  <2>1. after = [base EXCEPT !.stages = stages]
    BY <1>4, <1>5, <1>8 DEF ReplaceSuccessorHandoff, IsState
  <2>2. \A t \in StageIds : stages[t].status = base.stages[t].status
    BY <1>5 DEF IsState, StageStateType
  <2> HIDE DEF stages
  <2>3. after.stages = stages
    BY <1>5, <2>1 DEF IsState
  <2> QED
    BY <1>2, <1>5, <1>8, <2>2, <2>3 DEF after, target
<1> QED
  BY <1>6, <1>7, <1>8

\* A rejection that is sent back has findings unless the gate gave none, and a
\* payload when an agent made it.
LEMMA RejectionSaysWhy ==
    ASSUME NEW s \in StageIds, NEW r \in ResultType,
           NEW regressions \in Nat, NEW max \in Nat, NEW budget, NEW spent
    PROVE  LET e == EvaluateStageExecution(s, r, regressions, max, budget, spent)
           IN  e.route.action = "regress" =>
                 /\ ~e.decision.passed
                 /\ r.output # "reject" => e.decision.findings
                 /\ StageDefs[s].kind = "agent" => r.output # "null"
<1> DEFINE d == CheckStageDecision(s, r)
           e == EvaluateStageExecution(s, r, regressions, max, budget, spent)
<1>1. e.decision = d /\ e.route = RouteStageDecision(s, d, regressions, max)
  BY DEF EvaluateStageExecution
<1>2. d.kind = "gate-failed" =>
        /\ r.output # "reject" => d.findings
        /\ StageDefs[s].kind = "agent" => r.output # "null"
  BY DEF CheckStageDecision, PayloadGateRejects, ExecutionFailure
<1> HIDE DEF d, e
<1>3. e.route.action = "regress" => ~d.passed /\ d.kind = "gate-failed"
  BY <1>1 DEF RouteStageDecision, PassedRoute, FailRoute
<1> QED
  BY <1>1, <1>2, <1>3 DEF e

-----------------------------------------------------------------------------
\* Saving a state in which every rejection is answered.
LEMMA SavedIsAnswered ==
    ASSUME AnsweredInv, NEW st, NEW continue, Transition(st, continue), Answered(st),
           continue => /\ pc' \in {"step", "exec", "attest"} /\ cur' # NoStage =>
                            QuietAfter(st, cur')
                       /\ pc' = "step" /\ cur' # NoStage => Explained(st, cur')
    PROVE  AnsweredInv'
<1>1. CASE disk' = st /\ continue
  BY <1>1 DEF AnsweredInv, Answered, QuietAfter, Explained, Explains, SentBack, Rejects,
              PassedIn
<1>2. CASE disk' = disk /\ pc' = "idle"
  BY <1>2 DEF AnsweredInv, Answered, QuietAfter, Explained, Explains, SentBack, Rejects,
              PassedIn
<1> QED
  BY <1>1, <1>2 DEF Transition, EndRun

\* Going on without a save.
LEMMA UnsavedIsAnswered ==
    ASSUME AnsweredInv, disk' = disk,
           pc' \in {"step", "exec", "attest"} /\ cur' # NoStage => QuietAfter(disk, cur'),
           pc' = "step" /\ cur' # NoStage => Explained(disk, cur')
    PROVE  AnsweredInv'
  BY DEF AnsweredInv, Answered, QuietAfter, Explained, Explains, SentBack, Rejects, PassedIn

LEMMA EqualStagesAreSame ==
    ASSUME NEW a, NEW b, b.stages = a.stages
    PROVE  SameStages(a, b)
  BY DEF SameStages, PassedIn

LEMMA ReconciledStagesAreSame ==
    ASSUME NEW st, IsState(st), Accounted(st)
    PROVE  SameStages(st, ReconcilePipelineState(st))
<1> DEFINE status    == IF st.status = "running" THEN "pending" ELSE st.status
           stages    == [s \in StageIds |-> RepairStage(st.stages[s])]
           current   == IF status \in TerminalStatuses THEN NoStage ELSE st.current
           finished  == status \in TerminalStatuses
           economics == RecomputeEconomics(stages)
           after     == ReconcilePipelineState(st)
<1>1. after = [st EXCEPT !.status = status, !.stages = stages, !.current = current,
                         !.finished = finished, !.economics = economics]
  BY DEF ReconcilePipelineState, IsState
<1>2. ASSUME NEW s \in StageIds
      PROVE  /\ stages[s].history = st.stages[s].history
             /\ stages[s].attempts = st.stages[s].attempts
             /\ stages[s].findings = st.stages[s].findings
             /\ stages[s].handoff = st.stages[s].handoff
             /\ stages[s].status = "passed" <=> st.stages[s].status = "passed"
             /\ stages[s].status = "failed" <=> st.stages[s].status = "failed"
  <2>1. st.stages[s] \in StageStateType /\ Numbered(st.stages[s])
    BY DEF IsState, Accounted
  <2> DEFINE now    == IF st.stages[s].status = "running" THEN "pending"
                       ELSE st.stages[s].status
             length == Len(st.stages[s].history)
  <2>2. RepairStage(st.stages[s]) = [st.stages[s] EXCEPT !.status = now, !.attempts = length]
    BY <2>1 DEF RepairStage, StageStateType
  <2>3. length = st.stages[s].attempts
    BY <2>1 DEF Numbered
  <2> HIDE DEF length
  <2> QED
    BY <2>1, <2>2, <2>3 DEF StageStateType
<1> HIDE DEF status, stages, current, finished, economics, after
<1>3. after.stages = stages
  BY <1>1 DEF IsState
<1> QED
  BY <1>2, <1>3 DEF SameStages, PassedIn, after

LEMMA StartKeepsAnswered ==
    ASSUME EvidenceInv, AnsweredInv, Start
    PROVE  AnsweredInv'
<1>1. PICK ceiling \in Ceilings, budget \in RunBudgets,
           request \in {<<0, 0>>} \cup ((1..run.id) \X Reasons) :
             LET r == NewRun(ceiling, budget, request[1], request[2])
             IN  StartFresh(r) \/ StartResume(r) \/ StartRecovery(r) \/ StartThrows(r)
  BY DEF Start
<1> DEFINE r == NewRun(ceiling, budget, request[1], request[2])
<1>2. pc = "idle"
  BY DEF Start
<1> HIDE DEF r
<1>3. ASSUME NEW st, disk' = st, Answered(st), pc' = "correct" PROVE AnsweredInv'
  BY <1>3 DEF AnsweredInv, Answered, QuietAfter, Explained, Explains, SentBack, Rejects,
              PassedIn
<1>4. CASE StartFresh(r)
  <2>1. disk' = InitialState /\ pc' = "correct"
    BY <1>4 DEF StartFresh, Enter
  <2>2. \A s \in StageIds, g \in StageIds : ~Rejects(InitialState, s, g)
    BY DEF InitialState, InitialStage, Rejects
  <2>3. Answered(InitialState)
    BY <2>2 DEF Answered, QuietAfter, Explained, SentBack
  <2> QED
    BY <1>3, <2>1, <2>3
<1>5. CASE StartResume(r)
  <2> DEFINE st == ReconcilePipelineState(disk)
  <2>1. disk # NoFile /\ disk' = st /\ pc' = "correct"
    BY <1>5 DEF StartResume, Enter
  <2>2. IsState(disk) /\ Accounted(disk) /\ Answered(disk)
    BY <2>1 DEF EvidenceInv, Evidence, FileEvidence, RunnerInv, TypeOK, AnsweredInv
  <2>3. Answered(st)
    BY <2>2, ReconciledStagesAreSame, SameStagesAreAnswered
  <2> HIDE DEF st
  <2> QED
    BY <1>3, <2>1, <2>3
<1>6. CASE StartRecovery(r) \/ StartThrows(r)
  <2>1. disk' = disk /\ pc' \in {"idle", "correct"}
    BY <1>2, <1>6 DEF StartRecovery, StartThrows, Enter
  <2> QED
    BY <2>1, UnsavedIsAnswered
<1> QED
  BY <1>1, <1>4, <1>5, <1>6 DEF r

LEMMA CorrectionKeepsAnswered ==
    ASSUME EvidenceInv, AnsweredInv, SkipCorrection \/ RejectCorrection \/ ApplyCorrection
    PROVE  AnsweredInv'
<1>1. CASE SkipCorrection
  BY <1>1, UnsavedIsAnswered DEF SkipCorrection
<1>2. CASE RejectCorrection
  BY <1>2, UnsavedIsAnswered DEF RejectCorrection, EndRun
<1>3. CASE ApplyCorrection
  <2> DEFINE target   == CorrectionTarget(mem.receipt)
             reset    == ResetStageAndDownstream(mem, target, [stage |-> NoStage,
                             attempt |-> Len(mem.superseded) + 1])
             st       == ApplyTerminalCorrection(mem, target, run.reason, run.id)
             continue == pc' = "recover" /\ UNCHANGED <<run, cur, nxt, verdict>>
  <2>1. pc = "correct" /\ Transition(st, continue) /\ target # NoStage
    BY <1>3 DEF ApplyCorrection, CorrectionEligible
  <2>2. IsState(mem) /\ Answered(mem)
    BY <2>1, LiveEvidence DEF AnsweredInv
  <2>3. target \in StageIds
    <3>1. /\ mem.receipt.stage \in StageIds /\ target = StageDefs[mem.receipt.stage].onFail
          /\ target < mem.receipt.stage
      BY <2>1 DEF CorrectionTarget
    <3>2. target \in Nat
      BY <3>1, StagesAreNumbered DEF StageDefType
    <3> HIDE DEF target
    <3> QED
      BY <2>1, <3>1, <3>2, StagesAreNumbered DEF StageIds, NoStage
  <2> HIDE DEF target
  <2>4. Answered(reset)
    BY <2>2, <2>3, ResetIsAnswered
  <2>5. st.stages = reset.stages
    <3> DEFINE stages == reset.stages
    <3>1. reset = [mem EXCEPT !.checkpoint = NoCheckpoint, !.receipt = NoReceipt,
                              !.status = "running", !.current = NoStage, !.finished = FALSE,
                              !.stages = stages]
      BY <2>2 DEF ResetStageAndDownstream, WithoutApproval, IsState
    <3> DEFINE superseded == st.superseded
    <3>2. st = [reset EXCEPT !.version = RunnerFeatureVersion, !.superseded = superseded]
      BY <2>2 DEF ApplyTerminalCorrection, ResetStageAndDownstream, WithoutApproval, IsState
    <3> HIDE DEF stages, superseded, st, reset
    <3> QED
      BY <2>2, <3>1, <3>2 DEF IsState
  <2> HIDE DEF st, reset
  <2>6. Answered(st)
    BY <2>4, <2>5, EqualStagesAreSame, SameStagesAreAnswered
  <2> QED
    BY <2>1, <2>6, SavedIsAnswered
<1> QED
  BY <1>1, <1>2, <1>3

LEMMA SelectionKeepsAnswered ==
    ASSUME EvidenceInv, AnsweredInv, RecoverLegacyReview \/ SelectStage
    PROVE  AnsweredInv'
<1>1. pc \in {"recover", "select"} /\ IsState(mem) /\ Orderly(mem) /\ disk = mem /\ Answered(mem)
  BY LiveEvidence DEF RecoverLegacyReview, SelectStage, AnsweredInv
<1>2. CASE SelectStage
  <2>1. disk' = disk /\ cur' = GetFirstIncompleteStage(mem) /\ pc' = "step"
    BY <1>2 DEF SelectStage
  <2>2. cur' # NoStage => cur' \in StageIds /\ ~PassedIn(mem, cur')
    BY <1>1, <2>1, FirstIncompleteIsReached
  <2>3. cur' # NoStage => QuietAfter(disk, cur') /\ Explained(disk, cur')
    BY <1>1, <2>2 DEF Answered
  <2> QED
    BY <2>1, <2>3, UnsavedIsAnswered
<1>3. CASE RecoverLegacyReview
  <2> DEFINE review   == Min(LegacyPassedReviews)
             st       == ResetReviewAndDownstream(mem, review)
             continue == pc' = "select" /\ UNCHANGED <<run, cur, nxt, verdict>>
  <2>1. LegacyPassedReviews # {} /\ Transition(st, continue)
    BY <1>3 DEF RecoverLegacyReview
  <2>2. review \in StageIds
    <3>1. LegacyPassedReviews \subseteq StageIds
      BY DEF LegacyPassedReviews, ReviewStages
    <3>2. \E x \in LegacyPassedReviews : \A y \in LegacyPassedReviews : x <= y
      BY <2>1, <3>1, SmallestElement, StagesAreNumbered
    <3> QED
      BY <3>1, <3>2 DEF Min
  <2> HIDE DEF review
  <2>3. Answered(st)
    BY <1>1, <2>2, ResetIsAnswered DEF ResetReviewAndDownstream
  <2> HIDE DEF st
  <2> QED
    BY <1>1, <2>1, <2>3, SavedIsAnswered
<1> QED
  BY <1>2, <1>3

LEMMA BeginStageKeepsAnswered ==
    ASSUME EvidenceInv, AnsweredInv, BeginStage
    PROVE  AnsweredInv'
<1> DEFINE st       == MarkStageRunning(mem, cur)
           continue == pc' = "exec" /\ UNCHANGED <<run, cur, nxt, verdict>>
<1>1. pc = "step" /\ cur # NoStage /\ Transition(st, continue)
  BY DEF BeginStage
<1>2. /\ IsState(mem) /\ disk = mem /\ cur \in StageIds /\ Reached(mem, cur)
      /\ QuietAfter(mem, cur) /\ Explained(mem, cur)
  BY <1>1, LiveEvidence DEF EvidenceInv, RunnerInv, TypeOK, Position, AtStage, AnsweredInv
<1>3. Answered(st) /\ QuietAfter(st, cur)
  BY <1>2, BegunIsAnswered DEF Reached
<1> HIDE DEF st
<1> QED
  BY <1>1, <1>3, SavedIsAnswered

LEMMA ExecutorThrowsKeepsAnswered ==
    ASSUME EvidenceInv, AnsweredInv, ExecutorThrows
    PROVE  AnsweredInv'
<1> DEFINE st       == ApplyExecutorError(mem, cur)
           continue == /\ pc' = "finalize" /\ verdict' = "needs-attention"
                       /\ UNCHANGED <<run, cur, nxt>>
<1>1. pc = "exec" /\ Transition(st, continue)
  BY DEF ExecutorThrows
<1>2. /\ IsState(mem) /\ disk = mem /\ cur \in StageIds /\ cur # NoStage
      /\ Reached(mem, cur) /\ QuietAfter(mem, cur)
  BY <1>1, LiveEvidence DEF EvidenceInv, RunnerInv, TypeOK, Position, AnsweredInv
<1>3. OneMoreAttempt(mem, st, cur, "failed")
  BY <1>2, ApplyExecutorErrorRecords
<1>4. \A t \in StageIds \ {cur} : st.stages[t].status = mem.stages[t].status
  <2> DEFINE finished == FinishedStage(mem.stages[cur], FALSE, "failed", Absent)
             stages   == [mem.stages EXCEPT ![cur] = finished]
  <2>1. st = [mem EXCEPT !.stages = stages]
    BY <1>2 DEF ApplyExecutorError, IsState
  <2>2. \A t \in StageIds \ {cur} : stages[t] = mem.stages[t]
    BY <1>2 DEF IsState
  <2> HIDE DEF stages, st
  <2>3. st.stages = stages
    BY <1>2, <2>1 DEF IsState
  <2> QED
    BY <2>2, <2>3
<1> HIDE DEF st
<1>5. Answered(st)
  BY <1>2, <1>3, <1>4, EndedIsAnswered DEF Reached
<1> QED
  BY <1>1, <1>5, SavedIsAnswered

LEMMA SettleStageKeepsAnswered ==
    ASSUME NestedRejections, EvidenceInv, AnsweredInv, SettleStage
    PROVE  AnsweredInv'
<1> DEFINE spent(r) == AccumulateEconomics(mem.economics, r.usage)
           eval(r)  == EvaluateStageExecution(cur, r, mem.regressions, run.ceiling, run.budget,
                                              spent(r))
           attests(e) == e.decision.passed /\ IsCodeReviewStage(cur)
           moves(e) == /\ verdict' = StageFailureOutcome(e)
                       /\ nxt' = e.route.next
                       /\ \/ attests(e) /\ pc' = "attest" /\ cur' = cur
                          \/ /\ ~attests(e) /\ StageFailureOutcome(e) = "none"
                             /\ pc' = "step" /\ cur' = e.route.next
                          \/ /\ ~attests(e) /\ StageFailureOutcome(e) # "none"
                             /\ pc' = "finalize" /\ cur' = cur
                       /\ run' = [run EXCEPT !.worked = TRUE]
<1>1. PICK r \in ReturnedBy(cur) :
        /\ pc = "exec"
        /\ Transition(ApplyStageOutcome(mem, cur, eval(r), r.output # "null"), moves(eval(r)))
  BY DEF SettleStage
<1>2. /\ IsState(mem) /\ Orderly(mem) /\ disk = mem /\ cur \in StageIds /\ cur # NoStage
      /\ Reached(mem, cur) /\ QuietAfter(mem, cur)
  BY <1>1, LiveEvidence DEF EvidenceInv, RunnerInv, TypeOK, Position, AnsweredInv
<1>3. r \in ResultType /\ (RejectionsHaveFindings => r.output # "reject")
  BY RunnerAssumption DEF ReturnedBy, RejectionsHaveFindings
<1>4. mem.regressions \in Nat /\ run.ceiling \in Nat
  BY <1>2 DEF IsState, EvidenceInv, RunnerInv, TypeOK, RunType
<1> DEFINE e  == eval(r)
           st == ApplyStageOutcome(mem, cur, e, r.output # "null")
<1>5. IsEvaluation(cur, e)
  BY <1>2, <1>3, <1>4, EvaluationShape
<1>6. IsCharged(e, mem.regressions, run.ceiling)
  BY <1>2, <1>3, <1>4, EvaluationCharges
<1>7. /\ e.decision.kind = "passed" => e.decision.passed
      /\ e.route.action = "regress" =>
           e.route.next \in StageIds /\ e.route.next = StageDefs[cur].onFail
  BY <1>2, <1>3, <1>4, EvaluationTargets
<1>8. e.route.action = "regress" =>
        /\ ~e.decision.passed
        /\ r.output # "reject" => e.decision.findings
        /\ StageDefs[cur].kind = "agent" => r.output # "null"
  BY <1>2, <1>3, <1>4, RejectionSaysWhy
<1> DEFINE this == [stage |-> cur, attempt |-> mem.stages[cur].attempts + 1]
<1> HIDE DEF eval, e
<1>9. OneMoreAttempt(mem, st, cur, e.decision.kind)
  BY <1>2, <1>5, <1>6, ApplyStageOutcomeRecords
<1>10. /\ st.stages[cur].status = IF e.decision.passed THEN "passed" ELSE "failed"
       /\ e.route.action # "regress" =>
            \A t \in StageIds \ {cur} : st.stages[t].status = mem.stages[t].status
       /\ e.route.action = "regress" =>
            /\ \A t \in StageIds \ {cur, e.route.next} :
                 st.stages[t].status = mem.stages[t].status
            /\ st.stages[e.route.next].status = "pending"
            /\ st.stages[e.route.next].findings = IF e.decision.findings THEN this ELSE NoOrigin
            /\ r.output # "null" => st.stages[e.route.next].handoff = this
  <2> DEFINE hasPayload == r.output # "null"
  <2>1. st = ApplyStageOutcome(mem, cur, e, hasPayload)
    OBVIOUS
  <2>2. e.decision.passed => e.decision.kind = "passed"
    BY <1>6 DEF IsCharged
  <2>3. hasPayload \in BOOLEAN
    OBVIOUS
  <2> HIDE DEF hasPayload, st
  <2>4. /\ st.stages[cur].status = IF e.decision.passed THEN "passed" ELSE "failed"
        /\ e.route.action # "regress" =>
             \A t \in StageIds \ {cur} : st.stages[t].status = mem.stages[t].status
        /\ e.route.action = "regress" =>
             /\ \A t \in StageIds \ {cur, e.route.next} :
                  st.stages[t].status = mem.stages[t].status
             /\ st.stages[e.route.next].status = "pending"
             /\ st.stages[e.route.next].findings = IF e.decision.findings THEN this ELSE NoOrigin
             /\ hasPayload => st.stages[e.route.next].handoff = this
    BY <1>2, <1>5, <2>1, <2>2, <2>3, OutcomeOfTheStages
  <2> QED
    BY <2>4 DEF hasPayload
<1> DEFINE continue == moves(e)
<1>11. Transition(st, continue)
  BY <1>1 DEF e
<1>12. this = [stage |-> cur, attempt |-> st.stages[cur].attempts]
  BY <1>9 DEF OneMoreAttempt
<1> HIDE DEF st, this
<1>13. CASE e.route.action = "regress"
  <2> DEFINE target == e.route.next
  <2>1. target \in StageIds /\ target = StageDefs[cur].onFail /\ target # NoStage
    BY <1>7, <1>13, StagesAreNumbered
  <2>2. e.decision.kind = "gate-failed"
    BY <1>6, <1>13 DEF IsCharged
  <2> HIDE DEF target
  <2>3. /\ st.stages[cur].status = "failed"
        /\ \A t \in StageIds \ {cur, target} : st.stages[t].status = mem.stages[t].status
        /\ st.stages[target].status = "pending"
        /\ FindingsOf(this, st.stages[target].findings)
        /\ StageDefs[cur].kind = "agent" => st.stages[target].handoff = this
    BY <1>3, <1>8, <1>10, <1>13 DEF target, FindingsOf
  <2>4. Answered(st) /\ QuietAfter(st, target) /\ Explained(st, target)
    BY <1>2, <1>9, <1>12, <2>1, <2>2, <2>3, RejectedIsAnswered DEF Reached
  <2>5. ~attests(e)
    BY <1>8, <1>13
  <2>6. continue => \/ pc' = "step" /\ cur' = target
                    \/ pc' = "finalize"
    BY <2>5 DEF target
  <2> HIDE DEF continue
  <2> QED
    BY <1>11, <2>4, <2>6, SavedIsAnswered
<1>14. CASE e.route.action # "regress"
  <2>1. PassedIn(st, cur) \/ e.decision.kind # "passed"
    BY <1>7, <1>10 DEF PassedIn
  <2>2. Answered(st) /\ QuietAfter(st, cur)
    BY <1>2, <1>9, <1>10, <1>14, <2>1, EndedIsAnswered DEF Reached
  <2>3. e.route.next = NoStage \/ e.route.next = cur + 1
    BY <1>5, <1>14 DEF IsEvaluation
  <2>4. e.route.next # NoStage => e.route.next \in StageIds
    BY <1>2, <1>5, <1>14, StagesAreNumbered DEF IsEvaluation, StageIds
  <2>5. e.route.next # NoStage =>
          QuietAfter(st, e.route.next) /\ Explained(st, e.route.next)
    BY <1>2, <2>2, <2>3, <2>4, StagesAreNumbered DEF QuietAfter, Explained, StageIds
  <2>6. continue => \/ pc' = "attest" /\ cur' = cur
                    \/ pc' = "step" /\ cur' = e.route.next
                    \/ pc' = "finalize"
    OBVIOUS
  <2> HIDE DEF continue
  <2> QED
    BY <1>11, <2>2, <2>5, <2>6, SavedIsAnswered
<1> QED
  BY <1>13, <1>14

\* A stop, a rejection of the final scope or a wait saves nothing.
LEMMA StopKeepsAnswered ==
    ASSUME AnsweredInv, disk' = disk, pc' \in {"finalize", "idle"}
    PROVE  AnsweredInv'
  BY UnsavedIsAnswered

LEMMA AttestReviewKeepsAnswered ==
    ASSUME EvidenceInv, AnsweredInv, AttestReview
    PROVE  AnsweredInv'
<1> DEFINE c        == ObservedCheckpoint([stage |-> cur, attempt |-> mem.stages[cur].attempts])
           st       == AttachReviewCheckpoint(mem, c)
           continue == /\ \/ verdict = "none" /\ pc' = "step" /\ cur' = nxt
                          \/ verdict # "none" /\ pc' = "finalize" /\ cur' = cur
                       /\ UNCHANGED <<run, nxt, verdict>>
<1>1. pc = "attest" /\ Transition(st, continue)
  BY DEF AttestReview
<1>2. /\ IsState(mem) /\ disk = mem /\ cur \in StageIds /\ cur # NoStage
      /\ Answered(mem) /\ QuietAfter(mem, cur)
      /\ nxt \in {NoStage} \cup StageIds
      /\ nxt = IF cur < N THEN cur + 1 ELSE NoStage
  BY <1>1, LiveEvidence DEF EvidenceInv, RunnerInv, TypeOK, Position, AnsweredInv
<1> HIDE DEF c
<1>3. st.stages = mem.stages
  BY <1>2 DEF AttachReviewCheckpoint, IsState
<1> HIDE DEF st
<1>4. Answered(st) /\ QuietAfter(st, cur)
  BY <1>2, <1>3, EqualStagesAreSame, SameStagesAreAnswered
<1>5. nxt # NoStage => QuietAfter(st, nxt) /\ Explained(st, nxt)
  BY <1>2, <1>4, StagesAreNumbered DEF QuietAfter, Explained, StageIds
<1> QED
  BY <1>1, <1>4, <1>5, SavedIsAnswered

LEMMA BackfillCheckpointKeepsAnswered ==
    ASSUME EvidenceInv, AnsweredInv, BackfillCheckpoint
    PROVE  AnsweredInv'
<1>1. pc = "step" /\ cur = NoStage
  BY DEF BackfillCheckpoint
<1>2. CASE RejectFinalScope
  BY <1>2, StopKeepsAnswered DEF RejectFinalScope
<1>3. CASE ~RejectFinalScope
  <2> DEFINE c(s)  == ObservedCheckpoint([stage |-> s, attempt |-> mem.stages[s].attempts])
             st(s) == AttachReviewCheckpoint(mem, c(s))
  <2>1. PICK s \in BackfillableReviews :
          disk' = st(s) /\ UNCHANGED <<pc, run, cur, nxt, verdict>>
    BY <1>3 DEF BackfillCheckpoint
  <2>2. IsState(mem) /\ Answered(mem)
    BY <1>1, LiveEvidence DEF AnsweredInv
  <2> HIDE DEF c
  <2>3. st(s).stages = mem.stages
    BY <2>2 DEF AttachReviewCheckpoint, IsState
  <2> DEFINE after == st(s)
  <2>4. disk' = after /\ after.stages = mem.stages
    BY <2>1, <2>3
  <2> HIDE DEF after, st
  <2>5. Answered(after)
    BY <2>2, <2>4, EqualStagesAreSame, SameStagesAreAnswered
  <2> QED
    BY <1>1, <2>1, <2>4, <2>5 DEF AnsweredInv, Answered, QuietAfter, Explained, Explains,
                                 SentBack, Rejects, PassedIn
<1> QED
  BY <1>2, <1>3

LEMMA FinalScopeAttestedKeepsAnswered ==
    ASSUME EvidenceInv, AnsweredInv, FinalScopeAttested
    PROVE  AnsweredInv'
<1> DEFINE receipt  == ReceiptOf(FinalCheckpoint, tree.code, tree.docs)
           st       == AttachFinalScopeReceipt(mem, receipt)
           continue == /\ pc' = "finalize" /\ verdict' = "done"
                       /\ UNCHANGED <<run, cur, nxt>>
<1>1. pc = "step" /\ Transition(st, continue)
  BY DEF FinalScopeAttested, FinalStep
<1>2. IsState(mem) /\ Answered(mem)
  BY <1>1, LiveEvidence DEF AnsweredInv
<1> HIDE DEF receipt
<1>3. st.stages = mem.stages
  BY <1>2 DEF AttachFinalScopeReceipt, IsState
<1> HIDE DEF st
<1>4. Answered(st)
  BY <1>2, <1>3, EqualStagesAreSame, SameStagesAreAnswered
<1> QED
  BY <1>1, <1>4, SavedIsAnswered

LEMMA ReviewInvalidatedKeepsAnswered ==
    ASSUME EvidenceInv, AnsweredInv, ReviewInvalidated
    PROVE  AnsweredInv'
<1> DEFINE review   == mem.checkpoint.stage
           charged  == [mem EXCEPT !.regressions = @ + 1]
           st       == InvalidateReviewApproval(mem, review)
           continue == cur' = review /\ UNCHANGED <<pc, run, nxt, verdict>>
<1>1. /\ pc = "step" /\ cur = NoStage /\ LastPassedStage # NoStage
      /\ FinalScopeResult(FinalCheckpoint) \in {"review-invalidated", "review-base-stale"}
  BY DEF ReviewInvalidated, FinalStep
<1>2. CASE RejectFinalScope
  BY <1>2, StopKeepsAnswered DEF RejectFinalScope
<1>3. CASE ~RejectFinalScope
  <2>1. Transition(st, continue)
    BY <1>3 DEF ReviewInvalidated
  <2>2. IsState(mem) /\ Orderly(mem) /\ Answered(mem)
    BY <1>1, LiveEvidence DEF AnsweredInv
  <2>3. HasCheckpoint(mem)
    BY <1>1, FreshObservationHolds DEF FinalCheckpoint
  <2>4. review \in StageIds
    BY <2>2, <2>3 DEF Orderly
  <2>5. st = ResetStageAndDownstream(charged, review, NoOrigin)
    BY DEF InvalidateReviewApproval, ResetReviewAndDownstream
  <2>6. IsState(charged) /\ charged.stages = mem.stages
    BY <2>2 DEF IsState
  <2> HIDE DEF review, charged, st
  <2>7. Answered(charged)
    BY <2>2, <2>6, EqualStagesAreSame, SameStagesAreAnswered
  <2>8. Answered(st) /\ QuietAfter(st, review) /\ Explained(st, review)
    BY <2>4, <2>5, <2>6, <2>7, ResetIsAnswered
  <2> QED
    BY <1>1, <2>1, <2>8, SavedIsAnswered
<1> QED
  BY <1>2, <1>3

LEMMA FinalizeKeepsAnswered ==
    ASSUME EvidenceInv, AnsweredInv, Finalize
    PROVE  AnsweredInv'
<1> DEFINE st == FinalizeState(mem, verdict)
<1>1. /\ pc = "finalize"
      /\ \/ disk' = st /\ EndRun(verdict)
         \/ disk' = disk /\ EndRun("invalid-state")
  BY DEF Finalize
<1>2. pc' = "idle" /\ IsState(mem) /\ Answered(mem)
  BY <1>1, LiveEvidence DEF EndRun, AnsweredInv
<1>3. st.stages = mem.stages
  BY <1>2 DEF FinalizeState, IsState
<1> HIDE DEF st
<1>4. Answered(st)
  BY <1>2, <1>3, EqualStagesAreSame, SameStagesAreAnswered
<1> QED
  BY <1>1, <1>2, <1>4 DEF AnsweredInv, Answered, QuietAfter, Explained, Explains, SentBack,
                          Rejects, PassedIn

LEMMA StepKeepsAnswered ==
    ASSUME NestedRejections, EvidenceInv, AnsweredInv, [Next]_vars
    PROVE  AnsweredInv'
<1>1. CASE UNCHANGED vars
  BY <1>1 DEF vars, AnsweredInv, Answered, QuietAfter, Explained, Explains, SentBack, Rejects,
              PassedIn
<1>2. CASE Start
  BY <1>2, StartKeepsAnswered
<1>3. CASE SkipCorrection \/ RejectCorrection \/ ApplyCorrection
  BY <1>3, CorrectionKeepsAnswered
<1>4. CASE RecoverLegacyReview \/ SelectStage
  BY <1>4, SelectionKeepsAnswered
<1>5. CASE BeginStage
  BY <1>5, BeginStageKeepsAnswered
<1>6. CASE SettleStage
  BY <1>6, SettleStageKeepsAnswered
<1>7. CASE ExecutorThrows
  BY <1>7, ExecutorThrowsKeepsAnswered
<1>8. CASE AttestReview
  BY <1>8, AttestReviewKeepsAnswered
<1>9. CASE BackfillCheckpoint
  BY <1>9, BackfillCheckpointKeepsAnswered
<1>10. CASE FinalScopeAttested
  BY <1>10, FinalScopeAttestedKeepsAnswered
<1>11. CASE AbortBeforeStage \/ ReviewAttestationRejected \/ FinalScopeRejected \/ Die
  BY <1>11, StopKeepsAnswered DEF AbortBeforeStage, ReviewAttestationRejected,
                                  FinalScopeRejected, RejectFinalScope, Die, EndRun
<1>12. CASE ReviewInvalidated
  BY <1>12, ReviewInvalidatedKeepsAnswered
<1>13. CASE Finalize
  BY <1>13, FinalizeKeepsAnswered
<1>14. CASE Abort \/ StageEdits \/ TreeChanges
  <2>1. UNCHANGED <<disk, pc, cur>>
    BY <1>14 DEF Abort, StageEdits, TreeChanges
  <2> QED
    BY <2>1 DEF AnsweredInv, Answered, QuietAfter, Explained, Explains, SentBack, Rejects,
                PassedIn
<1> QED
  BY <1>1, <1>2, <1>3, <1>4, <1>5, <1>6, <1>7, <1>8, <1>9, <1>10, <1>11, <1>12, <1>13,
     <1>14 DEF Next, RunnerStep

LEMMA InitAnswered == ASSUME Init PROVE AnsweredInv
<1>1. pc = "idle"
  BY DEF Init
<1>2. ASSUME disk \in LegacyStates PROVE Answered(disk)
  <2>1. PICK v \in Versions, k \in 0..N, status \in {"running", "needs-attention"} :
          disk = LegacyState(v, k, status)
    BY <1>2 DEF LegacyStates
  <2>2. \A s \in StageIds : disk.stages[s].status # "failed"
    BY <2>1 DEF LegacyState, InitialState, InitialStage, FinishedStage
  <2> QED
    BY <2>2 DEF Answered, QuietAfter, Explained, SentBack, Rejects
<1> QED
  BY <1>1, <1>2 DEF Init, AnsweredInv

\* A stage that runs again because its work was sent back.
LEMMA RejectionWhileRunning ==
    ASSUME EvidenceInv, AnsweredInv, pc = "exec",
           LastWas(mem.stages[cur], "passed"), Rejecters(cur) # {}
    PROVE  \E s \in Rejecters(cur) : Explains(mem, s, cur)
<1>1. /\ disk = mem /\ disk # NoFile /\ cur \in StageIds /\ RunningIn(mem, cur)
  BY LiveEvidence DEF EvidenceInv, RunnerInv, TypeOK, Position
<1>2. StageIds = 1..N /\ N \in Nat
  BY StagesAreNumbered DEF StageIds
<1>3. SentBack(mem, cur)
  <2>1. PICK s \in Rejecters(cur) : TRUE
    OBVIOUS
  <2>2. s \in StageIds /\ Rejects(mem, s, cur)
    BY <1>1, <1>2, <2>1 DEF Rejecters, Rejects, LastWas
  <2> QED
    BY <2>2 DEF SentBack
<1>4. PICK s \in StageIds : Explains(mem, s, cur)
  BY <1>1, <1>3 DEF AnsweredInv, Answered, Explained, RunningIn, PassedIn
<1>5. cur < s
  BY <1>4, StageDefsAssumption DEF Explains, Rejects, CrossFieldInvariants
<1>6. s \in Rejecters(cur)
  BY <1>1, <1>2, <1>4, <1>5 DEF Explains, Rejects, LastWas, Rejecters
<1> QED
  BY <1>4, <1>6

\* The invariant behind both theorems on rejections.
THEOREM RejectionsAreAnswered ==
    ASSUME NestedRejections
    PROVE  Spec => [](EvidenceInv /\ AnsweredInv)
<1>1. Init => AnsweredInv
  BY InitAnswered
<1>2. EvidenceInv /\ AnsweredInv /\ [Next]_vars => AnsweredInv'
  BY StepKeepsAnswered
<1>3. Spec => []EvidenceInv
  BY EvidenceInvariant
<1> QED
  BY <1>1, <1>2, <1>3, PTL DEF Spec

\* A stage whose accepted work is sent back is told why, however often the runner
\* dies before the stage runs again, in every pipeline whose rejections do not
\* cross, when rejections have findings.
THEOREM RejectionsAreExplained ==
    ASSUME NestedRejections, RejectionsHaveFindings
    PROVE  Spec => []RejectionIsExplained
<1>1. EvidenceInv /\ AnsweredInv => RejectionIsExplained
  BY RejectionWhileRunning
     DEF RejectionIsExplained, LastWas, Explains, FindingsOf
<1> QED
  BY <1>1, RejectionsAreAnswered, PTL

\* Also when a gate rejects without findings, as all of them do with a payload they
\* cannot read: the stage is given what its rejecter has sent, and no findings of
\* an attempt before.
RejectionIsHandedOver ==
    pc = "exec" /\ LastWas(mem.stages[cur], "passed") /\ Rejecters(cur) # {} =>
      \E s \in Rejecters(cur) :
        LET rejection == [stage |-> s, attempt |-> mem.stages[s].attempts]
        IN  /\ mem.stages[cur].findings \in {rejection, NoOrigin}
            /\ StageDefs[s].kind = "agent" => mem.stages[cur].handoff = rejection

\* A stage whose accepted work is sent back works from the latest rejection, for
\* every verdict of the gates, when rejections do not cross.
THEOREM RejectionsAreHandedOver ==
    ASSUME NestedRejections
    PROVE  Spec => []RejectionIsHandedOver
<1>1. EvidenceInv /\ AnsweredInv => RejectionIsHandedOver
  BY RejectionWhileRunning DEF RejectionIsHandedOver, Explains, FindingsOf
<1> QED
  BY <1>1, RejectionsAreAnswered, PTL

-----------------------------------------------------------------------------
(* What the rounds of the stage loop cost *)

\* The stages this pass of the loop may still come to.
Ahead ==
    CASE pc \in {"correct", "recover", "select"} -> StageIds
      [] pc \in {"step", "exec"} /\ cur # NoStage -> {s \in StageIds : cur <= s}
      [] pc = "attest" -> {s \in StageIds : cur < s}
      [] OTHER -> {}

\* A stage that is still ahead has not used the round it is entitled to.
Paid(st, rounds, ahead) ==
    \A s \in StageIds :
      st.stages[s].attempts + (IF s \in ahead THEN 1 ELSE 0) <= rounds + st.regressions + 1

RoundsPaid == disk # NoFile => Paid(disk, run.id, Ahead)

LEMMA AheadByPoint ==
    /\ Ahead \subseteq StageIds
    /\ pc \in {"correct", "recover", "select"} => Ahead = StageIds
    /\ pc \in {"step", "exec"} /\ cur # NoStage => Ahead = {s \in StageIds : cur <= s}
    /\ pc = "attest" => Ahead = {s \in StageIds : cur < s}
    /\ pc \in {"idle", "finalize"} => Ahead = {}
    /\ pc = "step" /\ cur = NoStage => Ahead = {}
  BY DEF Ahead

\* The counters of a file are numbers.
LEMMA CountersAreNumbers ==
    ASSUME EvidenceInv
    PROVE  /\ run.id \in Nat
           /\ disk # NoFile =>
                disk.regressions \in Nat /\ \A s \in StageIds : disk.stages[s].attempts \in Nat
  BY DEF EvidenceInv, RunnerInv, TypeOK, RunType, IsState, StageStateType

\* A step that leaves the file alone and comes no nearer to a stage.
LEMMA UnsavedKeepsPaid ==
    ASSUME EvidenceInv, RoundsPaid, disk' = disk, run'.id = run.id, Ahead' \subseteq Ahead
    PROVE  RoundsPaid'
  BY CountersAreNumbers DEF RoundsPaid, Paid

LEMMA EndRunKeepsPaid ==
    ASSUME EvidenceInv, RoundsPaid, NEW v, EndRun(v), disk' = disk
    PROVE  RoundsPaid'
<1>1. run'.id = run.id /\ Ahead' = {}
  BY DEF EndRun, NoRun, Ahead
<1> QED
  BY <1>1, UnsavedKeepsPaid

\* A step that adds no attempt: either it comes no nearer to a stage, or it is
\* charged.
LEMMA KeptKeepsPaid ==
    ASSUME EvidenceInv, RoundsPaid, disk # NoFile, SameAttempts(disk, disk'),
           run'.id = run.id,
           \/ disk'.regressions = disk.regressions /\ Ahead' \subseteq Ahead
           \/ disk'.regressions = disk.regressions + 1
    PROVE  RoundsPaid'
<1> SUFFICES ASSUME NEW s \in StageIds
             PROVE  disk'.stages[s].attempts + (IF s \in Ahead' THEN 1 ELSE 0)
                      <= run'.id + disk'.regressions + 1
  BY DEF RoundsPaid, Paid
<1>1. disk'.stages[s].attempts = disk.stages[s].attempts
  BY DEF SameAttempts
<1>2. disk.stages[s].attempts + (IF s \in Ahead THEN 1 ELSE 0) <= run.id + disk.regressions + 1
  BY DEF RoundsPaid, Paid
<1>3. run.id \in Nat /\ disk.regressions \in Nat /\ disk.stages[s].attempts \in Nat
  BY CountersAreNumbers
<1>4. CASE disk'.regressions = disk.regressions /\ Ahead' \subseteq Ahead
  BY <1>1, <1>2, <1>3, <1>4
<1>5. CASE disk'.regressions = disk.regressions + 1
  BY <1>1, <1>2, <1>3, <1>5
<1> QED
  BY <1>4, <1>5

LEMMA SavedKeepsPaid ==
    ASSUME EvidenceInv, RoundsPaid, pc # "idle", NEW st, SameAttempts(mem, st),
           NEW continue, Transition(st, continue),
           continue =>
             /\ run'.id = run.id
             /\ \/ st.regressions = mem.regressions /\ Ahead' \subseteq Ahead
                \/ st.regressions = mem.regressions + 1
    PROVE  RoundsPaid'
<1>1. disk = mem /\ disk # NoFile
  BY LiveEvidence
<1>2. CASE IsPipelineState(st)
  <2>1. disk' = st /\ continue
    BY <1>2 DEF Transition
  <2> QED
    BY <1>1, <2>1, KeptKeepsPaid
<1>3. CASE ~IsPipelineState(st)
  BY <1>3, EndRunKeepsPaid DEF Transition
<1> QED
  BY <1>2, <1>3

\* An attempt of a stage that was ahead uses its round: the stage is not ahead
\* any more, or another round is charged.
LEMMA AttemptKeepsPaid ==
    ASSUME EvidenceInv, RoundsPaid, pc # "idle", NEW st, NEW s \in Ahead, NEW kind,
           OneMoreAttempt(mem, st, s, kind), NEW continue, Transition(st, continue),
           continue =>
             /\ run'.id = run.id
             /\ \/ st.regressions = mem.regressions /\ Ahead' \subseteq Ahead \ {s}
                \/ st.regressions = mem.regressions + 1
    PROVE  RoundsPaid'
<1>1. disk = mem /\ disk # NoFile /\ s \in StageIds
  BY LiveEvidence, AheadByPoint
<1>2. CASE IsPipelineState(st)
  <2>1. disk' = st /\ continue
    BY <1>2 DEF Transition
  <2> SUFFICES ASSUME NEW t \in StageIds
               PROVE  st.stages[t].attempts + (IF t \in Ahead' THEN 1 ELSE 0)
                        <= run'.id + st.regressions + 1
    BY <2>1 DEF RoundsPaid, Paid
  <2>2. st.stages[t].attempts = mem.stages[t].attempts + (IF t = s THEN 1 ELSE 0)
    <3>1. mem.stages[t].attempts \in Nat
      BY <1>1, CountersAreNumbers
    <3> QED
      BY <3>1 DEF OneMoreAttempt
  <2>3. mem.stages[t].attempts + (IF t \in Ahead THEN 1 ELSE 0) <= run.id + mem.regressions + 1
    BY <1>1 DEF RoundsPaid, Paid
  <2>4. run.id \in Nat /\ mem.regressions \in Nat /\ mem.stages[t].attempts \in Nat
    BY <1>1, CountersAreNumbers
  <2>5. CASE st.regressions = mem.regressions /\ Ahead' \subseteq Ahead \ {s}
    BY <2>1, <2>2, <2>3, <2>4, <2>5
  <2>6. CASE st.regressions = mem.regressions + 1
    BY <2>1, <2>2, <2>3, <2>4, <2>6
  <2> QED
    BY <2>1, <2>5, <2>6
<1>3. CASE ~IsPipelineState(st)
  BY <1>3, EndRunKeepsPaid DEF Transition
<1> QED
  BY <1>2, <1>3

\* A new invocation entitles every stage to another round.
LEMMA StartKeepsPaid == EvidenceInv /\ RoundsPaid /\ Start => RoundsPaid'
<1> SUFFICES ASSUME EvidenceInv, RoundsPaid, Start PROVE RoundsPaid'
  OBVIOUS
<1>1. PICK ceiling \in Ceilings, budget \in RunBudgets,
           request \in {<<0, 0>>} \cup ((1..run.id) \X Reasons) :
             LET r == NewRun(ceiling, budget, request[1], request[2])
             IN  StartFresh(r) \/ StartResume(r) \/ StartRecovery(r) \/ StartThrows(r)
  BY DEF Start
<1> DEFINE r == NewRun(ceiling, budget, request[1], request[2])
<1>2. r.id = run.id + 1
  BY DEF NewRun
<1> HIDE DEF r
<1>3. run'.id = run.id + 1
  BY <1>1, <1>2 DEF StartFresh, StartResume, StartRecovery, StartThrows, NoRun, r
<1>4. disk = NoFile => (disk' = InitialState \/ disk' = disk)
  BY <1>1 DEF StartFresh, StartResume, StartRecovery, StartThrows, r
<1>5. disk # NoFile => SameAttempts(disk, disk') /\ disk'.regressions = disk.regressions
  <2> SUFFICES ASSUME disk # NoFile
               PROVE  SameAttempts(disk, disk') /\ disk'.regressions = disk.regressions
    OBVIOUS
  <2>1. disk' = disk \/ disk' = ReconcilePipelineState(disk)
    BY <1>1 DEF StartFresh, StartResume, StartRecovery, StartThrows, r
  <2>2. IsState(disk) /\ Accounted(disk)
    BY DEF EvidenceInv, RunnerInv, TypeOK, Evidence, FileEvidence
  <2>3. CASE disk' = disk
    BY <2>3 DEF SameAttempts
  <2>4. CASE disk' = ReconcilePipelineState(disk)
    BY <2>2, <2>4, ReconcilePipelineStateKeeps
  <2> QED
    BY <2>1, <2>3, <2>4
<1>6. run.id \in Nat
  BY CountersAreNumbers
<1>7. CASE disk = NoFile
  <2>1. CASE disk' = InitialState
    <3>1. /\ InitialState.regressions = 0
          /\ \A s \in StageIds : InitialState.stages[s].attempts = 0
      BY DEF InitialState, InitialStage
    <3> QED
      BY <1>3, <1>6, <2>1, <3>1 DEF RoundsPaid, Paid
  <2>2. CASE disk' = disk
    BY <1>7, <2>2 DEF RoundsPaid, NoFile, InitialState
  <2> QED
    BY <1>4, <1>7, <2>1, <2>2
<1>8. CASE disk # NoFile
  <2> SUFFICES ASSUME NEW s \in StageIds
               PROVE  disk'.stages[s].attempts + (IF s \in Ahead' THEN 1 ELSE 0)
                        <= run'.id + disk'.regressions + 1
    BY DEF RoundsPaid, Paid
  <2>1. disk'.stages[s].attempts = disk.stages[s].attempts
        /\ disk'.regressions = disk.regressions
    BY <1>5, <1>8 DEF SameAttempts
  <2>2. disk.stages[s].attempts + (IF s \in Ahead THEN 1 ELSE 0)
          <= run.id + disk.regressions + 1
    BY <1>8 DEF RoundsPaid, Paid
  <2>3. disk.regressions \in Nat /\ disk.stages[s].attempts \in Nat
    BY <1>8, CountersAreNumbers
  <2> QED
    BY <1>3, <1>6, <2>1, <2>2, <2>3
<1> QED
  BY <1>7, <1>8

\* The steps before the first stage.
LEMMA SelectionKeepsPaid ==
    ASSUME EvidenceInv, RoundsPaid,
           \/ SkipCorrection \/ RejectCorrection \/ ApplyCorrection
           \/ RecoverLegacyReview \/ SelectStage
    PROVE  RoundsPaid'
<1>1. CASE SkipCorrection
  <2>1. disk' = disk /\ run' = run /\ pc = "correct"
    BY <1>1 DEF SkipCorrection
  <2>2. Ahead' \subseteq StageIds /\ Ahead = StageIds
    BY <2>1, AheadByPoint DEF Ahead
  <2> QED
    BY <2>1, <2>2, UnsavedKeepsPaid
<1>2. CASE RejectCorrection
  BY <1>2, EndRunKeepsPaid DEF RejectCorrection
<1>3. CASE ApplyCorrection
  <2>1. pc = "correct" /\ mem.status = "done" /\ disk = mem /\ disk # NoFile
    BY <1>3, LiveEvidence DEF ApplyCorrection, CorrectionEligible
  <2> DEFINE st       == ApplyTerminalCorrection(mem, CorrectionTarget(mem.receipt),
                                                 run.reason, run.id)
             continue == pc' = "recover" /\ UNCHANGED <<run, cur, nxt, verdict>>
  <2>2. Transition(st, continue)
    BY <1>3 DEF ApplyCorrection
  <2>3. Ahead = StageIds /\ Ahead' \subseteq StageIds
    BY <2>1, AheadByPoint DEF Ahead
  <2>4. CASE IsPipelineState(st)
    <3>1. disk' = st /\ run' = run
      BY <2>2, <2>4 DEF Transition
    <3> DEFINE sequence == Len(mem.superseded) + 1
               reset == ResetStageAndDownstream(mem, CorrectionTarget(mem.receipt),
                                                [stage |-> NoStage, attempt |-> sequence])
    <3>2. IsState(mem)
      BY <2>1, LiveEvidence
    <3>3. SameAttempts(mem, reset) /\ reset.regressions = mem.regressions
      BY <3>2, ResetDownstreamKeeps
    <3>4. st.stages = reset.stages /\ st.regressions = reset.regressions
      BY <3>2 DEF ApplyTerminalCorrection, ResetStageAndDownstream, WithoutApproval, IsState
    <3> HIDE DEF st, reset
    <3>5. SameAttempts(disk, disk') /\ disk'.regressions = disk.regressions
      BY <2>1, <3>1, <3>3, <3>4 DEF SameAttempts, PassedIn
    <3> QED
      BY <2>1, <2>3, <3>1, <3>5, KeptKeepsPaid
  <2>5. CASE ~IsPipelineState(st)
    BY <2>2, <2>5, EndRunKeepsPaid DEF Transition
  <2> QED
    BY <2>4, <2>5
<1>4. CASE RecoverLegacyReview
  <2> DEFINE st       == ResetReviewAndDownstream(mem, Min(LegacyPassedReviews))
             continue == pc' = "select" /\ UNCHANGED <<run, cur, nxt, verdict>>
  <2>1. pc = "recover" /\ Transition(st, continue)
    BY <1>4 DEF RecoverLegacyReview
  <2>2. SameAttempts(mem, st) /\ st.regressions = mem.regressions
    BY <2>1, LiveEvidence, ResetDownstreamKeeps DEF ResetReviewAndDownstream
  <2>3. Ahead = StageIds /\ Ahead' \subseteq StageIds
    BY <2>1, AheadByPoint DEF Ahead
  <2> HIDE DEF st
  <2>4. continue => run'.id = run.id /\ Ahead' \subseteq Ahead
    BY <2>3
  <2> HIDE DEF continue
  <2> QED
    BY <2>1, <2>2, <2>4, SavedKeepsPaid
<1>5. CASE SelectStage
  <2>1. disk' = disk /\ run' = run /\ pc \in {"recover", "select"}
    BY <1>5 DEF SelectStage
  <2>2. Ahead' \subseteq StageIds /\ Ahead = StageIds
    BY <2>1, AheadByPoint DEF Ahead
  <2> QED
    BY <2>1, <2>2, UnsavedKeepsPaid
<1> QED
  BY <1>1, <1>2, <1>3, <1>4, <1>5

LEMMA SettleStageKeepsPaid ==
    ASSUME EvidenceInv, RoundsPaid, SettleStage
    PROVE  RoundsPaid'
<1> DEFINE eval(r)  == EvaluateStageExecution(cur, r, mem.regressions, run.ceiling, run.budget,
                                              AccumulateEconomics(mem.economics, r.usage))
           moves(e) == /\ verdict' = StageFailureOutcome(e)
                       /\ nxt' = e.route.next
                       /\ \/ /\ e.decision.passed /\ IsCodeReviewStage(cur)
                             /\ pc' = "attest" /\ cur' = cur
                          \/ /\ ~(e.decision.passed /\ IsCodeReviewStage(cur))
                             /\ StageFailureOutcome(e) = "none"
                             /\ pc' = "step" /\ cur' = e.route.next
                          \/ /\ ~(e.decision.passed /\ IsCodeReviewStage(cur))
                             /\ StageFailureOutcome(e) # "none"
                             /\ pc' = "finalize" /\ cur' = cur
                       /\ run' = [run EXCEPT !.worked = TRUE]
<1>1. pc = "exec"
  BY DEF SettleStage
<1>2. PICK r \in ReturnedBy(cur) :
        Transition(ApplyStageOutcome(mem, cur, eval(r), r.output # "null"), moves(eval(r)))
  BY DEF SettleStage
<1>3. /\ IsState(mem) /\ Orderly(mem)
      /\ cur \in StageIds /\ Reached(mem, cur)
      /\ run \in RunType
  BY <1>1, LiveEvidence DEF EvidenceInv, RunnerInv, TypeOK, Position
<1>4. r \in ResultType /\ mem.regressions \in Nat /\ run.ceiling \in Nat
  BY <1>3, RunnerAssumption DEF ReturnedBy, IsState, RunType
<1> DEFINE e  == eval(r)
           st == ApplyStageOutcome(mem, cur, e, r.output # "null")
<1>5. IsEvaluation(cur, e) /\ IsCharged(e, mem.regressions, run.ceiling)
  BY <1>3, <1>4, EvaluationShape, EvaluationCharges
<1> HIDE DEF eval, e
<1>6. OneMoreAttempt(mem, st, cur, e.decision.kind) /\ st.regressions = e.route.regressions
  BY <1>3, <1>5, ApplyStageOutcomeRecords
<1>7. cur \in Nat /\ cur # NoStage
  BY <1>3, StagesAreNumbered
<1>8. Ahead = {s \in StageIds : cur <= s} /\ cur \in Ahead
  BY <1>1, <1>3, <1>7, AheadByPoint
<1> DEFINE continue == moves(e)
           later    == {s \in StageIds : cur < s}
<1> HIDE DEF st
<1>9. later \subseteq Ahead \ {cur}
  <2> SUFFICES ASSUME NEW s \in StageIds, cur < s PROVE s \in Ahead /\ s # cur
    BY DEF later
  <2>1. s \in Nat
    BY StagesAreNumbered
  <2>2. cur <= s /\ s # cur
    BY <1>7, <2>1
  <2> QED
    BY <1>8, <2>2
<1>10. ASSUME continue
       PROVE  /\ run'.id = run.id
              /\ \/ st.regressions = mem.regressions /\ Ahead' \subseteq Ahead \ {cur}
                 \/ st.regressions = mem.regressions + 1
  <2>1. run'.id = run.id
    BY <1>3, <1>10 DEF RunType
  <2>2. CASE e.route.action = "regress"
    BY <1>5, <1>6, <2>1, <2>2 DEF IsCharged
  <2>3. CASE e.route.action # "regress"
    <3> HIDE DEF later
    <3>1. st.regressions = mem.regressions
      BY <1>5, <1>6, <2>3 DEF IsCharged
    <3>2. CASE pc' = "attest" /\ cur' = cur
      <4>1. Ahead' = later
        BY <3>2 DEF Ahead, later
      <4> QED
        BY <1>9, <2>1, <3>1, <4>1
    <3>3. CASE StageFailureOutcome(e) = "none" /\ pc' = "step" /\ cur' = e.route.next
      <4>1. e.route.next = IF cur < N THEN cur + 1 ELSE NoStage
        BY <1>5, <2>3, <3>3, OutcomeIsKnown DEF IsEvaluation
      <4>2. CASE cur < N
        <5>1. cur' = cur + 1 /\ cur' # NoStage
          BY <1>7, <3>3, <4>1, <4>2 DEF NoStage
        <5>2. Ahead' = {s \in StageIds : cur + 1 <= s}
          BY <3>3, <5>1 DEF Ahead
        <5>3. \A s \in StageIds : cur + 1 <= s => cur < s
          <6> SUFFICES ASSUME NEW s \in StageIds, cur + 1 <= s PROVE cur < s
            OBVIOUS
          <6>1. s \in Nat
            BY StagesAreNumbered
          <6> QED
            BY <1>7, <6>1
        <5>4. Ahead' \subseteq later
          BY <5>2, <5>3 DEF later
        <5> QED
          BY <1>9, <2>1, <3>1, <5>4
      <4>3. CASE ~(cur < N)
        <5>1. Ahead' = {}
          BY <3>3, <4>1, <4>3 DEF Ahead
        <5> QED
          BY <2>1, <3>1, <5>1
      <4> QED
        BY <4>2, <4>3
    <3>4. CASE pc' = "finalize"
      <4>1. Ahead' = {}
        BY <3>4 DEF Ahead
      <4> QED
        BY <2>1, <3>1, <4>1
    <3> QED
      BY <1>10, <3>2, <3>3, <3>4
  <2> QED
    BY <2>2, <2>3
<1>11. Transition(st, continue)
  BY <1>2 DEF st, e
<1> HIDE DEF continue
<1> QED
  BY <1>1, <1>6, <1>8, <1>10, <1>11, AttemptKeepsPaid

\* A stage begins, throws, or is not begun.
LEMMA StageKeepsPaid ==
    ASSUME EvidenceInv, RoundsPaid, AbortBeforeStage \/ BeginStage \/ ExecutorThrows
    PROVE  RoundsPaid'
<1>1. CASE AbortBeforeStage
  <2>1. disk' = disk /\ run' = run /\ Ahead' = {}
    BY <1>1 DEF AbortBeforeStage, Ahead
  <2> QED
    BY <2>1, UnsavedKeepsPaid
<1>2. CASE BeginStage
  <2> DEFINE st       == MarkStageRunning(mem, cur)
             continue == pc' = "exec" /\ UNCHANGED <<run, cur, nxt, verdict>>
  <2>1. pc = "step" /\ cur # NoStage /\ Transition(st, continue)
    BY <1>2 DEF BeginStage
  <2>2. cur \in StageIds
    BY <2>1 DEF EvidenceInv, RunnerInv, TypeOK
  <2>3. SameAttempts(mem, st) /\ st.regressions = mem.regressions
    BY <2>1, <2>2, LiveEvidence, MarkStageRunningKeeps
  <2>4. continue => run'.id = run.id /\ Ahead' \subseteq Ahead
    BY <2>1 DEF Ahead
  <2> HIDE DEF st, continue
  <2> QED
    BY <2>1, <2>3, <2>4, SavedKeepsPaid
<1>3. CASE ExecutorThrows
  <2> DEFINE st       == ApplyExecutorError(mem, cur)
             continue == /\ pc' = "finalize" /\ verdict' = "needs-attention"
                         /\ UNCHANGED <<run, cur, nxt>>
  <2>1. pc = "exec" /\ Transition(st, continue)
    BY <1>3 DEF ExecutorThrows
  <2>2. cur \in StageIds /\ cur # NoStage /\ cur \in Nat
    BY <2>1, StagesAreNumbered DEF EvidenceInv, RunnerInv, TypeOK, Position
  <2>3. OneMoreAttempt(mem, st, cur, "failed") /\ st.regressions = mem.regressions
    BY <2>1, <2>2, LiveEvidence, ApplyExecutorErrorRecords
  <2>4. cur \in Ahead
    BY <2>1, <2>2, AheadByPoint
  <2>5. continue => run'.id = run.id /\ Ahead' \subseteq Ahead \ {cur}
    BY DEF Ahead
  <2> HIDE DEF st, continue
  <2> QED
    BY <2>1, <2>3, <2>4, <2>5, AttemptKeepsPaid
<1> QED
  BY <1>1, <1>2, <1>3

\* A passed review is attested, or not.
LEMMA AttestReviewKeepsPaid ==
    ASSUME EvidenceInv, RoundsPaid, AttestReview \/ ReviewAttestationRejected
    PROVE  RoundsPaid'
<1>1. CASE AttestReview
  <2> DEFINE c        == ObservedCheckpoint([stage |-> cur, attempt |-> mem.stages[cur].attempts])
             st       == AttachReviewCheckpoint(mem, c)
             continue == /\ \/ verdict = "none" /\ pc' = "step" /\ cur' = nxt
                            \/ verdict # "none" /\ pc' = "finalize" /\ cur' = cur
                         /\ UNCHANGED <<run, nxt, verdict>>
  <2>1. pc = "attest" /\ Transition(st, continue)
    BY <1>1 DEF AttestReview
  <2>2. IsState(mem)
    BY <2>1, LiveEvidence
  <2>3. /\ cur \in StageIds /\ cur \in Nat
        /\ nxt = IF cur < N THEN cur + 1 ELSE NoStage
    BY <2>1, StagesAreNumbered DEF EvidenceInv, RunnerInv, TypeOK, Position
  <2> HIDE DEF c
  <2>4. st.stages = mem.stages /\ st.regressions = mem.regressions
    BY <2>2 DEF AttachReviewCheckpoint, IsState
  <2>5. SameAttempts(mem, st)
    BY <2>4 DEF SameAttempts, PassedIn
  <2> DEFINE later == {s \in StageIds : cur < s}
  <2>6. Ahead = later
    BY <2>1, AheadByPoint
  <2>7. \A s \in StageIds : cur + 1 <= s => cur < s
    <3> SUFFICES ASSUME NEW s \in StageIds, cur + 1 <= s PROVE cur < s
      OBVIOUS
    <3>1. s \in Nat
      BY StagesAreNumbered
    <3> QED
      BY <2>3, <3>1
  <2>8. continue => run'.id = run.id /\ Ahead' \subseteq Ahead
    <3> SUFFICES ASSUME continue PROVE run'.id = run.id /\ Ahead' \subseteq Ahead
      OBVIOUS
    <3>1. run'.id = run.id
      OBVIOUS
    <3>2. CASE pc' = "finalize" \/ (pc' = "step" /\ cur' = NoStage)
      <4>1. Ahead' = {}
        BY <3>2 DEF Ahead
      <4> QED
        BY <3>1, <4>1
    <3>3. CASE pc' = "step" /\ cur' = cur + 1
      <4>1. cur' # NoStage
        BY <2>3, <3>3 DEF NoStage
      <4>2. Ahead' = {s \in StageIds : cur + 1 <= s}
        BY <3>3, <4>1 DEF Ahead
      <4> QED
        BY <2>6, <2>7, <3>1, <4>2
    <3> QED
      BY <2>3, <3>2, <3>3
  <2> HIDE DEF st, continue
  <2> QED
    BY <2>1, <2>5, <2>4, <2>8, SavedKeepsPaid
<1>2. CASE ReviewAttestationRejected
  <2>1. disk' = disk /\ run' = run /\ Ahead' = {}
    BY <1>2 DEF ReviewAttestationRejected, Ahead
  <2> QED
    BY <2>1, UnsavedKeepsPaid
<1> QED
  BY <1>1, <1>2

LEMMA RejectFinalScopeKeepsPaid ==
    ASSUME EvidenceInv, RoundsPaid, RejectFinalScope
    PROVE  RoundsPaid'
<1>1. disk' = disk /\ run' = run /\ Ahead' = {}
  BY DEF RejectFinalScope, Ahead
<1> QED
  BY <1>1, UnsavedKeepsPaid

\* The final step; an invalidation pays for going back to the review.
LEMMA FinalStepKeepsPaid ==
    ASSUME EvidenceInv, RoundsPaid,
           BackfillCheckpoint \/ FinalScopeAttested \/ FinalScopeRejected \/ ReviewInvalidated
    PROVE  RoundsPaid'
<1>1. pc = "step" /\ cur = NoStage
  BY DEF BackfillCheckpoint, FinalScopeAttested, FinalScopeRejected, ReviewInvalidated,
         FinalStep
<1>2. IsState(mem) /\ disk = mem /\ disk # NoFile
  BY <1>1, LiveEvidence
<1>3. Ahead = {}
  BY <1>1, AheadByPoint
<1>4. CASE RejectFinalScope
  BY <1>4, RejectFinalScopeKeepsPaid
<1>5. CASE BackfillCheckpoint /\ ~RejectFinalScope
  <2>1. PICK s \in BackfillableReviews :
          /\ disk' = AttachReviewCheckpoint(mem, ObservedCheckpoint(
                        [stage |-> s, attempt |-> mem.stages[s].attempts]))
          /\ UNCHANGED <<pc, run, cur, nxt, verdict>>
    BY <1>5 DEF BackfillCheckpoint
  <2>2. disk'.stages = disk.stages /\ disk'.regressions = disk.regressions
    BY <1>2, <2>1 DEF AttachReviewCheckpoint, IsState
  <2>3. SameAttempts(disk, disk')
    BY <2>2 DEF SameAttempts, PassedIn
  <2>4. Ahead' = {} /\ run'.id = run.id
    BY <1>1, <2>1 DEF Ahead
  <2> QED
    BY <1>2, <2>2, <2>3, <2>4, KeptKeepsPaid
<1>6. CASE FinalScopeAttested
  <2> DEFINE receipt  == ReceiptOf(FinalCheckpoint, tree.code, tree.docs)
             st       == AttachFinalScopeReceipt(mem, receipt)
             continue == /\ pc' = "finalize" /\ verdict' = "done"
                         /\ UNCHANGED <<run, cur, nxt>>
  <2>1. Transition(st, continue)
    BY <1>6 DEF FinalScopeAttested
  <2> HIDE DEF receipt
  <2>2. st.stages = mem.stages /\ st.regressions = mem.regressions
    BY <1>2 DEF AttachFinalScopeReceipt, IsState
  <2>3. SameAttempts(mem, st)
    BY <2>2 DEF SameAttempts, PassedIn
  <2>4. continue => run'.id = run.id /\ Ahead' \subseteq Ahead
    BY DEF Ahead
  <2> HIDE DEF st, continue
  <2> QED
    BY <1>1, <2>1, <2>2, <2>3, <2>4, SavedKeepsPaid
<1>7. CASE FinalScopeRejected
  BY <1>7, RejectFinalScopeKeepsPaid DEF FinalScopeRejected
<1>8. CASE ReviewInvalidated /\ ~RejectFinalScope
  <2> DEFINE review   == mem.checkpoint.stage
             st       == InvalidateReviewApproval(mem, review)
             continue == cur' = review /\ UNCHANGED <<pc, run, nxt, verdict>>
  <2>1. Transition(st, continue)
    BY <1>8 DEF ReviewInvalidated
  <2>2. SameAttempts(mem, st) /\ st.regressions = mem.regressions + 1
    BY <1>2, InvalidateReviewApprovalKeeps
  <2>3. continue => run'.id = run.id
    OBVIOUS
  <2> HIDE DEF st, continue
  <2> QED
    BY <1>1, <2>1, <2>2, <2>3, SavedKeepsPaid
<1> QED
  BY <1>4, <1>5, <1>6, <1>7, <1>8

LEMMA FinalizeKeepsPaid == EvidenceInv /\ RoundsPaid /\ Finalize => RoundsPaid'
<1> SUFFICES ASSUME EvidenceInv, RoundsPaid, Finalize PROVE RoundsPaid'
  OBVIOUS
<1>1. pc = "finalize"
  BY DEF Finalize
<1>2. IsState(mem) /\ disk = mem /\ disk # NoFile
  BY <1>1, LiveEvidence
<1> DEFINE st == FinalizeState(mem, verdict)
<1>3. CASE IsPipelineState(st)
  <2>1. disk' = st /\ EndRun(verdict)
    BY <1>3 DEF Finalize
  <2>2. st.stages = mem.stages /\ st.regressions = mem.regressions
    BY <1>2 DEF FinalizeState, IsState
  <2> HIDE DEF st
  <2>3. SameAttempts(disk, disk')
    BY <1>2, <2>1, <2>2 DEF SameAttempts, PassedIn
  <2>4. Ahead' = {} /\ run'.id = run.id
    BY <2>1 DEF EndRun, NoRun, Ahead
  <2> QED
    BY <1>2, <2>1, <2>2, <2>3, <2>4, KeptKeepsPaid
<1>4. CASE ~IsPipelineState(st)
  BY <1>4, EndRunKeepsPaid DEF Finalize
<1> QED
  BY <1>3, <1>4

LEMMA StepKeepsPaid ==
    ASSUME EvidenceInv, RoundsPaid, [Next]_vars
    PROVE  RoundsPaid'
<1>1. CASE Start
  BY <1>1, StartKeepsPaid
<1>2. CASE \/ SkipCorrection \/ RejectCorrection \/ ApplyCorrection
           \/ RecoverLegacyReview \/ SelectStage
  BY <1>2, SelectionKeepsPaid
<1>3. CASE AbortBeforeStage \/ BeginStage \/ ExecutorThrows
  BY <1>3, StageKeepsPaid
<1>4. CASE SettleStage
  BY <1>4, SettleStageKeepsPaid
<1>5. CASE AttestReview \/ ReviewAttestationRejected
  BY <1>5, AttestReviewKeepsPaid
<1>6. CASE BackfillCheckpoint \/ FinalScopeAttested \/ FinalScopeRejected \/ ReviewInvalidated
  BY <1>6, FinalStepKeepsPaid
<1>7. CASE Finalize
  BY <1>7, FinalizeKeepsPaid
<1>8. CASE Die
  BY <1>8, EndRunKeepsPaid DEF Die
<1>9. CASE Abort \/ StageEdits \/ TreeChanges \/ UNCHANGED vars
  <2>1. run'.id = run.id
    BY <1>9 DEF EvidenceInv, RunnerInv, TypeOK, RunType, Abort, StageEdits, TreeChanges, vars
  <2>2. disk' = disk /\ pc' = pc /\ cur' = cur
    BY <1>9 DEF Abort, StageEdits, TreeChanges, vars
  <2>3. Ahead' = Ahead
    BY <2>2 DEF Ahead
  <2> QED
    BY <2>1, <2>2, <2>3, UnsavedKeepsPaid
<1> QED
  BY <1>1, <1>2, <1>3, <1>4, <1>5, <1>6, <1>7, <1>8, <1>9 DEF Next, RunnerStep

\* A file of an earlier runner has at most one attempt of each stage.
LEMMA InitPaid == Init => RoundsPaid
<1> SUFFICES ASSUME Init, disk # NoFile PROVE Paid(disk, run.id, Ahead)
  BY DEF RoundsPaid
<1>1. run.id = 0 /\ Ahead = {}
  BY DEF Init, NoRun, Ahead
<1>2. PICK v \in Versions \ {RunnerFeatureVersion}, k \in 0..N,
           status \in {"running", "needs-attention"} : disk = LegacyState(v, k, status)
  BY DEF Init, LegacyStates
<1>3. disk.regressions = 0
  BY <1>2 DEF LegacyState, InitialState
<1>4. ASSUME NEW s \in StageIds PROVE disk.stages[s].attempts \in {0, 1}
  BY <1>2 DEF LegacyState, InitialState, InitialStage, FinishedStage
<1> QED
  BY <1>1, <1>3, <1>4 DEF Paid

\* No round of the stage loop is free: whatever is sent back, revoked, reset,
\* interrupted or corrected, a stage has run at most once in every invocation,
\* once more for every regression charged, and once in a file of an earlier runner.
THEOREM RoundsArePaidFor == Spec => []AttemptsArePaidFor
<1> DEFINE Inv == EvidenceInv /\ RoundsPaid
<1>1. Init => Inv
  BY InitInv, InitEvidence, InitPaid DEF EvidenceInv
<1>2. Inv /\ [Next]_vars => Inv'
  BY StepKeepsEvidence, StepKeepsPaid
<1>3. Inv => AttemptsArePaidFor
  <2> SUFFICES ASSUME Inv, disk # NoFile, NEW s \in StageIds
               PROVE  disk.stages[s].attempts <= run.id + disk.regressions + 1
    BY DEF AttemptsArePaidFor
  <2>1. disk.stages[s].attempts + (IF s \in Ahead THEN 1 ELSE 0) <= run.id + disk.regressions + 1
    BY DEF RoundsPaid, Paid
  <2>2. run.id \in Nat /\ disk.regressions \in Nat /\ disk.stages[s].attempts \in Nat
    BY CountersAreNumbers
  <2> QED
    BY <2>1, <2>2
<1> QED
  BY <1>1, <1>2, <1>3, PTL DEF Spec
=================================================================================
