----------------------------- MODULE RunnerProofs -----------------------------
(***************************************************************************)
(* What holds of the runner for every pipeline, every set of executor      *)
(* results and worktrees, and every number of invocations.                 *)
(*                                                                         *)
(* The first part is about the kernel and the transitions of the durable   *)
(* state alone: what an evaluation may decide, that every transition       *)
(* yields a well-formed and orderly state, what it does to the attempts,   *)
(* approvals and superseded receipts of the file, and what a pipeline's    *)
(* attempts have spent.                                                    *)
(*                                                                         *)
(* The second part is about the runner.  Its invariant says where in the   *)
(* pipeline the runner stands at each program point; it is inductive, and  *)
(* the properties of RunnerProperties follow from it.                      *)
(***************************************************************************)
EXTENDS RunnerProperties, FoldLemmas

LEMMA StagesAreNumbered ==
    /\ N \in Nat \ {0}
    /\ \A s \in StageIds : s \in Nat \ {0} /\ s <= N /\ StageDefs[s] \in StageDefType
    /\ NoStage \notin StageIds
  BY StageDefsAssumption DEF CrossFieldInvariants, N, StageIds, NoStage

-----------------------------------------------------------------------------
(* The kernel *)

\* What an evaluation of stage s may say: a passed stage goes on to the one after
\* it, any other one ends the run or goes back to an earlier stage.
IsEvaluation(s, e) ==
    /\ e.decision.passed \in BOOLEAN /\ e.decision.findings \in BOOLEAN
    /\ e.decision.kind \in DecisionKinds
    /\ e.decision.usage \in Nat \cup {Absent}
    /\ e.route.regressions \in Nat
    /\ e.decision.passed =>
         /\ e.route.action \in {"continue", "complete"}
         /\ e.route.next = IF s < N THEN s + 1 ELSE NoStage
    /\ ~e.decision.passed =>
         \/ e.route.action = "fail" /\ e.route.next = NoStage
         \/ e.route.action = "regress" /\ e.route.next \in StageIds /\ e.route.next < s

LEMMA EvaluationShape ==
    ASSUME NEW s \in StageIds, NEW r \in ResultType, NEW regressions \in Nat, NEW max \in Nat,
           NEW budget, NEW spent
    PROVE  IsEvaluation(s, EvaluateStageExecution(s, r, regressions, max, budget, spent))
<1> DEFINE d == CheckStageDecision(s, r)
<1>1. /\ d.passed \in BOOLEAN /\ d.findings \in BOOLEAN /\ d.kind \in DecisionKinds
      /\ d.usage \in Nat \cup {Absent}
  <2>1. ExecutionFailure(s, r) \in DecisionKinds
    BY DEF ExecutionFailure, DecisionKinds, ResultType
  <2> QED
    BY <2>1 DEF CheckStageDecision, DecisionKinds, ResultType
<1>2. /\ d.passed =>
           /\ RouteStageDecision(s, d, regressions, max).action \in {"continue", "complete"}
           /\ RouteStageDecision(s, d, regressions, max).next = IF s < N THEN s + 1 ELSE NoStage
           /\ RouteStageDecision(s, d, regressions, max).regressions = regressions
  BY DEF RouteStageDecision, PassedRoute
<1>3. ASSUME ~d.passed
      PROVE  LET route == RouteStageDecision(s, d, regressions, max)
             IN  /\ route.regressions \in Nat
                 /\ \/ route.action = "fail" /\ route.next = NoStage
                    \/ route.action = "regress" /\ route.next \in StageIds /\ route.next < s
  <2>1. StageDefs[s] \in StageDefType
    BY StagesAreNumbered
  <2>2. CASE d.kind # "gate-failed" \/ StageDefs[s].onFail = NoStage
              \/ StageDefs[s].onFail \notin StageIds \/ StageDefs[s].onFail >= s
              \/ regressions >= max
    BY <1>3, <2>2 DEF RouteStageDecision, GateFailedRoute, FailRoute
  <2>3. CASE ~(d.kind # "gate-failed" \/ StageDefs[s].onFail = NoStage
              \/ StageDefs[s].onFail \notin StageIds \/ StageDefs[s].onFail >= s
              \/ regressions >= max)
    <3>1. RouteStageDecision(s, d, regressions, max) =
            [action |-> "regress", next |-> StageDefs[s].onFail, regressions |-> regressions + 1]
      BY <1>3, <2>3 DEF RouteStageDecision, GateFailedRoute
    <3>2. StageDefs[s].onFail < s
      BY StageDefsAssumption DEF CrossFieldInvariants
    <3> QED
      BY <2>3, <3>1, <3>2
  <2> QED
    BY <2>2, <2>3
<1> HIDE DEF d
<1> QED
  BY <1>1, <1>2, <1>3 DEF EvaluateStageExecution, IsEvaluation, d

-----------------------------------------------------------------------------
(* Orderly states *)

PassedIn(st, s)  == st.stages[s].status = "passed"
RunningIn(st, s) == st.stages[s].status = "running"

\* Nothing is skipped; a running stage follows passed ones only; an approval
\* covers the pipeline up to its review; a receipt all of it.
Orderly(st) ==
    /\ \A s \in StageIds : st.stages[s].status # "skipped"
    /\ \A s \in StageIds : RunningIn(st, s) => \A t \in StageIds : t < s => PassedIn(st, t)
    /\ HasCheckpoint(st) =>
         /\ st.checkpoint.stage \in StageIds
         /\ \A s \in StageIds : s <= st.checkpoint.stage => PassedIn(st, s)
    /\ HasReceipt(st) => \A s \in StageIds : PassedIn(st, s)

LEMMA InitialStateIsOrderly == IsState(InitialState) /\ Orderly(InitialState)
<1>1. InitialStage \in StageStateType
  BY DEF InitialStage, StageStateType, StageStatuses, NoOrigin, Origin, NoStage, Attempt
<1>2. NoCheckpoint \in CheckpointType /\ NoReceipt \in ReceiptType
  BY DEF NoCheckpoint, NoReceipt, CheckpointType, ReceiptType, NoStage
<1>3. <<>> \in Seq(SupersededType)
  OBVIOUS
<1>4. IsState(InitialState)
  BY <1>1, <1>2, <1>3 DEF IsState, InitialState, PipelineStatuses, RunnerFeatureVersion
<1>5. Orderly(InitialState)
  BY DEF Orderly, InitialState, InitialStage, HasCheckpoint, HasReceipt, RunningIn
<1> QED
  BY <1>4, <1>5

\* A stage can be marked as running when everything before it is passed and no
\* approval reaches it.
LEMMA MarkStageRunningOrderly ==
    ASSUME NEW st, IsState(st), Orderly(st), NEW s \in StageIds,
           \A t \in StageIds : t < s => PassedIn(st, t),
           \A t \in StageIds : RunningIn(st, t) => t = s,
           HasCheckpoint(st) => st.checkpoint.stage < s, ~HasReceipt(st)
    PROVE  LET marked == MarkStageRunning(st, s)
           IN  /\ IsState(marked) /\ Orderly(marked)
               /\ marked.status = "running" /\ marked.current = s
               /\ marked.checkpoint = st.checkpoint /\ marked.receipt = st.receipt
               /\ RunningIn(marked, s)
               /\ \A t \in StageIds \ {s} : marked.stages[t] = st.stages[t]
<1> DEFINE stages == [st.stages EXCEPT ![s].status = "running"]
           marked == MarkStageRunning(st, s)
<1>1. stages \in [StageIds -> StageStateType]
  BY DEF IsState, StageStateType, StageStatuses
<1>2. marked = [st EXCEPT !.status = "running", !.current = s, !.stages = stages]
  BY DEF MarkStageRunning, IsState
<1>3. /\ stages[s].status = "running"
      /\ \A t \in StageIds \ {s} : stages[t] = st.stages[t]
  BY DEF IsState, StageStateType
<1>4. "running" \in PipelineStatuses
  BY DEF PipelineStatuses
<1> HIDE DEF stages, marked
<1>5. /\ IsState(marked)
      /\ marked.status = "running" /\ marked.current = s /\ marked.stages = stages
      /\ marked.checkpoint = st.checkpoint /\ marked.receipt = st.receipt
  BY <1>1, <1>2, <1>4 DEF IsState
<1>6. Orderly(marked)
  BY <1>3, <1>5, StagesAreNumbered DEF Orderly, RunningIn, PassedIn, HasCheckpoint, HasReceipt
<1> QED
  BY <1>3, <1>5, <1>6 DEF marked, RunningIn

LEMMA FinishedStageType ==
    ASSUME NEW previous \in StageStateType, NEW passed \in BOOLEAN, NEW kind \in DecisionKinds,
           NEW usage \in Nat \cup {Absent}
    PROVE  /\ FinishedStage(previous, passed, kind, usage) \in StageStateType
           /\ FinishedStage(previous, passed, kind, usage).status =
                IF passed THEN "passed" ELSE "failed"
<1> DEFINE attempt == [attempt |-> previous.attempts + 1, kind |-> kind, usage |-> usage]
<1>1. attempt \in Attempt
  BY DEF Attempt, StageStateType
<1>2. previous.history \in Seq(Attempt) /\ previous.attempts \in Nat
  BY DEF StageStateType
<1> HIDE DEF attempt
<1>3. Append(previous.history, attempt) \in Seq(Attempt)
  BY <1>1, <1>2
<1>4. NoOrigin \in Origin
  BY DEF NoOrigin, Origin, NoStage
<1> QED
  BY <1>2, <1>3, <1>4 DEF FinishedStage, StageStateType, StageStatuses, attempt

LEMMA ResetStageType ==
    ASSUME NEW previous \in StageStateType, NEW findings \in Origin, NEW handoff \in Origin
    PROVE  /\ ResetStage(previous, findings, handoff) \in StageStateType
           /\ ResetStage(previous, findings, handoff).status = "pending"
  BY DEF ResetStage, StageStateType, StageStatuses

-----------------------------------------------------------------------------
(* Where the runner stands in the pipeline *)

\* The runner may work on stage s: what comes before is passed, nothing else runs,
\* and no approval or receipt reaches it.
Reached(st, s) ==
    /\ \A t \in StageIds : t < s => PassedIn(st, t)
    /\ \A t \in StageIds : RunningIn(st, t) => t = s
    /\ HasCheckpoint(st) => st.checkpoint.stage < s
    /\ ~HasReceipt(st)

\* ... or at the final step, when s is NoStage.
AtStage(st, s) ==
    IF s = NoStage THEN \A t \in StageIds : PassedIn(st, t) ELSE Reached(st, s)

\* The first incomplete stage is where the runner may go on.
LEMMA FirstIncompleteIsReached ==
    ASSUME NEW st, IsState(st), Orderly(st)
    PROVE  /\ GetFirstIncompleteStage(st) \in {NoStage} \cup StageIds
           /\ AtStage(st, GetFirstIncompleteStage(st))
           /\ GetFirstIncompleteStage(st) # NoStage =>
                ~PassedIn(st, GetFirstIncompleteStage(st))
<1>1. \A s \in StageIds : IsComplete(st.stages[s]) <=> PassedIn(st, s)
  BY DEF IsComplete, PassedIn, Orderly
<1>2. CASE \A s \in StageIds : IsComplete(st.stages[s])
  BY <1>1, <1>2 DEF GetFirstIncompleteStage, AtStage
<1>3. CASE ~ \A s \in StageIds : IsComplete(st.stages[s])
  <2> DEFINE T == {s \in StageIds : ~IsComplete(st.stages[s])}
             First(s) == /\ ~IsComplete(st.stages[s])
                         /\ \A t \in 1..(s - 1) : IsComplete(st.stages[t])
             f == GetFirstIncompleteStage(st)
  <2>1. PICK m \in T : \A k \in T : m <= k
    BY <1>3, SmallestElement, StagesAreNumbered
  <2>2. \A t \in 1..(m - 1) : t \in StageIds /\ t \notin T
    BY <2>1, StagesAreNumbered DEF StageIds
  <2>3. m \in StageIds /\ First(m)
    BY <2>1, <2>2
  <2>4. f = CHOOSE s \in StageIds : First(s)
    BY <1>3 DEF GetFirstIncompleteStage
  <2>5. f \in StageIds /\ First(f)
    BY <2>3, <2>4
  <2> HIDE DEF f
  <2>6. \A t \in StageIds : t < f => t \in 1..(f - 1)
    BY <2>5, StagesAreNumbered DEF StageIds
  <2>7. \A t \in StageIds : t < f => PassedIn(st, t)
    BY <1>1, <2>5, <2>6
  <2>8. ~PassedIn(st, f)
    BY <1>1, <2>5
  <2>9. ~HasReceipt(st) /\ (HasCheckpoint(st) => st.checkpoint.stage < f)
    BY <2>5, <2>8, StagesAreNumbered DEF Orderly
  <2>10. ASSUME NEW t \in StageIds, RunningIn(st, t) PROVE t = f
    <3>1. \A u \in StageIds : u < t => PassedIn(st, u)
      BY <2>10 DEF Orderly
    <3>2. ~PassedIn(st, t)
      BY <2>10 DEF RunningIn, PassedIn
    <3> QED
      BY <2>5, <2>7, <2>8, <3>1, <3>2, StagesAreNumbered
  <2>11. f # NoStage
    BY <2>5, StagesAreNumbered
  <2> QED
    BY <2>5, <2>7, <2>8, <2>9, <2>10, <2>11 DEF AtStage, Reached, f
<1> QED
  BY <1>2, <1>3

-----------------------------------------------------------------------------
(* Stage attempts *)

Recorded(st, s, finished, regressions, economics) ==
    [st EXCEPT !.regressions = regressions, !.economics = economics, !.stages[s] = finished]

\* Recording the attempt of the running stage s: everything but its entry and the
\* counters stays, and it runs no more.
LEMMA StageFinished ==
    ASSUME NEW st, IsState(st), NEW s \in StageIds, Orderly(st), Reached(st, s),
           NEW finished \in StageStateType, finished.status \in {"passed", "failed"},
           NEW regressions \in Nat, NEW economics
    PROVE  LET after == Recorded(st, s, finished, regressions, economics)
           IN  /\ IsState(after) /\ Orderly(after)
               /\ \A t \in StageIds : ~RunningIn(after, t)
               /\ \A t \in StageIds \ {s} : after.stages[t] = st.stages[t]
               /\ after.stages[s] = finished
               /\ ~HasReceipt(after) /\ after.checkpoint = st.checkpoint
<1> DEFINE stages == [st.stages EXCEPT ![s] = finished]
           after  == Recorded(st, s, finished, regressions, economics)
<1>1. stages \in [StageIds -> StageStateType]
  BY DEF IsState
<1>2. after = [st EXCEPT !.regressions = regressions, !.economics = economics,
                         !.stages = stages]
  BY DEF IsState, Recorded
<1>3. stages[s] = finished /\ \A t \in StageIds \ {s} : stages[t] = st.stages[t]
  BY DEF IsState
<1> HIDE DEF stages, after
<1>4. /\ IsState(after) /\ after.stages = stages /\ after.checkpoint = st.checkpoint
      /\ after.receipt = st.receipt
  BY <1>1, <1>2 DEF IsState
<1>5. \A t \in StageIds : ~RunningIn(after, t)
  BY <1>3, <1>4 DEF RunningIn, Reached
<1>6. Orderly(after)
  BY <1>3, <1>4, <1>5, StagesAreNumbered
     DEF Orderly, Reached, RunningIn, PassedIn, HasCheckpoint, HasReceipt
<1> QED
  BY <1>3, <1>4, <1>5, <1>6 DEF Reached, HasReceipt, after

\* Dropping the approval and making one stage pending, in a state in which nothing
\* runs.
LEMMA RegressionTargetReset ==
    ASSUME NEW st, IsState(st), Orderly(st), \A t \in StageIds : ~RunningIn(st, t),
           NEW target \in StageIds, \A t \in StageIds : t < target => PassedIn(st, t),
           NEW findings \in Origin, NEW handoff \in Origin
    PROVE  LET after == ResetRegressionTarget(st, target, findings, handoff)
           IN  IsState(after) /\ Orderly(after) /\ Reached(after, target)
<1> DEFINE reset  == ResetStage(st.stages[target], findings, handoff)
           stages == [st.stages EXCEPT ![target] = reset]
           after  == ResetRegressionTarget(st, target, findings, handoff)
<1>1. reset \in StageStateType /\ reset.status = "pending"
  BY ResetStageType DEF IsState
<1> HIDE DEF reset
<1>2. stages \in [StageIds -> StageStateType]
  BY <1>1 DEF IsState
<1>3. after = [st EXCEPT !.checkpoint = NoCheckpoint, !.receipt = NoReceipt,
                         !.stages = stages]
  BY DEF ResetRegressionTarget, WithoutApproval, IsState, reset
<1>4. stages[target] = reset /\ \A t \in StageIds \ {target} : stages[t] = st.stages[t]
  BY DEF IsState
<1>5. NoCheckpoint \in CheckpointType /\ NoReceipt \in ReceiptType
  BY DEF NoCheckpoint, NoReceipt, CheckpointType, ReceiptType, NoStage
<1> HIDE DEF stages, after
<1>6. /\ IsState(after) /\ after.stages = stages /\ after.checkpoint = NoCheckpoint
      /\ after.receipt = NoReceipt
  BY <1>2, <1>3, <1>5 DEF IsState
<1>7. /\ ~HasCheckpoint(after) /\ ~HasReceipt(after)
      /\ \A t \in StageIds : ~RunningIn(after, t)
  BY <1>1, <1>4, <1>6 DEF RunningIn, HasCheckpoint, HasReceipt
<1>8. Orderly(after)
  BY <1>1, <1>4, <1>6, <1>7 DEF Orderly
<1>9. Reached(after, target)
  BY <1>4, <1>6, <1>7, StagesAreNumbered DEF Reached, PassedIn
<1> QED
  BY <1>6, <1>8, <1>9 DEF after

\* A handoff changes nothing else.
LEMMA SuccessorHandoffReplaced ==
    ASSUME NEW st, IsState(st), Orderly(st), \A t \in StageIds : ~RunningIn(st, t),
           NEW s \in StageIds, NEW handoff \in Origin
    PROVE  LET after == ReplaceSuccessorHandoff(st, s, handoff)
           IN  /\ IsState(after) /\ Orderly(after)
               /\ \A t \in StageIds : ~RunningIn(after, t)
               /\ \A t \in StageIds : PassedIn(after, t) <=> PassedIn(st, t)
               /\ after.checkpoint = st.checkpoint /\ after.receipt = st.receipt
<1> DEFINE stages == [st.stages EXCEPT ![s].handoff = handoff]
           after  == ReplaceSuccessorHandoff(st, s, handoff)
<1>1. stages \in [StageIds -> StageStateType]
  BY DEF IsState, StageStateType
<1>2. after = [st EXCEPT !.stages = stages]
  BY DEF ReplaceSuccessorHandoff, IsState
<1>3. \A t \in StageIds : stages[t].status = st.stages[t].status
  BY DEF IsState, StageStateType
<1> HIDE DEF stages, after
<1>4. /\ IsState(after) /\ after.stages = stages /\ after.checkpoint = st.checkpoint
      /\ after.receipt = st.receipt
  BY <1>1, <1>2 DEF IsState
<1>5. /\ \A t \in StageIds : ~RunningIn(after, t)
      /\ \A t \in StageIds : PassedIn(after, t) <=> PassedIn(st, t)
  BY <1>3, <1>4 DEF RunningIn, PassedIn
<1>6. Orderly(after)
  BY <1>3, <1>4, <1>5 DEF Orderly, HasCheckpoint, HasReceipt
<1> QED
  BY <1>4, <1>5, <1>6 DEF after

\* Settling the running stage s: the state stays orderly, nothing runs, and the
\* runner may go on where the evaluation says.
LEMMA ApplyStageOutcomeOrderly ==
    ASSUME NEW st, IsState(st), Orderly(st), NEW s \in StageIds, Reached(st, s),
           NEW e, IsEvaluation(s, e), NEW hasPayload
    PROVE  LET after == ApplyStageOutcome(st, s, e, hasPayload)
           IN  /\ IsState(after) /\ Orderly(after)
               /\ \A t \in StageIds : ~RunningIn(after, t)
               /\ ~HasReceipt(after)
               /\ e.decision.passed => \A t \in StageIds : t <= s => PassedIn(after, t)
               /\ e.decision.passed \/ e.route.action = "regress" => AtStage(after, e.route.next)
<1> DEFINE previous == st.stages[s]
           this     == [stage |-> s, attempt |-> previous.attempts + 1]
           handoff  == IF hasPayload THEN this ELSE NoOrigin
           findings == IF e.decision.findings THEN this ELSE NoOrigin
           finished == FinishedStage(previous, e.decision.passed, e.decision.kind,
                                     e.decision.usage)
           spent    == AccumulateEconomics(st.economics, e.decision.usage)
           base     == Recorded(st, s, finished, e.route.regressions, spent)
           after    == ApplyStageOutcome(st, s, e, hasPayload)
<1>1. previous \in StageStateType
  BY DEF IsState
<1>2. this \in Origin /\ NoOrigin \in Origin
  BY <1>1, StagesAreNumbered DEF Origin, NoOrigin, NoStage, StageStateType
<1>3. handoff \in Origin /\ findings \in Origin
  BY <1>2
<1>4. /\ finished \in StageStateType
      /\ finished.status = IF e.decision.passed THEN "passed" ELSE "failed"
  BY <1>1, FinishedStageType DEF IsEvaluation
<1>5. e.route.regressions \in Nat
  BY DEF IsEvaluation
<1>6. after = IF e.route.action = "regress"
              THEN ResetRegressionTarget(base, e.route.next, findings, handoff)
              ELSE IF e.route.next = NoStage THEN base
              ELSE ReplaceSuccessorHandoff(base, e.route.next, handoff)
  BY DEF ApplyStageOutcome, Recorded, IsState
<1> HIDE DEF this, handoff, findings, finished, spent, after
<1>7. /\ IsState(base) /\ Orderly(base)
      /\ \A t \in StageIds : ~RunningIn(base, t)
      /\ \A t \in StageIds \ {s} : base.stages[t] = st.stages[t]
      /\ base.stages[s] = finished
      /\ ~HasReceipt(base) /\ base.checkpoint = st.checkpoint
  BY <1>4, <1>5, StageFinished
<1> HIDE DEF base
<1>8. \A t \in StageIds : t < s => PassedIn(base, t)
  BY <1>7, StagesAreNumbered DEF Reached, PassedIn
<1>9. HasCheckpoint(base) => base.checkpoint.stage < s
  BY <1>7 DEF Reached, HasCheckpoint
<1>10. CASE e.decision.passed
  <2>1. \A t \in StageIds : t <= s => PassedIn(base, t)
    BY <1>4, <1>7, <1>8, <1>10, StagesAreNumbered DEF PassedIn
  <2>2. e.route.action # "regress" /\ e.route.next = IF s < N THEN s + 1 ELSE NoStage
    BY <1>10 DEF IsEvaluation
  <2>3. CASE s < N
    <3>1. s + 1 \in StageIds /\ e.route.next = s + 1 /\ s + 1 # NoStage
      BY <2>2, <2>3, StagesAreNumbered DEF StageIds, NoStage
    <3>2. after = ReplaceSuccessorHandoff(base, s + 1, handoff)
      BY <1>6, <2>2, <3>1
    <3>3. /\ IsState(after) /\ Orderly(after)
          /\ \A t \in StageIds : ~RunningIn(after, t)
          /\ \A t \in StageIds : PassedIn(after, t) <=> PassedIn(base, t)
          /\ after.checkpoint = base.checkpoint /\ after.receipt = base.receipt
      BY <1>3, <1>7, <3>1, <3>2, SuccessorHandoffReplaced
    <3>4. /\ ~HasReceipt(after)
          /\ HasCheckpoint(after) => after.checkpoint.stage < s
      BY <1>7, <1>9, <3>3 DEF HasReceipt, HasCheckpoint
    <3>5. HasCheckpoint(after) => after.checkpoint.stage \in Nat
      BY <3>3, StagesAreNumbered DEF Orderly
    <3>6. Reached(after, s + 1)
      BY <2>1, <3>3, <3>4, <3>5, StagesAreNumbered DEF Reached
    <3> QED
      BY <2>1, <3>1, <3>3, <3>4, <3>6 DEF AtStage, after
  <2>4. CASE s = N
    <3>1. after = base /\ e.route.next = NoStage
      BY <1>6, <2>2, <2>4, StagesAreNumbered DEF NoStage
    <3>2. \A t \in StageIds : PassedIn(base, t)
      BY <2>1, <2>4, StagesAreNumbered
    <3> QED
      BY <1>7, <3>1, <3>2 DEF AtStage, after
  <2> QED
    BY <2>3, <2>4, StagesAreNumbered
<1>11. CASE ~e.decision.passed /\ e.route.action = "regress"
  <2>1. e.route.next \in StageIds /\ e.route.next < s /\ e.route.next # NoStage
    BY <1>11, StagesAreNumbered DEF IsEvaluation
  <2>2. \A t \in StageIds : t < e.route.next => PassedIn(base, t)
    BY <1>8, <2>1, StagesAreNumbered
  <2>3. after = ResetRegressionTarget(base, e.route.next, findings, handoff)
    BY <1>6, <1>11
  <2>4. IsState(after) /\ Orderly(after) /\ Reached(after, e.route.next)
    BY <1>3, <1>7, <2>1, <2>2, <2>3, RegressionTargetReset
  <2>5. ~HasReceipt(after) /\ \A t \in StageIds : ~RunningIn(after, t)
    <3>1. ResetStage(base.stages[e.route.next], findings, handoff).status = "pending"
      BY DEF ResetStage
    <3>2. ~RunningIn(after, e.route.next)
      BY <1>7, <2>1, <2>3, <3>1 DEF ResetRegressionTarget, WithoutApproval, RunningIn, IsState
    <3> QED
      BY <2>4, <3>2 DEF Reached
  <2> QED
    BY <1>11, <2>1, <2>4, <2>5 DEF AtStage, after
<1>12. CASE ~e.decision.passed /\ e.route.action # "regress"
  <2>1. after = base
    BY <1>6, <1>12 DEF IsEvaluation
  <2> QED
    BY <1>7, <1>12, <2>1 DEF after
<1> QED
  BY <1>10, <1>11, <1>12

\* A thrown executor error leaves an orderly state in which nothing runs.
LEMMA ApplyExecutorErrorOrderly ==
    ASSUME NEW st, IsState(st), Orderly(st), NEW s \in StageIds, Reached(st, s)
    PROVE  LET after == ApplyExecutorError(st, s) IN IsState(after) /\ Orderly(after)
<1> DEFINE finished == FinishedStage(st.stages[s], FALSE, "failed", Absent)
<1>1. finished \in StageStateType /\ finished.status = "failed"
  <2>1. /\ st.stages[s] \in StageStateType /\ FALSE \in BOOLEAN /\ "failed" \in DecisionKinds
        /\ Absent \in Nat \cup {Absent}
    BY DEF IsState, DecisionKinds
  <2> QED
    BY <2>1, FinishedStageType
<1>2. st.regressions \in Nat
  BY DEF IsState
<1> HIDE DEF finished
<1>3. ApplyExecutorError(st, s) = Recorded(st, s, finished, st.regressions, st.economics)
  BY DEF ApplyExecutorError, Recorded, IsState, finished
<1> QED
  BY <1>1, <1>2, <1>3, StageFinished

-----------------------------------------------------------------------------
(* Scope approval *)

LEMMA VersionIsKeptOrRaised ==
    ASSUME NEW st, IsState(st)
    PROVE  ScopeAttachmentFeatureVersion(st) \in 1..RunnerFeatureVersion
<1>1. st.version \in 1..RunnerFeatureVersion
  BY DEF IsState
<1> QED
  BY <1>1 DEF ScopeAttachmentFeatureVersion, RunnerFeatureVersion

\* An approval may be attached for a stage up to which everything is passed.
LEMMA AttachReviewCheckpointOrderly ==
    ASSUME NEW st, IsState(st), Orderly(st), NEW c \in CheckpointType, c.stage \in StageIds,
           \A t \in StageIds : t <= c.stage => PassedIn(st, t)
    PROVE  LET after == AttachReviewCheckpoint(st, c)
           IN  /\ IsState(after) /\ Orderly(after)
               /\ after.stages = st.stages
               /\ after.checkpoint = c /\ ~HasReceipt(after)
<1> DEFINE version == ScopeAttachmentFeatureVersion(st)
           after   == AttachReviewCheckpoint(st, c)
<1>1. version \in 1..RunnerFeatureVersion
  BY VersionIsKeptOrRaised
<1>2. after = [st EXCEPT !.version = version, !.checkpoint = c, !.receipt = NoReceipt]
  BY DEF AttachReviewCheckpoint
<1>3. NoReceipt \in ReceiptType
  BY DEF NoReceipt, ReceiptType, NoStage
<1> HIDE DEF version, after
<1>4. /\ IsState(after) /\ after.stages = st.stages /\ after.checkpoint = c
      /\ after.receipt = NoReceipt
  BY <1>1, <1>2, <1>3 DEF IsState
<1>5. Orderly(after)
  BY <1>4 DEF Orderly, HasReceipt, RunningIn, PassedIn
<1> QED
  BY <1>4, <1>5 DEF HasReceipt, after

\* A receipt may be attached to a complete pipeline.
LEMMA AttachFinalScopeReceiptOrderly ==
    ASSUME NEW st, IsState(st), Orderly(st), \A t \in StageIds : PassedIn(st, t),
           NEW r \in ReceiptType, HasCheckpoint(st) \/ r.stage \in StageIds
    PROVE  LET after == AttachFinalScopeReceipt(st, r) IN IsState(after) /\ Orderly(after)
<1> DEFINE version    == ScopeAttachmentFeatureVersion(st)
           checkpoint == IF HasCheckpoint(st) THEN st.checkpoint ELSE CheckpointOf(r)
           after      == AttachFinalScopeReceipt(st, r)
<1>1. version \in 1..RunnerFeatureVersion
  BY VersionIsKeptOrRaised
<1>2. CheckpointOf(r) \in CheckpointType /\ CheckpointOf(r).stage = r.stage
  BY DEF CheckpointOf, CheckpointType, ReceiptType
<1>3. checkpoint \in CheckpointType /\ checkpoint.stage \in StageIds
  BY <1>2 DEF IsState, Orderly
<1>4. after = [st EXCEPT !.version = version, !.checkpoint = checkpoint, !.receipt = r]
  BY DEF AttachFinalScopeReceipt, IsState
<1> HIDE DEF version, checkpoint, after
<1>5. IsState(after) /\ after.stages = st.stages /\ after.checkpoint = checkpoint
  BY <1>1, <1>3, <1>4 DEF IsState
<1>6. Orderly(after)
  BY <1>3, <1>5 DEF Orderly, RunningIn, PassedIn
<1> QED
  BY <1>5, <1>6 DEF after

\* Finalizing touches neither stages nor approvals.
LEMMA FinalizeStateOrderly ==
    ASSUME NEW st, IsState(st), Orderly(st), NEW status \in TerminalStatuses
    PROVE  LET after == FinalizeState(st, status) IN IsState(after) /\ Orderly(after)
<1> DEFINE after == FinalizeState(st, status)
<1>1. status \in PipelineStatuses
  BY DEF TerminalStatuses, PipelineStatuses
<1>2. after = [st EXCEPT !.status = status, !.current = NoStage, !.finished = TRUE]
  BY DEF FinalizeState
<1> HIDE DEF after
<1>3. /\ IsState(after) /\ after.stages = st.stages /\ after.checkpoint = st.checkpoint
      /\ after.receipt = st.receipt
  BY <1>1, <1>2 DEF IsState
<1>4. Orderly(after)
  BY <1>3 DEF Orderly, HasCheckpoint, HasReceipt, RunningIn, PassedIn
<1> QED
  BY <1>3, <1>4 DEF after

\* Resetting a stage and everything after it, with the approval.
LEMMA ResetStageAndDownstreamOrderly ==
    ASSUME NEW st, IsState(st), Orderly(st), NEW target \in StageIds, NEW findings \in Origin
    PROVE  LET after == ResetStageAndDownstream(st, target, findings)
           IN  /\ IsState(after) /\ Orderly(after)
               /\ \A t \in StageIds : t < target => after.stages[t] = st.stages[t]
               /\ \A t \in StageIds : t >= target => after.stages[t].status = "pending"
               /\ ~HasCheckpoint(after) /\ ~HasReceipt(after)
<1> DEFINE stages == [s \in StageIds |->
                        IF s < target THEN st.stages[s]
                        ELSE ResetStage(st.stages[s],
                                        IF s = target THEN findings ELSE NoOrigin, NoOrigin)]
           after  == ResetStageAndDownstream(st, target, findings)
<1>1. NoOrigin \in Origin
  BY DEF NoOrigin, Origin, NoStage
<1>2. \A s \in StageIds : st.stages[s] \in StageStateType
  BY DEF IsState
<1>3. stages \in [StageIds -> StageStateType]
  BY <1>1, <1>2, ResetStageType
<1>4. /\ \A t \in StageIds : t < target => stages[t] = st.stages[t]
      /\ \A t \in StageIds : t >= target => stages[t].status = "pending"
  BY StagesAreNumbered DEF ResetStage
<1>5. after = [st EXCEPT !.checkpoint = NoCheckpoint, !.receipt = NoReceipt,
                         !.status = "running", !.current = NoStage, !.finished = FALSE,
                         !.stages = stages]
  BY DEF ResetStageAndDownstream, WithoutApproval, IsState
<1>6. NoCheckpoint \in CheckpointType /\ NoReceipt \in ReceiptType
  BY DEF NoCheckpoint, NoReceipt, CheckpointType, ReceiptType, NoStage
<1>7. "running" \in PipelineStatuses
  BY DEF PipelineStatuses
<1> HIDE DEF stages, after
<1>8. /\ IsState(after) /\ after.stages = stages /\ after.checkpoint = NoCheckpoint
      /\ after.receipt = NoReceipt
  BY <1>3, <1>5, <1>6, <1>7 DEF IsState
<1>9. ~HasCheckpoint(after) /\ ~HasReceipt(after)
  BY <1>8 DEF HasCheckpoint, HasReceipt
<1>10. ASSUME NEW t \in StageIds
       PROVE  /\ after.stages[t].status # "skipped"
              /\ RunningIn(after, t) => \A u \in StageIds : u < t => PassedIn(after, u)
  <2>1. CASE t < target
    <3>1. \A u \in StageIds : u <= t => after.stages[u] = st.stages[u]
      BY <1>4, <1>8, <2>1, StagesAreNumbered
    <3> QED
      BY <3>1, StagesAreNumbered DEF Orderly, RunningIn, PassedIn
  <2>2. CASE t >= target
    BY <1>4, <1>8, <2>2 DEF RunningIn
  <2> QED
    BY <2>1, <2>2, StagesAreNumbered
<1>11. Orderly(after)
  BY <1>9, <1>10 DEF Orderly
<1> QED
  BY <1>4, <1>8, <1>9, <1>11 DEF after

\* Revoking an approval makes its review the stage to go on with.
LEMMA InvalidateReviewApprovalOrderly ==
    ASSUME NEW st, IsState(st), Orderly(st), HasCheckpoint(st)
    PROVE  LET after == InvalidateReviewApproval(st, st.checkpoint.stage)
           IN  /\ st.checkpoint.stage \in StageIds
               /\ IsState(after) /\ Orderly(after) /\ Reached(after, st.checkpoint.stage)
<1> DEFINE charged == [st EXCEPT !.regressions = @ + 1]
           target  == st.checkpoint.stage
           after   == InvalidateReviewApproval(st, target)
<1>1. /\ IsState(charged) /\ charged.stages = st.stages
      /\ charged.checkpoint = st.checkpoint /\ charged.receipt = st.receipt
  BY DEF IsState
<1>2. after = ResetStageAndDownstream(charged, target, NoOrigin)
  BY DEF InvalidateReviewApproval, ResetReviewAndDownstream
<1> HIDE DEF charged, after
<1>3. Orderly(charged)
  BY <1>1 DEF Orderly, HasCheckpoint, HasReceipt, RunningIn, PassedIn
<1>4. /\ target \in StageIds
      /\ \A t \in StageIds : t <= target => PassedIn(st, t)
  BY DEF Orderly
<1>5. NoOrigin \in Origin
  BY DEF NoOrigin, Origin, NoStage
<1> HIDE DEF target
<1>6. /\ IsState(after) /\ Orderly(after)
      /\ \A t \in StageIds : t < target => after.stages[t] = charged.stages[t]
      /\ \A t \in StageIds : t >= target => after.stages[t].status = "pending"
      /\ ~HasCheckpoint(after) /\ ~HasReceipt(after)
  BY <1>1, <1>2, <1>3, <1>4, <1>5, ResetStageAndDownstreamOrderly
<1>7. \A t \in StageIds : t < target => PassedIn(after, t)
  BY <1>1, <1>4, <1>6, StagesAreNumbered DEF PassedIn
<1>8. \A t \in StageIds : ~RunningIn(after, t)
  BY <1>4, <1>6, <1>7, StagesAreNumbered DEF RunningIn, PassedIn
<1> QED
  BY <1>4, <1>6, <1>7, <1>8 DEF Reached, after, target

\* A correction archives the receipt and leaves an orderly state.
LEMMA ApplyTerminalCorrectionOrderly ==
    ASSUME NEW st, IsState(st), Orderly(st), NEW target \in StageIds, NEW reason \in Nat,
           NEW by \in Nat
    PROVE  LET after == ApplyTerminalCorrection(st, target, reason, by)
           IN  IsState(after) /\ Orderly(after)
<1> DEFINE sequence == Len(st.superseded) + 1
           archived == [sequence |-> sequence, expected |-> st.receipt.run, reason |-> reason,
                        target |-> target, by |-> by, receipt |-> st.receipt]
           findings == [stage |-> NoStage, attempt |-> sequence]
           reset    == ResetStageAndDownstream(st, target, findings)
           ledger   == Append(st.superseded, archived)
           after    == ApplyTerminalCorrection(st, target, reason, by)
<1>1. st.superseded \in Seq(SupersededType) /\ st.receipt \in ReceiptType
  BY DEF IsState
<1>2. sequence \in Nat
  BY <1>1
<1>3. archived \in SupersededType
  BY <1>1, <1>2, StagesAreNumbered DEF SupersededType, ReceiptType
<1>4. findings \in Origin
  BY <1>2 DEF Origin, NoStage
<1>5. after = [reset EXCEPT !.version = RunnerFeatureVersion, !.superseded = ledger]
  BY DEF ApplyTerminalCorrection
<1> HIDE DEF sequence, archived, findings
<1>6. ledger \in Seq(SupersededType)
  BY <1>1, <1>3
<1>7. IsState(reset) /\ Orderly(reset)
  BY <1>4, ResetStageAndDownstreamOrderly
<1>8. RunnerFeatureVersion \in 1..RunnerFeatureVersion
  BY DEF RunnerFeatureVersion
<1> HIDE DEF ledger, reset, after
<1>9. /\ IsState(after) /\ after.stages = reset.stages
      /\ after.checkpoint = reset.checkpoint /\ after.receipt = reset.receipt
  BY <1>5, <1>6, <1>7, <1>8 DEF IsState
<1>10. Orderly(after)
  BY <1>7, <1>9 DEF Orderly, HasCheckpoint, HasReceipt, RunningIn, PassedIn
<1> QED
  BY <1>9, <1>10 DEF after

-----------------------------------------------------------------------------
(* Reconciliation, and files of earlier versions *)

LEMMA RepairStageType ==
    ASSUME NEW stage \in StageStateType
    PROVE  /\ RepairStage(stage) \in StageStateType
           /\ RepairStage(stage).status = IF stage.status = "running" THEN "pending"
                                          ELSE stage.status
<1>1. stage.history \in Seq(Attempt) /\ stage.status \in StageStatuses
  BY DEF StageStateType
<1>2. Len(stage.history) \in Nat
  BY <1>1
<1> DEFINE status == IF stage.status = "running" THEN "pending" ELSE stage.status
           length == Len(stage.history)
<1>3. status \in StageStatuses
  BY <1>1 DEF StageStatuses
<1>4. RepairStage(stage) = [stage EXCEPT !.status = status, !.attempts = length]
  BY DEF RepairStage, StageStateType
<1>5. length \in Nat
  BY <1>2
<1> HIDE DEF status, length
<1>6. /\ [stage EXCEPT !.status = status, !.attempts = length] \in StageStateType
      /\ [stage EXCEPT !.status = status, !.attempts = length].status = status
  BY <1>3, <1>5 DEF StageStateType
<1> QED
  BY <1>4, <1>6 DEF status

\* A reconciled state is orderly and nothing runs in it.
LEMMA ReconcilePipelineStateOrderly ==
    ASSUME NEW st, IsState(st), Orderly(st)
    PROVE  LET after == ReconcilePipelineState(st) IN IsState(after) /\ Orderly(after)
<1> DEFINE status    == IF st.status = "running" THEN "pending" ELSE st.status
           stages    == [s \in StageIds |-> RepairStage(st.stages[s])]
           current   == IF status \in TerminalStatuses THEN NoStage ELSE st.current
           finished  == status \in TerminalStatuses
           economics == RecomputeEconomics(stages)
           after     == ReconcilePipelineState(st)
<1>1. \A s \in StageIds : st.stages[s] \in StageStateType
  BY DEF IsState
<1>2. stages \in [StageIds -> StageStateType]
  BY <1>1, RepairStageType
<1>3. \A s \in StageIds : stages[s].status = IF st.stages[s].status = "running" THEN "pending"
                                             ELSE st.stages[s].status
  BY <1>1, RepairStageType
<1>4. status \in PipelineStatuses
  BY DEF IsState, PipelineStatuses
<1>5. current \in {NoStage} \cup StageIds
  BY DEF IsState
<1>6. finished \in BOOLEAN
  OBVIOUS
<1>7. after = [st EXCEPT !.status = status, !.stages = stages, !.current = current,
                         !.finished = finished, !.economics = economics]
  BY DEF ReconcilePipelineState, IsState
<1> HIDE DEF status, stages, current, finished, economics, after
<1>8. /\ IsState(after) /\ after.stages = stages /\ after.checkpoint = st.checkpoint
      /\ after.receipt = st.receipt
  BY <1>2, <1>4, <1>5, <1>6, <1>7 DEF IsState
<1>9. /\ \A s \in StageIds : PassedIn(st, s) => PassedIn(after, s)
      /\ \A s \in StageIds : ~RunningIn(after, s)
      /\ \A s \in StageIds : st.stages[s].status # "skipped" => after.stages[s].status # "skipped"
  BY <1>3, <1>8 DEF PassedIn, RunningIn
<1>10. Orderly(after)
  BY <1>8, <1>9 DEF Orderly, HasCheckpoint, HasReceipt
<1> QED
  BY <1>8, <1>10 DEF after

-----------------------------------------------------------------------------
(* What the file remembers *)

\* The attempts of a stage are numbered one after the other, and a passed stage
\* is one whose latest attempt passed.
Numbered(stage) ==
    /\ stage.attempts = Len(stage.history)
    /\ \A i \in DOMAIN stage.history : stage.history[i].attempt = i
    /\ stage.status = "passed" =>
         stage.history # <<>> /\ stage.history[Len(stage.history)].kind = "passed"

\* A superseded receipt confirmed an attempt that is in the history and, once its
\* stage is passed again, is not the latest one any more.
Archived(st, i) ==
    LET old == st.superseded[i] IN
    /\ old.sequence = i
    /\ old.expected = old.receipt.run
    /\ old.expected < old.by
    /\ GateInHistory(old.receipt, st)
    /\ PassedIn(st, old.receipt.stage) => old.receipt.attempt < st.stages[old.receipt.stage].attempts

\* The evidence in a state fits together: what stands is backed by the history,
\* what was superseded came before it, in order.
Accounted(st) ==
    /\ \A s \in StageIds : Numbered(st.stages[s])
    /\ HasCheckpoint(st) =>
         /\ st.version \in {ReceiptIntroducedFeatureVersion, RunnerFeatureVersion}
         /\ st.checkpoint.attempt = st.stages[st.checkpoint.stage].attempts
         /\ \A i \in DOMAIN st.superseded : st.superseded[i].by <= st.checkpoint.run
    /\ HasReceipt(st) =>
         /\ HasCheckpoint(st)
         /\ st.checkpoint = CheckpointOf(st.receipt)
         /\ st.receipt.final = <<st.receipt.code, st.receipt.docs>>
    /\ st.status = "done" => HasReceipt(st)
    /\ st.superseded # <<>> => st.version = RunnerFeatureVersion
    /\ \A i \in DOMAIN st.superseded : Archived(st, i)
    /\ \A i, j \in DOMAIN st.superseded :
         i < j => st.superseded[i].by <= st.superseded[j].expected

\* Two states with the same attempts, nothing newly passed.
SameAttempts(a, b) ==
    \A s \in StageIds :
      /\ b.stages[s].history = a.stages[s].history
      /\ b.stages[s].attempts = a.stages[s].attempts
      /\ PassedIn(b, s) => PassedIn(a, s)

\* One more attempt of stage s, with this result.
OneMoreAttempt(a, b, s, kind) ==
    /\ b.stages[s].attempts = a.stages[s].attempts + 1
    /\ \E usage : b.stages[s].history =
         Append(a.stages[s].history,
                [attempt |-> a.stages[s].attempts + 1, kind |-> kind, usage |-> usage])
    /\ PassedIn(b, s) => kind = "passed"
    /\ \A t \in StageIds \ {s} :
         /\ b.stages[t].history = a.stages[t].history
         /\ b.stages[t].attempts = a.stages[t].attempts
         /\ PassedIn(b, t) => PassedIn(a, t)

SameApproval(a, b) == b.checkpoint = a.checkpoint /\ b.receipt = a.receipt
Unapproved(st)     == ~HasCheckpoint(st) /\ ~HasReceipt(st)

LEMMA HistoryFacts ==
    ASSUME NEW st, IsState(st), NEW s \in StageIds
    PROVE  /\ st.stages[s].history \in Seq(Attempt)
           /\ Len(st.stages[s].history) \in Nat
           /\ DOMAIN st.stages[s].history = 1..Len(st.stages[s].history)
           /\ st.stages[s].attempts \in Nat
<1>1. st.stages[s] \in StageStateType
  BY DEF IsState
<1>2. st.stages[s].history \in Seq(Attempt) /\ st.stages[s].attempts \in Nat
  BY <1>1 DEF StageStateType
<1> QED
  BY <1>2

LEMMA LedgerFacts ==
    ASSUME NEW st, IsState(st)
    PROVE  /\ st.superseded \in Seq(SupersededType)
           /\ Len(st.superseded) \in Nat
           /\ DOMAIN st.superseded = 1..Len(st.superseded)
           /\ \A i \in DOMAIN st.superseded : st.superseded[i] \in SupersededType
           /\ (st.superseded = <<>>) <=> Len(st.superseded) = 0
<1>1. st.superseded \in Seq(SupersededType)
  BY DEF IsState
<1> QED
  BY <1>1

\* An accounted, orderly state is one the store accepts.
LEMMA AccountedIsAccepted ==
    ASSUME NEW st, IsState(st), Orderly(st), Accounted(st)
    PROVE  IsPipelineState(st)
<1>1. VersionsFit(st)
  BY DEF VersionsFit, Accounted, IsState, RunnerFeatureVersion, ReceiptIntroducedFeatureVersion
<1>2. ASSUME HasCheckpoint(st) PROVE GateIsCurrent(st.checkpoint, st)
  <2> DEFINE s == st.checkpoint.stage
  <2>1. s \in StageIds /\ PassedIn(st, s)
    BY <1>2, StagesAreNumbered DEF Orderly
  <2>2. Numbered(st.stages[s]) /\ st.checkpoint.attempt = st.stages[s].attempts
    BY <1>2, <2>1 DEF Accounted
  <2>3. st.stages[s].history # <<>>
        /\ st.stages[s].history[Len(st.stages[s].history)].kind = "passed"
    BY <2>1, <2>2 DEF Numbered, PassedIn
  <2>4. Len(st.stages[s].history) \in DOMAIN st.stages[s].history
    BY <2>1, <2>3, HistoryFacts
  <2>5. st.stages[s].history[Len(st.stages[s].history)].attempt = st.checkpoint.attempt
    BY <2>2, <2>4 DEF Numbered
  <2> QED
    BY <2>1, <2>2, <2>3, <2>4, <2>5 DEF GateIsCurrent, GateInHistory, PassedIn
<1>3. ReceiptIntegrity(st)
  BY <1>2 DEF ReceiptIntegrity, Accounted
<1>4. SupersededIntegrity(st)
  <2>1. ASSUME NEW i \in DOMAIN st.superseded, NEW j \in DOMAIN st.superseded, i < j
        PROVE  st.superseded[i].expected < st.superseded[j].expected
    <3>1. st.superseded[i] \in SupersededType /\ st.superseded[j] \in SupersededType
      BY LedgerFacts
    <3>2. st.superseded[i].expected \in Nat /\ st.superseded[i].by \in Nat
          /\ st.superseded[j].expected \in Nat
      BY <3>1 DEF SupersededType
    <3> QED
      BY <2>1, <3>2 DEF Accounted, Archived
  <2>2. ASSUME NEW i \in DOMAIN st.superseded, NEW j \in DOMAIN st.superseded,
               st.superseded[i].expected = st.superseded[j].expected
        PROVE  i = j
    <3>1. st.superseded[i] \in SupersededType /\ i \in Nat /\ j \in Nat
      BY LedgerFacts
    <3>2. st.superseded[i].expected \in Nat
      BY <3>1 DEF SupersededType
    <3>3. ~(i < j) /\ ~(j < i)
      BY <2>1, <2>2, <3>2
    <3> QED
      BY <3>1, <3>3
  <2> QED
    BY <2>2 DEF SupersededIntegrity, Accounted, Archived
<1> QED
  BY <1>1, <1>3, <1>4 DEF IsPipelineState

\* What was archived stays archived while attempts are only added to.
LEMMA ArchiveKept ==
    ASSUME NEW a, IsState(a), NEW b, IsState(b), Accounted(a),
           b.superseded = a.superseded,
           SameAttempts(a, b) \/ \E s \in StageIds : \E kind : OneMoreAttempt(a, b, s, kind)
    PROVE  \A i \in DOMAIN b.superseded : Archived(b, i)
<1> SUFFICES ASSUME NEW i \in DOMAIN b.superseded PROVE Archived(b, i)
  OBVIOUS
<1> DEFINE old == a.superseded[i]
           g   == old.receipt
<1>1. Archived(a, i) /\ b.superseded[i] = old
  BY DEF Accounted
<1>2. GateInHistory(g, a) /\ g.stage \in StageIds
  BY <1>1 DEF Archived, GateInHistory
<1>3. PICK k \in DOMAIN a.stages[g.stage].history :
        a.stages[g.stage].history[k].attempt = g.attempt
        /\ a.stages[g.stage].history[k].kind = "passed"
  BY <1>2 DEF GateInHistory
<1>4. CASE SameAttempts(a, b)
  <2>1. b.stages[g.stage].history = a.stages[g.stage].history
        /\ b.stages[g.stage].attempts = a.stages[g.stage].attempts
        /\ (PassedIn(b, g.stage) => PassedIn(a, g.stage))
    BY <1>2, <1>4 DEF SameAttempts
  <2>2. GateInHistory(g, b)
    BY <1>2, <1>3, <2>1 DEF GateInHistory
  <2> QED
    BY <1>1, <2>1, <2>2 DEF Archived
<1>5. ASSUME NEW s \in StageIds, NEW kind, OneMoreAttempt(a, b, s, kind)
      PROVE  Archived(b, i)
  <2>1. CASE g.stage # s
    <3>1. b.stages[g.stage].history = a.stages[g.stage].history
          /\ b.stages[g.stage].attempts = a.stages[g.stage].attempts
          /\ (PassedIn(b, g.stage) => PassedIn(a, g.stage))
      BY <1>2, <1>5, <2>1 DEF OneMoreAttempt
    <3>2. GateInHistory(g, b)
      BY <1>2, <1>3, <3>1 DEF GateInHistory
    <3> QED
      BY <1>1, <3>1, <3>2 DEF Archived
  <2>2. CASE g.stage = s
    <3>1. PICK x : b.stages[s].history = Append(a.stages[s].history, x)
      BY <1>5 DEF OneMoreAttempt
    <3>2. /\ a.stages[s].history \in Seq(Attempt)
          /\ DOMAIN a.stages[s].history = 1..Len(a.stages[s].history)
          /\ Len(a.stages[s].history) \in Nat
      BY HistoryFacts
    <3>3. k \in DOMAIN b.stages[s].history
          /\ b.stages[s].history[k] = a.stages[s].history[k]
      BY <1>3, <2>2, <3>1, <3>2
    <3>4. GateInHistory(g, b)
      BY <1>2, <1>3, <2>2, <3>3 DEF GateInHistory
    <3>5. Numbered(a.stages[s])
      BY DEF Accounted
    <3>6. g.attempt = k /\ k <= a.stages[s].attempts
      BY <1>3, <2>2, <3>2, <3>5 DEF Numbered
    <3>7. a.stages[s].attempts \in Nat /\ b.stages[s].attempts = a.stages[s].attempts + 1
      BY <1>5, HistoryFacts DEF OneMoreAttempt
    <3>8. g.attempt < b.stages[s].attempts
      BY <1>3, <2>2, <3>2, <3>6, <3>7
    <3> QED
      BY <1>1, <2>2, <3>4, <3>8 DEF Archived
  <2> QED
    BY <2>1, <2>2
<1> QED
  BY <1>4, <1>5

\* Keeping the attempts, and the approval or nothing of it.
LEMMA KeptIsAccounted ==
    ASSUME NEW a, IsState(a), NEW b, IsState(b), Accounted(a), Orderly(a),
           SameAttempts(a, b), b.version = a.version, b.superseded = a.superseded,
           SameApproval(a, b) \/ Unapproved(b),
           b.status = "done" => HasReceipt(b)
    PROVE  Accounted(b)
<1>1. \A s \in StageIds : Numbered(b.stages[s])
  BY DEF Accounted, Numbered, SameAttempts, PassedIn
<1>2. \A i \in DOMAIN b.superseded : Archived(b, i)
  BY ArchiveKept
<1>3. HasCheckpoint(b) => /\ HasCheckpoint(a) /\ b.checkpoint = a.checkpoint
                          /\ a.checkpoint.stage \in StageIds
  BY DEF SameApproval, Unapproved, HasCheckpoint, Orderly
<1>4. HasReceipt(b) => HasReceipt(a) /\ SameApproval(a, b)
  BY DEF SameApproval, Unapproved, HasReceipt
<1>5. HasReceipt(b) => HasCheckpoint(b)
  BY <1>4 DEF Accounted, SameApproval, HasCheckpoint
<1> QED
  BY <1>1, <1>2, <1>3, <1>4, <1>5 DEF Accounted, SameAttempts, SameApproval

\* Adding the attempt of a stage no approval reaches.
LEMMA OneMoreIsAccounted ==
    ASSUME NEW a, IsState(a), NEW b, IsState(b), Accounted(a), Orderly(a),
           NEW s \in StageIds, NEW kind, OneMoreAttempt(a, b, s, kind),
           b.version = a.version, b.superseded = a.superseded,
           SameApproval(a, b) \/ Unapproved(b),
           HasCheckpoint(b) => b.checkpoint.stage # s,
           b.status # "done"
    PROVE  Accounted(b)
<1>1. ASSUME NEW t \in StageIds PROVE Numbered(b.stages[t])
  <2>1. Numbered(a.stages[t])
    BY DEF Accounted
  <2>2. CASE t # s
    BY <2>1, <2>2 DEF OneMoreAttempt, Numbered, PassedIn
  <2>3. CASE t = s
    <3>1. PICK usage : b.stages[s].history =
            Append(a.stages[s].history,
                   [attempt |-> a.stages[s].attempts + 1, kind |-> kind, usage |-> usage])
      BY DEF OneMoreAttempt
    <3> DEFINE x == [attempt |-> a.stages[s].attempts + 1, kind |-> kind, usage |-> usage]
               h == a.stages[s].history
    <3>2. h \in Seq(Attempt) /\ Len(h) \in Nat /\ DOMAIN h = 1..Len(h)
      BY HistoryFacts
    <3>3. x.attempt = Len(h) + 1 /\ x.kind = kind
      BY <2>1, <2>3 DEF Numbered
    <3>4. b.stages[s].attempts = Len(h) + 1
      BY <2>1, <2>3 DEF Numbered, OneMoreAttempt
    <3>5. b.stages[s].history = Append(h, x)
      BY <3>1
    <3> HIDE DEF x, h
    <3>6. /\ Len(Append(h, x)) = Len(h) + 1
          /\ DOMAIN Append(h, x) = 1..(Len(h) + 1)
          /\ Append(h, x)[Len(h) + 1] = x
          /\ \A i \in 1..Len(h) : Append(h, x)[i] = h[i]
      BY <3>2
    <3>7. \A i \in 1..Len(h) : h[i].attempt = i
      BY <2>1, <2>3, <3>2 DEF Numbered, h
    <3>8. \A i \in DOMAIN Append(h, x) : Append(h, x)[i].attempt = i
      BY <3>2, <3>3, <3>6, <3>7
    <3>9. Append(h, x) # <<>>
      BY <3>2, <3>6
    <3>10. b.stages[s].status = "passed" => kind = "passed"
      BY DEF OneMoreAttempt, PassedIn
    <3> QED
      BY <2>3, <3>3, <3>4, <3>5, <3>6, <3>8, <3>9, <3>10 DEF Numbered
  <2> QED
    BY <2>2, <2>3
<1>2. \A i \in DOMAIN b.superseded : Archived(b, i)
  BY ArchiveKept
<1>3. HasCheckpoint(b) =>
        /\ HasCheckpoint(a) /\ b.checkpoint = a.checkpoint
        /\ a.checkpoint.stage \in StageIds
        /\ b.stages[b.checkpoint.stage].attempts = a.stages[b.checkpoint.stage].attempts
  BY DEF SameApproval, Unapproved, HasCheckpoint, Orderly, OneMoreAttempt
<1>4. HasReceipt(b) => HasReceipt(a) /\ SameApproval(a, b)
  BY DEF SameApproval, Unapproved, HasReceipt
<1>5. HasReceipt(b) => HasCheckpoint(b)
  BY <1>4 DEF Accounted, SameApproval, HasCheckpoint
<1> QED
  BY <1>1, <1>2, <1>3, <1>4, <1>5 DEF Accounted, SameApproval

-----------------------------------------------------------------------------
(* What each transition does to the evidence *)

\* The parts of a state that stages, approvals and finishing leave alone.
Carried(a, b) == b.version = a.version /\ b.superseded = a.superseded

\* Marking a stage as running changes no evidence.
LEMMA MarkStageRunningKeeps ==
    ASSUME NEW st, IsState(st), NEW s \in StageIds
    PROVE  LET after == MarkStageRunning(st, s)
           IN  /\ SameAttempts(st, after) /\ SameApproval(st, after) /\ Carried(st, after)
               /\ after.regressions = st.regressions /\ after.economics = st.economics
               /\ after.status = "running"
<1> DEFINE stages == [st.stages EXCEPT ![s].status = "running"]
           after  == MarkStageRunning(st, s)
<1>1. after = [st EXCEPT !.status = "running", !.current = s, !.stages = stages]
  BY DEF MarkStageRunning, IsState
<1>2. \A t \in StageIds : /\ stages[t].history = st.stages[t].history
                          /\ stages[t].attempts = st.stages[t].attempts
                          /\ stages[t].status \in {"running", st.stages[t].status}
  BY DEF IsState, StageStateType
<1> HIDE DEF stages, after
<1>3. /\ after.stages = stages /\ after.status = "running"
      /\ SameApproval(st, after) /\ Carried(st, after)
      /\ after.regressions = st.regressions /\ after.economics = st.economics
  BY <1>1 DEF IsState, SameApproval, Carried
<1>4. SameAttempts(st, after)
  BY <1>2, <1>3 DEF SameAttempts, PassedIn
<1> QED
  BY <1>3, <1>4 DEF after

\* The attempt that an entry adds to the one before it.
Extends(previous, finished, kind) ==
    /\ finished.attempts = previous.attempts + 1
    /\ \E usage : finished.history =
         Append(previous.history,
                [attempt |-> previous.attempts + 1, kind |-> kind, usage |-> usage])
    /\ finished.status = "passed" => kind = "passed"

LEMMA FinishedStageExtends ==
    ASSUME NEW previous, NEW passed, NEW kind, NEW usage, passed => kind = "passed"
    PROVE  Extends(previous, FinishedStage(previous, passed, kind, usage), kind)
  BY DEF Extends, FinishedStage

\* What the latest attempt of s has reported, and that it is paid for.
LatestUsage(st, s) == Last(st.stages[s].history).usage

Booked(a, b, s) == b.economics = AccumulateEconomics(a.economics, LatestUsage(b, s))

LEMMA LastAppended ==
    ASSUME NEW h \in Seq(Attempt), NEW x
    PROVE  Last(Append(h, x)) = x
<1>1. Append(h, x)[Len(Append(h, x))] = x
  OBVIOUS
<1> QED
  BY <1>1 DEF Last

\* Recording an attempt adds it to the history of its stage.
LEMMA RecordedIsOneMore ==
    ASSUME NEW st, IsState(st), NEW s \in StageIds, NEW finished, NEW kind,
           Extends(st.stages[s], finished, kind), NEW regressions, NEW economics
    PROVE  LET after == Recorded(st, s, finished, regressions, economics)
           IN  /\ OneMoreAttempt(st, after, s, kind)
               /\ SameApproval(st, after) /\ Carried(st, after)
               /\ after.regressions = regressions /\ after.economics = economics
               /\ after.status = st.status
<1> DEFINE stages   == [st.stages EXCEPT ![s] = finished]
           after    == Recorded(st, s, finished, regressions, economics)
<1>1. after = [st EXCEPT !.regressions = regressions, !.economics = economics,
                         !.stages = stages]
  BY DEF IsState, Recorded
<1>2. stages[s] = finished /\ \A t \in StageIds \ {s} : stages[t] = st.stages[t]
  BY DEF IsState
<1> HIDE DEF stages, after
<1>3. /\ after.stages = stages /\ after.status = st.status
      /\ SameApproval(st, after) /\ Carried(st, after)
      /\ after.regressions = regressions /\ after.economics = economics
  BY <1>1 DEF IsState, SameApproval, Carried
<1>4. OneMoreAttempt(st, after, s, kind)
  BY <1>2, <1>3 DEF OneMoreAttempt, PassedIn, Extends
<1> QED
  BY <1>3, <1>4 DEF after

\* A sent-back target keeps its attempts; the approval is dropped.
LEMMA RegressionTargetKeeps ==
    ASSUME NEW st, IsState(st), NEW target \in StageIds, NEW findings, NEW handoff
    PROVE  LET after == ResetRegressionTarget(st, target, findings, handoff)
           IN  /\ SameAttempts(st, after) /\ Unapproved(after) /\ Carried(st, after)
               /\ after.regressions = st.regressions /\ after.economics = st.economics
               /\ after.status = st.status
<1> DEFINE reset  == ResetStage(st.stages[target], findings, handoff)
           stages == [st.stages EXCEPT ![target] = reset]
           after  == ResetRegressionTarget(st, target, findings, handoff)
<1>1. after = [st EXCEPT !.checkpoint = NoCheckpoint, !.receipt = NoReceipt,
                         !.stages = stages]
  BY DEF ResetRegressionTarget, WithoutApproval, IsState
<1>2. /\ reset.history = st.stages[target].history
      /\ reset.attempts = st.stages[target].attempts /\ reset.status = "pending"
  BY DEF ResetStage
<1>3. stages[target] = reset /\ \A t \in StageIds \ {target} : stages[t] = st.stages[t]
  BY DEF IsState
<1> HIDE DEF reset, stages, after
<1>4. /\ after.stages = stages /\ after.status = st.status
      /\ after.checkpoint = NoCheckpoint /\ after.receipt = NoReceipt
      /\ Carried(st, after)
      /\ after.regressions = st.regressions /\ after.economics = st.economics
  BY <1>1 DEF IsState, Carried
<1>5. SameAttempts(st, after)
  BY <1>2, <1>3, <1>4 DEF SameAttempts, PassedIn
<1> QED
  BY <1>4, <1>5 DEF after, Unapproved, HasCheckpoint, HasReceipt

LEMMA SuccessorHandoffKeeps ==
    ASSUME NEW st, IsState(st), NEW s \in StageIds, NEW handoff
    PROVE  LET after == ReplaceSuccessorHandoff(st, s, handoff)
           IN  /\ SameAttempts(st, after) /\ SameApproval(st, after) /\ Carried(st, after)
               /\ after.regressions = st.regressions /\ after.economics = st.economics
               /\ after.status = st.status
<1> DEFINE stages == [st.stages EXCEPT ![s].handoff = handoff]
           after  == ReplaceSuccessorHandoff(st, s, handoff)
<1>1. after = [st EXCEPT !.stages = stages]
  BY DEF ReplaceSuccessorHandoff, IsState
<1>2. \A t \in StageIds : /\ stages[t].history = st.stages[t].history
                          /\ stages[t].attempts = st.stages[t].attempts
                          /\ stages[t].status = st.stages[t].status
  BY DEF IsState, StageStateType
<1> HIDE DEF stages, after
<1>3. /\ after.stages = stages /\ after.status = st.status
      /\ SameApproval(st, after) /\ Carried(st, after)
      /\ after.regressions = st.regressions /\ after.economics = st.economics
  BY <1>1 DEF IsState, SameApproval, Carried
<1>4. SameAttempts(st, after)
  BY <1>2, <1>3 DEF SameAttempts, PassedIn
<1> QED
  BY <1>3, <1>4 DEF after

\* Adding an attempt, then changing none.
LEMMA OneMoreThenSame ==
    ASSUME NEW a, NEW b, NEW c, NEW s \in StageIds, NEW kind,
           OneMoreAttempt(a, b, s, kind), SameAttempts(b, c)
    PROVE  OneMoreAttempt(a, c, s, kind)
<1>1. PICK usage : b.stages[s].history =
        Append(a.stages[s].history,
               [attempt |-> a.stages[s].attempts + 1, kind |-> kind, usage |-> usage])
  BY DEF OneMoreAttempt
<1>2. c.stages[s].history =
        Append(a.stages[s].history,
               [attempt |-> a.stages[s].attempts + 1, kind |-> kind, usage |-> usage])
  BY <1>1 DEF SameAttempts
<1> QED
  BY <1>2 DEF OneMoreAttempt, SameAttempts

\* What an evaluation says of the verdict it comes from: only a rejected gate is
\* sent back, at the price of one regression below the ceiling.
IsCharged(e, regressions, max) ==
    /\ e.decision.passed => e.decision.kind = "passed"
    /\ e.route.action = "regress" =>
         /\ e.decision.kind = "gate-failed" /\ regressions < max
         /\ e.route.regressions = regressions + 1
    /\ e.route.action # "regress" => e.route.regressions = regressions

LEMMA EvaluationCharges ==
    ASSUME NEW s \in StageIds, NEW r \in ResultType, NEW regressions \in Nat, NEW max \in Nat,
           NEW budget, NEW spent
    PROVE  LET e == EvaluateStageExecution(s, r, regressions, max, budget, spent)
           IN  /\ IsCharged(e, regressions, max)
               /\ e.decision.usage = r.usage
               /\ StageFailureOutcome(e) = "none" => RunBudgetPassed(budget, spent)
<1> DEFINE d == CheckStageDecision(s, r)
           e == EvaluateStageExecution(s, r, regressions, max, budget, spent)
<1>1. d.passed <=> d.kind = "passed"
  BY DEF CheckStageDecision
<1>2. d.usage = r.usage
  BY DEF CheckStageDecision
<1> HIDE DEF d
<1>3. /\ e.decision = d /\ e.route = RouteStageDecision(s, d, regressions, max)
      /\ e.budgetOk <=> (StageBudgetPassed(s, d.usage) /\ RunBudgetPassed(budget, spent))
  BY DEF EvaluateStageExecution, d
<1> HIDE DEF e
<1>4. IsCharged(e, regressions, max)
  <2>1. CASE d.passed
    BY <1>1, <1>3, <2>1 DEF IsCharged, RouteStageDecision, PassedRoute
  <2>2. CASE ~d.passed /\ d.kind # "gate-failed"
    BY <1>3, <2>2 DEF IsCharged, RouteStageDecision, FailRoute
  <2>3. CASE ~d.passed /\ d.kind = "gate-failed"
    <3>1. e.route = GateFailedRoute(s, regressions, max)
      BY <1>3, <2>3 DEF RouteStageDecision
    <3>2. \/ e.route = FailRoute(regressions)
          \/ /\ regressions < max
             /\ e.route = [action |-> "regress", next |-> StageDefs[s].onFail,
                           regressions |-> regressions + 1]
      BY <3>1 DEF GateFailedRoute
    <3> QED
      BY <1>3, <2>3, <3>2 DEF IsCharged, FailRoute
  <2> QED
    BY <2>1, <2>2, <2>3
<1>5. StageFailureOutcome(e) = "none" => RunBudgetPassed(budget, spent)
  BY <1>3 DEF StageFailureOutcome
<1> QED
  BY <1>2, <1>3, <1>4, <1>5 DEF e

\* Settling a stage adds its attempt; a regression drops the approval, any other
\* route keeps it.
LEMMA ApplyStageOutcomeRecords ==
    ASSUME NEW st, IsState(st), Orderly(st), NEW s \in StageIds, Reached(st, s),
           NEW e, IsEvaluation(s, e), NEW max, IsCharged(e, st.regressions, max), NEW hasPayload
    PROVE  LET after == ApplyStageOutcome(st, s, e, hasPayload)
           IN  /\ OneMoreAttempt(st, after, s, e.decision.kind) /\ Carried(st, after)
               /\ IF e.route.action = "regress" THEN Unapproved(after)
                  ELSE SameApproval(st, after)
               /\ after.regressions = e.route.regressions
               /\ after.economics = AccumulateEconomics(st.economics, e.decision.usage)
               /\ Booked(st, after, s)
               /\ after.status = st.status
<1> DEFINE previous == st.stages[s]
           this     == [stage |-> s, attempt |-> previous.attempts + 1]
           handoff  == IF hasPayload THEN this ELSE NoOrigin
           findings == IF e.decision.findings THEN this ELSE NoOrigin
           finished == FinishedStage(previous, e.decision.passed, e.decision.kind,
                                     e.decision.usage)
           spent    == AccumulateEconomics(st.economics, e.decision.usage)
           base     == Recorded(st, s, finished, e.route.regressions, spent)
           after    == ApplyStageOutcome(st, s, e, hasPayload)
<1>1. previous \in StageStateType
  BY DEF IsState
<1>2. /\ finished \in StageStateType
      /\ finished.status = IF e.decision.passed THEN "passed" ELSE "failed"
  BY <1>1, FinishedStageType DEF IsEvaluation
<1>3. /\ e.route.regressions \in Nat /\ e.decision.passed \in BOOLEAN
      /\ e.decision.kind \in DecisionKinds /\ e.decision.usage \in Nat \cup {Absent}
      /\ e.decision.passed => e.decision.kind = "passed"
  BY DEF IsEvaluation, IsCharged
<1>4. after = IF e.route.action = "regress"
              THEN ResetRegressionTarget(base, e.route.next, findings, handoff)
              ELSE IF e.route.next = NoStage THEN base
              ELSE ReplaceSuccessorHandoff(base, e.route.next, handoff)
  BY DEF ApplyStageOutcome, Recorded, IsState
<1>5. /\ OneMoreAttempt(st, base, s, e.decision.kind)
      /\ SameApproval(st, base) /\ Carried(st, base)
      /\ base.regressions = e.route.regressions /\ base.economics = spent
      /\ base.status = st.status
  <2>1. Extends(previous, finished, e.decision.kind)
    BY <1>3, FinishedStageExtends
  <2> HIDE DEF finished, spent
  <2> QED
    BY <2>1, RecordedIsOneMore
<1>8. Last(base.stages[s].history).usage = e.decision.usage
  <2>1. Last(finished.history).usage = e.decision.usage
    <3> DEFINE x == [attempt |-> previous.attempts + 1, kind |-> e.decision.kind,
                     usage |-> e.decision.usage]
    <3>1. finished.history = Append(previous.history, x) /\ x.usage = e.decision.usage
      BY DEF FinishedStage
    <3>2. previous.history \in Seq(Attempt)
      BY <1>1 DEF StageStateType
    <3> HIDE DEF x, finished, previous
    <3> QED
      BY <3>1, <3>2, LastAppended
  <2>2. base.stages[s] = finished
    <3> HIDE DEF finished, spent
    <3> QED
      BY DEF Recorded, IsState
  <2> QED
    BY <2>1, <2>2
<1> HIDE DEF this, handoff, findings, finished, spent, after
<1>6. IsState(base)
  BY <1>2, <1>3, StageFinished
<1> HIDE DEF base
<1>7. e.route.next \in {NoStage} \cup StageIds
      /\ (e.route.action = "regress" => e.route.next \in StageIds)
  BY StagesAreNumbered DEF IsEvaluation, StageIds
<1>9. after.stages[s].history = base.stages[s].history
  <2>1. CASE e.route.action = "regress"
    BY <1>4, <1>6, <1>7, <2>1, RegressionTargetKeeps DEF SameAttempts
  <2>2. CASE e.route.action # "regress" /\ e.route.next = NoStage
    BY <1>4, <2>2
  <2>3. CASE e.route.action # "regress" /\ e.route.next # NoStage
    BY <1>4, <1>6, <1>7, <2>3, SuccessorHandoffKeeps DEF SameAttempts
  <2> QED
    BY <2>1, <2>2, <2>3
<1>10. LatestUsage(after, s) = e.decision.usage
  BY <1>8, <1>9 DEF LatestUsage
<1>11. CASE e.route.action = "regress"
  <2>1. after = ResetRegressionTarget(base, e.route.next, findings, handoff)
    BY <1>4, <1>11
  <2>2. /\ SameAttempts(base, after) /\ Unapproved(after) /\ Carried(base, after)
        /\ after.regressions = base.regressions /\ after.economics = base.economics
        /\ after.status = base.status
    BY <1>6, <1>7, <1>11, <2>1, RegressionTargetKeeps
  <2>3. OneMoreAttempt(st, after, s, e.decision.kind)
    BY <1>5, <2>2, OneMoreThenSame
  <2> QED
    BY <1>5, <1>11, <1>10, <2>2, <2>3 DEF Booked, Carried, after, spent
<1>12. CASE e.route.action # "regress" /\ e.route.next = NoStage
  <2>1. after = base
    BY <1>4, <1>12
  <2> QED
    BY <1>5, <1>12, <1>10, <2>1 DEF Booked, after, spent
<1>13. CASE e.route.action # "regress" /\ e.route.next # NoStage
  <2>1. after = ReplaceSuccessorHandoff(base, e.route.next, handoff)
    BY <1>4, <1>13
  <2>2. /\ SameAttempts(base, after) /\ SameApproval(base, after) /\ Carried(base, after)
        /\ after.regressions = base.regressions /\ after.economics = base.economics
        /\ after.status = base.status
    BY <1>6, <1>7, <1>13, <2>1, SuccessorHandoffKeeps
  <2>3. OneMoreAttempt(st, after, s, e.decision.kind)
    BY <1>5, <2>2, OneMoreThenSame
  <2> QED
    BY <1>5, <1>13, <1>10, <2>2, <2>3 DEF Booked, Carried, SameApproval, after, spent
<1> QED
  BY <1>11, <1>12, <1>13

LEMMA ApplyExecutorErrorRecords ==
    ASSUME NEW st, IsState(st), NEW s \in StageIds
    PROVE  LET after == ApplyExecutorError(st, s)
           IN  /\ OneMoreAttempt(st, after, s, "failed") /\ Carried(st, after)
               /\ SameApproval(st, after)
               /\ after.regressions = st.regressions /\ after.economics = st.economics
               /\ Booked(st, after, s)
               /\ after.status = st.status
<1> DEFINE finished == FinishedStage(st.stages[s], FALSE, "failed", Absent)
           after    == ApplyExecutorError(st, s)
<1>1. Extends(st.stages[s], finished, "failed")
  BY DEF Extends, FinishedStage
<1>2. after = Recorded(st, s, finished, st.regressions, st.economics)
  BY DEF ApplyExecutorError, Recorded, IsState
<1>3. Last(finished.history).usage = Absent
  <2> DEFINE h == st.stages[s].history
             x == [attempt |-> st.stages[s].attempts + 1, kind |-> "failed", usage |-> Absent]
  <2>1. finished.history = Append(h, x) /\ x.usage = Absent
    BY DEF FinishedStage
  <2>2. h \in Seq(Attempt)
    BY DEF IsState, StageStateType
  <2> HIDE DEF x, finished, h
  <2> QED
    BY <2>1, <2>2, LastAppended
<1> HIDE DEF finished, after
<1>4. after.stages[s] = finished
  BY <1>2 DEF Recorded, IsState
<1>5. after.economics = st.economics
  BY <1>1, <1>2, RecordedIsOneMore
<1>6. Booked(st, after, s)
  BY <1>3, <1>4, <1>5 DEF Booked, LatestUsage, AccumulateEconomics
<1> QED
  BY <1>1, <1>2, <1>6, RecordedIsOneMore DEF after

-----------------------------------------------------------------------------
(* What approvals, resets and corrections do to the evidence *)

LEMMA SameStagesArchive ==
    ASSUME NEW a, NEW b, b.stages = a.stages, b.superseded = a.superseded,
           NEW i, Archived(a, i)
    PROVE  Archived(b, i)
  BY DEF Archived, GateInHistory, PassedIn

\* A checkpoint is raised to a version that may hold it, except in a version-1
\* state that is not being worked on.
LEMMA VersionForApproval ==
    ASSUME NEW st, IsState(st), Accounted(st)
    PROVE  LET version == ScopeAttachmentFeatureVersion(st)
           IN  /\ version \in 1..RunnerFeatureVersion
               /\ version >= st.version
               /\ st.version = RunnerFeatureVersion => version = RunnerFeatureVersion
               /\ HasCheckpoint(st) \/ st.status \in {"pending", "running"} =>
                    version \in {ReceiptIntroducedFeatureVersion, RunnerFeatureVersion}
<1>1. st.version \in 1..3
  BY DEF IsState, RunnerFeatureVersion
<1>2. HasReceipt(st) => HasCheckpoint(st)
  BY DEF Accounted
<1>3. HasCheckpoint(st) => st.version \in {2, 3}
  BY DEF Accounted, RunnerFeatureVersion, ReceiptIntroducedFeatureVersion
<1> QED
  BY <1>1, <1>2, <1>3
     DEF ScopeAttachmentFeatureVersion, RunnerFeatureVersion, ReceiptIntroducedFeatureVersion

\* A checkpoint of the latest attempt of a passed stage.
LEMMA AttachReviewCheckpointAccounted ==
    ASSUME NEW st, IsState(st), Accounted(st), NEW c \in CheckpointType, c.stage \in StageIds,
           ~HasReceipt(st), c.attempt = st.stages[c.stage].attempts,
           \A i \in DOMAIN st.superseded : st.superseded[i].by <= c.run
    PROVE  LET after == AttachReviewCheckpoint(st, c)
           IN  /\ SameAttempts(st, after) /\ after.checkpoint = c /\ after.receipt = NoReceipt
               /\ HasCheckpoint(after)
               /\ after.superseded = st.superseded /\ after.version >= st.version
               /\ after.regressions = st.regressions /\ after.economics = st.economics
               /\ after.status = st.status /\ after.stages = st.stages
               /\ HasCheckpoint(st) \/ st.status \in {"pending", "running"} => Accounted(after)
               /\ IsPipelineState(after) => Accounted(after)
<1> DEFINE version == ScopeAttachmentFeatureVersion(st)
           after   == AttachReviewCheckpoint(st, c)
<1>1. after = [st EXCEPT !.version = version, !.checkpoint = c, !.receipt = NoReceipt]
  BY DEF AttachReviewCheckpoint
<1>2. /\ version >= st.version
      /\ st.version = RunnerFeatureVersion => version = RunnerFeatureVersion
      /\ HasCheckpoint(st) \/ st.status \in {"pending", "running"} =>
           version \in {ReceiptIntroducedFeatureVersion, RunnerFeatureVersion}
  BY VersionForApproval
<1> HIDE DEF version, after
<1>3. /\ after.stages = st.stages /\ after.checkpoint = c /\ after.receipt = NoReceipt
      /\ after.superseded = st.superseded /\ after.version = version
      /\ after.regressions = st.regressions /\ after.economics = st.economics
      /\ after.status = st.status
  BY <1>1 DEF IsState
<1>4. SameAttempts(st, after)
  BY <1>3 DEF SameAttempts, PassedIn
<1>5. HasCheckpoint(after) /\ ~HasReceipt(after)
  BY <1>3, StagesAreNumbered DEF HasCheckpoint, HasReceipt, NoCheckpoint
<1>6. st.status # "done"
  BY DEF Accounted
<1>7. \A i \in DOMAIN after.superseded : Archived(after, i)
  <2>1. \A i \in DOMAIN st.superseded : Archived(st, i)
    BY DEF Accounted
  <2> QED
    BY <1>3, <2>1, SameStagesArchive
<1>8. ASSUME version \in {ReceiptIntroducedFeatureVersion, RunnerFeatureVersion}
      PROVE  Accounted(after)
  BY <1>2, <1>3, <1>5, <1>6, <1>7, <1>8 DEF Accounted
<1>9. IsPipelineState(after) =>
        version \in {ReceiptIntroducedFeatureVersion, RunnerFeatureVersion}
  BY <1>3, <1>5 DEF IsPipelineState, VersionsFit
<1> QED
  BY <1>2, <1>3, <1>4, <1>5, <1>8, <1>9 DEF after

\* A receipt confirms the standing checkpoint, or comes with its own.
LEMMA AttachFinalScopeReceiptAccounted ==
    ASSUME NEW st, IsState(st), Accounted(st), NEW r \in ReceiptType, r.stage \in StageIds,
           r.final = <<r.code, r.docs>>,
           HasCheckpoint(st) => CheckpointOf(r) = st.checkpoint,
           ~HasCheckpoint(st) =>
             /\ r.attempt = st.stages[r.stage].attempts
             /\ \A i \in DOMAIN st.superseded : st.superseded[i].by <= r.run
    PROVE  LET after == AttachFinalScopeReceipt(st, r)
           IN  /\ SameAttempts(st, after)
               /\ after.checkpoint = CheckpointOf(r) /\ after.receipt = r
               /\ HasCheckpoint(after) /\ HasReceipt(after)
               /\ after.superseded = st.superseded /\ after.version >= st.version
               /\ after.regressions = st.regressions /\ after.economics = st.economics
               /\ after.status = st.status /\ after.stages = st.stages
               /\ \/ HasCheckpoint(st) \/ st.status \in {"pending", "running"}
                  \/ st.version # 1
                  => Accounted(after)
               /\ IsPipelineState(after) => Accounted(after)
<1> DEFINE version == ScopeAttachmentFeatureVersion(st)
           after   == AttachFinalScopeReceipt(st, r)
<1>1. after = [st EXCEPT !.version = version, !.checkpoint = CheckpointOf(r), !.receipt = r]
  BY DEF AttachFinalScopeReceipt, IsState
<1>2. /\ version \in 1..RunnerFeatureVersion /\ version >= st.version
      /\ st.version = RunnerFeatureVersion => version = RunnerFeatureVersion
      /\ HasCheckpoint(st) \/ st.status \in {"pending", "running"} =>
           version \in {ReceiptIntroducedFeatureVersion, RunnerFeatureVersion}
  BY VersionForApproval
<1>3. CheckpointOf(r).stage = r.stage /\ CheckpointOf(r).attempt = r.attempt
      /\ CheckpointOf(r).run = r.run
  BY DEF CheckpointOf
<1> HIDE DEF version, after
<1>4. /\ after.stages = st.stages /\ after.checkpoint = CheckpointOf(r) /\ after.receipt = r
      /\ after.superseded = st.superseded /\ after.version = version
      /\ after.regressions = st.regressions /\ after.economics = st.economics
      /\ after.status = st.status
  BY <1>1 DEF IsState
<1>5. SameAttempts(st, after)
  BY <1>4 DEF SameAttempts, PassedIn
<1>6. r # NoReceipt /\ CheckpointOf(r) # NoCheckpoint
  BY <1>3, StagesAreNumbered DEF NoCheckpoint, NoReceipt
<1>7. HasCheckpoint(after) /\ HasReceipt(after)
  BY <1>4, <1>6 DEF HasCheckpoint, HasReceipt
<1>8. \A i \in DOMAIN after.superseded : Archived(after, i)
  <2>1. \A i \in DOMAIN st.superseded : Archived(st, i)
    BY DEF Accounted
  <2> QED
    BY <1>4, <2>1, SameStagesArchive
<1>9. /\ r.attempt = st.stages[r.stage].attempts
      /\ \A i \in DOMAIN st.superseded : st.superseded[i].by <= r.run
  BY <1>3 DEF Accounted
<1>10. ASSUME version \in {ReceiptIntroducedFeatureVersion, RunnerFeatureVersion}
       PROVE  Accounted(after)
  BY <1>2, <1>3, <1>4, <1>7, <1>8, <1>9, <1>10 DEF Accounted
<1>11. IsPipelineState(after) =>
        version \in {ReceiptIntroducedFeatureVersion, RunnerFeatureVersion}
  BY <1>4, <1>7 DEF IsPipelineState, VersionsFit
<1>12. st.version # 1 => version \in {ReceiptIntroducedFeatureVersion, RunnerFeatureVersion}
  BY <1>2 DEF IsState, RunnerFeatureVersion, ReceiptIntroducedFeatureVersion
<1> QED
  BY <1>2, <1>4, <1>5, <1>7, <1>10, <1>11, <1>12 DEF after

LEMMA FinalizeStateKeeps ==
    ASSUME NEW st, IsState(st), NEW status
    PROVE  LET after == FinalizeState(st, status)
           IN  /\ SameAttempts(st, after) /\ SameApproval(st, after) /\ Carried(st, after)
               /\ after.regressions = st.regressions /\ after.economics = st.economics
               /\ after.status = status
<1> DEFINE after == FinalizeState(st, status)
<1>1. after = [st EXCEPT !.status = status, !.current = NoStage, !.finished = TRUE]
  BY DEF FinalizeState
<1> HIDE DEF after
<1>2. /\ after.stages = st.stages /\ after.status = status
      /\ SameApproval(st, after) /\ Carried(st, after)
      /\ after.regressions = st.regressions /\ after.economics = st.economics
  BY <1>1 DEF IsState, SameApproval, Carried
<1> QED
  BY <1>2 DEF SameAttempts, PassedIn, after

\* Resetting a stage and what comes after it keeps every attempt.
LEMMA ResetDownstreamKeeps ==
    ASSUME NEW st, IsState(st), NEW target, NEW findings
    PROVE  LET after == ResetStageAndDownstream(st, target, findings)
           IN  /\ SameAttempts(st, after) /\ Unapproved(after) /\ Carried(st, after)
               /\ after.regressions = st.regressions /\ after.economics = st.economics
               /\ after.status = "running"
<1> DEFINE stages == [s \in StageIds |->
                        IF s < target THEN st.stages[s]
                        ELSE ResetStage(st.stages[s],
                                        IF s = target THEN findings ELSE NoOrigin, NoOrigin)]
           after  == ResetStageAndDownstream(st, target, findings)
<1>1. after = [st EXCEPT !.checkpoint = NoCheckpoint, !.receipt = NoReceipt,
                         !.status = "running", !.current = NoStage, !.finished = FALSE,
                         !.stages = stages]
  BY DEF ResetStageAndDownstream, WithoutApproval, IsState
<1>2. \A s \in StageIds : /\ stages[s].history = st.stages[s].history
                          /\ stages[s].attempts = st.stages[s].attempts
                          /\ stages[s].status \in {"pending", st.stages[s].status}
  BY DEF ResetStage
<1> HIDE DEF stages, after
<1>3. /\ after.stages = stages /\ after.status = "running"
      /\ after.checkpoint = NoCheckpoint /\ after.receipt = NoReceipt
      /\ Carried(st, after)
      /\ after.regressions = st.regressions /\ after.economics = st.economics
  BY <1>1 DEF IsState, Carried
<1>4. SameAttempts(st, after)
  BY <1>2, <1>3 DEF SameAttempts, PassedIn
<1> QED
  BY <1>3, <1>4 DEF after, Unapproved, HasCheckpoint, HasReceipt

LEMMA InvalidateReviewApprovalKeeps ==
    ASSUME NEW st, IsState(st), NEW review
    PROVE  LET after == InvalidateReviewApproval(st, review)
           IN  /\ SameAttempts(st, after) /\ Unapproved(after) /\ Carried(st, after)
               /\ after.regressions = st.regressions + 1 /\ after.economics = st.economics
               /\ after.status = "running"
<1> DEFINE charged == [st EXCEPT !.regressions = @ + 1]
           after   == InvalidateReviewApproval(st, review)
<1>1. /\ IsState(charged) /\ charged.stages = st.stages /\ charged.economics = st.economics
      /\ charged.regressions = st.regressions + 1 /\ Carried(st, charged)
  BY DEF IsState, Carried
<1>2. after = ResetStageAndDownstream(charged, review, NoOrigin)
  BY DEF InvalidateReviewApproval, ResetReviewAndDownstream
<1> HIDE DEF charged, after
<1>3. /\ SameAttempts(charged, after) /\ Unapproved(after) /\ Carried(charged, after)
      /\ after.regressions = charged.regressions /\ after.economics = charged.economics
      /\ after.status = "running"
  BY <1>1, <1>2, ResetDownstreamKeeps
<1> QED
  BY <1>1, <1>3 DEF SameAttempts, Carried, PassedIn, after

\* Reconciling an accounted state keeps its evidence.
LEMMA ReconcilePipelineStateKeeps ==
    ASSUME NEW st, IsState(st), Accounted(st)
    PROVE  LET after == ReconcilePipelineState(st)
           IN  /\ SameAttempts(st, after) /\ SameApproval(st, after) /\ Carried(st, after)
               /\ after.regressions = st.regressions
               /\ after.economics = RecomputeEconomics(after.stages)
               /\ after.status = "done" <=> st.status = "done"
<1> DEFINE status    == IF st.status = "running" THEN "pending" ELSE st.status
           stages    == [s \in StageIds |-> RepairStage(st.stages[s])]
           current   == IF status \in TerminalStatuses THEN NoStage ELSE st.current
           finished  == status \in TerminalStatuses
           economics == RecomputeEconomics(stages)
           after     == ReconcilePipelineState(st)
<1>1. after = [st EXCEPT !.status = status, !.stages = stages, !.current = current,
                         !.finished = finished, !.economics = economics]
  BY DEF ReconcilePipelineState, IsState
<1>2. ASSUME NEW s \in StageIds
      PROVE  /\ stages[s].history = st.stages[s].history
             /\ stages[s].attempts = st.stages[s].attempts
             /\ stages[s].status = "passed" => st.stages[s].status = "passed"
  <2>1. st.stages[s] \in StageStateType /\ Numbered(st.stages[s])
    BY DEF IsState, Accounted
  <2> DEFINE now    == IF st.stages[s].status = "running" THEN "pending"
                       ELSE st.stages[s].status
             length == Len(st.stages[s].history)
  <2>2. RepairStage(st.stages[s]) = [st.stages[s] EXCEPT !.status = now, !.attempts = length]
    BY <2>1 DEF RepairStage, StageStateType
  <2>3. length = st.stages[s].attempts
    BY <2>1 DEF Numbered
  <2> HIDE DEF length
  <2> QED
    BY <2>1, <2>2, <2>3 DEF StageStateType
<1>3. (status = "done") <=> (st.status = "done")
  OBVIOUS
<1> HIDE DEF status, stages, current, finished, economics, after
<1>4. /\ after.stages = stages /\ after.status = status
      /\ SameApproval(st, after) /\ Carried(st, after)
      /\ after.regressions = st.regressions /\ after.economics = economics
  BY <1>1 DEF IsState, SameApproval, Carried
<1>5. SameAttempts(st, after)
  BY <1>2, <1>4 DEF SameAttempts, PassedIn
<1>6. after.economics = RecomputeEconomics(after.stages)
  BY <1>4 DEF economics
<1> QED
  BY <1>3, <1>4, <1>5, <1>6 DEF after

\* A correction archives the active receipt behind the ones before it.
LEMMA ApplyTerminalCorrectionAccounted ==
    ASSUME NEW st, IsState(st), Orderly(st), Accounted(st), NEW target \in StageIds,
           target <= st.receipt.stage, HasReceipt(st),
           NEW reason \in Nat, NEW by \in Nat, st.receipt.run < by
    PROVE  LET after == ApplyTerminalCorrection(st, target, reason, by)
               entry == [sequence |-> Len(st.superseded) + 1, expected |-> st.receipt.run,
                         reason |-> reason, target |-> target, by |-> by,
                         receipt |-> st.receipt]
           IN  /\ SameAttempts(st, after) /\ Unapproved(after)
               /\ after.version = RunnerFeatureVersion
               /\ after.superseded = Append(st.superseded, entry)
               /\ after.regressions = st.regressions /\ after.economics = st.economics
               /\ after.status = "running"
               /\ Accounted(after)
<1> DEFINE sequence == Len(st.superseded) + 1
           entry    == [sequence |-> sequence, expected |-> st.receipt.run, reason |-> reason,
                        target |-> target, by |-> by, receipt |-> st.receipt]
           findings == [stage |-> NoStage, attempt |-> sequence]
           reset    == ResetStageAndDownstream(st, target, findings)
           ledger   == Append(st.superseded, entry)
           after    == ApplyTerminalCorrection(st, target, reason, by)
           n        == Len(st.superseded)
<1>1. after = [reset EXCEPT !.version = RunnerFeatureVersion, !.superseded = ledger]
  BY DEF ApplyTerminalCorrection
<1>2. st.superseded \in Seq(SupersededType) /\ n \in Nat /\ DOMAIN st.superseded = 1..n
      /\ \A i \in DOMAIN st.superseded : st.superseded[i] \in SupersededType
  BY LedgerFacts
<1>3. findings \in Origin
  BY <1>2 DEF Origin, NoStage
<1>4. /\ entry.sequence = n + 1 /\ entry.expected = st.receipt.run /\ entry.by = by
      /\ entry.receipt = st.receipt
  OBVIOUS
<1>5. st.receipt \in ReceiptType
  BY DEF IsState
<1> HIDE DEF entry, findings
<1>6. /\ DOMAIN ledger = 1..(n + 1) /\ ledger[n + 1] = entry
      /\ \A i \in 1..n : ledger[i] = st.superseded[i]
  BY <1>2
<1>7. IsState(reset) /\ \A t \in StageIds : t >= target => reset.stages[t].status = "pending"
  BY <1>3, ResetStageAndDownstreamOrderly
<1>8. /\ SameAttempts(st, reset) /\ Unapproved(reset) /\ Carried(st, reset)
      /\ reset.regressions = st.regressions /\ reset.economics = st.economics
      /\ reset.status = "running"
  BY ResetDownstreamKeeps
<1>9. Accounted(reset)
  BY <1>7, <1>8, KeptIsAccounted DEF Carried
<1> HIDE DEF reset, ledger, after, n
<1>10. /\ after.stages = reset.stages /\ after.superseded = ledger
       /\ after.version = RunnerFeatureVersion /\ after.status = "running"
       /\ after.checkpoint = reset.checkpoint /\ after.receipt = reset.receipt
       /\ after.regressions = st.regressions /\ after.economics = st.economics
  BY <1>1, <1>7, <1>8 DEF IsState
<1>11. SameAttempts(st, after) /\ Unapproved(after)
  BY <1>8, <1>10 DEF SameAttempts, PassedIn, Unapproved, HasCheckpoint, HasReceipt
<1>12. HasCheckpoint(st) /\ st.checkpoint = CheckpointOf(st.receipt)
  BY DEF Accounted
<1>13. /\ st.checkpoint.stage = st.receipt.stage /\ st.checkpoint.attempt = st.receipt.attempt
       /\ st.checkpoint.run = st.receipt.run
  BY <1>12 DEF CheckpointOf
<1>14. Archived(after, n + 1)
  <2>1. GateInHistory(st.receipt, st)
    <3>1. GateIsCurrent(st.checkpoint, st)
      BY <1>12, AccountedIsAccepted DEF IsPipelineState, ReceiptIntegrity
    <3> QED
      BY <1>13, <3>1 DEF GateIsCurrent, GateInHistory
  <2>2. st.receipt.stage \in StageIds
    BY <2>1 DEF GateInHistory
  <2>3. GateInHistory(st.receipt, after)
    BY <1>11, <2>1, <2>2 DEF GateInHistory, SameAttempts
  <2>4. ~PassedIn(after, st.receipt.stage)
    BY <1>7, <1>10, <2>2, StagesAreNumbered DEF PassedIn
  <2> QED
    BY <1>4, <1>6, <1>10, <2>3, <2>4 DEF Archived
<1>15. ASSUME NEW i \in 1..n PROVE Archived(after, i)
  <2>1. i \in DOMAIN reset.superseded /\ reset.superseded = st.superseded
    BY <1>2, <1>8, <1>15 DEF Carried, n
  <2>2. Archived(reset, i)
    BY <1>9, <2>1 DEF Accounted
  <2>3. after.superseded[i] = reset.superseded[i]
    BY <1>6, <1>10, <2>1, <1>15
  <2> QED
    BY <1>10, <2>2, <2>3 DEF Archived, GateInHistory, PassedIn
<1>16. \A i \in DOMAIN after.superseded : Archived(after, i)
  <2>1. \A i \in DOMAIN after.superseded : i \in 1..n \/ i = n + 1
    BY <1>2, <1>6, <1>10 DEF n
  <2> QED
    BY <1>14, <1>15, <2>1
<1>17. ASSUME NEW i \in DOMAIN after.superseded, NEW j \in DOMAIN after.superseded, i < j
       PROVE  after.superseded[i].by <= after.superseded[j].expected
  <2>1. n \in Nat /\ DOMAIN st.superseded = 1..n
    BY <1>2 DEF n
  <2>2. i \in 1..(n + 1) /\ j \in 1..(n + 1)
    BY <1>6, <1>10
  <2>3. i \in 1..n
    BY <1>17, <2>1, <2>2
  <2>4. CASE j \in 1..n
    <3>1. st.superseded[i].by <= st.superseded[j].expected
      BY <1>17, <2>1, <2>3, <2>4 DEF Accounted
    <3> QED
      BY <1>6, <1>10, <2>3, <2>4, <3>1
  <2>5. CASE j = n + 1
    <3>1. st.superseded[i].by <= st.checkpoint.run
      BY <1>12, <2>1, <2>3 DEF Accounted
    <3> QED
      BY <1>4, <1>6, <1>10, <1>13, <2>3, <2>5, <3>1
  <2> QED
    BY <2>1, <2>2, <2>4, <2>5
<1>18. \A s \in StageIds : Numbered(after.stages[s])
  BY <1>9, <1>10 DEF Accounted
<1>19. Accounted(after)
  BY <1>10, <1>11, <1>16, <1>17, <1>18 DEF Accounted, Unapproved
<1> QED
  BY <1>10, <1>11, <1>19 DEF after, ledger, entry, sequence, n

-----------------------------------------------------------------------------
(* What a pipeline has spent.                                            *)

\* The usage of every attempt of a history, and their sum.
Usages(h) == [i \in DOMAIN h |-> UsageOf(h[i])]

SpentOn(h) == FoldSeq(LAMBDA a, spent : spent + UsageOf(a), 0, h)

LEMMA SpentOnIsSum ==
    ASSUME NEW h \in Seq(Attempt)
    PROVE  /\ IsFiniteSet(DOMAIN h) /\ \A i \in DOMAIN h : Usages(h)[i] \in Nat
           /\ SpentOn(h) = SumOver(Usages(h), DOMAIN h)
<1> DEFINE Body(sum) == [T \in SUBSET DOMAIN h |->
             IF T = {} THEN 0
             ELSE LET x == CHOOSE x \in T : TRUE IN sum[T \ {x}] + UsageOf(h[x])]
           chosen == CHOOSE sum : sum = Body(sum)
<1>1. SpentOn(h) = chosen[DOMAIN h]
  BY DEF SpentOn, FoldSeq, FoldFunction, FoldFunctionOnSet, MapThenFoldSet
<1>2. IsFiniteSet(DOMAIN h)
  <2>1. DOMAIN h = 1..Len(h) /\ Len(h) \in Nat
    OBVIOUS
  <2> QED
    BY <2>1, FS_Interval
<1>3. \A i \in DOMAIN h : Usages(h)[i] \in Nat
  <2>1. \A i \in DOMAIN h : h[i] \in Attempt
    OBVIOUS
  <2> QED
    BY <2>1 DEF Usages, UsageOf, Attempt
<1>4. ASSUME NEW sum PROVE sum = Body(sum) <=> AddsUp(sum, Usages(h), DOMAIN h)
  <2> DEFINE Other == [T \in SUBSET DOMAIN h |->
                         IF T = {} THEN 0 ELSE sum[T \ {AnyOf(T)}] + Usages(h)[AnyOf(T)]]
             Mine  == [T \in SUBSET DOMAIN h |->
                         IF T = {} THEN 0 ELSE sum[T \ {AnyOf(T)}] + UsageOf(h[AnyOf(T)])]
  <2>1. Body(sum) = Mine
    BY DEF AnyOf
  <2>2. ASSUME NEW T \in SUBSET DOMAIN h, T # {}
        PROVE  Usages(h)[AnyOf(T)] = UsageOf(h[AnyOf(T)])
    <3>1. AnyOf(T) \in DOMAIN h
      BY <2>2, AnyOfMember
    <3> QED
      BY <3>1 DEF Usages
  <2>3. Mine = Other
    BY <2>2
  <2> QED
    BY <2>1, <2>3 DEF AddsUp
<1>5. \E sum : sum = Body(sum)
  <2>1. \E sum : AddsUp(sum, Usages(h), DOMAIN h)
    BY <1>2, SumExists
  <2> HIDE DEF Body
  <2> QED
    BY <1>4, <2>1
<1>6. AddsUp(chosen, Usages(h), DOMAIN h)
  <2> HIDE DEF Body
  <2>1. chosen = Body(chosen)
    BY <1>5
  <2> QED
    BY <1>4, <2>1
<1> HIDE DEF chosen
<1> QED
  BY <1>1, <1>2, <1>3, <1>6, SumOverIs

LEMMA SpentOnNothing ==
    ASSUME NEW h \in Seq(Attempt), \A i \in DOMAIN h : h[i].usage = Absent
    PROVE  SpentOn(h) = 0
<1>1. \A i \in DOMAIN h : Usages(h)[i] = 0
  BY DEF Usages, UsageOf
<1> QED
  BY <1>1, SpentOnIsSum, SumOfNothing

\* One more attempt adds its usage.
LEMMA SpentOnAppend ==
    ASSUME NEW h \in Seq(Attempt), NEW x \in Attempt
    PROVE  /\ SpentOn(h) \in Nat
           /\ SpentOn(Append(h, x)) = SpentOn(h) + UsageOf(x)
<1> DEFINE longer == Append(h, x)
           n == Len(h) + 1
<1>1. longer \in Seq(Attempt) /\ DOMAIN h = 1..Len(h) /\ Len(h) \in Nat
      /\ DOMAIN longer = 1..n /\ longer[n] = x /\ \A i \in DOMAIN h : longer[i] = h[i]
  OBVIOUS
<1> HIDE DEF longer
<1>2. n \in DOMAIN longer /\ DOMAIN longer \ {n} = DOMAIN h
  BY <1>1
<1>3. \A i \in DOMAIN h : Usages(longer)[i] = Usages(h)[i]
  BY <1>1 DEF Usages
<1>4. SpentOn(longer) = SumOver(Usages(longer), DOMAIN longer)
      /\ SpentOn(h) = SumOver(Usages(h), DOMAIN h)
  BY <1>1, SpentOnIsSum
<1>5. SumOver(Usages(longer), DOMAIN longer)
        = SumOver(Usages(longer), DOMAIN longer \ {n}) + Usages(longer)[n]
  BY <1>1, <1>2, SpentOnIsSum, SumFacts
<1>6. SumOver(Usages(longer), DOMAIN h) = SumOver(Usages(h), DOMAIN h)
  BY <1>3, SpentOnIsSum, SumSame
<1>7. Usages(longer)[n] = UsageOf(x)
  BY <1>1, <1>2 DEF Usages
<1>8. SumOver(Usages(h), DOMAIN h) \in Nat
  BY SpentOnIsSum, SumFacts
<1> QED
  BY <1>2, <1>4, <1>5, <1>6, <1>7, <1>8 DEF longer

\* What each stage has spent.
Spending(stages) == [s \in StageIds |-> SpentOn(stages[s].history)]

LEMMA RecomputeIsSum ==
    ASSUME NEW stages, \A s \in StageIds : stages[s].history \in Seq(Attempt)
    PROVE  /\ IsFiniteSet(StageIds) /\ \A s \in StageIds : Spending(stages)[s] \in Nat
           /\ RecomputeEconomics(stages) = SumOver(Spending(stages), StageIds)
<1> DEFINE w == Spending(stages)
           Body(sum) == [T \in SUBSET StageIds |->
             IF T = {} THEN 0
             ELSE LET x == CHOOSE x \in T : TRUE
                  IN  SpentOn(stages[x].history) + sum[T \ {x}]]
           chosen == CHOOSE sum : sum = Body(sum)
<1>1. RecomputeEconomics(stages) = chosen[StageIds]
  BY DEF RecomputeEconomics, MapThenSumSet, MapThenFoldSet, SpentOn
<1>2. IsFiniteSet(StageIds)
  BY StagesAreNumbered, FS_Interval DEF StageIds
<1>3. \A s \in StageIds : w[s] \in Nat
  BY SpentOnIsSum, SumFacts DEF Spending
<1>4. ASSUME NEW sum
      PROVE  Body(sum) = [T \in SUBSET StageIds |->
                           IF T = {} THEN 0 ELSE w[AnyOf(T)] + sum[T \ {AnyOf(T)}]]
  <2> DEFINE Mine  == [T \in SUBSET StageIds |->
                         IF T = {} THEN 0
                         ELSE SpentOn(stages[AnyOf(T)].history) + sum[T \ {AnyOf(T)}]]
  <2>1. Body(sum) = Mine
    BY DEF AnyOf
  <2>2. ASSUME NEW T \in SUBSET StageIds, T # {}
        PROVE  w[AnyOf(T)] = SpentOn(stages[AnyOf(T)].history)
    <3>1. AnyOf(T) \in StageIds
      BY <2>2, AnyOfMember
    <3> QED
      BY <3>1 DEF Spending
  <2> QED
    BY <2>1, <2>2
<1>5. PICK sum : AddsUp(sum, w, StageIds)
  BY <1>2, SumExists
<1>6. sum = Body(sum)
  <2>1. ASSUME NEW T \in SUBSET StageIds, T # {}
        PROVE  w[AnyOf(T)] + sum[T \ {AnyOf(T)}] = sum[T \ {AnyOf(T)}] + w[AnyOf(T)]
    <3>1. AnyOf(T) \in StageIds
      BY <2>1, AnyOfMember
    <3>2. w[AnyOf(T)] \in Nat
      BY <1>3, <3>1
    <3>3. sum[T \ {AnyOf(T)}] \in Nat
      <4> HIDE DEF w
      <4> QED
        BY <1>2, <1>3, <1>5, SumType
    <3> QED
      BY <3>2, <3>3
  <2> HIDE DEF w, Body
  <2>2. [T \in SUBSET StageIds |-> IF T = {} THEN 0 ELSE w[AnyOf(T)] + sum[T \ {AnyOf(T)}]]
        = [T \in SUBSET StageIds |-> IF T = {} THEN 0 ELSE sum[T \ {AnyOf(T)}] + w[AnyOf(T)]]
    BY <2>1
  <2> QED
    BY <1>4, <1>5, <2>2 DEF AddsUp
<1>7. AddsUp(chosen, w, StageIds)
  <2> HIDE DEF Body, w
  <2>1. chosen = Body(chosen)
    BY <1>6
  <2> HIDE DEF chosen
  <2> QED
    BY <1>2, <1>3, <1>4, <2>1, SumReversed
<1> HIDE DEF chosen, w
<1>8. RecomputeEconomics(stages) = SumOver(w, StageIds)
  BY <1>1, <1>2, <1>7, SumOverIs
<1> QED
  BY <1>2, <1>3, <1>8 DEF w

\* What was spent depends on the histories only ...
LEMMA SameHistoriesSpendTheSame ==
    ASSUME NEW a, NEW b, \A s \in StageIds : a[s].history \in Seq(Attempt),
           \A s \in StageIds : b[s].history = a[s].history
    PROVE  /\ RecomputeEconomics(a) \in Nat
           /\ RecomputeEconomics(b) = RecomputeEconomics(a)
<1>1. \A s \in StageIds : Spending(b)[s] = Spending(a)[s]
  BY DEF Spending
<1>2. \A s \in StageIds : b[s].history \in Seq(Attempt)
  OBVIOUS
<1>3. SumOver(Spending(b), StageIds) = SumOver(Spending(a), StageIds)
  BY <1>1, RecomputeIsSum, SumSame
<1>4. SumOver(Spending(a), StageIds) \in Nat
  BY RecomputeIsSum, SumFacts
<1> QED
  BY <1>2, <1>3, <1>4, RecomputeIsSum

\* ... is nothing without a report of usage ...
LEMMA NothingIsSpent ==
    ASSUME NEW stages, \A s \in StageIds : stages[s].history \in Seq(Attempt),
           \A s \in StageIds : \A i \in DOMAIN stages[s].history :
             stages[s].history[i].usage = Absent
    PROVE  RecomputeEconomics(stages) = 0
<1>1. \A s \in StageIds : Spending(stages)[s] = 0
  BY SpentOnNothing DEF Spending
<1> QED
  BY <1>1, RecomputeIsSum, SumOfNothing

\* ... and grows with every attempt by its usage.
LEMMA OneMoreAttemptSpends ==
    ASSUME NEW a, NEW b, \A t \in StageIds : a[t].history \in Seq(Attempt),
           NEW s \in StageIds, NEW x \in Attempt,
           b[s].history = Append(a[s].history, x),
           \A t \in StageIds \ {s} : b[t].history = a[t].history
    PROVE  RecomputeEconomics(b) = AccumulateEconomics(RecomputeEconomics(a), x.usage)
<1>1. \A t \in StageIds : b[t].history \in Seq(Attempt)
  <2>1. Append(a[s].history, x) \in Seq(Attempt)
    OBVIOUS
  <2> QED
    BY <2>1
<1>2. /\ SumOver(Spending(a), StageIds)
           = SumOver(Spending(a), StageIds \ {s}) + Spending(a)[s]
      /\ SumOver(Spending(b), StageIds)
           = SumOver(Spending(b), StageIds \ {s}) + Spending(b)[s]
  BY <1>1, RecomputeIsSum, SumFacts
<1>3. IsFiniteSet(StageIds \ {s})
  BY RecomputeIsSum, FS_Subset
<1>4. SumOver(Spending(b), StageIds \ {s}) = SumOver(Spending(a), StageIds \ {s})
  <2>1. \A t \in StageIds \ {s} : Spending(b)[t] = Spending(a)[t]
    BY DEF Spending
  <2> QED
    BY <1>3, <2>1, SumSame
<1>5. Spending(b)[s] = Spending(a)[s] + UsageOf(x)
  BY SpentOnAppend DEF Spending
<1>6. SumOver(Spending(a), StageIds \ {s}) \in Nat
  <2>1. \A t \in StageIds \ {s} : Spending(a)[t] \in Nat
    BY RecomputeIsSum
  <2> QED
    BY <1>3, <2>1, SumFacts
<1>7. Spending(a)[s] \in Nat /\ UsageOf(x) \in Nat
  BY RecomputeIsSum DEF UsageOf, Attempt
<1>8. RecomputeEconomics(b) = RecomputeEconomics(a) + UsageOf(x)
  <2> DEFINE rest == SumOver(Spending(a), StageIds \ {s})
  <2>1. /\ RecomputeEconomics(a) = SumOver(Spending(a), StageIds)
        /\ RecomputeEconomics(b) = SumOver(Spending(b), StageIds)
    BY <1>1, RecomputeIsSum
  <2>2. /\ RecomputeEconomics(a) = rest + Spending(a)[s]
        /\ RecomputeEconomics(b) = rest + (Spending(a)[s] + UsageOf(x))
    BY <1>2, <1>4, <1>5, <2>1
  <2>3. rest \in Nat
    BY <1>6
  <2> HIDE DEF rest
  <2> QED
    BY <1>7, <2>2, <2>3
<1>9. RecomputeEconomics(a) \in Nat
  BY <1>2, <1>6, <1>7, RecomputeIsSum
<1> QED
  BY <1>8, <1>9 DEF AccumulateEconomics, UsageOf

-----------------------------------------------------------------------------
(* The runner *)

\* What the program point says about the state the runner works with.
Position ==
    /\ pc = "step" => AtStage(mem, cur)
    /\ pc = "exec" =>
         /\ cur # NoStage
         /\ Reached(mem, cur) /\ RunningIn(mem, cur)
         /\ mem.status = "running" /\ mem.current = cur
    /\ pc = "attest" =>
         /\ cur # NoStage
         /\ \A t \in StageIds : t <= cur => PassedIn(mem, t)
         /\ \A t \in StageIds : ~RunningIn(mem, t)
         /\ ~HasReceipt(mem)
         /\ nxt = IF cur < N THEN cur + 1 ELSE NoStage
         /\ verdict \in {"none"} \cup TerminalStatuses
    /\ pc = "finalize" => verdict \in TerminalStatuses

\* The inductive invariant.
RunnerInv ==
    /\ TypeOK
    /\ pc = "idle" => mem = NoFile
    /\ pc # "idle" => mem # NoFile /\ disk = mem
    /\ disk # NoFile => Orderly(disk)
    /\ Position

IsFile(st) == st = NoFile \/ (IsState(st) /\ Orderly(st))

-----------------------------------------------------------------------------
LEMMA NoFileIsNoState == \A st : IsState(st) => st # NoFile
  BY DEF IsState, NoFile, InitialState, PipelineStatuses

\* Leaving an invocation keeps the invariant.
LEMMA EndRunKeepsInv ==
    ASSUME RunnerInv, NEW v \in Verdicts, EndRun(v), IsFile(disk'), tree' \in Trees,
           examined' \in ExaminedType
    PROVE  RunnerInv'
<1>1. run' \in RunType
  BY DEF EndRun, NoRun, RunnerInv, TypeOK, RunType, Absent
<1>2. TypeOK'
  BY <1>1 DEF EndRun, TypeOK, IsFile, ProgramPoints
<1> QED
  BY <1>2 DEF EndRun, RunnerInv, Position, IsFile

\* So does going on with a well-formed, orderly state that is saved.
LEMMA ContinueKeepsInv ==
    ASSUME RunnerInv, NEW st, IsState(st), Orderly(st), mem' = st, disk' = st,
           pc' \in ProgramPoints \ {"idle"}, run' \in RunType,
           cur' \in {NoStage} \cup StageIds, nxt' \in {NoStage} \cup StageIds,
           verdict' \in Verdicts, tree' \in Trees, examined' \in ExaminedType,
           Position'
    PROVE  RunnerInv'
<1>1. st # NoFile
  BY NoFileIsNoState
<1>2. TypeOK'
  BY DEF TypeOK
<1> QED
  BY <1>1, <1>2 DEF RunnerInv

\* A transition either goes on with its state or is refused and ends the run.
LEMMA TransitionKeepsInv ==
    ASSUME RunnerInv, pc # "idle", NEW st, IsState(st), Orderly(st),
           tree' \in Trees, examined' \in ExaminedType,
           NEW continue, Transition(st, continue),
           continue /\ mem' = st =>
             /\ pc' \in ProgramPoints \ {"idle"} /\ run' \in RunType
             /\ cur' \in {NoStage} \cup StageIds /\ nxt' \in {NoStage} \cup StageIds
             /\ verdict' \in Verdicts
             /\ Position'
    PROVE  RunnerInv'
<1>1. CASE IsPipelineState(st)
  <2>1. mem' = st /\ disk' = st /\ continue
    BY <1>1 DEF Transition
  <2> QED
    BY <2>1, ContinueKeepsInv
<1>2. CASE ~IsPipelineState(st)
  <2>1. EndRun("invalid-state") /\ disk' = disk
    BY <1>2 DEF Transition
  <2>2. IsFile(disk') /\ "invalid-state" \in Verdicts
    BY <2>1 DEF RunnerInv, TypeOK, IsFile, Verdicts
  <2> QED
    BY <2>1, <2>2, EndRunKeepsInv
<1> QED
  BY <1>1, <1>2

-----------------------------------------------------------------------------
(* The initial states *)

LEMMA LegacyStateIsFile ==
    ASSUME NEW version \in 1..RunnerFeatureVersion, NEW k \in 0..N,
           NEW status \in {"running", "needs-attention"}
    PROVE  LET st == LegacyState(version, k, status) IN IsState(st) /\ Orderly(st)
<1> DEFINE stages   == [s \in StageIds |->
                          IF s <= k THEN FinishedStage(InitialStage, TRUE, "passed", Absent)
                          ELSE InitialStage]
           finished == status \in TerminalStatuses
           st       == LegacyState(version, k, status)
<1>1. IsState(InitialState) /\ Orderly(InitialState)
  BY InitialStateIsOrderly
<1>2. InitialStage \in StageStateType /\ InitialStage.status = "pending"
  BY <1>1, StagesAreNumbered DEF IsState, InitialState, InitialStage, StageIds
<1>3. /\ TRUE \in BOOLEAN /\ "passed" \in DecisionKinds /\ Absent \in Nat \cup {Absent}
  BY DEF DecisionKinds
<1>4. /\ FinishedStage(InitialStage, TRUE, "passed", Absent) \in StageStateType
      /\ FinishedStage(InitialStage, TRUE, "passed", Absent).status = "passed"
  BY <1>2, <1>3, FinishedStageType
<1>5. /\ stages \in [StageIds -> StageStateType]
      /\ \A s \in StageIds : stages[s].status = IF s <= k THEN "passed" ELSE "pending"
  BY <1>2, <1>4
<1>6. st = [InitialState EXCEPT !.version = version, !.status = status,
                                !.finished = finished, !.stages = stages]
  BY DEF LegacyState
<1>7. status \in PipelineStatuses /\ finished \in BOOLEAN
  BY DEF PipelineStatuses
<1> HIDE DEF stages, finished, st
<1>8. /\ IsState(st) /\ st.stages = stages /\ st.checkpoint = InitialState.checkpoint
      /\ st.receipt = InitialState.receipt
  BY <1>1, <1>5, <1>6, <1>7 DEF IsState
<1>9. ~HasCheckpoint(st) /\ ~HasReceipt(st)
  BY <1>8 DEF InitialState, HasCheckpoint, HasReceipt
<1>10. \A s \in StageIds : st.stages[s].status # "skipped" /\ ~RunningIn(st, s)
  BY <1>5, <1>8 DEF RunningIn
<1> QED
  BY <1>8, <1>9, <1>10 DEF Orderly, st

LEMMA InitInv == Init => RunnerInv
<1> SUFFICES ASSUME Init PROVE RunnerInv
  OBVIOUS
<1>1. IsFile(disk)
  <2>1. Versions \ {RunnerFeatureVersion} \subseteq 1..RunnerFeatureVersion
    BY RunnerAssumption
  <2> QED
    BY <2>1, LegacyStateIsFile DEF Init, LegacyStates, IsFile
<1>2. run \in RunType
  BY DEF Init, NoRun, RunType, Absent
<1>3. examined \in ExaminedType
  BY DEF Init, ExaminedType, NoStage
<1>4. TypeOK
  BY <1>1, <1>2, <1>3 DEF Init, TypeOK, IsFile, ProgramPoints, Verdicts
<1> QED
  BY <1>1, <1>4 DEF Init, RunnerInv, IsFile, Position

-----------------------------------------------------------------------------
(* Starting an invocation *)

LEMMA StartKeepsInv == RunnerInv /\ Start => RunnerInv'
<1> SUFFICES ASSUME RunnerInv, Start PROVE RunnerInv'
  OBVIOUS
<1>1. PICK ceiling \in Ceilings, budget \in RunBudgets,
           request \in {<<0, 0>>} \cup ((1..run.id) \X Reasons) :
             LET r == NewRun(ceiling, budget, request[1], request[2])
             IN  StartFresh(r) \/ StartResume(r) \/ StartRecovery(r) \/ StartThrows(r)
  BY DEF Start
<1> DEFINE r == NewRun(ceiling, budget, request[1], request[2])
<1>2. run.id \in Nat
  BY DEF RunnerInv, TypeOK, RunType
<1>3. request[1] \in Nat /\ request[2] \in Nat
  <2>1. CASE request = <<0, 0>>
    BY <2>1
  <2>2. CASE request \in (1..run.id) \X Reasons
    <3>1. request[1] \in 1..run.id /\ request[2] \in Reasons
      BY <2>2
    <3>2. Reasons \subseteq Nat
      BY RunnerAssumption
    <3>3. 1..run.id \subseteq Nat
      BY <1>2
    <3> QED
      BY <3>1, <3>2, <3>3
  <2> QED
    BY <2>1, <2>2
<1>4. r \in RunType
  BY <1>2, <1>3, RunnerAssumption DEF NewRun, RunType
<1>5. NoRun(r.id) \in RunType
  BY <1>4 DEF NoRun, RunType, Absent
<1>6. /\ pc = "idle" /\ tree' = tree /\ examined' = examined
      /\ tree \in Trees /\ examined \in ExaminedType
      /\ cur \in {NoStage} \cup StageIds /\ nxt \in {NoStage} \cup StageIds
  BY DEF Start, RunnerInv, TypeOK
<1> HIDE DEF r
<1>7. ASSUME NEW st, IsState(st), Orderly(st), Enter(st), run' = r, disk' = st
      PROVE  RunnerInv'
  <2>1. /\ mem' = st /\ pc' = "correct" /\ verdict' = "none" /\ cur' = cur /\ nxt' = nxt
    BY <1>7 DEF Enter
  <2>2. pc' \in ProgramPoints \ {"idle"} /\ verdict' \in Verdicts /\ Position'
    BY <2>1 DEF ProgramPoints, Verdicts, Position
  <2> QED
    BY <1>4, <1>6, <1>7, <2>1, <2>2, ContinueKeepsInv
<1>8. CASE StartFresh(r)
  BY <1>7, <1>8, InitialStateIsOrderly DEF StartFresh
<1>9. CASE StartResume(r)
  <2>1. IsState(disk) /\ Orderly(disk)
    BY <1>9 DEF StartResume, RunnerInv, TypeOK
  <2>2. IsState(disk') /\ Orderly(disk')
    BY <1>9, <2>1, ReconcilePipelineStateOrderly DEF StartResume
  <2> QED
    BY <1>7, <1>9, <2>2 DEF StartResume
<1>10. CASE StartRecovery(r)
  <2>1. IsState(disk) /\ Orderly(disk)
    BY <1>10 DEF StartRecovery, RunnerInv, TypeOK
  <2> QED
    BY <1>7, <1>10, <2>1 DEF StartRecovery
<1>11. CASE StartThrows(r)
  <2>1. /\ UNCHANGED <<disk, pc, mem, cur, nxt>>
        /\ verdict' \in Verdicts /\ run' \in RunType
    BY <1>5, <1>11 DEF StartThrows, Verdicts
  <2> QED
    BY <1>6, <2>1 DEF RunnerInv, TypeOK, Position
<1> QED
  BY <1>1, <1>8, <1>9, <1>10, <1>11 DEF r

-----------------------------------------------------------------------------
(* Correction, recovery and selection *)

\* While an invocation is alive its state is well-formed and orderly.
LEMMA LiveState ==
    ASSUME RunnerInv, pc # "idle"
    PROVE  IsState(mem) /\ Orderly(mem) /\ disk = mem
  BY DEF RunnerInv, TypeOK

LEMMA SkipCorrectionKeepsInv == RunnerInv /\ SkipCorrection => RunnerInv'
  BY DEF RunnerInv, TypeOK, SkipCorrection, ProgramPoints, Position

LEMMA RejectCorrectionKeepsInv == RunnerInv /\ RejectCorrection => RunnerInv'
<1> SUFFICES ASSUME RunnerInv, RejectCorrection PROVE RunnerInv'
  OBVIOUS
<1>1. EndRun("needs-attention") /\ UNCHANGED <<disk, tree, examined>>
  BY DEF RejectCorrection
<1>2. /\ "needs-attention" \in Verdicts /\ IsFile(disk')
      /\ tree' \in Trees /\ examined' \in ExaminedType
  BY <1>1 DEF RunnerInv, TypeOK, IsFile, Verdicts
<1> QED
  BY <1>1, <1>2, EndRunKeepsInv

LEMMA ApplyCorrectionKeepsInv == RunnerInv /\ ApplyCorrection => RunnerInv'
<1> SUFFICES ASSUME RunnerInv, ApplyCorrection PROVE RunnerInv'
  OBVIOUS
<1> DEFINE target   == CorrectionTarget(mem.receipt)
           st       == ApplyTerminalCorrection(mem, target, run.reason, run.id)
           continue == pc' = "recover" /\ UNCHANGED <<run, cur, nxt, verdict>>
<1>1. pc = "correct" /\ target # NoStage /\ Transition(st, continue)
      /\ UNCHANGED <<tree, examined>>
  BY DEF ApplyCorrection, CorrectionEligible
<1>2. target \in StageIds
  <2>1. mem.receipt.stage \in StageIds /\ target = StageDefs[mem.receipt.stage].onFail
        /\ target < mem.receipt.stage
    BY <1>1 DEF CorrectionTarget
  <2>2. target \in Nat
    BY <2>1, StagesAreNumbered DEF StageDefType
  <2> HIDE DEF target
  <2> QED
    BY <1>1, <2>1, <2>2, StagesAreNumbered DEF StageIds, NoStage
<1>3. run.reason \in Nat /\ run.id \in Nat
  BY DEF RunnerInv, TypeOK, RunType
<1>4. IsState(mem) /\ Orderly(mem)
  BY <1>1, LiveState
<1> HIDE DEF target
<1>5. IsState(st) /\ Orderly(st)
  BY <1>2, <1>3, <1>4, ApplyTerminalCorrectionOrderly
<1>6. continue =>
        /\ pc' \in ProgramPoints \ {"idle"} /\ run' \in RunType
        /\ cur' \in {NoStage} \cup StageIds /\ nxt' \in {NoStage} \cup StageIds
        /\ verdict' \in Verdicts
        /\ Position'
  BY DEF RunnerInv, TypeOK, ProgramPoints, Position
<1>7. tree' \in Trees /\ examined' \in ExaminedType /\ pc # "idle"
  BY <1>1 DEF RunnerInv, TypeOK
<1> HIDE DEF st, continue
<1> QED
  BY <1>1, <1>5, <1>6, <1>7, TransitionKeepsInv

LEMMA RecoverLegacyReviewKeepsInv == RunnerInv /\ RecoverLegacyReview => RunnerInv'
<1> SUFFICES ASSUME RunnerInv, RecoverLegacyReview PROVE RunnerInv'
  OBVIOUS
<1> DEFINE review   == Min(LegacyPassedReviews)
           st       == ResetReviewAndDownstream(mem, review)
           continue == pc' = "select" /\ UNCHANGED <<run, cur, nxt, verdict>>
<1>1. pc = "recover" /\ LegacyPassedReviews # {} /\ Transition(st, continue)
      /\ UNCHANGED <<tree, examined>>
  BY DEF RecoverLegacyReview
<1>2. review \in StageIds
  <2>1. LegacyPassedReviews \subseteq StageIds
    BY DEF LegacyPassedReviews, ReviewStages
  <2>2. PICK m \in LegacyPassedReviews : \A k \in LegacyPassedReviews : m <= k
    BY <1>1, <2>1, SmallestElement, StagesAreNumbered
  <2>3. review \in LegacyPassedReviews
    BY <2>2 DEF Min
  <2> QED
    BY <2>1, <2>3
<1>3. IsState(mem) /\ Orderly(mem)
  BY <1>1, LiveState
<1> HIDE DEF review
<1>4. NoOrigin \in Origin
  BY DEF NoOrigin, Origin, NoStage
<1>5. IsState(st) /\ Orderly(st)
  BY <1>2, <1>3, <1>4, ResetStageAndDownstreamOrderly DEF ResetReviewAndDownstream
<1>6. continue =>
        /\ pc' \in ProgramPoints \ {"idle"} /\ run' \in RunType
        /\ cur' \in {NoStage} \cup StageIds /\ nxt' \in {NoStage} \cup StageIds
        /\ verdict' \in Verdicts
        /\ Position'
  BY <1>1 DEF RunnerInv, TypeOK, ProgramPoints, Position
<1>7. tree' \in Trees /\ examined' \in ExaminedType /\ pc # "idle"
  BY <1>1 DEF RunnerInv, TypeOK
<1> HIDE DEF st, continue
<1> QED
  BY <1>1, <1>5, <1>6, <1>7, TransitionKeepsInv

LEMMA SelectStageKeepsInv == RunnerInv /\ SelectStage => RunnerInv'
<1> SUFFICES ASSUME RunnerInv, SelectStage PROVE RunnerInv'
  OBVIOUS
<1> DEFINE s == GetFirstIncompleteStage(mem)
<1>1. /\ pc \in {"recover", "select"} /\ cur' = s /\ pc' = "step"
      /\ UNCHANGED <<disk, tree, mem, run, nxt, verdict, examined>>
  BY DEF SelectStage
<1>2. IsState(mem) /\ Orderly(mem)
  BY <1>1, LiveState
<1>3. s \in {NoStage} \cup StageIds /\ AtStage(mem, s)
  BY <1>2, FirstIncompleteIsReached
<1> HIDE DEF s
<1> QED
  BY <1>1, <1>3 DEF RunnerInv, TypeOK, ProgramPoints, Position

-----------------------------------------------------------------------------
(* The stage step *)

LEMMA AbortBeforeStageKeepsInv == RunnerInv /\ AbortBeforeStage => RunnerInv'
  BY DEF RunnerInv, TypeOK, AbortBeforeStage, ProgramPoints, Position, Verdicts,
         TerminalStatuses

LEMMA BeginStageKeepsInv == RunnerInv /\ BeginStage => RunnerInv'
<1> SUFFICES ASSUME RunnerInv, BeginStage PROVE RunnerInv'
  OBVIOUS
<1> DEFINE st       == MarkStageRunning(mem, cur)
           continue == pc' = "exec" /\ UNCHANGED <<run, cur, nxt, verdict>>
<1>1. pc = "step" /\ cur # NoStage /\ Transition(st, continue) /\ UNCHANGED <<tree, examined>>
  BY DEF BeginStage
<1>2. IsState(mem) /\ Orderly(mem)
  BY <1>1, LiveState
<1>3. cur \in StageIds /\ Reached(mem, cur)
  BY <1>1 DEF RunnerInv, TypeOK, Position, AtStage
<1>4. /\ IsState(st) /\ Orderly(st)
      /\ st.status = "running" /\ st.current = cur
      /\ st.checkpoint = mem.checkpoint /\ st.receipt = mem.receipt
      /\ RunningIn(st, cur)
      /\ \A t \in StageIds \ {cur} : st.stages[t] = mem.stages[t]
  BY <1>2, <1>3, MarkStageRunningOrderly DEF Reached
<1> HIDE DEF st
<1>5. Reached(st, cur)
  BY <1>3, <1>4, StagesAreNumbered
     DEF Reached, PassedIn, RunningIn, HasCheckpoint, HasReceipt
<1>6. continue /\ mem' = st =>
        /\ pc' \in ProgramPoints \ {"idle"} /\ run' \in RunType
        /\ cur' \in {NoStage} \cup StageIds /\ nxt' \in {NoStage} \cup StageIds
        /\ verdict' \in Verdicts
        /\ Position'
  BY <1>1, <1>4, <1>5 DEF RunnerInv, TypeOK, ProgramPoints, Position
<1>7. tree' \in Trees /\ examined' \in ExaminedType /\ pc # "idle"
  BY <1>1 DEF RunnerInv, TypeOK
<1> HIDE DEF continue
<1> QED
  BY <1>1, <1>4, <1>6, <1>7, TransitionKeepsInv

LEMMA ExecutorThrowsKeepsInv == RunnerInv /\ ExecutorThrows => RunnerInv'
<1> SUFFICES ASSUME RunnerInv, ExecutorThrows PROVE RunnerInv'
  OBVIOUS
<1> DEFINE st       == ApplyExecutorError(mem, cur)
           continue == /\ pc' = "finalize" /\ verdict' = "needs-attention"
                       /\ UNCHANGED <<run, cur, nxt>>
<1>1. pc = "exec" /\ Transition(st, continue) /\ UNCHANGED <<tree, examined>>
  BY DEF ExecutorThrows
<1>2. IsState(mem) /\ Orderly(mem)
  BY <1>1, LiveState
<1>3. cur \in StageIds /\ Reached(mem, cur)
  BY <1>1 DEF RunnerInv, TypeOK, Position
<1>4. IsState(st) /\ Orderly(st)
  BY <1>2, <1>3, ApplyExecutorErrorOrderly
<1> HIDE DEF st
<1>5. continue =>
        /\ pc' \in ProgramPoints \ {"idle"} /\ run' \in RunType
        /\ cur' \in {NoStage} \cup StageIds /\ nxt' \in {NoStage} \cup StageIds
        /\ verdict' \in Verdicts
        /\ Position'
  BY DEF RunnerInv, TypeOK, ProgramPoints, Position, Verdicts, TerminalStatuses
<1>6. tree' \in Trees /\ examined' \in ExaminedType /\ pc # "idle"
  BY <1>1 DEF RunnerInv, TypeOK
<1> HIDE DEF continue
<1> QED
  BY <1>1, <1>4, <1>5, <1>6, TransitionKeepsInv

LEMMA OutcomeIsKnown ==
    ASSUME NEW s, NEW e, IsEvaluation(s, e)
    PROVE  /\ StageFailureOutcome(e) \in {"none"} \cup TerminalStatuses
           /\ StageFailureOutcome(e) \in Verdicts
           /\ StageFailureOutcome(e) = "none" =>
                e.decision.passed \/ e.route.action = "regress"
  BY DEF StageFailureOutcome, TerminalStatuses, Verdicts, IsEvaluation

LEMMA SettleStageKeepsInv == RunnerInv /\ SettleStage => RunnerInv'
<1> SUFFICES ASSUME RunnerInv, SettleStage PROVE RunnerInv'
  OBVIOUS
<1> DEFINE eval(r)  == EvaluateStageExecution(cur, r, mem.regressions, run.ceiling, run.budget,
                                              AccumulateEconomics(mem.economics, r.usage))
           moves(e) == /\ verdict' = StageFailureOutcome(e)
                       /\ nxt' = e.route.next
                       /\ \/ /\ e.decision.passed /\ IsCodeReviewStage(cur)
                             /\ pc' = "attest" /\ cur' = cur
                          \/ /\ ~(e.decision.passed /\ IsCodeReviewStage(cur))
                             /\ StageFailureOutcome(e) = "none"
                             /\ pc' = "step" /\ cur' = e.route.next
                          \/ /\ ~(e.decision.passed /\ IsCodeReviewStage(cur))
                             /\ StageFailureOutcome(e) # "none"
                             /\ pc' = "finalize" /\ cur' = cur
                       /\ run' = [run EXCEPT !.worked = TRUE]
<1>1. pc = "exec" /\ tree' = tree
  BY DEF SettleStage
<1>2. PICK r \in ReturnedBy(cur) :
        /\ Transition(ApplyStageOutcome(mem, cur, eval(r), r.output # "null"), moves(eval(r)))
        /\ examined' = IF eval(r).decision.passed /\ IsCodeReviewStage(cur)
                       THEN [stage |-> cur, attempt |-> mem.stages[cur].attempts + 1,
                             code |-> tree.code,
                             attempts |-> [s \in StageIds |-> mem.stages[s].attempts]]
                       ELSE examined
  BY DEF SettleStage
<1>3. IsState(mem) /\ Orderly(mem)
  BY <1>1, LiveState
<1>4. cur \in StageIds /\ Reached(mem, cur)
  BY <1>1 DEF RunnerInv, TypeOK, Position
<1>5. r \in ResultType
  BY RunnerAssumption DEF ReturnedBy
<1>6. mem.regressions \in Nat /\ run.ceiling \in Nat
  BY <1>3 DEF IsState, RunnerInv, TypeOK, RunType
<1> DEFINE e  == eval(r)
           st == ApplyStageOutcome(mem, cur, e, r.output # "null")
<1>7. IsEvaluation(cur, e)
  BY <1>4, <1>5, <1>6, EvaluationShape
<1> HIDE DEF eval, e
<1>8. /\ IsState(st) /\ Orderly(st)
      /\ \A t \in StageIds : ~RunningIn(st, t)
      /\ ~HasReceipt(st)
      /\ e.decision.passed => \A t \in StageIds : t <= cur => PassedIn(st, t)
      /\ e.decision.passed \/ e.route.action = "regress" => AtStage(st, e.route.next)
  BY <1>3, <1>4, <1>7, ApplyStageOutcomeOrderly
<1>9. /\ StageFailureOutcome(e) \in {"none"} \cup TerminalStatuses
      /\ StageFailureOutcome(e) \in Verdicts
      /\ StageFailureOutcome(e) = "none" => e.decision.passed \/ e.route.action = "regress"
  BY <1>7, OutcomeIsKnown
<1>10. e.route.next \in {NoStage} \cup StageIds
  BY <1>4, <1>7, StagesAreNumbered DEF IsEvaluation, StageIds
<1>11. e.decision.passed => e.route.next = IF cur < N THEN cur + 1 ELSE NoStage
  BY <1>7 DEF IsEvaluation
<1>12. cur # NoStage
  BY <1>4, StagesAreNumbered
<1>13. [run EXCEPT !.worked = TRUE] \in RunType
  BY DEF RunnerInv, TypeOK, RunType
<1> DEFINE continue == moves(e)
<1> HIDE DEF st
<1>14. continue /\ mem' = st =>
        /\ pc' \in ProgramPoints \ {"idle"} /\ run' \in RunType
        /\ cur' \in {NoStage} \cup StageIds /\ nxt' \in {NoStage} \cup StageIds
        /\ verdict' \in Verdicts
        /\ Position'
  <2> SUFFICES ASSUME moves(e), mem' = st
               PROVE  /\ pc' \in ProgramPoints \ {"idle"} /\ run' \in RunType
                      /\ cur' \in {NoStage} \cup StageIds /\ nxt' \in {NoStage} \cup StageIds
                      /\ verdict' \in Verdicts
                      /\ Position'
    OBVIOUS
  <2>1. run' \in RunType /\ nxt' \in {NoStage} \cup StageIds /\ verdict' \in Verdicts
    BY <1>9, <1>10, <1>13
  <2>2. CASE e.decision.passed /\ pc' = "attest" /\ cur' = cur
    BY <1>4, <1>8, <1>9, <1>11, <1>12, <2>1, <2>2 DEF ProgramPoints, Position
  <2>3. CASE StageFailureOutcome(e) = "none" /\ pc' = "step" /\ cur' = e.route.next
    BY <1>8, <1>9, <1>10, <2>1, <2>3 DEF ProgramPoints, Position
  <2>4. CASE StageFailureOutcome(e) # "none" /\ pc' = "finalize" /\ cur' = cur
    BY <1>4, <1>9, <2>1, <2>4 DEF ProgramPoints, Position
  <2> QED
    BY <2>2, <2>3, <2>4
<1>15. tree' \in Trees /\ tree \in Trees /\ pc # "idle"
  BY <1>1 DEF RunnerInv, TypeOK
<1>16. examined' \in ExaminedType
  <2>1. examined \in ExaminedType
    BY DEF RunnerInv, TypeOK
  <2>2. \A s \in StageIds : mem.stages[s].attempts \in Nat
    BY <1>3 DEF IsState, StageStateType
  <2>3. tree.code \in Nat
    BY <1>15, RunnerAssumption DEF TreeType
  <2>4. cur \in Nat /\ mem.stages[cur].attempts + 1 \in Nat
    BY <1>4, <2>2, StagesAreNumbered
  <2> QED
    BY <1>2, <2>1, <2>2, <2>3, <2>4 DEF ExaminedType
<1>17. Transition(st, continue)
  BY <1>2 DEF st, e
<1> HIDE DEF continue
<1> QED
  BY <1>8, <1>14, <1>15, <1>16, <1>17, TransitionKeepsInv

-----------------------------------------------------------------------------
(* Attestation of a passed review *)

\* What the attestor observes for a gate is a checkpoint of that gate.
LEMMA ObservedIsCheckpoint ==
    ASSUME RunnerInv, NEW s \in StageIds, NEW a \in Nat
    PROVE  /\ ObservedCheckpoint([stage |-> s, attempt |-> a]) \in CheckpointType
           /\ ObservedCheckpoint([stage |-> s, attempt |-> a]).stage = s
<1>1. tree \in TreeType /\ run.id \in Nat
  BY RunnerAssumption DEF RunnerInv, TypeOK, RunType
<1>2. s \in Nat
  BY StagesAreNumbered
<1> QED
  BY <1>1, <1>2 DEF ObservedCheckpoint, CheckpointType, TreeType

LEMMA AttestReviewKeepsInv == RunnerInv /\ AttestReview => RunnerInv'
<1> SUFFICES ASSUME RunnerInv, AttestReview PROVE RunnerInv'
  OBVIOUS
<1> DEFINE c        == ObservedCheckpoint([stage |-> cur, attempt |-> mem.stages[cur].attempts])
           st       == AttachReviewCheckpoint(mem, c)
           continue == /\ \/ verdict = "none" /\ pc' = "step" /\ cur' = nxt
                          \/ verdict # "none" /\ pc' = "finalize" /\ cur' = cur
                       /\ UNCHANGED <<run, nxt, verdict>>
<1>1. pc = "attest" /\ Transition(st, continue) /\ UNCHANGED <<tree, examined>>
  BY DEF AttestReview
<1>2. IsState(mem) /\ Orderly(mem)
  BY <1>1, LiveState
<1>3. /\ cur \in StageIds
      /\ \A t \in StageIds : t <= cur => PassedIn(mem, t)
      /\ \A t \in StageIds : ~RunningIn(mem, t)
      /\ nxt = IF cur < N THEN cur + 1 ELSE NoStage
      /\ verdict \in {"none"} \cup TerminalStatuses
  BY <1>1 DEF RunnerInv, TypeOK, Position
<1>4. mem.stages[cur].attempts \in Nat
  BY <1>2, <1>3 DEF IsState, StageStateType
<1>5. c \in CheckpointType /\ c.stage = cur
  BY <1>3, <1>4, ObservedIsCheckpoint
<1> HIDE DEF c
<1>6. /\ IsState(st) /\ Orderly(st) /\ st.stages = mem.stages
      /\ st.checkpoint = c /\ ~HasReceipt(st)
  BY <1>2, <1>3, <1>5, AttachReviewCheckpointOrderly
<1> HIDE DEF st
<1>7. AtStage(st, nxt)
  <2>1. \A t \in StageIds : t <= cur => PassedIn(st, t)
    BY <1>3, <1>6 DEF PassedIn
  <2>2. \A t \in StageIds : ~RunningIn(st, t)
    BY <1>3, <1>6 DEF RunningIn
  <2>3. cur \in Nat \ {0} /\ cur <= N /\ N \in Nat /\ StageIds = 1..N
    BY <1>3, StagesAreNumbered DEF StageIds
  <2>4. CASE cur < N
    <3>1. nxt = cur + 1 /\ nxt \in StageIds /\ nxt # NoStage
      BY <1>3, <2>3, <2>4 DEF NoStage
    <3>2. \A t \in StageIds : t < nxt => PassedIn(st, t)
      BY <2>1, <2>3, <3>1
    <3>3. st.checkpoint.stage < nxt
      BY <1>5, <1>6, <2>3, <3>1
    <3> QED
      BY <1>6, <2>2, <3>1, <3>2, <3>3 DEF AtStage, Reached
  <2>5. CASE ~(cur < N)
    <3>1. nxt = NoStage /\ \A t \in StageIds : PassedIn(st, t)
      BY <1>3, <2>1, <2>3, <2>5
    <3> QED
      BY <2>2, <3>1 DEF AtStage
  <2> QED
    BY <2>4, <2>5
<1>8. continue /\ mem' = st =>
        /\ pc' \in ProgramPoints \ {"idle"} /\ run' \in RunType
        /\ cur' \in {NoStage} \cup StageIds /\ nxt' \in {NoStage} \cup StageIds
        /\ verdict' \in Verdicts
        /\ Position'
  BY <1>3, <1>7 DEF RunnerInv, TypeOK, ProgramPoints, Position
<1>9. tree' \in Trees /\ examined' \in ExaminedType /\ pc # "idle"
  BY <1>1 DEF RunnerInv, TypeOK
<1> HIDE DEF continue
<1> QED
  BY <1>1, <1>6, <1>8, <1>9, TransitionKeepsInv

LEMMA ReviewAttestationRejectedKeepsInv ==
    RunnerInv /\ ReviewAttestationRejected => RunnerInv'
  BY DEF RunnerInv, TypeOK, ReviewAttestationRejected, ProgramPoints, Position, Verdicts,
         TerminalStatuses

-----------------------------------------------------------------------------
(* The final step *)

\* A rejected final scope is finalized with the state as it is.
LEMMA RejectFinalScopeKeepsInv ==
    ASSUME RunnerInv, pc = "step", RejectFinalScope, UNCHANGED <<tree, examined>>
    PROVE  RunnerInv'
  BY DEF RunnerInv, TypeOK, RejectFinalScope, ProgramPoints, Position, Verdicts,
         TerminalStatuses

LEMMA BackfillCheckpointKeepsInv == RunnerInv /\ BackfillCheckpoint => RunnerInv'
<1> SUFFICES ASSUME RunnerInv, BackfillCheckpoint PROVE RunnerInv'
  OBVIOUS
<1>1. pc = "step" /\ cur = NoStage /\ UNCHANGED <<tree, examined>>
  BY DEF BackfillCheckpoint
<1>2. IsState(mem) /\ Orderly(mem)
  BY <1>1, LiveState
<1>3. CASE RejectFinalScope
  BY <1>1, <1>3, RejectFinalScopeKeepsInv
<1>4. CASE ~RejectFinalScope
  <2> DEFINE c(s)  == ObservedCheckpoint([stage |-> s, attempt |-> mem.stages[s].attempts])
             st(s) == AttachReviewCheckpoint(mem, c(s))
  <2>1. PICK s \in BackfillableReviews :
          mem' = st(s) /\ disk' = st(s) /\ UNCHANGED <<pc, run, cur, nxt, verdict>>
    BY <1>4 DEF BackfillCheckpoint
  <2>2. s \in StageIds
    BY <2>1 DEF BackfillableReviews, PassedReviews, ReviewStages
  <2>3. mem.stages[s].attempts \in Nat
    BY <1>2, <2>2 DEF IsState, StageStateType
  <2>4. c(s) \in CheckpointType /\ c(s).stage = s
    BY <2>2, <2>3, ObservedIsCheckpoint
  <2>5. AtStage(mem, NoStage)
    BY <1>1 DEF RunnerInv, Position
  <2>6. \A t \in StageIds : PassedIn(mem, t) /\ ~RunningIn(mem, t)
    BY <2>5, StagesAreNumbered DEF AtStage, Reached, PassedIn, RunningIn
  <2> DEFINE after == st(s)
  <2> HIDE DEF c
  <2>7. IsState(after) /\ Orderly(after) /\ after.stages = mem.stages
    BY <1>2, <2>2, <2>4, <2>6, AttachReviewCheckpointOrderly
  <2>8. mem' = after /\ disk' = after
    BY <2>1
  <2> HIDE DEF st, after
  <2>9. AtStage(after, NoStage)
    BY <2>6, <2>7 DEF AtStage, PassedIn, RunningIn
  <2>10. Position'
    BY <1>1, <2>1, <2>8, <2>9 DEF Position
  <2>11. /\ pc' \in ProgramPoints \ {"idle"} /\ run' \in RunType
         /\ cur' \in {NoStage} \cup StageIds /\ nxt' \in {NoStage} \cup StageIds
         /\ verdict' \in Verdicts /\ tree' \in Trees /\ examined' \in ExaminedType
    BY <1>1, <2>1 DEF RunnerInv, TypeOK, ProgramPoints
  <2> QED
    BY <2>7, <2>8, <2>10, <2>11, ContinueKeepsInv
<1> QED
  BY <1>3, <1>4

\* At the final step every stage is passed.
LEMMA FinalStepIsComplete ==
    ASSUME RunnerInv, pc = "step", cur = NoStage
    PROVE  /\ IsState(mem) /\ Orderly(mem)
           /\ \A t \in StageIds : PassedIn(mem, t)
BY LiveState DEF RunnerInv, Position, AtStage

\* What the final receipt is made from is a checkpoint of some stage.
LEMMA FinalCheckpointIsCheckpoint ==
    ASSUME RunnerInv, pc = "step", cur = NoStage, LastPassedStage # NoStage
    PROVE  FinalCheckpoint \in CheckpointType /\ FinalCheckpoint.stage \in StageIds
<1>1. /\ IsState(mem) /\ Orderly(mem)
      /\ \A t \in StageIds : PassedIn(mem, t)
  BY FinalStepIsComplete
<1>2. CASE HasCheckpoint(mem)
  BY <1>1, <1>2 DEF FinalCheckpoint, IsState, Orderly
<1>3. CASE ~HasCheckpoint(mem)
  <2> DEFINE attempts == mem.stages[LastPassedStage].attempts
             attempt  == Max({1, attempts})
  <2>1. LastPassedStage \in StageIds
    <3>1. {s \in StageIds : mem.stages[s].status = "passed"} = StageIds
      BY <1>1 DEF PassedIn
    <3>2. N \in StageIds /\ \A t \in StageIds : N >= t
      BY StagesAreNumbered DEF StageIds
    <3>3. Max(StageIds) \in StageIds
      BY <3>2 DEF Max
    <3> QED
      BY <3>1, <3>2, <3>3 DEF LastPassedStage
  <2>2. attempts \in Nat
    BY <1>1, <2>1 DEF IsState, StageStateType
  <2>3. attempt \in Nat
    <3> HIDE DEF attempts
    <3>1. \E x \in {1, attempts} : \A y \in {1, attempts} : x >= y
      BY <2>2
    <3>2. attempt \in {1, attempts}
      BY <3>1 DEF Max
    <3> QED
      BY <2>2, <3>2
  <2>4. FinalCheckpoint = ObservedCheckpoint([stage |-> LastPassedStage, attempt |-> attempt])
    BY <1>3 DEF FinalCheckpoint
  <2> HIDE DEF attempt
  <2> QED
    BY <2>1, <2>3, <2>4, ObservedIsCheckpoint
<1> QED
  BY <1>2, <1>3

LEMMA FinalScopeAttestedKeepsInv == RunnerInv /\ FinalScopeAttested => RunnerInv'
<1> SUFFICES ASSUME RunnerInv, FinalScopeAttested PROVE RunnerInv'
  OBVIOUS
<1> DEFINE receipt  == ReceiptOf(FinalCheckpoint, tree.code, tree.docs)
           st       == AttachFinalScopeReceipt(mem, receipt)
           continue == /\ pc' = "finalize" /\ verdict' = "done"
                       /\ UNCHANGED <<run, cur, nxt>>
<1>1. /\ pc = "step" /\ cur = NoStage /\ LastPassedStage # NoStage
      /\ Transition(st, continue) /\ UNCHANGED <<tree, examined>>
  BY DEF FinalScopeAttested, FinalStep
<1>2. /\ IsState(mem) /\ Orderly(mem)
      /\ \A t \in StageIds : PassedIn(mem, t)
  BY <1>1, FinalStepIsComplete
<1>3. FinalCheckpoint \in CheckpointType /\ FinalCheckpoint.stage \in StageIds
  BY <1>1, FinalCheckpointIsCheckpoint
<1>4. tree \in TreeType
  BY RunnerAssumption DEF RunnerInv, TypeOK
<1>5. receipt \in ReceiptType /\ receipt.stage \in StageIds
  <2>1. tree.code \in Nat /\ tree.docs \in Nat
    BY <1>4 DEF TreeType
  <2> QED
    BY <1>3, <2>1 DEF ReceiptOf, CheckpointType, ReceiptType
<1> HIDE DEF receipt
<1>6. IsState(st) /\ Orderly(st)
  BY <1>2, <1>5, AttachFinalScopeReceiptOrderly
<1> HIDE DEF st
<1>7. continue =>
        /\ pc' \in ProgramPoints \ {"idle"} /\ run' \in RunType
        /\ cur' \in {NoStage} \cup StageIds /\ nxt' \in {NoStage} \cup StageIds
        /\ verdict' \in Verdicts
        /\ Position'
  BY DEF RunnerInv, TypeOK, ProgramPoints, Position, Verdicts, TerminalStatuses
<1>8. tree' \in Trees /\ examined' \in ExaminedType /\ pc # "idle"
  BY <1>1 DEF RunnerInv, TypeOK
<1> HIDE DEF continue
<1> QED
  BY <1>1, <1>6, <1>7, <1>8, TransitionKeepsInv

LEMMA FinalScopeRejectedKeepsInv == RunnerInv /\ FinalScopeRejected => RunnerInv'
  BY RejectFinalScopeKeepsInv DEF FinalScopeRejected, FinalStep

\* An approval that the attestor has just observed holds.
LEMMA FreshObservationHolds ==
    ASSUME NEW gate
    PROVE  FinalScopeResult(ObservedCheckpoint(gate)) = "final-receipt"
  BY DEF FinalScopeResult, ObservedCheckpoint

LEMMA ReviewInvalidatedKeepsInv == RunnerInv /\ ReviewInvalidated => RunnerInv'
<1> SUFFICES ASSUME RunnerInv, ReviewInvalidated PROVE RunnerInv'
  OBVIOUS
<1> DEFINE review   == mem.checkpoint.stage
           st       == InvalidateReviewApproval(mem, review)
           continue == cur' = review /\ UNCHANGED <<pc, run, nxt, verdict>>
<1>1. /\ pc = "step" /\ cur = NoStage /\ LastPassedStage # NoStage
      /\ FinalScopeResult(FinalCheckpoint) \in {"review-invalidated", "review-base-stale"}
      /\ UNCHANGED <<tree, examined>>
  BY DEF ReviewInvalidated, FinalStep
<1>2. IsState(mem) /\ Orderly(mem)
  BY <1>1, LiveState
<1>3. CASE RejectFinalScope
  BY <1>1, <1>3, RejectFinalScopeKeepsInv
<1>4. CASE ~RejectFinalScope
  <2>1. Transition(st, continue)
    BY <1>4 DEF ReviewInvalidated
  <2>2. HasCheckpoint(mem)
    BY <1>1, FreshObservationHolds DEF FinalCheckpoint
  <2>3. review \in StageIds /\ IsState(st) /\ Orderly(st) /\ Reached(st, review)
    BY <1>2, <2>2, InvalidateReviewApprovalOrderly
  <2> HIDE DEF st, review
  <2>4. AtStage(st, review)
    BY <2>3, StagesAreNumbered DEF AtStage
  <2>5. continue /\ mem' = st =>
          /\ pc' \in ProgramPoints \ {"idle"} /\ run' \in RunType
          /\ cur' \in {NoStage} \cup StageIds /\ nxt' \in {NoStage} \cup StageIds
          /\ verdict' \in Verdicts
          /\ Position'
    BY <1>1, <2>3, <2>4 DEF RunnerInv, TypeOK, ProgramPoints, Position
  <2>6. tree' \in Trees /\ examined' \in ExaminedType /\ pc # "idle"
    BY <1>1 DEF RunnerInv, TypeOK
  <2> HIDE DEF continue
  <2> QED
    BY <2>1, <2>3, <2>5, <2>6, TransitionKeepsInv
<1> QED
  BY <1>3, <1>4

-----------------------------------------------------------------------------
(* Finalization, interruptions and the environment *)

LEMMA FinalizeKeepsInv == RunnerInv /\ Finalize => RunnerInv'
<1> SUFFICES ASSUME RunnerInv, Finalize PROVE RunnerInv'
  OBVIOUS
<1>1. pc = "finalize" /\ UNCHANGED <<tree, examined>>
  BY DEF Finalize
<1>2. IsState(mem) /\ Orderly(mem)
  BY <1>1, LiveState
<1>3. verdict \in TerminalStatuses /\ verdict \in Verdicts /\ "invalid-state" \in Verdicts
  BY <1>1 DEF RunnerInv, TypeOK, Position, Verdicts
<1> DEFINE st == FinalizeState(mem, verdict)
<1>4. IsState(st) /\ Orderly(st)
  BY <1>2, <1>3, FinalizeStateOrderly
<1>5. IsFile(disk) /\ tree' \in Trees /\ examined' \in ExaminedType
  BY <1>1 DEF RunnerInv, TypeOK, IsFile
<1>6. CASE IsPipelineState(st)
  <2>1. disk' = st /\ EndRun(verdict)
    BY <1>6 DEF Finalize
  <2> HIDE DEF st
  <2>2. IsFile(disk')
    BY <1>4, <2>1 DEF IsFile
  <2> QED
    BY <1>3, <1>5, <2>1, <2>2, EndRunKeepsInv
<1>7. CASE ~IsPipelineState(st)
  <2>1. disk' = disk /\ EndRun("invalid-state")
    BY <1>7 DEF Finalize
  <2>2. IsFile(disk')
    BY <1>5, <2>1 DEF IsFile
  <2> QED
    BY <1>3, <1>5, <2>1, <2>2, EndRunKeepsInv
<1> QED
  BY <1>6, <1>7

LEMMA AbortKeepsInv == RunnerInv /\ Abort => RunnerInv'
  BY DEF RunnerInv, TypeOK, RunType, Abort, Position

LEMMA DieKeepsInv == RunnerInv /\ Die => RunnerInv'
<1> SUFFICES ASSUME RunnerInv, Die PROVE RunnerInv'
  OBVIOUS
<1>1. EndRun("thrown") /\ UNCHANGED <<disk, tree, examined>>
  BY DEF Die
<1>2. /\ "thrown" \in Verdicts /\ IsFile(disk')
      /\ tree' \in Trees /\ examined' \in ExaminedType
  BY <1>1 DEF RunnerInv, TypeOK, IsFile, Verdicts
<1> QED
  BY <1>1, <1>2, EndRunKeepsInv

LEMMA StageEditsKeepsInv == RunnerInv /\ StageEdits => RunnerInv'
  BY DEF RunnerInv, TypeOK, StageEdits, Position

LEMMA TreeChangesKeepsInv == RunnerInv /\ TreeChanges => RunnerInv'
  BY DEF RunnerInv, TypeOK, TreeChanges, Position

\* Every step keeps the invariant.
LEMMA StepKeepsInv == RunnerInv /\ [Next]_vars => RunnerInv'
<1> SUFFICES ASSUME RunnerInv, [Next]_vars PROVE RunnerInv'
  OBVIOUS
<1>1. CASE Start
  BY <1>1, StartKeepsInv
<1>2. CASE SkipCorrection \/ RejectCorrection \/ ApplyCorrection
  BY <1>2, SkipCorrectionKeepsInv, RejectCorrectionKeepsInv, ApplyCorrectionKeepsInv
<1>3. CASE RecoverLegacyReview \/ SelectStage
  BY <1>3, RecoverLegacyReviewKeepsInv, SelectStageKeepsInv
<1>4. CASE AbortBeforeStage \/ BeginStage \/ SettleStage \/ ExecutorThrows
  BY <1>4, AbortBeforeStageKeepsInv, BeginStageKeepsInv, SettleStageKeepsInv,
     ExecutorThrowsKeepsInv
<1>5. CASE AttestReview \/ ReviewAttestationRejected
  BY <1>5, AttestReviewKeepsInv, ReviewAttestationRejectedKeepsInv
<1>6. CASE \/ BackfillCheckpoint \/ FinalScopeAttested \/ FinalScopeRejected
           \/ ReviewInvalidated \/ Finalize
  BY <1>6, BackfillCheckpointKeepsInv, FinalScopeAttestedKeepsInv,
     FinalScopeRejectedKeepsInv, ReviewInvalidatedKeepsInv, FinalizeKeepsInv
<1>7. CASE Abort \/ Die \/ StageEdits \/ TreeChanges
  BY <1>7, AbortKeepsInv, DieKeepsInv, StageEditsKeepsInv, TreeChangesKeepsInv
<1>8. CASE UNCHANGED vars
  BY <1>8 DEF RunnerInv, TypeOK, Position, vars
<1> QED
  BY <1>1, <1>2, <1>3, <1>4, <1>5, <1>6, <1>7, <1>8 DEF Next, RunnerStep

-----------------------------------------------------------------------------
(* The theorems *)

\* The invariant holds in every state of every behaviour.
THEOREM RunnerInvariant == Spec => []RunnerInv
<1>1. Init => RunnerInv
  BY InitInv
<1>2. RunnerInv /\ [Next]_vars => RunnerInv'
  BY StepKeepsInv
<1> QED
  BY <1>1, <1>2, PTL DEF Spec

\* Every variable of the runner has its type: no transition, repair or
\* correction builds a state that is not a well-formed state file.
THEOREM RunnerTypeCorrect == Spec => []TypeOK
<1>1. RunnerInv => TypeOK
  BY DEF RunnerInv
<1> QED
  BY <1>1, RunnerInvariant, PTL

\* At every await of the runner the file holds exactly what it works with.
THEOREM RunnerInSync == Spec => []InSync
<1>1. RunnerInv => InSync
  BY DEF RunnerInv, InSync
<1> QED
  BY <1>1, RunnerInvariant, PTL

\* While a child runs, the file names its stage as the only running one, and every
\* stage before it is finished.
THEOREM RunningChildIsRecorded == Spec => []ChildIsRecorded
<1>1. RunnerInv => ChildIsRecorded
  <2> SUFFICES ASSUME RunnerInv, pc = "exec"
               PROVE  /\ disk.status = "running" /\ disk.current = cur
                      /\ \A s \in StageIds : disk.stages[s].status = "running" <=> s = cur
                      /\ \A s \in 1..(cur - 1) : IsComplete(disk.stages[s])
    BY DEF ChildIsRecorded
  <2>1. /\ disk = mem /\ cur \in StageIds
        /\ Reached(mem, cur) /\ RunningIn(mem, cur)
        /\ mem.status = "running" /\ mem.current = cur
    BY DEF RunnerInv, TypeOK, Position
  <2>2. \A s \in StageIds : disk.stages[s].status = "running" <=> s = cur
    BY <2>1 DEF Reached, RunningIn
  <2>3. \A s \in 1..(cur - 1) : IsComplete(disk.stages[s])
    <3> SUFFICES ASSUME NEW s \in 1..(cur - 1) PROVE IsComplete(disk.stages[s])
      OBVIOUS
    <3>1. s \in StageIds /\ s < cur
      BY <2>1, StagesAreNumbered DEF StageIds
    <3> QED
      BY <2>1, <3>1 DEF Reached, PassedIn, IsComplete
  <2> QED
    BY <2>1, <2>2, <2>3
<1> QED
  BY <1>1, RunnerInvariant, PTL

\* The state file and the runner's copy are well-formed and orderly.
LEMMA LiveStatesAreOrderly ==
    ASSUME RunnerInv, NEW st \in LiveStates
    PROVE  IsState(st) /\ Orderly(st)
  BY DEF RunnerInv, TypeOK, LiveStates

\* A durable approval covers every stage up to its review, whatever is reset,
\* retried, interrupted or corrected.
THEOREM ApprovalAlwaysCoversPrefix == Spec => []ApprovalCoversPrefix
<1>1. RunnerInv => ApprovalCoversPrefix
  <2> SUFFICES ASSUME RunnerInv, NEW st \in LiveStates, HasCheckpoint(st),
                      NEW s \in 1..st.checkpoint.stage
               PROVE  st.stages[s].status = "passed"
    BY DEF ApprovalCoversPrefix
  <2>1. Orderly(st)
    BY LiveStatesAreOrderly
  <2>2. st.checkpoint.stage \in StageIds
    BY <2>1 DEF Orderly
  <2>3. s \in StageIds /\ s <= st.checkpoint.stage
    BY <2>2, StagesAreNumbered DEF StageIds
  <2> QED
    BY <2>1, <2>3 DEF Orderly, PassedIn
<1> QED
  BY <1>1, RunnerInvariant, PTL

\* A final receipt is only ever held by a state with every stage passed.
THEOREM ReceiptAlwaysMeansComplete == Spec => []ReceiptMeansComplete
<1>1. RunnerInv => ReceiptMeansComplete
  BY LiveStatesAreOrderly DEF ReceiptMeansComplete, Orderly, PassedIn, IsComplete
<1> QED
  BY <1>1, RunnerInvariant, PTL
=============================================================================
