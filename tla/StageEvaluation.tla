-------------------------- MODULE StageEvaluation --------------------------
(***************************************************************************)
(* The pure kernel of one settled stage execution: the gate decision       *)
(* (core/stage-decision.ts), the route derived from it (core/routing.ts),  *)
(* the budget ceilings (core/budgets.ts) and the classification the runner *)
(* acts on (core/runner-evaluation.ts).                                    *)
(*                                                                         *)
(* Data abstraction.  A stage is its position in the compiled pipeline, so *)
(* "earlier" is <.  Strings that only end up in a reason are dropped.  The *)
(* two ceilings of a budget (tokens, dollars) are compared the same way;   *)
(* one number, "usage", stands for both.                                   *)
(*                                                                         *)
(* An operator whose name is that of the one below it with a suffix is a   *)
(* plausible bug of it; the runs notice each of them (PROJECT.json).       *)
(***************************************************************************)
EXTENDS Integers, Sequences

CONSTANT StageDefs    \* the compiled stages, in execution order

Absent  == -1                  \* an optional number that is not there
NoStage == 0                   \* a stage reference that is not there

N        == Len(StageDefs)
StageIds == 1..N

\* What the payload of a validated child output makes the stage's gate say;
\* "null" is no output, or one whose payload is not a record.
Outputs == {"null", "accept", "reject", "rejectWithFindings"}

DecisionKinds == {"passed", "failed", "timed-out", "aborted",
                  "parse-error", "gate-failed"}

\* A compiled stage.  "gate" is payloadGate # undefined, "review" the gate name
\* starting with "code-review", "budget" the ceiling (Absent: none).
StageDefType ==
    [kind: {"agent", "code"}, gate: BOOLEAN, review: BOOLEAN,
     onFail: Nat, budget: Nat \cup {Absent}]

\* What the RunDef schema (rundef/schema.ts) lets through: an agent stage has a
\* gate iff it has an onFail, onFail names an earlier stage, and only an agent
\* stage with a gate can be a code review.
CrossFieldInvariants ==
    /\ StageDefs \in Seq(StageDefType)
    /\ N > 0
    /\ \A s \in StageIds :
         /\ StageDefs[s].onFail < s
         /\ StageDefs[s].kind = "agent" =>
              (StageDefs[s].gate <=> StageDefs[s].onFail # NoStage)
         /\ StageDefs[s].kind = "code" => ~StageDefs[s].gate
         /\ StageDefs[s].review => StageDefs[s].gate

ASSUME StageDefsAssumption == CrossFieldInvariants

IsCodeReviewStage(s) == StageDefs[s].kind = "agent" /\ StageDefs[s].review

ReviewStages == {s \in StageIds : IsCodeReviewStage(s)}

-----------------------------------------------------------------------------
(* core/stage-decision.ts *)

\* A raw executor result, before any decision.  "exit" is Absent for null;
\* "lifted" is findings present and not empty.
ResultType ==
    [aborted: BOOLEAN, timedOut: BOOLEAN, parseError: BOOLEAN, exit: {Absent} \cup 0..2,
     output: Outputs, lifted: BOOLEAN, usage: Nat \cup {Absent}]

\* The ordered checks of checkExecutionFailure; "passed" here means "no
\* execution failure", and the payload gate is asked next.
ExecutionFailure(s, r) ==
    CASE r.aborted -> "aborted"
      [] ~r.aborted /\ r.timedOut -> "timed-out"
      [] ~r.aborted /\ ~r.timedOut /\ r.parseError -> "parse-error"
      [] OTHER ->
           IF StageDefs[s].kind = "agent"
           THEN IF r.output = "null" \/ r.exit # 0 THEN "failed" ELSE "passed"
           ELSE IF r.exit = 1 /\ r.lifted THEN "gate-failed"
                ELSE IF r.exit # 0 THEN "failed" ELSE "passed"

PayloadGateRejects(s, r) ==
    StageDefs[s].gate /\ r.output \in {"reject", "rejectWithFindings"}

CheckStageDecision(s, r) ==
    LET failure == ExecutionFailure(s, r)
        kind    == IF failure = "passed" /\ PayloadGateRejects(s, r)
                   THEN "gate-failed" ELSE failure
    IN  [kind     |-> kind,
         passed   |-> kind = "passed",
         findings |-> \/ failure = "gate-failed"
                      \/ kind = "gate-failed" /\ r.output = "rejectWithFindings",
         usage    |-> r.usage]

-----------------------------------------------------------------------------
(* core/routing.ts *)

PassedRoute(s, regressions) ==
    IF s < N
    THEN [action |-> "continue", next |-> s + 1, regressions |-> regressions]
    ELSE [action |-> "complete", next |-> NoStage, regressions |-> regressions]

FailRoute(regressions) ==
    [action |-> "fail", next |-> NoStage, regressions |-> regressions]

GateFailedRouteOffByOne(s, regressions, maxRegressions) ==
    IF StageDefs[s].onFail = NoStage \/ regressions > maxRegressions
    THEN FailRoute(regressions)
    ELSE [action |-> "regress", next |-> StageDefs[s].onFail,
          regressions |-> regressions + 1]

GateFailedRoute(s, regressions, maxRegressions) ==
    IF \/ StageDefs[s].onFail = NoStage
       \/ StageDefs[s].onFail \notin StageIds
       \/ StageDefs[s].onFail >= s
       \/ regressions >= maxRegressions
    THEN FailRoute(regressions)
    ELSE [action |-> "regress", next |-> StageDefs[s].onFail,
          regressions |-> regressions + 1]

RouteStageDecision(s, d, regressions, maxRegressions) ==
    IF d.passed THEN PassedRoute(s, regressions)
    ELSE IF d.kind # "gate-failed" THEN FailRoute(regressions)
    ELSE GateFailedRoute(s, regressions, maxRegressions)

-----------------------------------------------------------------------------
(* core/budgets.ts *)

\* A stage with a ceiling fails closed when no usage was reported.
StageBudgetPassed(s, usage) ==
    \/ StageDefs[s].budget = Absent
    \/ usage # Absent /\ usage <= StageDefs[s].budget

RunBudgetPassed(runBudget, spent) == runBudget = Absent \/ spent <= runBudget

-----------------------------------------------------------------------------
(* core/runner-evaluation.ts *)

\* Everything the runner decides about one execution; spentAfter already
\* includes the usage of this execution.
EvaluateStageExecution(s, r, regressions, maxRegressions, runBudget, spentAfter) ==
    LET d == CheckStageDecision(s, r)
    IN  [decision |-> d,
         route    |-> RouteStageDecision(s, d, regressions, maxRegressions),
         budgetOk |-> StageBudgetPassed(s, d.usage) /\ RunBudgetPassed(runBudget, spentAfter)]

StageFailureOutcomeIgnoresBudget(e) ==
    IF e.decision.kind = "aborted" THEN "needs-attention"
    ELSE IF e.route.action = "fail" THEN "failed"
    ELSE "none"

\* The terminal status an evaluation forces; "none" lets the run go on.
StageFailureOutcome(e) ==
    IF e.decision.kind = "aborted" THEN "needs-attention"
    ELSE IF ~e.budgetOk THEN "needs-attention"
    ELSE IF e.route.action = "fail" THEN "failed"
    ELSE "none"
=============================================================================
