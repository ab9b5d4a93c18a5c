--------------------------- MODULE MCPipelineRunner ---------------------------
(* Small pipelines, results and worktrees for the runner's model-checking runs. *)
EXTENDS RunnerProperties

Agent(gate, review, onFail) ==
    [kind |-> "agent", gate |-> gate, review |-> review, onFail |-> onFail, budget |-> Absent]
Code(onFail) ==
    [kind |-> "code", gate |-> FALSE, review |-> FALSE, onFail |-> onFail, budget |-> Absent]

\* implement; code review, sending rejected work back; a verification command
\* that does so too.
DevReviewVerify == <<Agent(FALSE, FALSE, 0), Agent(TRUE, TRUE, 1), Code(1)>>

\* The same with a ceiling on what the implementing stage may use.
MeteredDevReviewVerify == [DevReviewVerify EXCEPT ![1].budget = 1]

\* The same with a documentation stage at the end.
DevReviewVerifyDocs == DevReviewVerify \o <<Agent(FALSE, FALSE, 0)>>

\* The smallest pipelines a receipt and a recovery need.
DevReview == <<Agent(FALSE, FALSE, 0), Agent(TRUE, TRUE, 1)>>

Passing   == [aborted |-> FALSE, timedOut |-> FALSE, parseError |-> FALSE, exit |-> 0,
              output |-> "accept", lifted |-> FALSE, usage |-> Absent]
Rejecting == [Passing EXCEPT !.output = "rejectWithFindings"]
Succeeding == [Passing EXCEPT !.output = "null"]
Lifting   == [Succeeding EXCEPT !.exit = 1, !.lifted = TRUE]
Failing   == [Succeeding EXCEPT !.exit = 2]
Aborted   == [Succeeding EXCEPT !.aborted = TRUE, !.exit = Absent]

Conclusive  == {Passing, Rejecting, Succeeding, Lifting, Failing}
AllResults  == Conclusive \cup {Aborted}

\* The same with children that report what they used, or time out.
TimingOut   == [Succeeding EXCEPT !.timedOut = TRUE, !.exit = Absent]
Metered     == AllResults \cup {[Passing EXCEPT !.usage = 1], [Passing EXCEPT !.usage = 2], TimingOut}

Tree(branch, base, head, code, docs) ==
    [branch |-> branch, base |-> base, head |-> head, code |-> code, docs |-> docs]

OneTree   == {Tree(1, 1, "atBase", 1, 1)}
CodeTrees == {Tree(1, 1, "atBase", c, 1) : c \in 1..2}
DocsTrees == {Tree(1, 1, "atBase", c, d) : c \in 1..2, d \in 1..2}

\* A worktree whose base advances, with and without the branch brought up to it.
BaseTrees ==
    {Tree(1, 1, "atBase", 1, 1), Tree(1, 1, "ahead", 1, 1), Tree(1, 2, "ahead", 1, 1),
     Tree(1, 2, "ahead", 2, 1), Tree(1, 2, "diverged", 1, 1), Tree(2, 2, "ahead", 1, 1)}

NoRunBudget == {Absent}
RunBudget   == {Absent, 2}
EveryInterruption == {"abort", "die", "error", "attestor"}
===============================================================================
