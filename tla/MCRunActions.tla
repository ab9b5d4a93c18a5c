----------------------------- MODULE MCRunActions -----------------------------
(* A small instance of the run action. *)
EXTENDS RunActions, TLC

CONSTANTS p1, p2, earlier, none

TwoProcs == {p1, p2}

Agent(id, gate, onFail) ==
    [id |-> id, kind |-> "agent", gate |-> gate, onFail |-> onFail, timeout |-> NoNumber,
     budget |-> NoNumber, rest |-> 1]
Code(id, onFail) ==
    [id |-> id, kind |-> "code", gate |-> None, onFail |-> onFail, timeout |-> NoNumber,
     budget |-> NoNumber, rest |-> 1]

Sdlc ==
    [id     |-> "sdlc",
     stages |-> <<Agent("dev", None, None), Agent("review", "code-review", "dev"),
                  Code("verify", "dev")>>]

\* The same with another timeout, and with another command.
SlowSdlc  == [Sdlc EXCEPT !.stages[3].timeout = 60]
OtherSdlc == [Sdlc EXCEPT !.stages[3].rest = 2]

\* What an author may get wrong: a target that is the stage itself, comes later or
\* is not there, a stage twice, a gate without a target or a name, no stages.
BadSdlcs ==
    {[Sdlc EXCEPT !.stages[3].onFail = "verify"], [Sdlc EXCEPT !.stages[2].onFail = "verify"],
     [Sdlc EXCEPT !.stages[3].onFail = "deploy"], [Sdlc EXCEPT !.stages[3].id = "dev"],
     [Sdlc EXCEPT !.stages[2].onFail = None], [Sdlc EXCEPT !.stages[2].gate = None],
     [Sdlc EXCEPT !.stages[2].gate = "unheard-of"], [Sdlc EXCEPT !.stages[3].gate = "code-review"],
     [Sdlc EXCEPT !.stages[1].budget = EmptyBudget], [Sdlc EXCEPT !.stages[3].timeout = 0],
     [Sdlc EXCEPT !.stages = <<>>]}

File(name, d) == [name |-> name, listed |-> TRUE, readable |-> TRUE, def |-> d]
Docs == [Sdlc EXCEPT !.id = "docs"]

\* The pipeline alone, next to another one, twice, next to an unreadable file, and
\* not at all.
SdlcCatalogs ==
    {{File("sdlc", d)} : d \in {Sdlc, SlowSdlc, OtherSdlc} \cup BadSdlcs}
    \cup {{File("sdlc", Sdlc), File("docs", Docs)},
          {File("sdlc", Sdlc), File("copy", OtherSdlc)},
          {File("sdlc", Sdlc), [File("docs", Docs) EXCEPT !.readable = FALSE]},
          {File("docs", Docs), [File(".sdlc", OtherSdlc) EXCEPT !.listed = FALSE]},
          {}}

Gates == {"e2e-verify", "code-review", "code-review-lenient", "code-review-critical-only"}
CodeReviewGates == Gates \ {"e2e-verify"}

\* Processes are compared for equality only.
Symmetry == Permutations(Procs)
=============================================================================
