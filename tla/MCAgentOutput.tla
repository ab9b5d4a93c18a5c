---------------------------- MODULE MCAgentOutput ----------------------------
(* The streams of an implementing and of a reviewing agent stage. *)
EXTENDS AgentOutput

Stages ==
    <<[kind |-> "agent", gate |-> FALSE, review |-> FALSE, onFail |-> 0, budget |-> Absent],
      [kind |-> "agent", gate |-> TRUE, review |-> TRUE, onFail |-> 1, budget |-> Absent]>>

None == [severity \in Severities |-> 0]
One(severity) == [None EXCEPT ![severity] = 1]

Approval ==
    [keys |-> "v1", fields |-> TRUE, bounded |-> FALSE, story |-> "active",
     verdict |-> "approved", counted |-> TRUE, counts |-> None, findings |-> None]
ApprovalV2 == [Approval EXCEPT !.keys = "v2", !.bounded = TRUE]
NeedsDev(severity) ==
    [ApprovalV2 EXCEPT !.verdict = "needs-dev", !.counts = One(severity),
                       !.findings = One(severity)]

\* Reviews, canonical, contradictory and malformed ones.
Reviews ==
    {Approval, NeedsDev("critical"), NeedsDev("low"),
     [NeedsDev("critical") EXCEPT !.counted = FALSE],
     [Approval EXCEPT !.story = "another"],
     [Approval EXCEPT !.counts["low"] = NoCount],
     [ApprovalV2 EXCEPT !.findings = One("critical")]}

Verification == [keys |-> "e2e", fields |-> TRUE, story |-> "active", verdict |-> "pass",
                 failed |-> 0, listed |-> 0]
Verifications ==
    {[Verification EXCEPT !.listed = 1], [Verification EXCEPT !.verdict = "fail", !.listed = 1]}

Envelope(payload) ==
    [kind |-> "envelope", accepted |-> TRUE, expected |-> TRUE, payload |-> payload]

SomeLines ==
    {Envelope(p) : p \in Reviews \cup Verifications}
    \cup {[Envelope(Approval) EXCEPT !.accepted = FALSE],
          [Envelope(Approval) EXCEPT !.expected = FALSE]}
    \cup {[kind |-> "usage", used |-> 1]}
    \cup {[kind |-> k] : k \in {"update", "event", "bulk", "garbage", "cut", "blank"}}
=============================================================================
