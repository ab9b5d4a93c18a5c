---------------------------- MODULE PayloadGates ----------------------------
(***************************************************************************)
(* The payload gates a RunDef can name (gates/): what each of them says of *)
(* the payload of an authenticated agent output.                           *)
(*                                                                         *)
(* A payload is what the gates tell apart.  "keys" is the exact key set it *)
(* has; "fields" says that its plain fields have their types; "bounded"    *)
(* that a v2 review has its version stamp and its findings are well formed *)
(* and within the producer's bounds.  "counted" says that its findings by  *)
(* severity are a record at all, "counts" are what this record says,       *)
(* NoCount where a count is missing or none; "findings" are the structured *)
(* findings of a v2 review, counted by severity.                           *)
(***************************************************************************)
EXTENDS Integers

Severities == {"critical", "high", "medium", "low", "info"}
NoCount    == -1

ReviewPayloadType ==
    [keys: {"v1", "v2", "other"}, fields: BOOLEAN, bounded: BOOLEAN,
     story: {"active", "another"},
     verdict: {"approved", "needs-dev", "needs-verify", "unknown"},
     counted: BOOLEAN, counts: [Severities -> Nat \cup {NoCount}],
     findings: [Severities -> Nat]]

\* "failed" is the count of failed scenarios, "listed" the number of failed and
\* partial ones that are listed.
E2ePayloadType ==
    [keys: {"e2e", "other"}, fields: BOOLEAN, story: {"active", "another"},
     verdict: {"pass", "fail", "unknown"}, failed: Nat, listed: Nat]

\* The names of the gates; a stage without one takes every output.
GateNames == {"e2e-verify", "code-review", "code-review-lenient", "code-review-critical-only"}

-----------------------------------------------------------------------------
CountOf(p, severity) ==
    IF p.counted /\ p.counts[severity] # NoCount THEN p.counts[severity] ELSE 0

\* A summary of the counts, of an empty record too: what is no count reads as 0.
HasSeverityFindings(p) == p.counted

\* severityCounts, and its counterpart in isCanonicalReviewPayload.
HasEveryCount(p) == p.counted /\ \A severity \in Severities : p.counts[severity] # NoCount

\* structuredFindingsMatchCounts
FindingsMatchCounts(p) == p.keys = "v2" => p.findings = p.counts

IsCanonicalReviewUncounted(p) ==
    /\ p.keys = "v1" \/ (p.keys = "v2" /\ p.bounded)
    /\ p.fields
    /\ HasEveryCount(p)

\* The v1 envelope, or the v2 envelope with its bounds; two files check it alike.
IsCanonicalReview(p) ==
    /\ p.keys = "v1" \/ (p.keys = "v2" /\ p.bounded)
    /\ p.fields
    /\ HasEveryCount(p)
    /\ FindingsMatchCounts(p)

E2eVerify(p) ==
    IF p.story # "active" THEN "reject"
    ELSE CASE p.verdict = "pass" ->
                IF p.keys = "e2e" /\ p.fields /\ p.failed = 0 /\ p.listed = 0
                THEN "accept" ELSE "reject"
           [] p.verdict = "fail" -> IF p.listed # 0 THEN "rejectWithFindings" ELSE "reject"
           [] OTHER -> "reject"

CodeReview(p) ==
    IF p.story # "active" THEN "reject"
    ELSE CASE p.verdict = "approved" ->
                IF ~IsCanonicalReview(p) THEN "reject"
                ELSE IF \A severity \in Severities : CountOf(p, severity) = 0
                THEN "accept" ELSE "rejectWithFindings"
           [] p.verdict \in {"needs-dev", "needs-verify"} ->
                IF HasSeverityFindings(p) THEN "rejectWithFindings" ELSE "reject"
           [] OTHER -> "reject"

CodeReviewLenient(p) ==
    IF p.story # "active" THEN "reject"
    ELSE CASE p.verdict = "approved" -> "accept"
           [] p.verdict \in {"needs-dev", "needs-verify"} ->
                IF CountOf(p, "critical") = 0 /\ CountOf(p, "high") = 0
                THEN "accept" ELSE "rejectWithFindings"
           [] OTHER -> "reject"

CodeReviewCriticalOnly(p) ==
    IF \/ ~IsCanonicalReview(p)
       \/ p.verdict \notin {"approved", "needs-dev", "needs-verify"}
       \/ p.story # "active"
    THEN "reject"
    ELSE IF p.counts["critical"] = 0 THEN "accept" ELSE "rejectWithFindings"

\* What the gate of that name says.
PayloadGate(name, p) ==
    CASE name = "e2e-verify"                -> E2eVerify(p)
      [] name = "code-review"               -> CodeReview(p)
      [] name = "code-review-lenient"       -> CodeReviewLenient(p)
      [] name = "code-review-critical-only" -> CodeReviewCriticalOnly(p)
=============================================================================
