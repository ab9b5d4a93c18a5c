--------------------------- MODULE AgentOutputProofs ---------------------------
(***************************************************************************)
(* What holds of the way from an agent's stdout to the decision about its  *)
(* stage, for every set of lines, streams of every length and every way    *)
(* the pipe cuts them into chunks.                                         *)
(***************************************************************************)
EXTENDS AgentOutput, FoldLemmas, SequenceTheorems

-----------------------------------------------------------------------------
(* What a passed review is worth *)

\* A stage has a named gate exactly when its RunDef gives it one, and a decision is
\* that of the kernel about the output the parser has extracted.
DecisionInv ==
    /\ stage \in StageIds /\ StageDefs[stage].kind = "agent"
    /\ gate # "none" => StageDefs[stage].gate
    /\ decision # NoDecision =>
         decision = CheckStageDecision(stage, result) /\ result.output = OutputClass(output)

LEMMA DecisionInvariant == Spec => []DecisionInv
<1>1. Init => DecisionInv
  BY DEF Init, DecisionInv
<1>2. DecisionInv /\ [Next]_vars => DecisionInv'
  <2> SUFFICES ASSUME DecisionInv, [Next]_vars PROVE DecisionInv'
    OBVIOUS
  <2>1. CASE ChildWrites \/ DataEvent \/ UNCHANGED vars
    BY <2>1 DEF ChildWrites, DataEvent, vars, DecisionInv, OutputClass
  <2>2. CASE CloseEvent
    <3>1. PICK exit \in {Absent, 0, 1}, timedOut \in BOOLEAN, aborted \in BOOLEAN :
            result' = BuildResult(parser', exit, timedOut, aborted)
      BY <2>2 DEF CloseEvent
    <3>2. result'.output = OutputClass(output')
      BY <2>2, <3>1 DEF CloseEvent, BuildResult, NoResult
    <3>3. OutputClass(output)' = OutputClass(output')
      BY <2>2 DEF CloseEvent, OutputClass
    <3> QED
      BY <2>2, <3>2, <3>3 DEF CloseEvent, DecisionInv
  <2> QED
    BY <2>1, <2>2 DEF Next
<1> QED
  BY <1>1, <1>2, PTL DEF Spec

\* A stage with a gate passes only when the gate takes the output.
LEMMA PassedOutputIsAccepted ==
    ASSUME DecisionInv, decision.passed, gate # "none"
    PROVE  PayloadGate(gate, output.payload) \notin {"reject", "rejectWithFindings"}
<1>1. decision = CheckStageDecision(stage, result)
  BY DEF DecisionInv, NoDecision
<1>2. result.output = OutputClass(output)
  BY DEF DecisionInv, NoDecision
<1>3. result.output # "null" /\ result.output \notin {"reject", "rejectWithFindings"}
  BY <1>1 DEF DecisionInv, CheckStageDecision, ExecutionFailure, PayloadGateRejects
<1> QED
  BY <1>2, <1>3 DEF OutputClass

\* What the strict review gate and the critical-only gate do not reject.
LEMMA StrictGatesAreStrict ==
    ASSUME NEW name \in {"code-review", "code-review-critical-only"}, NEW p,
           PayloadGate(name, p) \notin {"reject", "rejectWithFindings"}
    PROVE  /\ p.story = "active" /\ p.counts["critical"] = 0
           /\ p.keys = "v2" => p.findings["critical"] = 0
<1>1. CASE name = "code-review"
  <2>1. CodeReview(p) \notin {"reject", "rejectWithFindings"}
    BY <1>1 DEF PayloadGate
  <2>2. /\ p.story = "active" /\ p.verdict = "approved" /\ IsCanonicalReview(p)
        /\ \A severity \in Severities : CountOf(p, severity) = 0
    BY <2>1 DEF CodeReview
  <2> QED
    BY <2>2 DEF IsCanonicalReview, HasEveryCount, FindingsMatchCounts, CountOf, Severities
<1>2. CASE name = "code-review-critical-only"
  <2>1. CodeReviewCriticalOnly(p) \notin {"reject", "rejectWithFindings"}
    BY <1>2 DEF PayloadGate
  <2> QED
    BY <2>1 DEF CodeReviewCriticalOnly, IsCanonicalReview, FindingsMatchCounts, HasEveryCount, Severities
<1> QED
  BY <1>1, <1>2

\* Whatever the child wrote and however it ended, a review that the strict gate or
\* the critical-only gate lets pass is one of the active story without a critical
\* finding.
THEOREM PassedReviewsAreClean == Spec => []PassedReviewIsClean
<1>1. DecisionInv => PassedReviewIsClean
  BY PassedOutputIsAccepted, StrictGatesAreStrict DEF PassedReviewIsClean
<1> QED
  BY <1>1, DecisionInvariant, PTL

-----------------------------------------------------------------------------
(* The loop of the parser.  The fold of the model is a recursive function  *)
(* over sets of indices; that it exists, and that it reads a stream from   *)
(* left to right, is shown with smallest counterexamples.                  *)

\* The iteration of PushChunk over a chunk with one symbol.
PushSymbol(p, symbol) ==
    IF symbol = Newline THEN ConsumeLineBytes(p)
    ELSE [p EXCEPT !.pending = Append(@, symbol)]

\* "fold" says what comes of p with the symbols of b at any of the first n indices.
IsFold(fold, p, b, n) ==
    fold = [T \in SUBSET (1..n) |->
              IF T = {} THEN p ELSE PushSymbol(fold[T \ {Max(T)}], b[Max(T)])]

FoldSteps(fold, p, b, n) ==
    /\ fold[{}] = p
    /\ \A T \in SUBSET (1..n) :
         T # {} => fold[T] = PushSymbol(fold[T \ {Max(T)}], b[Max(T)])

LEMMA FoldHasSteps ==
    ASSUME NEW fold, NEW p, NEW b, NEW n, IsFold(fold, p, b, n)
    PROVE  FoldSteps(fold, p, b, n)
<1>1. fold = [T \in SUBSET (1..n) |->
                IF T = {} THEN p ELSE PushSymbol(fold[T \ {Max(T)}], b[Max(T)])]
  BY DEF IsFold
<1>2. fold[{}] = p
  BY <1>1
<1>3. ASSUME NEW T \in SUBSET (1..n), T # {}
      PROVE  fold[T] = PushSymbol(fold[T \ {Max(T)}], b[Max(T)])
  BY <1>1, <1>3
<1> QED
  BY <1>2, <1>3 DEF FoldSteps

LEMMA FoldExists ==
    ASSUME NEW p, NEW b, NEW n \in Nat
    PROVE  \E fold : IsFold(fold, p, b, n)
<1> DEFINE Missing == {k \in Nat : ~ \E fold : IsFold(fold, p, b, k)}
<1> SUFFICES ASSUME Missing # {} PROVE FALSE
  OBVIOUS
<1>1. PICK k \in Missing : \A m \in Missing : k <= m
  BY SmallestElement
<1>2. CASE k = 0
  <2> DEFINE none == [T \in SUBSET (1..k) |-> p]
  <2>1. \A T \in SUBSET (1..k) : T = {}
    BY <1>2
  <2>2. IsFold(none, p, b, k)
    BY <2>1 DEF IsFold
  <2> QED
    BY <1>1, <2>2
<1>3. CASE k # 0
  <2>1. k - 1 \in Nat /\ k - 1 \notin Missing
    BY <1>1, <1>3
  <2>2. PICK old : IsFold(old, p, b, k - 1)
    BY <2>1
  <2>3. FoldSteps(old, p, b, k - 1)
    BY <2>2, FoldHasSteps
  <2> DEFINE new == [T \in SUBSET (1..k) |->
                       IF k \in T THEN PushSymbol(old[T \ {k}], b[k]) ELSE old[T]]
  <2>4. new[{}] = p
    BY <2>3 DEF FoldSteps
  <2>5. ASSUME NEW T \in SUBSET (1..k), T # {}
        PROVE  new[T] = PushSymbol(new[T \ {Max(T)}], b[Max(T)])
    <3>1. Max(T) \in T /\ \A y \in T : Max(T) >= y
      BY <2>5, MaxMember
    <3>2. CASE k \in T
      <4>1. Max(T) = k
        <5>1. \A y \in T : y \in Nat /\ y <= k
          BY <1>1
        <5> DEFINE m == Max(T)
        <5>2. m \in T /\ \A y \in T : m >= y
          BY <3>1
        <5> HIDE DEF m
        <5>3. m = k
          BY <1>1, <3>2, <5>1, <5>2
        <5> QED
          BY <5>3 DEF m
      <4>2. T \ {k} \in SUBSET (1..k) /\ k \notin T \ {k}
        OBVIOUS
      <4>3. new[T] = PushSymbol(old[T \ {k}], b[k]) /\ new[T \ {k}] = old[T \ {k}]
        BY <3>2, <4>2
      <4> HIDE DEF new
      <4> QED
        BY <4>1, <4>3
    <3>3. CASE k \notin T
      <4>1. T \in SUBSET (1..(k - 1))
        BY <1>1, <3>3
      <4>2. T \ {Max(T)} \in SUBSET (1..k) /\ k \notin T \ {Max(T)}
        BY <3>3
      <4>3. new[T] = old[T] /\ new[T \ {Max(T)}] = old[T \ {Max(T)}]
        BY <3>3, <4>2
      <4>4. old[T] = PushSymbol(old[T \ {Max(T)}], b[Max(T)])
        BY <2>3, <2>5, <4>1 DEF FoldSteps
      <4> HIDE DEF new
      <4> QED
        BY <4>3, <4>4
    <3> QED
      BY <3>2, <3>3
  <2>6. new = [T \in SUBSET (1..k) |->
                 IF T = {} THEN p ELSE PushSymbol(new[T \ {Max(T)}], b[Max(T)])]
    <3>1. \A T \in SUBSET (1..k) :
            new[T] = IF T = {} THEN p ELSE PushSymbol(new[T \ {Max(T)}], b[Max(T)])
      <4> HIDE DEF new
      <4> QED
        BY <2>4, <2>5
    <3>2. new = [T \in SUBSET (1..k) |-> new[T]]
      OBVIOUS
    <3> HIDE DEF new
    <3> QED
      BY <3>1, <3>2
  <2> HIDE DEF new
  <2> QED
    BY <1>1, <2>6 DEF IsFold
<1> QED
  BY <1>2, <1>3

\* What the parser is after each symbol of b.
IsRun(states, p, b) ==
    /\ states[0] = p
    /\ \A k \in 1..Len(b) : states[k] = PushSymbol(states[k - 1], b[k])

\* Pushing symbols is doing so one by one.
LEMMA PushIsRun ==
    ASSUME NEW X, NEW b \in Seq(X), NEW p
    PROVE  \E states : IsRun(states, p, b) /\ PushBytes(p, b) = states[Len(b)]
<1> DEFINE n == Len(b)
           Iterated(fold) == [T \in SUBSET DOMAIN b |->
             IF T = {} THEN p
             ELSE LET x == Max(T) IN PushSymbol(fold[T \ {x}], b[x])]
           chosen == CHOOSE fold : fold = Iterated(fold)
<1>1. PushBytes(p, b) = chosen[DOMAIN b]
  BY DEF PushBytes, FoldLeft, MapThenFoldSet, PushSymbol
<1>2. DOMAIN b = 1..n /\ n \in Nat
  OBVIOUS
<1>3. ASSUME NEW fold PROVE fold = Iterated(fold) <=> IsFold(fold, p, b, n)
  BY <1>2 DEF IsFold
<1> HIDE DEF Iterated
<1>4. \E fold : fold = Iterated(fold)
  BY <1>2, <1>3, FoldExists
<1>5. chosen = Iterated(chosen)
  BY <1>4
<1> HIDE DEF chosen
<1>6. FoldSteps(chosen, p, b, n)
  BY <1>3, <1>5, FoldHasSteps
<1> DEFINE states == [k \in 0..n |-> chosen[1..k]]
<1>7. states[0] = p
  <2>1. 1..0 = {} /\ states[0] = chosen[1..0]
    BY <1>2
  <2> QED
    BY <1>6, <2>1 DEF FoldSteps
<1>8. ASSUME NEW k \in 1..n PROVE states[k] = PushSymbol(states[k - 1], b[k])
  <2>0. k \in Nat /\ 1 <= k /\ k <= n /\ k \in 1..k
    BY <1>2
  <2>1. (1..k) \in SUBSET (1..n) /\ (1..k) # {}
    <3>1. \A x \in 1..k : x \in 1..n
      BY <1>2, <2>0
    <3> QED
      BY <2>0, <3>1
  <2>2. Max(1..k) = k
    <3> DEFINE m == Max(1..k)
    <3>1. m \in 1..k /\ \A y \in 1..k : m >= y
      BY <1>2, <2>1, MaxMember
    <3> HIDE DEF m
    <3>2. m = k
      BY <2>0, <3>1
    <3> QED
      BY <3>2 DEF m
  <2>3. (1..k) \ {k} = 1..(k - 1)
    BY <1>2
  <2>4. chosen[1..k] = PushSymbol(chosen[1..(k - 1)], b[k])
    BY <1>6, <2>1, <2>2, <2>3 DEF FoldSteps
  <2>5. states[k] = chosen[1..k] /\ states[k - 1] = chosen[1..(k - 1)]
    BY <1>2
  <2> HIDE DEF states
  <2> QED
    BY <2>4, <2>5
<1>9. states[n] = chosen[DOMAIN b]
  BY <1>2
<1> HIDE DEF states
<1> QED
  BY <1>1, <1>7, <1>8, <1>9 DEF IsRun

LEMMA RunsAgree ==
    ASSUME NEW X, NEW b \in Seq(X), NEW c \in Seq(X), NEW p, NEW states, NEW others,
           IsRun(states, p, b), IsRun(others, p, c),
           Len(c) <= Len(b), \A k \in 1..Len(c) : b[k] = c[k]
    PROVE  states[Len(c)] = others[Len(c)]
<1> DEFINE Differ == {k \in 0..Len(c) : states[k] # others[k]}
<1> SUFFICES ASSUME Differ # {} PROVE FALSE
  OBVIOUS
<1>1. Len(c) \in Nat /\ Len(b) \in Nat
  OBVIOUS
<1>0. Differ \in SUBSET Nat
  BY <1>1
<1>2. PICK k \in Differ : \A m \in Differ : k <= m
  <2> HIDE DEF Differ
  <2> QED
    BY <1>0, SmallestElement
<1>3. k # 0
  BY <1>2 DEF IsRun
<1>4. k \in 1..Len(c) /\ k \in 1..Len(b) /\ k - 1 \in 0..Len(c) /\ k - 1 \notin Differ
  BY <1>1, <1>2, <1>3
<1>5. states[k] = PushSymbol(states[k - 1], b[k]) /\ others[k] = PushSymbol(others[k - 1], c[k])
  BY <1>4 DEF IsRun
<1> QED
  BY <1>2, <1>4, <1>5

LEMMA RunIsPush ==
    ASSUME NEW X, NEW b \in Seq(X), NEW p, NEW states, IsRun(states, p, b)
    PROVE  PushBytes(p, b) = states[Len(b)]
<1>1. PICK others : IsRun(others, p, b) /\ PushBytes(p, b) = others[Len(b)]
  BY PushIsRun
<1> QED
  BY <1>1, RunsAgree

\* Symbols may be pushed in one go or in two.
LEMMA PushJoins ==
    ASSUME NEW X, NEW b \in Seq(X), NEW c \in Seq(X), NEW p
    PROVE  PushBytes(p, b \o c) = PushBytes(PushBytes(p, b), c)
<1> DEFINE d == b \o c
<1>1. /\ d \in Seq(X) /\ Len(b) \in Nat /\ Len(c) \in Nat /\ Len(d) = Len(b) + Len(c)
      /\ \A k \in 1..Len(b) : d[k] = b[k]
      /\ \A k \in 1..Len(c) : d[Len(b) + k] = c[k]
  OBVIOUS
<1> HIDE DEF d
<1>2. PICK states : IsRun(states, p, d) /\ PushBytes(p, d) = states[Len(d)]
  BY <1>1, PushIsRun
<1>3. IsRun(states, p, b)
  BY <1>1, <1>2 DEF IsRun
<1>4. PushBytes(p, b) = states[Len(b)]
  BY <1>3, RunIsPush
<1> DEFINE rest == [k \in 0..Len(c) |-> states[Len(b) + k]]
<1>5. rest[0] = states[Len(b)]
  BY <1>1
<1>6. ASSUME NEW k \in 1..Len(c) PROVE rest[k] = PushSymbol(rest[k - 1], c[k])
  <2>1. Len(b) + k \in 1..Len(d) /\ (Len(b) + k) - 1 = Len(b) + (k - 1)
    BY <1>1
  <2>2. states[Len(b) + k] = PushSymbol(states[Len(b) + (k - 1)], c[k])
    BY <1>1, <1>2, <2>1 DEF IsRun
  <2>3. rest[k] = states[Len(b) + k] /\ rest[k - 1] = states[Len(b) + (k - 1)]
    BY <1>1
  <2> HIDE DEF rest
  <2> QED
    BY <2>2, <2>3
<1>7. rest[Len(c)] = states[Len(d)]
  BY <1>1
<1> HIDE DEF rest
<1>8. IsRun(rest, PushBytes(p, b), c)
  BY <1>4, <1>5, <1>6 DEF IsRun
<1>9. PushBytes(PushBytes(p, b), c) = rest[Len(c)]
  BY <1>8, RunIsPush
<1> QED
  BY <1>2, <1>7, <1>9 DEF d

-----------------------------------------------------------------------------
(* What is held back between two chunks *)

\* A parser is a record of these fields.
IsParser(p) ==
    p = [held |-> p.held, pending |-> p.pending, carry |-> p.carry, line |-> p.line,
         records |-> p.records, issues |-> p.issues, complete |-> p.complete]

\* p, but for what it holds back.
Holding(p, half) == [p EXCEPT !.held = half]

LEMMA HoldingFields ==
    ASSUME NEW p, IsParser(p), NEW half
    PROVE  /\ Holding(p, half).records = p.records /\ Holding(p, half).issues = p.issues
           /\ Holding(p, half).pending = p.pending /\ Holding(p, half).carry = p.carry
           /\ Holding(p, half).line = p.line /\ Holding(p, half).held = half
           /\ IsParser(Holding(p, half))
<1>1. /\ Holding(p, half).records = p.records /\ Holding(p, half).issues = p.issues
      /\ Holding(p, half).pending = p.pending /\ Holding(p, half).carry = p.carry
      /\ Holding(p, half).line = p.line /\ Holding(p, half).held = half
  BY DEF Holding, IsParser
<1>2. IsParser(Holding(p, half))
  BY DEF Holding, IsParser
<1> QED
  BY <1>1, <1>2

\* Every field but "held" is updated alike, whatever is held back.
WithRecords(p, x) == [p EXCEPT !.records = x]
WithIssues(p, x)  == [p EXCEPT !.issues = x]
WithPending(p, x) == [p EXCEPT !.pending = x]
WithCarry(p, x)   == [p EXCEPT !.carry = x]
AtLine(p, x)      == [p EXCEPT !.line = x]

LEMMA UpdatesHold ==
    ASSUME NEW p, IsParser(p), NEW half, NEW x
    PROVE  /\ IsParser(WithRecords(p, x)) /\ WithRecords(p, x).held = p.held
           /\ IsParser(WithIssues(p, x)) /\ WithIssues(p, x).held = p.held
           /\ IsParser(AtLine(p, x)) /\ AtLine(p, x).held = p.held
           /\ IsParser(WithPending(p, x)) /\ WithPending(p, x).held = p.held
           /\ IsParser(WithCarry(p, x)) /\ WithCarry(p, x).held = p.held
           /\ WithRecords(Holding(p, half), x) = Holding(WithRecords(p, x), half)
           /\ WithIssues(Holding(p, half), x) = Holding(WithIssues(p, x), half)
           /\ AtLine(Holding(p, half), x) = Holding(AtLine(p, x), half)
           /\ WithPending(Holding(p, half), x) = Holding(WithPending(p, x), half)
           /\ WithCarry(Holding(p, half), x) = Holding(WithCarry(p, x), half)
<1>1. IsParser(WithRecords(p, x)) /\ WithRecords(p, x).held = p.held
  BY DEF IsParser, WithRecords
<1>2. IsParser(WithIssues(p, x)) /\ WithIssues(p, x).held = p.held
  BY DEF IsParser, WithIssues
<1>3. IsParser(AtLine(p, x)) /\ AtLine(p, x).held = p.held
  BY DEF IsParser, AtLine
<1>4. IsParser(WithPending(p, x)) /\ WithPending(p, x).held = p.held
  BY DEF IsParser, WithPending
<1>5. IsParser(WithCarry(p, x)) /\ WithCarry(p, x).held = p.held
  BY DEF IsParser, WithCarry
<1>6. WithRecords(Holding(p, half), x) = Holding(WithRecords(p, x), half)
  BY DEF IsParser, Holding, WithRecords
<1>7. WithIssues(Holding(p, half), x) = Holding(WithIssues(p, x), half)
  BY DEF IsParser, Holding, WithIssues
<1>8. AtLine(Holding(p, half), x) = Holding(AtLine(p, x), half)
  BY DEF IsParser, Holding, AtLine
<1>9. WithPending(Holding(p, half), x) = Holding(WithPending(p, x), half)
  BY DEF IsParser, Holding, WithPending
<1>10. WithCarry(Holding(p, half), x) = Holding(WithCarry(p, x), half)
  BY DEF IsParser, Holding, WithCarry
<1> QED
  BY <1>1, <1>2, <1>3, <1>4, <1>5, <1>6, <1>7, <1>8, <1>9, <1>10

\* Parsing a line neither looks at what is held back nor changes it.
LEMMA ParseLineHolds ==
    ASSUME NEW p, IsParser(p), NEW half, NEW text
    PROVE  /\ IsParser(ParseLine(p, text)) /\ ParseLine(p, text).held = p.held
           /\ ParseLine(Holding(p, half), text) = Holding(ParseLine(p, text), half)
<1> DEFINE bulk == \E i \in DOMAIN text : text[i][1].kind = "bulk"
           readable == /\ Len(text) = 2 /\ text = Body(text[1][1])
                       /\ text[1][1].kind # "garbage"
           update == text[1][1].kind = "update"
           first == text[1][1]
<1>1. ASSUME NEW q
      PROVE  ParseLine(q, text) =
               IF bulk THEN q
               ELSE IF readable
               THEN IF update THEN q ELSE WithRecords(q, Append(q.records, first))
               ELSE WithIssues(q, Append(q.issues, q.line))
  BY DEF ParseLine, WithRecords, WithIssues
<1> HIDE DEF bulk, readable, update, first
<1> QED
  BY <1>1, HoldingFields, UpdatesHold

LEMMA ConsumeLineHolds ==
    ASSUME NEW p, IsParser(p), NEW half, NEW text
    PROVE  /\ IsParser(ConsumeLine(p, text)) /\ ConsumeLine(p, text).held = p.held
           /\ ConsumeLine(Holding(p, half), text) = Holding(ConsumeLine(p, text), half)
<1> DEFINE Read(q) == IF text = <<>> THEN q ELSE ParseLine(q, text)
<1>1. /\ IsParser(Read(p)) /\ Read(p).held = p.held
      /\ Read(Holding(p, half)) = Holding(Read(p), half)
  BY ParseLineHolds
<1>2. ASSUME NEW q PROVE ConsumeLine(q, text) = AtLine(Read(q), q.line + 1)
  BY DEF ConsumeLine, AtLine
<1> HIDE DEF Read
<1> QED
  BY <1>1, <1>2, HoldingFields, UpdatesHold

LEMMA SymbolHolds ==
    ASSUME NEW p, IsParser(p), NEW half, NEW symbol
    PROVE  /\ IsParser(PushSymbol(p, symbol)) /\ PushSymbol(p, symbol).held = p.held
           /\ PushSymbol(Holding(p, half), symbol) = Holding(PushSymbol(p, symbol), half)
<1>1. CASE symbol = Newline
  <2> DEFINE Ended(q, carried) == WithCarry(WithPending(q, <<>>), carried)
             bytes == p.carry \o p.pending
             text == ReplaceLoneHalves(WithoutTrailing(bytes))
             half1 == TrailingHalf(bytes)
  <2>1. ASSUME NEW q, IsParser(q), NEW carried
        PROVE  [q EXCEPT !.pending = <<>>, !.carry = carried] = Ended(q, carried)
    BY <2>1 DEF IsParser, WithPending, WithCarry
  <2> HIDE DEF Ended
  <2>2. PushSymbol(p, symbol) = ConsumeLine(Ended(p, half1), text)
    BY <1>1, <2>1 DEF PushSymbol, ConsumeLineBytes
  <2>3. PushSymbol(Holding(p, half), symbol) = ConsumeLine(Ended(Holding(p, half), half1), text)
    BY <1>1, <2>1, HoldingFields DEF PushSymbol, ConsumeLineBytes
  <2> HIDE DEF bytes, text, half1
  <2>4. /\ IsParser(Ended(p, half1)) /\ Ended(p, half1).held = p.held
        /\ Ended(Holding(p, half), half1) = Holding(Ended(p, half1), half)
    BY UpdatesHold DEF Ended
  <2> QED
    BY <2>2, <2>3, <2>4, ConsumeLineHolds
<1>2. CASE symbol # Newline
  <2>1. ASSUME NEW q PROVE PushSymbol(q, symbol) = WithPending(q, Append(q.pending, symbol))
    BY <1>2 DEF PushSymbol, WithPending
  <2> QED
    BY <2>1, HoldingFields, UpdatesHold
<1> QED
  BY <1>1, <1>2

\* What is held back plays no role in what is pushed.
LEMMA PushHolds ==
    ASSUME NEW X, NEW b \in Seq(X), NEW p, IsParser(p), NEW half
    PROVE  /\ IsParser(PushBytes(p, b)) /\ PushBytes(p, b).held = p.held
           /\ PushBytes(Holding(p, half), b) = Holding(PushBytes(p, b), half)
<1>1. PICK states : IsRun(states, p, b) /\ PushBytes(p, b) = states[Len(b)]
  BY PushIsRun
<1>2. Len(b) \in Nat
  OBVIOUS
<1>3. \A k \in 0..Len(b) : IsParser(states[k]) /\ states[k].held = p.held
  <2> DEFINE Bad == {k \in 0..Len(b) : ~(IsParser(states[k]) /\ states[k].held = p.held)}
  <2> SUFFICES ASSUME Bad # {} PROVE FALSE
    OBVIOUS
  <2>1. Bad \in SUBSET Nat
    BY <1>2
  <2>2. PICK k \in Bad : \A m \in Bad : k <= m
    <3> HIDE DEF Bad
    <3> QED
      BY <2>1, SmallestElement
  <2>3. k # 0
    BY <1>1, <2>2 DEF IsRun
  <2>4. k \in 1..Len(b) /\ k - 1 \in 0..Len(b) /\ k - 1 \notin Bad
    BY <1>2, <2>2, <2>3
  <2>5. states[k] = PushSymbol(states[k - 1], b[k])
    BY <1>1, <2>4 DEF IsRun
  <2>6. IsParser(states[k - 1]) /\ states[k - 1].held = p.held
    BY <2>4
  <2>7. IsParser(states[k]) /\ states[k].held = p.held
    BY <2>5, <2>6, SymbolHolds
  <2> QED
    BY <2>2, <2>7
<1> DEFINE others == [k \in 0..Len(b) |-> Holding(states[k], half)]
<1>4. others[0] = Holding(p, half) /\ others[Len(b)] = Holding(states[Len(b)], half)
  BY <1>1, <1>2 DEF IsRun
<1>5. ASSUME NEW k \in 1..Len(b) PROVE others[k] = PushSymbol(others[k - 1], b[k])
  <2>1. k - 1 \in 0..Len(b) /\ k \in 0..Len(b)
    BY <1>2
  <2>2. others[k] = Holding(states[k], half) /\ others[k - 1] = Holding(states[k - 1], half)
    BY <2>1
  <2>3. states[k] = PushSymbol(states[k - 1], b[k])
    BY <1>1 DEF IsRun
  <2> HIDE DEF others
  <2> QED
    BY <1>3, <2>1, <2>2, <2>3, SymbolHolds
<1> HIDE DEF others
<1>6. IsRun(others, Holding(p, half), b)
  BY <1>4, <1>5 DEF IsRun
<1>7. PushBytes(Holding(p, half), b) = others[Len(b)]
  BY <1>6, RunIsPush
<1>8. IsParser(states[Len(b)]) /\ states[Len(b)].held = p.held
  BY <1>2, <1>3
<1> QED
  BY <1>1, <1>4, <1>7, <1>8

-----------------------------------------------------------------------------
(* Characters on the border of two chunks *)

LEMMA HalvesFacts ==
    ASSUME NEW X, NEW a \in Seq(X)
    PROVE  /\ TrailingHalf(a) \in Seq(X) /\ WithoutTrailing(a) \in Seq(X)
           /\ a = WithoutTrailing(a) \o TrailingHalf(a)
           /\ Len(TrailingHalf(a)) \in {0, 1}
           /\ TrailingHalf(a) # <<>> =>
                TrailingHalf(a) = <<Last(a)>> /\ Last(a)[2] = 1 /\ a # <<>>
           /\ TrailingHalf(a) = <<>> =>
                WithoutTrailing(a) = a /\ (a # <<>> => Last(a)[2] # 1)
<1>1. CASE a # <<>> /\ Last(a)[2] = 1
  <2>1. TrailingHalf(a) = <<Last(a)>>
    BY <1>1 DEF TrailingHalf
  <2>2. Last(a) \in X /\ Len(a) \in Nat \ {0} /\ Last(a) = a[Len(a)]
    BY <1>1 DEF Last
  <2>3. Len(<<Last(a)>>) = 1 /\ <<Last(a)>> \in Seq(X) /\ <<Last(a)>>[1] = Last(a)
        /\ <<Last(a)>> # <<>>
    BY <2>2
  <2>4. WithoutTrailing(a) = SubSeq(a, 1, Len(a) - 1)
    BY <2>1, <2>3 DEF WithoutTrailing
  <2>5. SubSeq(a, 1, Len(a) - 1) \in Seq(X)
    <3>1. \A i \in 1..(Len(a) - 1) : a[i] \in X
      BY <2>2
    <3> QED
      BY <2>2, <3>1, SubSeqProperties
  <2>6. a = SubSeq(a, 1, Len(a) - 1) \o <<Last(a)>>
    <3>1. 1 \in 1..Len(a) /\ Len(a) \in 1..Len(a)
      BY <2>2
    <3>2. SubSeq(a, 1, Len(a)) = SubSeq(a, 1, Len(a) - 1) \o << a[Len(a)] >>
      BY <3>1, SubSeqRecursiveSecond
    <3> QED
      BY <2>2, <3>2, SubSeqFull
  <2> QED
    BY <1>1, <2>1, <2>3, <2>4, <2>5, <2>6
<1>2. CASE ~(a # <<>> /\ Last(a)[2] = 1)
  <2>1. TrailingHalf(a) = <<>> /\ Len(<<>>) = 0
    BY <1>2 DEF TrailingHalf
  <2>2. WithoutTrailing(a) = SubSeq(a, 1, Len(a))
    BY <2>1 DEF WithoutTrailing
  <2>3. SubSeq(a, 1, Len(a)) = a /\ a \o <<>> = a /\ <<>> \in Seq(X)
    OBVIOUS
  <2> QED
    BY <1>2, <2>1, <2>2, <2>3
<1> QED
  BY <1>1, <1>2

LEMMA ReplacedFacts ==
    ASSUME NEW X, NEW a \in Seq(X)
    PROVE  /\ ReplaceLoneHalves(a) \in Seq(X \cup {<<x[1], 0>> : x \in X})
           /\ Len(ReplaceLoneHalves(a)) = Len(a)
           /\ \A i \in 1..Len(a) :
                ReplaceLoneHalves(a)[i] = IF IsPaired(a, i) THEN a[i] ELSE <<a[i][1], 0>>
<1> DEFINE Y == X \cup {<<x[1], 0>> : x \in X}
           f == [i \in 1..Len(a) |-> IF IsPaired(a, i) THEN a[i] ELSE <<a[i][1], 0>>]
<1>1. DOMAIN a = 1..Len(a) /\ Len(a) \in Nat
  OBVIOUS
<1>2. \A i \in 1..Len(a) : a[i] \in X
  OBVIOUS
<1>3. \A i \in 1..Len(a) : (IF IsPaired(a, i) THEN a[i] ELSE <<a[i][1], 0>>) \in Y
  BY <1>2
<1>4. ReplaceLoneHalves(a) = f
  BY <1>1 DEF ReplaceLoneHalves
<1>5. f \in [1..Len(a) -> Y]
  BY <1>3
<1>6. \A i \in 1..Len(a) : f[i] = IF IsPaired(a, i) THEN a[i] ELSE <<a[i][1], 0>>
  OBVIOUS
<1> HIDE DEF f, Y
<1>7. f \in Seq(Y) /\ Len(f) = Len(a)
  BY <1>1, <1>5
<1> QED
  BY <1>4, <1>6, <1>7 DEF Y

\* Where a character does not cross the border, both sides are decoded apart.
LEMMA ReplacedApart ==
    ASSUME NEW X, NEW a \in Seq(X), NEW b \in Seq(X),
           a # <<>> /\ b # <<>> =>
             /\ ~(Last(a)[2] = 1 /\ b[1] = <<Last(a)[1], 2>>)
             /\ ~(b[1][2] = 2 /\ Last(a) = <<b[1][1], 1>>)
    PROVE  ReplaceLoneHalves(a \o b) = ReplaceLoneHalves(a) \o ReplaceLoneHalves(b)
<1> DEFINE d == a \o b
           Y == X \cup {<<x[1], 0>> : x \in X}
<1>1. /\ d \in Seq(X) /\ Len(a) \in Nat /\ Len(b) \in Nat /\ Len(d) = Len(a) + Len(b)
      /\ \A k \in 1..Len(a) : d[k] = a[k]
      /\ \A k \in 1..Len(b) : d[Len(a) + k] = b[k]
  OBVIOUS
<1> HIDE DEF d
<1>2. ASSUME NEW c \in Seq(X)
      PROVE  /\ ReplaceLoneHalves(c) \in Seq(Y) /\ Len(ReplaceLoneHalves(c)) = Len(c)
             /\ \A i \in 1..Len(c) :
                  ReplaceLoneHalves(c)[i] = IF IsPaired(c, i) THEN c[i] ELSE <<c[i][1], 0>>
  BY ReplacedFacts
<1> HIDE DEF Y
<1>3. ASSUME NEW i \in 1..Len(a) PROVE IsPaired(d, i) <=> IsPaired(a, i)
  <2>1. d[i] = a[i] /\ (i < Len(a) => d[i + 1] = a[i + 1]) /\ (i > 1 => d[i - 1] = a[i - 1])
    <3>1. i < Len(a) => i + 1 \in 1..Len(a)
      BY <1>1
    <3>2. i > 1 => i - 1 \in 1..Len(a)
      BY <1>1
    <3> QED
      BY <1>1, <3>1, <3>2
  <2>2. CASE i < Len(a)
    BY <1>1, <2>1, <2>2 DEF IsPaired
  <2>3. CASE i = Len(a) /\ b = <<>>
    <3>1. Len(d) = Len(a)
      BY <1>1, <2>3
    <3> QED
      BY <2>1, <2>3, <3>1 DEF IsPaired
  <2>4. CASE i = Len(a) /\ b # <<>>
    <3>1. d[i + 1] = b[1] /\ a # <<>> /\ Last(a) = a[i]
      BY <1>1, <2>4 DEF Last
    <3>2. a[i][2] = 1 => b[1] # <<a[i][1], 2>>
      BY <2>4, <3>1
    <3> QED
      BY <1>1, <2>1, <2>4, <3>1, <3>2 DEF IsPaired
  <2> QED
    BY <1>1, <2>2, <2>3, <2>4
<1>4. ASSUME NEW i \in 1..Len(b) PROVE IsPaired(d, Len(a) + i) <=> IsPaired(b, i)
  <2> DEFINE j == Len(a) + i
  <2>1. j \in Nat /\ d[j] = b[i] /\ (i < Len(b) => d[j + 1] = b[i + 1])
        /\ (i > 1 => d[j - 1] = b[i - 1] /\ j > 1)
        /\ (j < Len(d) <=> i < Len(b))
    <3>1. i < Len(b) => i + 1 \in 1..Len(b) /\ j + 1 = Len(a) + (i + 1)
      BY <1>1
    <3>2. i > 1 => i - 1 \in 1..Len(b) /\ j - 1 = Len(a) + (i - 1)
      BY <1>1
    <3>3. j \in Nat /\ (j < Len(d) <=> i < Len(b)) /\ (i > 1 => j > 1)
      BY <1>1
    <3>4. \A k \in 1..Len(b) : d[Len(a) + k] = b[k]
      BY <1>1
    <3>5. d[j] = b[i]
      BY <3>4
    <3> HIDE DEF j
    <3>6. i < Len(b) => d[j + 1] = b[i + 1]
      BY <3>1, <3>4
    <3>7. i > 1 => d[j - 1] = b[i - 1]
      BY <3>2, <3>4
    <3> QED
      BY <3>3, <3>5, <3>6, <3>7
  <2>2. i = 1 /\ j > 1 => d[j - 1] = Last(a) /\ a # <<>> /\ b # <<>>
    <3>1. i = 1 /\ j > 1 => j - 1 = Len(a) /\ Len(a) \in 1..Len(a)
      BY <1>1
    <3>2. \A k \in 1..Len(a) : d[k] = a[k]
      BY <1>1
    <3>3. Last(a) = a[Len(a)] /\ b # <<>>
      BY DEF Last
    <3>4. Len(a) \in 1..Len(a) => a # <<>>
      OBVIOUS
    <3> HIDE DEF j
    <3> QED
      BY <3>1, <3>2, <3>3, <3>4
  <2>3. i = 1 /\ j > 1 /\ b[1][2] = 2 => d[j - 1] # <<b[1][1], 1>>
    BY <2>2
  <2> SUFFICES IsPaired(d, j) <=> IsPaired(b, i)
    OBVIOUS
  <2> HIDE DEF j
  <2>4. i \in Nat /\ (j < Len(d) <=> i < Len(b))
    BY <1>1, <2>1
  <2>5. CASE b[i][2] = 1
    BY <2>1, <2>4, <2>5 DEF IsPaired
  <2>6. CASE b[i][2] = 2 /\ i > 1
    BY <2>1, <2>6 DEF IsPaired
  <2>7. CASE b[i][2] = 2 /\ ~(i > 1)
    <3>1. i = 1
      BY <1>1, <2>7
    <3> QED
      BY <2>1, <2>3, <2>7, <3>1 DEF IsPaired
  <2>8. CASE b[i][2] # 1 /\ b[i][2] # 2
    BY <2>1, <2>8 DEF IsPaired
  <2> QED
    BY <2>5, <2>6, <2>7, <2>8
<1> DEFINE whole == ReplaceLoneHalves(d)
           left  == ReplaceLoneHalves(a)
           right == ReplaceLoneHalves(b)
<1>5. /\ whole \in Seq(Y) /\ left \in Seq(Y) /\ right \in Seq(Y)
      /\ Len(whole) = Len(d) /\ Len(left) = Len(a) /\ Len(right) = Len(b)
  BY <1>1, <1>2
<1>6. \A i \in 1..Len(a) : whole[i] = left[i]
  <2> SUFFICES ASSUME NEW i \in 1..Len(a) PROVE whole[i] = left[i]
    OBVIOUS
  <2>1. i \in 1..Len(d)
    BY <1>1
  <2>2. whole[i] = (IF IsPaired(d, i) THEN d[i] ELSE <<d[i][1], 0>>)
        /\ left[i] = (IF IsPaired(a, i) THEN a[i] ELSE <<a[i][1], 0>>)
    BY <1>1, <1>2, <2>1
  <2> HIDE DEF whole, left
  <2> QED
    BY <1>1, <1>3, <2>2
<1>7. \A i \in 1..Len(b) : whole[Len(a) + i] = right[i]
  <2> SUFFICES ASSUME NEW i \in 1..Len(b) PROVE whole[Len(a) + i] = right[i]
    OBVIOUS
  <2>1. Len(a) + i \in 1..Len(d)
    BY <1>1
  <2>2. whole[Len(a) + i] = (IF IsPaired(d, Len(a) + i) THEN d[Len(a) + i]
                             ELSE <<d[Len(a) + i][1], 0>>)
        /\ right[i] = (IF IsPaired(b, i) THEN b[i] ELSE <<b[i][1], 0>>)
    BY <1>1, <1>2, <2>1
  <2> HIDE DEF whole, right
  <2> QED
    BY <1>1, <1>4, <2>2
<1> HIDE DEF whole, left, right
<1>8. whole = left \o right
  <2> DEFINE joined == left \o right
  <2>1. /\ joined \in Seq(Y) /\ Len(joined) = Len(a) + Len(b)
        /\ \A k \in 1..Len(a) : joined[k] = left[k]
        /\ \A k \in 1..Len(b) : joined[Len(a) + k] = right[k]
    <3>0. left \in Seq(Y) /\ right \in Seq(Y)
      BY <1>5
    <3>1. left \in Seq(Y) /\ right \in Seq(Y) /\ Len(left) = Len(a) /\ Len(right) = Len(b)
      BY <1>5
    <3>2. /\ joined \in Seq(Y) /\ Len(joined) = Len(left) + Len(right)
          /\ \A i \in 1..(Len(left) + Len(right)) :
               joined[i] = IF i <= Len(left) THEN left[i] ELSE right[i - Len(left)]
      BY <3>0, ConcatProperties
    <3>3. ASSUME NEW k \in 1..Len(a) PROVE joined[k] = left[k]
      BY <1>1, <3>1, <3>2
    <3>4. ASSUME NEW k \in 1..Len(b) PROVE joined[Len(a) + k] = right[k]
      <4> HIDE DEF joined
      <4>1. /\ Len(a) + k \in 1..(Len(left) + Len(right)) /\ ~(Len(a) + k <= Len(left))
            /\ (Len(a) + k) - Len(left) = k
        BY <1>1, <3>1
      <4> QED
        BY <3>2, <4>1
    <3> HIDE DEF joined
    <3> QED
      BY <3>1, <3>2, <3>3, <3>4
  <2> HIDE DEF joined
  <2>2. ASSUME NEW k \in 1..Len(whole) PROVE whole[k] = joined[k]
    <3>1. CASE k <= Len(a)
      BY <1>1, <1>5, <1>6, <2>1, <3>1
    <3>2. CASE ~(k <= Len(a))
      <4>1. k - Len(a) \in 1..Len(b) /\ k = Len(a) + (k - Len(a))
        BY <1>1, <1>5, <3>2
      <4> QED
        BY <1>7, <2>1, <4>1
    <3> QED
      BY <3>1, <3>2
  <2>3. whole = joined
    BY <1>1, <1>5, <2>1, <2>2, SeqEqual
  <2> QED
    BY <2>3 DEF joined
<1> QED
  BY <1>8 DEF whole, left, right, d

\* What is decoded of two chunks, with the half that waits between them.
LEMMA DecodedApart ==
    ASSUME NEW X, NEW a \in Seq(X), NEW b \in Seq(X)
    PROVE  LET both == a \o b
               rest == TrailingHalf(a) \o b
           IN  /\ TrailingHalf(both) = TrailingHalf(rest)
               /\ ReplaceLoneHalves(WithoutTrailing(both))
                    = ReplaceLoneHalves(WithoutTrailing(a))
                        \o ReplaceLoneHalves(WithoutTrailing(rest))
<1> DEFINE both == a \o b
           half == TrailingHalf(a)
           left == WithoutTrailing(a)
           rest == half \o b
           right == WithoutTrailing(rest)
<1>1. /\ half \in Seq(X) /\ left \in Seq(X) /\ a = left \o half
      /\ half # <<>> => half = <<Last(a)>> /\ Last(a)[2] = 1 /\ a # <<>>
      /\ half = <<>> => left = a /\ (a # <<>> => Last(a)[2] # 1)
  BY HalvesFacts
<1> HIDE DEF half, left
<1>2. both = left \o rest /\ rest \in Seq(X) /\ both \in Seq(X)
  BY <1>1
<1>3. CASE rest = <<>>
  <2>1. half = <<>> /\ b = <<>> /\ both = a /\ left = a
    BY <1>1, <1>3
  <2>2. TrailingHalf(both) = <<>> /\ TrailingHalf(rest) = <<>>
    BY <1>3, <2>1 DEF half, TrailingHalf
  <2>3. right = <<>> /\ WithoutTrailing(both) = left
    BY <1>2, <1>3, <2>1, <2>2, HalvesFacts
  <2>4. ReplaceLoneHalves(<<>>) = <<>>
    BY DEF ReplaceLoneHalves
  <2>5. ReplaceLoneHalves(left) \o <<>> = ReplaceLoneHalves(left)
    <3>1. left # <<>> /\ <<>> # <<>> => FALSE
      OBVIOUS
    <3>2. left \o <<>> = left /\ <<>> \in Seq(X)
      BY <1>1
    <3>3. ReplaceLoneHalves(left \o <<>>) = ReplaceLoneHalves(left) \o ReplaceLoneHalves(<<>>)
      BY <1>1, <3>2, ReplacedApart
    <3> QED
      BY <2>4, <3>2, <3>3
  <2> QED
    BY <2>2, <2>3, <2>4, <2>5 DEF half, left
<1>4. CASE rest # <<>>
  <2>1. both # <<>> /\ Last(both) = Last(rest)
    BY <1>2, <1>4 DEF Last
  <2>2. TrailingHalf(both) = TrailingHalf(rest)
    BY <1>4, <2>1 DEF TrailingHalf
  <2> DEFINE end == TrailingHalf(rest)
  <2>3. /\ right \in Seq(X) /\ end \in Seq(X) /\ rest = right \o end
    BY <1>2, HalvesFacts
  <2>4. both = (left \o right) \o end
    <3> HIDE DEF right, end, both, rest
    <3>1. left \in Seq(X) /\ right \in Seq(X) /\ end \in Seq(X)
      BY <1>1, <2>3
    <3>2. (left \o right) \o end = left \o (right \o end)
      BY <3>1, ConcatAssociative
    <3> QED
      BY <1>2, <2>3, <3>2
  <2>5. WithoutTrailing(both) = SubSeq(both, 1, Len(both) - Len(end))
    BY <2>2 DEF WithoutTrailing
  <2> HIDE DEF end, right, both, rest
  <2>6. WithoutTrailing(both) = left \o right
    BY <1>1, <2>3, <2>4, <2>5
  <2>7. left # <<>> /\ right # <<>> =>
          /\ ~(Last(left)[2] = 1 /\ right[1] = <<Last(left)[1], 2>>)
          /\ ~(right[1][2] = 2 /\ Last(left) = <<right[1][1], 1>>)
    <3> SUFFICES ASSUME left # <<>>, right # <<>>
                 PROVE  /\ ~(Last(left)[2] = 1 /\ right[1] = <<Last(left)[1], 2>>)
                        /\ ~(right[1][2] = 2 /\ Last(left) = <<right[1][1], 1>>)
      OBVIOUS
    <3>1. CASE half = <<>>
      <4>1. Last(left)[2] # 1
        BY <1>1, <3>1
      <4>2. \A x : Last(left) = <<x, 1>> => Last(left)[2] = 1
        OBVIOUS
      <4> QED
        BY <4>1, <4>2
    <3>2. CASE half # <<>>
      <4>1. rest[1] = Last(a)
        BY <1>1, <3>2 DEF rest
      <4>2. right[1] = rest[1]
        BY <2>3
      <4>3. right[1][2] = 1
        BY <1>1, <3>2, <4>1, <4>2
      <4>4. \A x : right[1] = <<x, 2>> => right[1][2] = 2
        OBVIOUS
      <4> QED
        BY <4>3, <4>4
    <3> QED
      BY <3>1, <3>2
  <2>8. ReplaceLoneHalves(left \o right) = ReplaceLoneHalves(left) \o ReplaceLoneHalves(right)
    BY <1>1, <2>3, <2>7, ReplacedApart
  <2> QED
    BY <2>2, <2>6, <2>8 DEF left, right, both, rest, half
<1> QED
  BY <1>3, <1>4

\* Two chunks are as good as one, wherever the cut is.
LEMMA ChunksJoin ==
    ASSUME NEW X, NEW a \in Seq(X), NEW b \in Seq(X),
           NEW p, IsParser(p), p.held \in Seq(X)
    PROVE  PushChunk(PushChunk(p, a), b) = PushChunk(p, a \o b)
<1>1. CASE mode # "text"
  BY <1>1, PushJoins DEF PushChunk
<1>2. CASE mode = "text"
  <2> DEFINE first == p.held \o a
             h1 == TrailingHalf(first)
             s1 == ReplaceLoneHalves(WithoutTrailing(first))
             second == h1 \o b
             h2 == TrailingHalf(second)
             s2 == ReplaceLoneHalves(WithoutTrailing(second))
             Y == X \cup {<<x[1], 0>> : x \in X}
             q == PushText(p, a)
  <2>0. first \in Seq(X)
    OBVIOUS
  <2>1. first \in Seq(X) /\ h1 \in Seq(X) /\ WithoutTrailing(first) \in Seq(X)
    <3> HIDE DEF first
    <3> QED
      BY <2>0, HalvesFacts
  <2>2. second \in Seq(X)
    <3> HIDE DEF h1
    <3> QED
      BY <2>1
  <2>3. WithoutTrailing(second) \in Seq(X)
    <3> HIDE DEF second
    <3> QED
      BY <2>2, HalvesFacts
  <2>4. s1 \in Seq(Y) /\ s2 \in Seq(Y)
    <3> HIDE DEF first, second
    <3> QED
      BY <2>1, <2>3, ReplacedFacts
  <2>5. p.held \o (a \o b) = first \o b
    <3> DEFINE held == p.held
    <3>1. held \in Seq(X)
      OBVIOUS
    <3> HIDE DEF held
    <3>2. (held \o a) \o b = held \o (a \o b)
      BY <3>1, ConcatAssociative
    <3> QED
      BY <3>2 DEF held
  <2>6. /\ TrailingHalf(first \o b) = h2
        /\ ReplaceLoneHalves(WithoutTrailing(first \o b)) = s1 \o s2
    <3> HIDE DEF first
    <3> QED
      BY <2>1, DecodedApart
  <2>7. PushText(p, a \o b) = PushBytes(Holding(p, h2), s1 \o s2)
    <3>1. PushText(p, a \o b)
            = PushBytes(Holding(p, TrailingHalf(first \o b)),
                        ReplaceLoneHalves(WithoutTrailing(first \o b)))
      BY <2>5 DEF PushText, Holding
    <3> QED
      BY <2>6, <3>1
  <2>8. q = PushBytes(Holding(p, h1), s1)
    BY DEF PushText, Holding
  <2> HIDE DEF q, s1, s2, h2, Y
  <2>9. q = Holding(PushBytes(p, s1), h1) /\ IsParser(PushBytes(p, s1))
    BY <2>4, <2>8, PushHolds
  <2>10. q.held = h1 /\ IsParser(q)
    BY <2>9, HoldingFields
  <2>11. PushText(q, b) = PushBytes(Holding(q, h2), s2)
    BY <2>10 DEF PushText, Holding, h2, s2
  <2>12. Holding(q, h2) = Holding(PushBytes(p, s1), h2)
    <3> DEFINE r == PushBytes(p, s1)
    <3>1. IsParser(r) /\ q = Holding(r, h1)
      BY <2>9
    <3> HIDE DEF r, h1
    <3>2. Holding(Holding(r, h1), h2) = Holding(r, h2)
      BY <3>1 DEF Holding, IsParser
    <3> QED
      BY <3>1, <3>2 DEF r
  <2>13. Holding(PushBytes(p, s1), h2) = PushBytes(Holding(p, h2), s1)
    BY <2>4, PushHolds
  <2>14. PushBytes(PushBytes(Holding(p, h2), s1), s2) = PushBytes(Holding(p, h2), s1 \o s2)
    BY <2>4, PushJoins
  <2>15. PushText(q, b) = PushText(p, a \o b)
    BY <2>7, <2>11, <2>12, <2>13, <2>14
  <2> QED
    BY <1>2, <2>15 DEF PushChunk, q
<1> QED
  BY <1>1, <1>2

\* A chunk leaves a parser that holds back symbols.
LEMMA ChunkKeepsParser ==
    ASSUME NEW X, NEW a \in Seq(X), NEW p, IsParser(p), p.held \in Seq(X)
    PROVE  IsParser(PushChunk(p, a)) /\ PushChunk(p, a).held \in Seq(X)
<1>1. CASE mode # "text"
  BY <1>1, PushHolds DEF PushChunk
<1>2. CASE mode = "text"
  <2> DEFINE text == p.held \o a
             half == TrailingHalf(text)
             read == ReplaceLoneHalves(WithoutTrailing(text))
             Y == X \cup {<<x[1], 0>> : x \in X}
  <2>1. text \in Seq(X)
    OBVIOUS
  <2>2. half \in Seq(X) /\ WithoutTrailing(text) \in Seq(X)
    <3> HIDE DEF text
    <3> QED
      BY <2>1, HalvesFacts
  <2>3. read \in Seq(Y)
    <3> HIDE DEF text
    <3> QED
      BY <2>2, ReplacedFacts
  <2>4. PushChunk(p, a) = PushBytes(Holding(p, half), read)
    BY <1>2 DEF PushChunk, PushText, Holding
  <2> HIDE DEF half, read, Y
  <2>5. IsParser(Holding(p, half)) /\ Holding(p, half).held = half
    BY HoldingFields
  <2> QED
    BY <2>2, <2>3, <2>4, <2>5, PushHolds
<1> QED
  BY <1>1, <1>2

-----------------------------------------------------------------------------
(* The stream *)

\* "flat" is what the first sequences make, joined.
IsFlat(flat, seqs) ==
    \A i \in 1..Len(seqs) : flat[i] = IF i = 1 THEN seqs[i] ELSE flat[i - 1] \o seqs[i]

LEMMA FlatExists ==
    ASSUME NEW seqs, Len(seqs) \in Nat
    PROVE  \E flat : flat = [i \in 1..Len(seqs) |->
                               IF i = 1 THEN seqs[i] ELSE flat[i - 1] \o seqs[i]]
<1> DEFINE Upto(f, n) == f = [i \in 1..n |-> IF i = 1 THEN seqs[i] ELSE f[i - 1] \o seqs[i]]
           Missing == {n \in Nat : ~ \E f : Upto(f, n)}
<1>1. Missing = {}
  <2> SUFFICES ASSUME Missing # {} PROVE FALSE
    OBVIOUS
  <2>1. PICK n \in Missing : \A m \in Missing : n <= m
    BY SmallestElement
  <2>2. CASE n = 0
    <3> DEFINE f == [i \in 1..n |-> seqs]
    <3>1. f = [i \in 1..n |-> IF i = 1 THEN seqs[i] ELSE f[i - 1] \o seqs[i]]
      BY <2>2
    <3> QED
      BY <2>1, <3>1
  <2>3. CASE n # 0
    <3>a. n \in Nat
      OBVIOUS
    <3>b. n - 1 \in Nat /\ ~(n <= n - 1)
      BY <3>a, <2>3
    <3>1. n - 1 \notin Missing
      <4> HIDE DEF Missing
      <4> QED
        BY <2>1, <3>b
    <3>2. PICK f : Upto(f, n - 1)
      <4> HIDE DEF Upto
      <4> QED
        BY <3>1, <3>b
    <3> DEFINE last == IF n = 1 THEN seqs[n] ELSE f[n - 1] \o seqs[n]
               g == [i \in 1..n |-> IF i = n THEN last ELSE f[i]]
    <3>3. ASSUME NEW i \in 1..n
          PROVE  g[i] = IF i = 1 THEN seqs[i] ELSE g[i - 1] \o seqs[i]
      <4>0. n \in Nat /\ i \in Nat
        BY <2>1
      <4>1. CASE i = n
        <5>1. g[i] = last
          BY <4>1
        <5>2. i # 1 => i - 1 \in 1..n /\ i - 1 # n
          BY <4>0
        <5>3. i # 1 => g[i - 1] = f[n - 1]
          BY <4>1, <5>2
        <5> HIDE DEF g
        <5> QED
          BY <4>1, <5>1, <5>3
      <4>2. CASE i # n
        <5>1. i \in 1..(n - 1)
          BY <4>0, <4>2
        <5>2. g[i] = f[i]
          BY <4>2
        <5>3. i # 1 => i - 1 \in 1..n /\ i - 1 # n
          BY <4>0
        <5>4. i # 1 => g[i - 1] = f[i - 1]
          BY <5>3
        <5>5. f[i] = IF i = 1 THEN seqs[i] ELSE f[i - 1] \o seqs[i]
          <6>1. f = [k \in 1..(n - 1) |-> IF k = 1 THEN seqs[k] ELSE f[k - 1] \o seqs[k]]
            BY <3>2
          <6> QED
            BY <5>1, <6>1
        <5> HIDE DEF g
        <5> QED
          BY <5>2, <5>4, <5>5
      <4> QED
        BY <4>1, <4>2
    <3>4. g = [i \in 1..n |-> g[i]]
      OBVIOUS
    <3> HIDE DEF g
    <3>5. Upto(g, n)
      BY <3>3, <3>4
    <3> HIDE DEF Upto
    <3> QED
      BY <2>1, <3>5
  <2> QED
    BY <2>2, <2>3
<1>2. \E f : Upto(f, Len(seqs))
  BY <1>1
<1> QED
  BY <1>2

LEMMA FlattenIsFlat ==
    ASSUME NEW seqs, Len(seqs) \in Nat, Len(seqs) # 0
    PROVE  \E flat : IsFlat(flat, seqs) /\ FlattenSeq(seqs) = flat[Len(seqs)]
<1> DEFINE Iterated(f) == [i \in 1..Len(seqs) |-> IF i = 1 THEN seqs[i] ELSE f[i - 1] \o seqs[i]]
           chosen == CHOOSE f : f = Iterated(f)
<1>1. FlattenSeq(seqs) = chosen[Len(seqs)]
  BY DEF FlattenSeq
<1>2. \E f : f = Iterated(f)
  BY FlatExists
<1>3. chosen = Iterated(chosen)
  <2> HIDE DEF Iterated
  <2> QED
    BY <1>2
<1> HIDE DEF chosen
<1>4. IsFlat(chosen, seqs)
  BY <1>3 DEF IsFlat
<1> QED
  BY <1>1, <1>4

LEMMA FlatIsTyped ==
    ASSUME NEW S, NEW seqs \in Seq(Seq(S)), NEW flat, IsFlat(flat, seqs)
    PROVE  \A i \in 1..Len(seqs) : flat[i] \in Seq(S)
<1> DEFINE Bad == {i \in 1..Len(seqs) : flat[i] \notin Seq(S)}
<1> SUFFICES ASSUME Bad # {} PROVE FALSE
  OBVIOUS
<1>1. Bad \in SUBSET Nat
  OBVIOUS
<1>2. PICK k \in Bad : \A m \in Bad : k <= m
  <2> HIDE DEF Bad
  <2> QED
    BY <1>1, SmallestElement
<1>3. k \in 1..Len(seqs) /\ k \in Nat /\ Len(seqs) \in Nat /\ seqs[k] \in Seq(S)
  BY <1>2
<1>4. flat[k] = IF k = 1 THEN seqs[k] ELSE flat[k - 1] \o seqs[k]
  BY <1>3 DEF IsFlat
<1>5. k # 1 => k - 1 \in 1..Len(seqs) /\ k - 1 \notin Bad
  BY <1>2, <1>3
<1>6. k # 1 => flat[k - 1] \in Seq(S)
  BY <1>5
<1>7. flat[k] \in Seq(S)
  <2>1. CASE k = 1
    BY <1>3, <1>4, <2>1
  <2>2. CASE k # 1
    <3> DEFINE x == flat[k - 1]
               y == seqs[k]
    <3>1. x \in Seq(S) /\ y \in Seq(S) /\ flat[k] = x \o y
      BY <1>3, <1>4, <1>6, <2>2
    <3> HIDE DEF x, y
    <3>2. x \o y \in Seq(S)
      BY <3>1
    <3> QED
      BY <3>1, <3>2
  <2> QED
    BY <2>1, <2>2
<1> QED
  BY <1>2, <1>7

LEMMA FlatsAgree ==
    ASSUME NEW seqs, NEW others, NEW flat, NEW flat2, Len(seqs) \in Nat, Len(others) \in Nat,
           IsFlat(flat, seqs), IsFlat(flat2, others), Len(seqs) <= Len(others),
           \A i \in 1..Len(seqs) : seqs[i] = others[i]
    PROVE  \A i \in 1..Len(seqs) : flat[i] = flat2[i]
<1> DEFINE Differ == {i \in 1..Len(seqs) : flat[i] # flat2[i]}
<1> SUFFICES ASSUME Differ # {} PROVE FALSE
  OBVIOUS
<1>1. Differ \in SUBSET Nat /\ Len(seqs) \in Nat /\ Len(others) \in Nat
  OBVIOUS
<1>2. PICK k \in Differ : \A m \in Differ : k <= m
  <2> HIDE DEF Differ
  <2> QED
    BY <1>1, SmallestElement
<1>3. k \in 1..Len(seqs) /\ k \in 1..Len(others) /\ k \in Nat
  BY <1>1, <1>2
<1>4. /\ flat[k] = IF k = 1 THEN seqs[k] ELSE flat[k - 1] \o seqs[k]
      /\ flat2[k] = IF k = 1 THEN others[k] ELSE flat2[k - 1] \o others[k]
  BY <1>3 DEF IsFlat
<1>5. k # 1 => k - 1 \in 1..Len(seqs) /\ k - 1 \notin Differ
  BY <1>2, <1>3
<1>6. k # 1 => flat[k - 1] = flat2[k - 1]
  BY <1>5
<1> QED
  BY <1>2, <1>3, <1>4, <1>6

\* One more sequence at the end is one more part at the end of the whole.
LEMMA FlattenAppend ==
    ASSUME NEW S, NEW seqs \in Seq(Seq(S)), NEW x \in Seq(S)
    PROVE  FlattenSeq(seqs) \in Seq(S) /\ FlattenSeq(Append(seqs, x)) = FlattenSeq(seqs) \o x
<1> DEFINE longer == Append(seqs, x)
           n == Len(seqs)
<1>1. /\ longer \in Seq(Seq(S)) /\ Len(longer) = n + 1 /\ n \in Nat
      /\ longer[n + 1] = x /\ \A i \in 1..n : longer[i] = seqs[i]
  OBVIOUS
<1> HIDE DEF longer
<1> DEFINE m == n + 1
<1>m. m \in Nat /\ m # 0 /\ Len(longer) = m
  BY <1>1
<1> HIDE DEF m, n
<1>2. PICK flat2 : IsFlat(flat2, longer) /\ FlattenSeq(longer) = flat2[m]
  BY <1>m, FlattenIsFlat
<1>3. flat2[m] = IF n = 0 THEN x ELSE flat2[n] \o x
  <2>1. m \in 1..Len(longer) /\ (m = 1 <=> n = 0) /\ m - 1 = n /\ longer[m] = x
    BY <1>1, <1>m DEF m
  <2> QED
    BY <1>2, <2>1 DEF IsFlat
<1>4. CASE n = 0
  <2>1. seqs = <<>> /\ FlattenSeq(seqs) = seqs
    BY <1>4 DEF FlattenSeq, n
  <2>2. <<>> \o x = x /\ <<>> \in Seq(S)
    OBVIOUS
  <2> QED
    BY <1>2, <1>3, <1>4, <2>1, <2>2 DEF longer
<1>5. CASE n # 0
  <2>0. Len(seqs) = n /\ seqs \in Seq(Seq(S)) /\ longer \in Seq(Seq(S))
    BY <1>1 DEF n
  <2>1. PICK flat : IsFlat(flat, seqs) /\ FlattenSeq(seqs) = flat[n]
    BY <1>1, <1>5, <2>0, FlattenIsFlat
  <2>2. n \in 1..n /\ n <= m
    BY <1>1, <1>5 DEF m
  <2>3. \A i \in 1..n : flat[i] = flat2[i]
    <3>1. /\ IsFlat(flat, seqs) /\ IsFlat(flat2, longer) /\ Len(seqs) <= Len(longer)
          /\ \A i \in 1..Len(seqs) : seqs[i] = longer[i]
      BY <1>1, <1>2, <1>m, <2>0, <2>1, <2>2
    <3>2. \A i \in 1..Len(seqs) : flat[i] = flat2[i]
      <4>1. Len(seqs) \in Nat /\ Len(longer) \in Nat
        BY <1>1, <1>m, <2>0
      <4> QED
        BY <3>1, <4>1, FlatsAgree
    <3> QED
      BY <2>0, <3>2
  <2>4. flat[n] \in Seq(S)
    BY <2>0, <2>1, <2>2, FlatIsTyped
  <2>5. n \in 1..n => flat[n] = flat2[n]
    BY <2>3
  <2>6. FlattenSeq(longer) = FlattenSeq(seqs) \o x
    BY <1>2, <1>3, <1>5, <2>1, <2>2, <2>5
  <2> QED
    BY <2>1, <2>4, <2>6 DEF longer
<1> QED
  BY <1>4, <1>5

Symbols == (Lines \cup {NoLine}) \X (0..3)

WroteType == Seq([line : Lines, part : {"line", "unended", "torn"}])

LEMMA WrittenIsSymbols ==
    ASSUME NEW w \in [line : Lines, part : {"line", "unended", "torn"}]
    PROVE  Written(w) \in Seq(Symbols)
<1> DEFINE sym(line, half) == <<line, half>>
<1>1. ASSUME NEW line \in Lines
      PROVE  Body(line) \in Seq(Symbols)
  <2>1. \A half \in 0..3 : <<line, half>> \in Symbols
    BY DEF Symbols
  <2>2. /\ <<line, 0>> \in Symbols /\ <<line, 1>> \in Symbols /\ <<line, 2>> \in Symbols
    BY <2>1
  <2>3. << <<line, 0>>, <<line, 1>> >> \in Seq(Symbols)
        /\ << <<line, 1>>, <<line, 2>> >> \in Seq(Symbols) /\ <<>> \in Seq(Symbols)
    BY <2>2
  <2> QED
    BY <2>3 DEF Body
<1>2. w.line \in Lines /\ w.part \in {"line", "unended", "torn"}
  OBVIOUS
<1>3. Newline \in Symbols /\ <<w.line, 1>> \in Symbols
  BY <1>2 DEF Newline, Symbols
<1>4. <<Newline>> \in Seq(Symbols) /\ << <<w.line, 1>> >> \in Seq(Symbols)
  BY <1>3
<1> DEFINE body == Body(w.line)
<1>5. body \in Seq(Symbols)
  BY <1>1, <1>2
<1> HIDE DEF body
<1>6. body \o <<Newline>> \in Seq(Symbols)
  BY <1>4, <1>5
<1> QED
  BY <1>2, <1>4, <1>5, <1>6 DEF Written, body

LEMMA SeqFacts ==
    ASSUME NEW S, NEW s \in Seq(S)
    PROVE  DOMAIN s = 1..Len(s) /\ Len(s) \in Nat /\ \A i \in 1..Len(s) : s[i] \in S
OBVIOUS

LEMMA WroteFacts ==
    ASSUME wrote \in WroteType
    PROVE  /\ DOMAIN wrote = 1..Len(wrote) /\ Len(wrote) \in Nat
           /\ \A i \in 1..Len(wrote) :
                wrote[i] \in [line : Lines, part : {"line", "unended", "torn"}]
<1> DEFINE W == [line : Lines, part : {"line", "unended", "torn"}]
<1>1. wrote \in Seq(W)
  BY DEF WroteType
<1> HIDE DEF W
<1>2. DOMAIN wrote = 1..Len(wrote) /\ Len(wrote) \in Nat /\ \A i \in 1..Len(wrote) : wrote[i] \in W
  BY <1>1, SeqFacts
<1> QED
  BY <1>2 DEF W

LEMMA StreamGrows ==
    ASSUME wrote \in WroteType,
           NEW w \in [line : Lines, part : {"line", "unended", "torn"}], wrote' = Append(wrote, w)
    PROVE  Stream' = Stream \o Written(w)
<1> DEFINE parts == [i \in DOMAIN wrote |-> Written(wrote[i])]
           parts2 == [i \in DOMAIN wrote' |-> Written(wrote'[i])]
           n == Len(wrote)
<1>1. /\ wrote \in Seq([line : Lines, part : {"line", "unended", "torn"}])
      /\ DOMAIN wrote = 1..n /\ n \in Nat
      /\ \A i \in 1..n : wrote[i] \in [line : Lines, part : {"line", "unended", "torn"}]
  BY WroteFacts DEF WroteType
<1>2. /\ wrote' \in Seq([line : Lines, part : {"line", "unended", "torn"}])
      /\ DOMAIN wrote' = 1..(n + 1) /\ wrote'[n + 1] = w
      /\ \A i \in 1..n : wrote'[i] = wrote[i]
  BY <1>1
<1>3. Written(w) \in Seq(Symbols) /\ \A i \in 1..n : Written(wrote[i]) \in Seq(Symbols)
  BY <1>1, WrittenIsSymbols
<1>4. parts \in Seq(Seq(Symbols)) /\ Len(parts) = n /\ \A i \in 1..n : parts[i] = Written(wrote[i])
  <2>1. parts \in [1..n -> Seq(Symbols)]
    BY <1>1, <1>3
  <2>2. \A i \in 1..n : parts[i] = Written(wrote[i])
    BY <1>1
  <2> HIDE DEF parts
  <2> QED
    BY <1>1, <2>1, <2>2
<1>5. parts2 = Append(parts, Written(w))
  <2>1. /\ DOMAIN parts2 = 1..(n + 1)
        /\ \A i \in 1..(n + 1) : parts2[i] = Written(wrote'[i])
    BY <1>2
  <2>2. /\ parts2[n + 1] = Written(w) /\ \A i \in 1..n : parts2[i] = parts[i]
    BY <1>1, <1>2, <1>4, <2>1
  <2>3. parts2 = [i \in 1..(n + 1) |-> parts2[i]]
    BY <1>2
  <2> HIDE DEF parts, parts2
  <2>4. \A i \in 1..(n + 1) : parts2[i] \in Seq(Symbols)
    <3>1. ASSUME NEW i \in 1..(n + 1) PROVE parts2[i] \in Seq(Symbols)
      <4>1. CASE i = n + 1
        BY <1>3, <2>2, <4>1
      <4>2. CASE i # n + 1
        BY <1>1, <1>4, <2>2, <4>2
      <4> QED
        BY <4>1, <4>2
    <3> QED
      BY <3>1
  <2>5. parts2 \in Seq(Seq(Symbols)) /\ Len(parts2) = n + 1
    BY <1>1, <2>3, <2>4
  <2> DEFINE joined == Append(parts, Written(w))
  <2>6. /\ joined \in Seq(Seq(Symbols)) /\ Len(joined) = n + 1
        /\ joined[n + 1] = Written(w) /\ \A i \in 1..n : joined[i] = parts[i]
    BY <1>3, <1>4, AppendProperties
  <2> HIDE DEF joined
  <2>7. \A i \in 1..Len(parts2) : parts2[i] = joined[i]
    <3>1. ASSUME NEW i \in 1..Len(parts2) PROVE parts2[i] = joined[i]
      <4>1. i \in 1..(n + 1) /\ (i = n + 1 \/ i \in 1..n)
        BY <1>1, <2>5
      <4> QED
        BY <2>2, <2>6, <4>1
    <3> QED
      BY <3>1
  <2>8. parts2 = joined
    BY <2>5, <2>6, <2>7, SeqEqual
  <2> QED
    BY <2>8 DEF joined
<1>6. FlattenSeq(Append(parts, Written(w))) = FlattenSeq(parts) \o Written(w)
  <2> HIDE DEF parts
  <2> QED
    BY <1>3, <1>4, FlattenAppend
<1>7. Stream = FlattenSeq(parts) /\ Stream' = FlattenSeq(parts2)
  BY DEF Stream
<1> QED
  BY <1>5, <1>6, <1>7

LEMMA StreamIsSymbols ==
    ASSUME wrote \in WroteType
    PROVE  Stream \in Seq(Symbols)
<1> DEFINE parts == [i \in DOMAIN wrote |-> Written(wrote[i])]
           n == Len(wrote)
<1>1. /\ DOMAIN wrote = 1..n /\ n \in Nat
      /\ \A i \in 1..n : wrote[i] \in [line : Lines, part : {"line", "unended", "torn"}]
  BY WroteFacts
<1>2. parts \in [1..n -> Seq(Symbols)]
  BY <1>1, WrittenIsSymbols
<1> HIDE DEF parts
<1>3. parts \in Seq(Seq(Symbols)) /\ <<>> \in Seq(Symbols)
  BY <1>1, <1>2
<1>4. FlattenSeq(parts) \in Seq(Symbols)
  BY <1>3, FlattenAppend
<1> QED
  BY <1>4 DEF Stream, parts

-----------------------------------------------------------------------------
(* Parsing in any chunks is parsing in one *)

LEMMA EmptyChunk == PushChunk(NewParser, <<>>) = NewParser
<1>1. IsParser(NewParser) /\ NewParser.held = <<>>
  BY DEF IsParser, NewParser
<1>2. <<>> \in Seq(Symbols) /\ Len(<<>>) = 0 /\ <<>> \o <<>> = <<>>
  OBVIOUS
<1>3. PushBytes(NewParser, <<>>) = NewParser
  <2>1. PICK states : IsRun(states, NewParser, <<>>) /\ PushBytes(NewParser, <<>>) = states[Len(<<>>)]
    BY <1>2, PushIsRun
  <2> QED
    BY <1>2, <2>1 DEF IsRun
<1>4. TrailingHalf(<<>>) = <<>> /\ WithoutTrailing(<<>>) = <<>>
  <2>1. TrailingHalf(<<>>) = <<>>
    BY DEF TrailingHalf
  <2> QED
    BY <1>2, <2>1, HalvesFacts
<1>5. ReplaceLoneHalves(<<>>) = <<>>
  <2> DEFINE empty == ReplaceLoneHalves(<<>>)
             Y == Symbols \cup {<<x[1], 0>> : x \in Symbols}
  <2>1. empty \in Seq(Y) /\ Len(empty) = 0
    BY <1>2, ReplacedFacts
  <2> HIDE DEF empty, Y
  <2>2. empty = <<>>
    BY <2>1
  <2> QED
    BY <2>2 DEF empty
<1>6. [NewParser EXCEPT !.held = <<>>] = NewParser
  BY DEF NewParser
<1> QED
  BY <1>1, <1>2, <1>3, <1>4, <1>5, <1>6 DEF PushChunk, PushText

LEMMA FinishedIsComplete ==
    ASSUME NEW p, IsParser(p)
    PROVE  IsParser(FinishParsing(p)) /\ FinishParsing(p).complete
<1> DEFINE rest == p.pending \o ReplaceLoneHalves(p.held)
           last == ConsumeLine(p, ReplaceLoneHalves(p.carry \o rest))
           q == IF rest = <<>> THEN p ELSE last
           carry == IF rest = <<>> THEN q.carry ELSE <<>>
<1>1. IsParser(last)
  BY ConsumeLineHolds
<1>2. FinishParsing(p) = [q EXCEPT !.held = <<>>, !.pending = <<>>, !.complete = TRUE,
                                   !.carry = carry]
  BY DEF FinishParsing
<1> HIDE DEF rest, last, carry
<1>3. IsParser(q)
  BY <1>1
<1> HIDE DEF q
<1> QED
  BY <1>2, <1>3 DEF IsParser

\* Until the child's stdout is closed, the parser is what one chunk with all that
\* came so far would have made of a new one.
ParserInv ==
    /\ wrote \in WroteType
    /\ given \in 0..Len(Stream)
    /\ IsParser(parser)
    /\ ~parser.complete =>
         /\ parser.held \in Seq(Symbols)
         /\ parser = PushChunk(NewParser, SubSeq(Stream, 1, given))

LEMMA ParserInvariant == Spec => []ParserInv
<1>1. Init => ParserInv
  <2> SUFFICES ASSUME Init PROVE ParserInv
    OBVIOUS
  <2>1. wrote \in WroteType
    BY DEF Init, WroteType
  <2>2. IsParser(NewParser) /\ NewParser.held = <<>> /\ <<>> \in Seq(Symbols)
    BY DEF IsParser, NewParser
  <2>3. Stream \in Seq(Symbols)
    BY <2>1, StreamIsSymbols
  <2>4. Len(Stream) \in Nat
    BY <2>3
  <2>5. SubSeq(Stream, 1, 0) = <<>>
    BY SubSeqEmpty
  <2>6. given = 0 /\ parser = NewParser
    BY DEF Init
  <2>7. given \in 0..Len(Stream)
    BY <2>4, <2>6
  <2> QED
    BY <2>1, <2>2, <2>5, <2>6, <2>7, EmptyChunk DEF ParserInv
<1>2. ParserInv /\ [Next]_vars => ParserInv'
  <2> SUFFICES ASSUME ParserInv, [Next]_vars PROVE ParserInv'
    OBVIOUS
  <2>1. Stream \in Seq(Symbols) /\ Len(Stream) \in Nat /\ given \in 0..Len(Stream) /\ given \in Nat
    <3>1. Stream \in Seq(Symbols)
      BY StreamIsSymbols DEF ParserInv
    <3>2. Len(Stream) \in Nat
      BY <3>1
    <3> QED
      BY <3>1, <3>2 DEF ParserInv
  <2>2. CASE ChildWrites
    <3>1. PICK w \in [line : Lines, part : {"line", "unended", "torn"}] : wrote' = Append(wrote, w)
      BY <2>2 DEF ChildWrites
    <3>2. wrote' \in WroteType
      BY <3>1 DEF ParserInv, WroteType
    <3>3. Stream' = Stream \o Written(w)
      BY <3>1, StreamGrows DEF ParserInv
    <3>4. Written(w) \in Seq(Symbols)
      BY WrittenIsSymbols
    <3> DEFINE s == Stream
               t == Written(w)
               u == s \o t
    <3>5. s \in Seq(Symbols) /\ t \in Seq(Symbols) /\ given \in 0..Len(s) /\ given \in Nat
      BY <2>1, <3>4
    <3>6. Stream' = u
      BY <3>3
    <3> HIDE DEF s, t
    <3>7. Len(u) \in Nat /\ Len(s) \in Nat /\ Len(s) <= Len(u)
      BY <3>5
    <3>8. SubSeq(u, 1, given) = SubSeq(s, 1, given)
      <4>1. CASE given = 0
        BY <4>1, SubSeqEmpty
      <4>2. CASE given # 0
        <5>1. given \in 1..Len(s) /\ 1 \in 1..Len(s)
          BY <3>5, <3>7, <4>2
        <5> QED
          BY <3>5, <5>1, SubSeqOfConcat1
      <4> QED
        BY <4>1, <4>2
    <3> HIDE DEF u
    <3>9. given' = given /\ parser' = parser /\ mode' = mode
      BY <2>2 DEF ChildWrites
    <3>10. given' \in 0..Len(Stream')
      BY <3>5, <3>6, <3>7, <3>9
    <3>11. SubSeq(Stream', 1, given') = SubSeq(Stream, 1, given)
      BY <3>6, <3>8, <3>9 DEF s
    <3>12. PushChunk(NewParser, SubSeq(Stream, 1, given))'
             = PushChunk(NewParser, SubSeq(Stream, 1, given))
      BY <3>9, <3>11 DEF PushChunk
    <3> QED
      BY <3>2, <3>9, <3>10, <3>12 DEF ParserInv
  <2>3. CASE DataEvent
    <3>1. PICK upto \in (given + 1)..Len(Stream) :
            parser' = PushChunk(parser, SubSeq(Stream, given + 1, upto)) /\ given' = upto
      BY <2>3 DEF DataEvent
    <3>2. wrote' = wrote /\ mode' = mode /\ ~parser.complete
      BY <2>3 DEF DataEvent
    <3>3. Stream' = Stream
      BY <3>2 DEF Stream
    <3> DEFINE s == Stream
               before == SubSeq(s, 1, given)
               chunk == SubSeq(s, given + 1, upto)
    <3>4. /\ s \in Seq(Symbols) /\ Len(s) \in Nat /\ given \in Nat /\ given \in 0..Len(s)
          /\ upto \in (given + 1)..Len(s) /\ upto \in Nat
      BY <2>1, <3>1
    <3>5. parser' = PushChunk(parser, chunk)
      BY <3>1
    <3>6. /\ parser = PushChunk(NewParser, before) /\ IsParser(parser)
          /\ parser.held \in Seq(Symbols)
      BY <3>2 DEF ParserInv
    <3> HIDE DEF s
    <3>7. before \in Seq(Symbols) /\ chunk \in Seq(Symbols)
      <4>1. \A i \in 1..Len(s) : s[i] \in Symbols
        BY <3>4
      <4>2. (\A i \in 1..given : s[i] \in Symbols) /\ (\A i \in (given + 1)..upto : s[i] \in Symbols)
        BY <3>4, <4>1
      <4> QED
        BY <3>4, <4>2, SubSeqProperties
    <3>8. before \o chunk = SubSeq(s, 1, upto)
      <4>1. /\ 1 \in 1..(Len(s) + 1) /\ given \in (1 - 1)..Len(s) /\ upto \in given..Len(s)
        BY <3>4
      <4> QED
        BY <3>4, <4>1, ConcatAdjacentSubSeq
    <3> HIDE DEF before, chunk
    <3>9. IsParser(NewParser) /\ NewParser.held \in Seq(Symbols)
      BY DEF IsParser, NewParser
    <3>10. PushChunk(parser, chunk) = PushChunk(NewParser, before \o chunk)
      BY <3>6, <3>7, <3>9, ChunksJoin
    <3>11. IsParser(parser') /\ parser'.held \in Seq(Symbols)
      BY <3>5, <3>6, <3>7, ChunkKeepsParser
    <3>12. PushChunk(NewParser, SubSeq(Stream, 1, given))'
             = PushChunk(NewParser, SubSeq(Stream, 1, upto))
      BY <3>1, <3>2, <3>3 DEF PushChunk
    <3>13. given' \in 0..Len(Stream')
      BY <3>1, <3>3, <3>4 DEF s
    <3>14. parser' = PushChunk(NewParser, SubSeq(Stream, 1, given))'
      BY <3>5, <3>8, <3>10, <3>12 DEF s
    <3> QED
      BY <3>2, <3>11, <3>13, <3>14 DEF ParserInv
  <2>4. CASE CloseEvent
    <3>1. IsParser(parser') /\ parser'.complete
      BY <2>4, FinishedIsComplete DEF CloseEvent, ParserInv
    <3>2. wrote' = wrote /\ given' = given
      BY <2>4 DEF CloseEvent
    <3>3. Stream' = Stream
      BY <3>2 DEF Stream
    <3> QED
      BY <3>1, <3>2, <3>3 DEF ParserInv
  <2>5. CASE UNCHANGED vars
    <3>1. wrote' = wrote /\ given' = given /\ parser' = parser /\ mode' = mode
      BY <2>5 DEF vars
    <3>2. Stream' = Stream
      BY <3>1 DEF Stream
    <3>3. PushChunk(NewParser, SubSeq(Stream, 1, given))' = PushChunk(NewParser, SubSeq(Stream, 1, given))
      BY <3>1, <3>2 DEF PushChunk
    <3> QED
      BY <3>1, <3>2, <3>3 DEF ParserInv
  <2> QED
    BY <2>2, <2>3, <2>4, <2>5 DEF Next
<1> QED
  BY <1>1, <1>2, PTL DEF Spec

\* What the parser has made of a stream does not depend on where the pipe cut it,
\* not even inside a character, for streams of every length.
THEOREM ChunksDoNotMatter == Spec => []ParsingIsIncremental
<1>1. ParserInv => ParsingIsIncremental
  BY DEF ParserInv, ParsingIsIncremental
<1> QED
  BY <1>1, ParserInvariant, PTL

-----------------------------------------------------------------------------
(* What a line leaves in the parser *)

IsBulk(text) == \E i \in DOMAIN text : text[i][1].kind = "bulk"

IsReadable(text) ==
    Len(text) = 2 /\ text = Body(text[1][1]) /\ text[1][1].kind # "garbage"

RecordsAfter(text, records) ==
    IF text = <<>> \/ IsBulk(text) \/ ~IsReadable(text) \/ text[1][1].kind = "update"
    THEN records ELSE Append(records, text[1][1])

IssuesAfter(text, issues, line) ==
    IF text = <<>> \/ IsBulk(text) \/ IsReadable(text) THEN issues ELSE Append(issues, line)

\* q is p after it has read "text" as a line.
HasRead(q, p, text) ==
    /\ q.records = RecordsAfter(text, p.records)
    /\ q.issues = IssuesAfter(text, p.issues, p.line)

LEMMA LineConsumed ==
    ASSUME NEW p, IsParser(p), NEW text
    PROVE  LET q == ConsumeLine(p, text)
           IN  /\ IsParser(q) /\ HasRead(q, p, text)
               /\ q.held = p.held /\ q.pending = p.pending /\ q.carry = p.carry
               /\ q.complete = p.complete /\ q.line = p.line + 1
<1> DEFINE Read == IF text = <<>> THEN p ELSE ParseLine(p, text)
<1>1. ParseLine(p, text) =
        IF IsBulk(text) THEN p
        ELSE IF IsReadable(text)
        THEN IF text[1][1].kind = "update" THEN p
             ELSE WithRecords(p, Append(p.records, text[1][1]))
        ELSE WithIssues(p, Append(p.issues, p.line))
  BY DEF ParseLine, WithRecords, WithIssues, IsBulk, IsReadable
<1>2. ASSUME NEW x
      PROVE  /\ WithRecords(p, x).records = x /\ WithRecords(p, x).issues = p.issues
             /\ WithRecords(p, x).pending = p.pending /\ WithRecords(p, x).carry = p.carry
             /\ WithRecords(p, x).complete = p.complete
  BY DEF IsParser, WithRecords
<1>3. ASSUME NEW x
      PROVE  /\ WithIssues(p, x).issues = x /\ WithIssues(p, x).records = p.records
             /\ WithIssues(p, x).pending = p.pending /\ WithIssues(p, x).carry = p.carry
             /\ WithIssues(p, x).complete = p.complete
  BY DEF IsParser, WithIssues
<1>4. /\ IsParser(Read) /\ Read.held = p.held /\ Read.pending = p.pending
      /\ Read.carry = p.carry /\ Read.complete = p.complete
      /\ Read.records = RecordsAfter(text, p.records)
      /\ Read.issues = IssuesAfter(text, p.issues, p.line)
  BY <1>1, <1>2, <1>3, UpdatesHold DEF RecordsAfter, IssuesAfter
<1>5. ConsumeLine(p, text) = [Read EXCEPT !.line = p.line + 1]
  BY DEF ConsumeLine
<1> HIDE DEF Read
<1> QED
  BY <1>4, <1>5 DEF IsParser, HasRead

\* The texts that may be made of what the child wrote.
IsTextOf(text, w) ==
    IF w.line.kind = "blank" THEN text = <<>>
    ELSE IF w.line.kind # "cut" /\ w.part # "torn"
    THEN text = << <<w.line, 1>>, <<w.line, 2>> >>
    ELSE text \in {<< <<w.line, 0>> >>, << <<w.line, 0>>, <<w.line, 0>> >>}

\* What is a record, and what is reported.
IsRecord(w) == w.part # "torn" /\ w.line.kind \in {"envelope", "usage", "event"}
IsFlaw(w) ==
    w.line.kind \in {"garbage", "cut"} \/ (w.part = "torn" /\ w.line.kind # "bulk")

LEMMA TextTells ==
    ASSUME NEW w, w.line.kind \in LineKinds, w.line.kind = "blank" => w.part = "line",
           NEW text, IsTextOf(text, w), NEW p, NEW q, HasRead(q, p, text)
    PROVE  /\ q.records = IF IsRecord(w) THEN Append(p.records, w.line) ELSE p.records
           /\ q.issues = IF IsFlaw(w) THEN Append(p.issues, p.line) ELSE p.issues
<1> DEFINE line == w.line
           whole == << <<line, 1>>, <<line, 2>> >>
           one == << <<line, 0>> >>
           two == << <<line, 0>>, <<line, 0>> >>
<1>1. CASE line.kind = "blank"
  BY <1>1 DEF IsTextOf, HasRead, RecordsAfter, IssuesAfter, IsRecord, IsFlaw
<1>2. CASE line.kind \notin {"blank", "cut"} /\ w.part # "torn"
  <2>1. text = whole
    BY <1>2 DEF IsTextOf
  <2>2. /\ whole # <<>> /\ Len(whole) = 2 /\ whole[1][1] = line /\ whole[2][1] = line
        /\ DOMAIN whole = {1, 2}
    OBVIOUS
  <2>3. Body(line) = whole
    BY <1>2 DEF Body
  <2> HIDE DEF whole
  <2>4. IsBulk(whole) <=> line.kind = "bulk"
    BY <2>2 DEF IsBulk
  <2>5. IsReadable(whole) <=> line.kind # "garbage"
    BY <2>2, <2>3 DEF IsReadable
  <2>6. q.records = (IF line.kind \in {"bulk", "garbage", "update"} THEN p.records
                     ELSE Append(p.records, line))
        /\ q.issues = (IF line.kind = "garbage" THEN Append(p.issues, p.line) ELSE p.issues)
    BY <2>1, <2>2, <2>4, <2>5 DEF HasRead, RecordsAfter, IssuesAfter
  <2> QED
    BY <1>2, <2>6 DEF IsRecord, IsFlaw, LineKinds
<1>3. CASE line.kind # "blank" /\ (line.kind = "cut" \/ w.part = "torn")
  <2>1. text \in {one, two}
    BY <1>3 DEF IsTextOf
  <2>2. text # <<>> /\ text[1] = <<line, 0>> /\ \A i \in DOMAIN text : text[i][1] = line
    BY <2>1
  <2>3. IsBulk(text) <=> line.kind = "bulk"
    <3>1. 1 \in DOMAIN text
      BY <2>1
    <3> QED
      BY <2>2, <3>1 DEF IsBulk
  <2>4. ~IsReadable(text)
    <3> SUFFICES ASSUME Len(text) = 2, text = Body(line) PROVE FALSE
      BY <2>2 DEF IsReadable
    <3>1. text[2] = <<line, 0>>
      BY <2>1
    <3> HIDE DEF one, two
    <3>2. CASE line.kind = "cut"
      <4>1. text = << <<line, 0>>, <<line, 1>> >>
        BY <3>2 DEF Body
      <4>2. text[2] = <<line, 1>>
        BY <4>1
      <4> QED
        BY <3>1, <4>2
    <3>3. CASE line.kind # "cut"
      <4>1. text = << <<line, 1>>, <<line, 2>> >>
        BY <1>3, <3>3 DEF Body
      <4>2. text[1] = <<line, 1>>
        BY <4>1
      <4> QED
        BY <2>2, <4>2
    <3> QED
      BY <3>2, <3>3
  <2>5. q.records = p.records
        /\ q.issues = (IF line.kind = "bulk" THEN p.issues ELSE Append(p.issues, p.line))
    BY <2>2, <2>3, <2>4 DEF HasRead, RecordsAfter, IssuesAfter
  <2> QED
    BY <1>3, <2>5 DEF IsRecord, IsFlaw, LineKinds
<1> QED
  BY <1>1, <1>2, <1>3

-----------------------------------------------------------------------------
(* A line on its way through the parser *)

\* What a line without its newline may put into the parser.
Fragments(line) ==
    {<<>>, << <<line, 0>> >>, << <<line, 1>> >>, << <<line, 1>>, <<line, 2>> >>,
     << <<line, 0>>, <<line, 1>> >>, << <<line, 0>>, <<line, 0>> >>}

LEMMA FragmentIsSymbols ==
    ASSUME NEW line \in Lines, NEW b \in Fragments(line)
    PROVE  /\ b \in Seq(Symbols) /\ Len(b) \in 0..2
           /\ \A i \in 1..Len(b) : b[i] \in Symbols /\ b[i] # Newline
<1>1. /\ <<line, 0>> \in Symbols /\ <<line, 1>> \in Symbols /\ <<line, 2>> \in Symbols
  BY DEF Symbols
<1>2. <<line, 0>> # Newline /\ <<line, 1>> # Newline /\ <<line, 2>> # Newline
  BY DEF Newline
<1>3. CASE b = <<>>
  BY <1>3
<1>4. CASE b = << <<line, 0>> >>
  BY <1>1, <1>2, <1>4
<1>5. CASE b = << <<line, 1>> >>
  BY <1>1, <1>2, <1>5
<1>6. CASE b = << <<line, 1>>, <<line, 2>> >>
  BY <1>1, <1>2, <1>6
<1>7. CASE b = << <<line, 0>>, <<line, 1>> >>
  BY <1>1, <1>2, <1>7
<1>8. CASE b = << <<line, 0>>, <<line, 0>> >>
  BY <1>1, <1>2, <1>8
<1> QED
  BY <1>3, <1>4, <1>5, <1>6, <1>7, <1>8 DEF Fragments

LEMMA PushNothing ==
    ASSUME NEW p
    PROVE  PushBytes(p, <<>>) = p
<1>1. <<>> \in Seq(Symbols) /\ Len(<<>>) = 0
  OBVIOUS
<1>2. PICK states : IsRun(states, p, <<>>) /\ PushBytes(p, <<>>) = states[Len(<<>>)]
  BY <1>1, PushIsRun
<1> QED
  BY <1>1, <1>2 DEF IsRun

LEMMA PushOne ==
    ASSUME NEW X, NEW x \in X, NEW p
    PROVE  PushBytes(p, <<x>>) = PushSymbol(p, x)
<1> DEFINE b == <<x>>
<1>1. b \in Seq(X) /\ Len(b) = 1 /\ b[1] = x
  OBVIOUS
<1> HIDE DEF b
<1>2. PICK states : IsRun(states, p, b) /\ PushBytes(p, b) = states[Len(b)]
  BY <1>1, PushIsRun
<1>3. states[0] = p /\ states[1] = PushSymbol(states[1 - 1], b[1])
  BY <1>1, <1>2 DEF IsRun
<1> QED
  BY <1>1, <1>2, <1>3 DEF b

\* Without a newline, what is pushed is what is pending.
LEMMA FragmentWaits ==
    ASSUME NEW line \in Lines, NEW b \in Fragments(line),
           NEW p, IsParser(p), p.pending = <<>>
    PROVE  PushBytes(p, b) = WithPending(p, b)
<1>1. /\ b \in Seq(Symbols) /\ Len(b) \in 0..2
      /\ \A i \in 1..Len(b) : b[i] \in Symbols /\ b[i] # Newline
  BY FragmentIsSymbols
<1>2. CASE Len(b) = 0
  <2>1. b = <<>>
    BY <1>1, <1>2
  <2>2. WithPending(p, <<>>) = p
    BY DEF WithPending, IsParser
  <2> QED
    BY <2>1, <2>2, PushNothing
<1>3. CASE Len(b) # 0
  <2> DEFINE x == b[1]
             q == PushSymbol(p, x)
  <2>1. x \in Symbols /\ x # Newline
    BY <1>1, <1>3
  <2> HIDE DEF x
  <2>2. q = WithPending(p, <<x>>)
    BY <2>1 DEF PushSymbol, WithPending
  <2>3. CASE Len(b) = 1
    <3>1. b = <<x>>
      BY <1>1, <2>3 DEF x
    <3> QED
      BY <2>1, <2>2, <3>1, PushOne
  <2>4. CASE Len(b) = 2
    <3> DEFINE y == b[2]
    <3>1. y \in Symbols /\ y # Newline
      BY <1>1, <2>4
    <3>2. b = <<x, y>>
      BY <1>1, <2>4 DEF x
    <3> HIDE DEF y
    <3>a. <<x>> \in Seq(Symbols) /\ <<y>> \in Seq(Symbols)
      BY <2>1, <3>1
    <3>b. Append(<<x>>, y) = <<x, y>>
      <4> DEFINE s == <<x>>
                 t == <<x, y>>
                 r == Append(s, y)
      <4>1. s \in Seq(Symbols) /\ Len(s) = 1 /\ s[1] = x
        BY <3>a
      <4>2. t \in Seq(Symbols) /\ Len(t) = 2 /\ t[1] = x /\ t[2] = y
        BY <2>1, <3>1
      <4> HIDE DEF s, t
      <4>3. r \in Seq(Symbols) /\ Len(r) = 2 /\ r[1] = x /\ r[2] = y
        <5>1. s \in Seq(Symbols) /\ y \in Symbols
          BY <3>1, <4>1
        <5>2. /\ Append(s, y) \in Seq(Symbols) /\ Len(Append(s, y)) = Len(s) + 1
              /\ \A i \in 1..Len(s) : Append(s, y)[i] = s[i]
              /\ Append(s, y)[Len(s) + 1] = y
          BY <5>1, AppendProperties
        <5>3. r \in Seq(Symbols) /\ Len(r) = Len(s) + 1 /\ r[Len(s) + 1] = y
              /\ \A i \in 1..Len(s) : r[i] = s[i]
          BY <5>2
        <5> HIDE DEF r
        <5>4. Len(s) + 1 = 2 /\ 1 \in 1..Len(s)
          BY <4>1
        <5> QED
          BY <4>1, <5>3, <5>4
      <4> HIDE DEF r
      <4>4. r = t
        BY <4>2, <4>3, SeqEqual
      <4> QED
        BY <4>4 DEF r, s, t
    <3>c. Append(<<x>>, y) = <<x>> \o <<y>>
      BY <3>1, <3>a, AppendIsConcat
    <3>3. <<x, y>> = <<x>> \o <<y>>
      BY <3>b, <3>c
    <3>4. PushBytes(p, <<x, y>>) = PushBytes(PushBytes(p, <<x>>), <<y>>)
      <4> DEFINE s == <<x>>
                 t == <<y>>
      <4>1. s \in Seq(Symbols) /\ t \in Seq(Symbols)
        BY <3>a
      <4> HIDE DEF s, t
      <4>2. PushBytes(p, s \o t) = PushBytes(PushBytes(p, s), t)
        BY <4>1, PushJoins
      <4> QED
        BY <3>3, <4>2 DEF s, t
    <3>5. PushBytes(p, <<x>>) = q
      BY <2>1, PushOne
    <3>6. PushBytes(q, <<y>>) = PushSymbol(q, y)
      BY <3>1, PushOne
    <3>7. q.pending = <<x>> /\ IsParser(q)
      BY <2>2, UpdatesHold DEF WithPending, IsParser
    <3>8. PushSymbol(q, y) = WithPending(q, <<x, y>>)
      BY <3>1, <3>b, <3>7 DEF PushSymbol, WithPending
    <3>9. WithPending(q, <<x, y>>) = WithPending(p, <<x, y>>)
      BY <2>2 DEF WithPending, IsParser
    <3> QED
      BY <3>2, <3>4, <3>5, <3>6, <3>8, <3>9
  <2> QED
    BY <1>1, <1>3, <2>3, <2>4
<1> QED
  BY <1>2, <1>3

LEMMA FragmentEnds ==
    ASSUME NEW line \in Lines, NEW b \in Fragments(line),
           NEW p, IsParser(p), p.pending = <<>>
    PROVE  PushBytes(p, b \o <<Newline>>) = ConsumeLineBytes(WithPending(p, b))
<1>1. b \in Seq(Symbols)
  BY FragmentIsSymbols
<1>2. Newline \in Symbols
  BY DEF Newline, Symbols
<1>3. <<Newline>> \in Seq(Symbols)
  BY <1>2
<1>4. PushBytes(p, b \o <<Newline>>) = PushBytes(PushBytes(p, b), <<Newline>>)
  BY <1>1, <1>3, PushJoins
<1>5. PushBytes(WithPending(p, b), <<Newline>>) = PushSymbol(WithPending(p, b), Newline)
  BY <1>2, PushOne
<1> QED
  BY <1>4, <1>5, FragmentWaits DEF PushSymbol

\* How fragments are decoded.
LEMMA WholeIsWhole ==
    ASSUME NEW a, a # <<>> => Last(a)[2] # 1
    PROVE  TrailingHalf(a) = <<>>
  BY DEF TrailingHalf

LEMMA FragmentsDecoded ==
    ASSUME NEW line \in Lines
    PROVE  LET none == <<>>
               pair == << <<line, 1>>, <<line, 2>> >>
               cut  == << <<line, 0>>, <<line, 1>> >>
               half == << <<line, 1>> >>
               lost == << <<line, 0>> >>
               both == << <<line, 0>>, <<line, 0>> >>
           IN  /\ \A a \in {none, pair, lost, both} :
                    TrailingHalf(a) = <<>> /\ WithoutTrailing(a) = a
               /\ \A a \in {cut, half} : TrailingHalf(a) = half
               /\ WithoutTrailing(cut) = lost /\ WithoutTrailing(half) = none
               /\ \A a \in {none, pair, lost, both} : ReplaceLoneHalves(a) = a
               /\ ReplaceLoneHalves(cut) = both /\ ReplaceLoneHalves(half) = lost
<1> DEFINE none == <<>>
           pair == << <<line, 1>>, <<line, 2>> >>
           cut  == << <<line, 0>>, <<line, 1>> >>
           half == << <<line, 1>> >>
           lost == << <<line, 0>> >>
           both == << <<line, 0>>, <<line, 0>> >>
<1>0. \A a \in {none, pair, cut, half, lost, both} : a \in Seq(Symbols) /\ a \in Fragments(line)
  BY FragmentIsSymbols DEF Fragments
<1>1. /\ Len(pair) = 2 /\ pair[1] = <<line, 1>> /\ pair[2] = <<line, 2>>
      /\ Len(cut) = 2 /\ cut[1] = <<line, 0>> /\ cut[2] = <<line, 1>>
      /\ Len(both) = 2 /\ both[1] = <<line, 0>> /\ both[2] = <<line, 0>>
      /\ Len(half) = 1 /\ half[1] = <<line, 1>> /\ Len(lost) = 1 /\ lost[1] = <<line, 0>>
      /\ Len(none) = 0
  OBVIOUS
<1>2. /\ Last(pair) = <<line, 2>> /\ Last(cut) = <<line, 1>> /\ Last(both) = <<line, 0>>
      /\ Last(half) = <<line, 1>> /\ Last(lost) = <<line, 0>>
  BY DEF Last
<1>3. \A a \in {none, pair, lost, both} : TrailingHalf(a) = <<>> /\ WithoutTrailing(a) = a
  <2> SUFFICES ASSUME NEW a \in {none, pair, lost, both}
               PROVE  TrailingHalf(a) = <<>> /\ WithoutTrailing(a) = a
    OBVIOUS
  <2>1. TrailingHalf(a) = <<>>
    BY <1>2, WholeIsWhole
  <2>2. a \in Seq(Symbols)
    BY <1>0
  <2> QED
    BY <2>1, <2>2, HalvesFacts
<1>4. TrailingHalf(cut) = half /\ TrailingHalf(half) = half
  <2>1. cut # <<>> /\ half # <<>> /\ Last(cut)[2] = 1 /\ Last(half)[2] = 1
    BY <1>2
  <2>2. <<Last(cut)>> = half /\ <<Last(half)>> = half
    BY <1>2
  <2> HIDE DEF cut, half
  <2> QED
    BY <2>1, <2>2 DEF TrailingHalf
<1>5. WithoutTrailing(cut) = lost
  <2>1. WithoutTrailing(cut) = SubSeq(cut, 1, 2 - 1)
    BY <1>1, <1>4 DEF WithoutTrailing
  <2>2. SubSeq(cut, 1, 1) = lost
    <3> DEFINE r == SubSeq(cut, 1, 1)
    <3>1. /\ cut[1] \in Symbols /\ cut[1] = <<line, 0>> /\ \A i \in 1..1 : cut[i] \in Symbols
      BY <1>1 DEF Symbols
    <3>2. r \in Seq(Symbols) /\ Len(r) = 1 /\ r[1] = cut[1]
      <4> HIDE DEF cut
      <4>1. /\ SubSeq(cut, 1, 1) \in Seq(Symbols)
            /\ Len(SubSeq(cut, 1, 1)) = IF 1 <= 1 THEN 1 - 1 + 1 ELSE 0
            /\ \A i \in 1..(1 - 1 + 1) : SubSeq(cut, 1, 1)[i] = cut[1 + i - 1]
        BY <3>1, SubSeqProperties
      <4> QED
        BY <4>1
    <3>3. lost \in Seq(Symbols)
      BY <1>0
    <3> HIDE DEF r, cut, lost
    <3>4. \A i \in 1..Len(r) : r[i] = lost[i]
      BY <1>1, <3>1, <3>2
    <3>5. r = lost
      BY <1>1, <3>2, <3>3, <3>4, SeqEqual
    <3> QED
      BY <3>5 DEF r
  <2> QED
    BY <2>1, <2>2
<1>6. WithoutTrailing(half) = none
  <2>1. WithoutTrailing(half) = SubSeq(half, 1, 1 - 1)
    BY <1>1, <1>4 DEF WithoutTrailing
  <2>2. SubSeq(half, 1, 0) = none
    BY SubSeqEmpty
  <2> QED
    BY <2>1, <2>2
<1>7. ASSUME NEW a \in {none, pair, cut, half, lost, both}, NEW c \in Seq(Symbols),
             Len(a) = Len(c), \A i \in 1..Len(a) : ReplaceLoneHalves(a)[i] = c[i]
      PROVE  ReplaceLoneHalves(a) = c
  <2> DEFINE r == ReplaceLoneHalves(a)
             Y == Symbols \cup {<<x[1], 0>> : x \in Symbols}
  <2>1. a \in Seq(Symbols)
    BY <1>0
  <2>2. r \in Seq(Y) /\ Len(r) = Len(a)
    BY <2>1, ReplacedFacts
  <2>3. c \in Seq(Y)
    BY <1>7
  <2>4. \A i \in 1..Len(r) : r[i] = c[i]
    BY <1>7, <2>2
  <2> HIDE DEF r, Y
  <2>5. r = c
    BY <1>7, <2>2, <2>3, <2>4, SeqEqual
  <2> QED
    BY <2>5 DEF r
<1>8. ASSUME NEW a \in {none, pair, cut, half, lost, both}, NEW i \in 1..Len(a)
      PROVE  ReplaceLoneHalves(a)[i] = IF IsPaired(a, i) THEN a[i] ELSE <<a[i][1], 0>>
  <2>1. a \in Seq(Symbols)
    BY <1>0
  <2> QED
    BY <2>1, ReplacedFacts
<1>9. ASSUME NEW a \in {none, lost, both} PROVE ReplaceLoneHalves(a) = a
  <2>1. \A i \in 1..Len(a) : a[i] = <<line, 0>>
    BY <1>1
  <2>2. \A i \in 1..Len(a) : ReplaceLoneHalves(a)[i] = a[i]
    <3> SUFFICES ASSUME NEW i \in 1..Len(a) PROVE ReplaceLoneHalves(a)[i] = a[i]
      OBVIOUS
    <3>1. a[i] = <<line, 0>> /\ <<a[i][1], 0>> = a[i]
      BY <2>1
    <3>2. a \in {none, pair, cut, half, lost, both}
      OBVIOUS
    <3>3. ReplaceLoneHalves(a)[i] = IF IsPaired(a, i) THEN a[i] ELSE <<a[i][1], 0>>
      <4> HIDE DEF none, pair, cut, half, lost, both
      <4> QED
        BY <1>8, <3>2
    <3> HIDE DEF none, pair, cut, half, lost, both
    <3> QED
      BY <3>1, <3>3
  <2>3. a \in Seq(Symbols)
    BY <1>0
  <2> QED
    BY <1>7, <2>2, <2>3
<1>10. ReplaceLoneHalves(pair) = pair
  <2>1. IsPaired(pair, 1) /\ IsPaired(pair, 2)
    BY <1>1 DEF IsPaired
  <2>2. \A i \in 1..Len(pair) : i = 1 \/ i = 2
    BY <1>1
  <2>3. \A i \in 1..Len(pair) : ReplaceLoneHalves(pair)[i] = pair[i]
    BY <1>8, <2>1, <2>2
  <2> QED
    BY <1>0, <1>7, <2>3
<1>11. ReplaceLoneHalves(cut) = both
  <2>1. IsPaired(cut, 1) /\ ~IsPaired(cut, 2)
    BY <1>1 DEF IsPaired
  <2>2. 1 \in 1..Len(cut) /\ 2 \in 1..Len(cut) /\ \A i \in 1..Len(cut) : i = 1 \/ i = 2
    BY <1>1
  <2>3. ReplaceLoneHalves(cut)[1] = both[1] /\ ReplaceLoneHalves(cut)[2] = both[2]
    BY <1>1, <1>8, <2>1, <2>2
  <2> QED
    BY <1>0, <1>1, <1>7, <2>2, <2>3
<1>12. ReplaceLoneHalves(half) = lost
  <2>1. ~IsPaired(half, 1)
    BY <1>1 DEF IsPaired
  <2>2. 1 \in 1..Len(half) /\ \A i \in 1..Len(half) : i = 1
    BY <1>1
  <2>3. ReplaceLoneHalves(half)[1] = lost[1]
    BY <1>1, <1>8, <2>1, <2>2
  <2> QED
    BY <1>0, <1>1, <1>7, <2>2, <2>3
<1> QED
  BY <1>3, <1>4, <1>5, <1>6, <1>9, <1>10, <1>11, <1>12

LEMMA BodyIsFragment ==
    ASSUME NEW line \in Lines
    PROVE  /\ Body(line) \in Fragments(line) /\ ReplaceLoneHalves(Body(line)) \in Fragments(line)
           /\ line.kind = "blank" => Body(line) = <<>> /\ ReplaceLoneHalves(Body(line)) = <<>>
           /\ line.kind = "cut" => /\ Body(line) = << <<line, 0>>, <<line, 1>> >>
                                   /\ ReplaceLoneHalves(Body(line)) = << <<line, 0>>, <<line, 0>> >>
           /\ line.kind \notin {"blank", "cut"} =>
                /\ Body(line) = << <<line, 1>>, <<line, 2>> >>
                /\ ReplaceLoneHalves(Body(line)) = << <<line, 1>>, <<line, 2>> >>
<1>1. CASE line.kind = "blank"
  <2>1. Body(line) = <<>>
    BY <1>1 DEF Body
  <2> QED
    BY <1>1, <2>1, FragmentsDecoded DEF Fragments
<1>2. CASE line.kind = "cut"
  <2>1. Body(line) = << <<line, 0>>, <<line, 1>> >>
    BY <1>2 DEF Body
  <2> QED
    BY <1>2, <2>1, FragmentsDecoded DEF Fragments
<1>3. CASE line.kind \notin {"blank", "cut"}
  <2>1. Body(line) = << <<line, 1>>, <<line, 2>> >>
    BY <1>3 DEF Body
  <2> QED
    BY <1>3, <2>1, FragmentsDecoded DEF Fragments
<1> QED
  BY <1>1, <1>2, <1>3

\* The decoder keeps nothing, or what a line broke off with.
Carried(carry) == carry = <<>> \/ \E c \in Lines : c.kind = "cut" /\ carry = << <<c, 1>> >>

LEMMA CarriedIsSymbols ==
    ASSUME NEW carry, Carried(carry)
    PROVE  carry \in Seq(Symbols)
<1>1. <<>> \in Seq(Symbols)
  OBVIOUS
<1>2. ASSUME NEW c \in Lines PROVE << <<c, 1>> >> \in Seq(Symbols)
  BY FragmentIsSymbols DEF Fragments
<1> QED
  BY <1>1, <1>2 DEF Carried

LEMMA CarryKept ==
    ASSUME NEW carry, Carried(carry), NEW line \in Lines, NEW b \in Fragments(line),
           line.kind # "cut" => b \in {<<>>, << <<line, 1>>, <<line, 2>> >>}
    PROVE  Carried(TrailingHalf(carry \o b))
<1>1. carry \in Seq(Symbols) /\ b \in Seq(Symbols)
  BY CarriedIsSymbols, FragmentIsSymbols
<1>2. CASE b = <<>>
  <2>1. carry \o b = carry
    BY <1>1, <1>2
  <2>2. TrailingHalf(carry) = carry
    <3>1. CASE carry = <<>>
      BY <3>1 DEF TrailingHalf
    <3>2. CASE carry # <<>>
      <4>1. PICK c \in Lines : carry = << <<c, 1>> >>
        BY <3>2 DEF Carried
      <4> QED
        BY <4>1, FragmentsDecoded
    <3> QED
      BY <3>1, <3>2
  <2> QED
    BY <2>1, <2>2
<1>3. CASE b # <<>>
  <2>1. carry \o b # <<>> /\ Last(carry \o b) = Last(b)
    <3> DEFINE whole == carry \o b
    <3>1. /\ whole \in Seq(Symbols) /\ Len(whole) = Len(carry) + Len(b) /\ Len(b) \in Nat \ {0}
          /\ Len(carry) \in Nat /\ \A i \in 1..Len(b) : whole[Len(carry) + i] = b[i]
      BY <1>1, <1>3
    <3> HIDE DEF whole
    <3>2. whole[Len(whole)] = b[Len(b)] /\ whole # <<>>
      BY <3>1
    <3>3. Last(whole) = Last(b)
      BY <3>2 DEF Last
    <3> QED
      BY <3>2, <3>3 DEF whole
  <2>2. TrailingHalf(carry \o b) = TrailingHalf(b)
    BY <1>3, <2>1 DEF TrailingHalf
  <2>3. TrailingHalf(b) = <<>> \/ (line.kind = "cut" /\ TrailingHalf(b) = << <<line, 1>> >>)
    BY FragmentsDecoded DEF Fragments
  <2> QED
    BY <2>2, <2>3 DEF Carried
<1> QED
  BY <1>2, <1>3

\* What the child writes.
Writes == [line : Lines, part : {"line", "unended", "torn"}]

LEMMA NewlineDecoded ==
    ASSUME NEW b \in Seq(Symbols)
    PROVE  LET ended == b \o <<Newline>>
           IN  /\ TrailingHalf(ended) = <<>> /\ WithoutTrailing(ended) = ended
               /\ ReplaceLoneHalves(ended) = ReplaceLoneHalves(b) \o <<Newline>>
<1> DEFINE ended == b \o <<Newline>>
           nl == <<Newline>>
<1>0. Newline \in Symbols /\ Newline[2] = 3 /\ Newline[1] = NoLine
  BY DEF Newline, Symbols
<1>1. nl \in Seq(Symbols) /\ Len(nl) = 1 /\ nl[1] = Newline /\ nl # <<>>
  BY <1>0
<1> HIDE DEF nl
<1>2. /\ ended \in Seq(Symbols) /\ Len(ended) = Len(b) + 1 /\ ended[Len(b) + 1] = Newline
      /\ Len(b) \in Nat
  <2>1. /\ ended = b \o nl /\ b \o nl \in Seq(Symbols) /\ Len(b \o nl) = Len(b) + Len(nl)
        /\ (b \o nl)[Len(b) + 1] = nl[1] /\ Len(b) \in Nat
    BY <1>1 DEF nl
  <2> QED
    BY <1>1, <2>1
<1> HIDE DEF ended
<1>3. TrailingHalf(ended) = <<>>
  <2>1. Last(ended) = Newline
    BY <1>2 DEF Last
  <2> QED
    BY <1>0, <2>1 DEF TrailingHalf
<1>4. WithoutTrailing(ended) = ended
  BY <1>2, <1>3, HalvesFacts
<1>5. ReplaceLoneHalves(nl) = nl
  <2> DEFINE r == ReplaceLoneHalves(nl)
             Y == Symbols \cup {<<x[1], 0>> : x \in Symbols}
  <2>1. IsPaired(nl, 1)
    BY <1>0, <1>1 DEF IsPaired
  <2>2. r \in Seq(Y) /\ Len(r) = 1 /\ nl \in Seq(Y)
    <3>1. r \in Seq(Y) /\ Len(r) = 1
      BY <1>1, ReplacedFacts
    <3>2. nl \in Seq(Y)
      BY <1>0 DEF nl
    <3> QED
      BY <3>1, <3>2
  <2>3. r[1] = nl[1]
    <3>1. 1 \in 1..Len(nl)
      BY <1>1
    <3> QED
      BY <1>1, <2>1, <3>1, ReplacedFacts
  <2> HIDE DEF r, Y
  <2>4. \A i \in 1..Len(r) : r[i] = nl[i]
    BY <2>2, <2>3
  <2>5. r = nl
    BY <1>1, <2>2, <2>4, SeqEqual
  <2> QED
    BY <2>5 DEF r
<1>6. ReplaceLoneHalves(b \o nl) = ReplaceLoneHalves(b) \o ReplaceLoneHalves(nl)
  <2>1. /\ ~(Last(b)[2] = 1 /\ nl[1] = <<Last(b)[1], 2>>)
        /\ ~(nl[1][2] = 2 /\ Last(b) = <<nl[1][1], 1>>)
    <3>1. \A x : Newline # <<x, 2>>
      BY DEF Newline
    <3> QED
      BY <1>0, <1>1, <3>1
  <2> QED
    BY <1>1, <2>1, ReplacedApart
<1> QED
  BY <1>3, <1>4, <1>5, <1>6 DEF ended, nl

\* A line with its newline is read, and leaves nothing but what it broke off with.
LEMMA WholeLineRead ==
    ASSUME NEW p, IsParser(p), p.held = <<>>, p.pending = <<>>, Carried(p.carry),
           NEW w \in Writes, w.part = "line"
    PROVE  LET q == PushChunk(p, Written(w))
           IN  /\ IsParser(q) /\ q.held = <<>> /\ q.pending = <<>> /\ Carried(q.carry)
               /\ q.complete = p.complete /\ q.line = p.line + 1
               /\ \E text : /\ HasRead(q, p, text)
                            /\ p.carry = <<>> => /\ IsTextOf(text, w)
                                                 /\ w.line.kind # "cut" => q.carry = <<>>
<1> DEFINE line == w.line
           q == PushChunk(p, Written(w))
           body == Body(line)
           read == ReplaceLoneHalves(body)
<1>0. line \in Lines
  BY DEF Writes
<1>1. Written(w) = body \o <<Newline>>
  BY DEF Written
<1>2. body \in Fragments(line) /\ read \in Fragments(line) /\ body \in Seq(Symbols)
  BY <1>0, BodyIsFragment, FragmentIsSymbols
<1>3. PICK b \in {body, read} : q = ConsumeLineBytes(WithPending(p, b))
  <2>1. CASE mode # "text"
    <3>1. q = PushBytes(p, body \o <<Newline>>)
      BY <1>1, <2>1 DEF PushChunk
    <3> QED
      BY <1>0, <1>2, <3>1, FragmentEnds
  <2>2. CASE mode = "text"
    <3> DEFINE ended == body \o <<Newline>>
    <3>1. /\ TrailingHalf(ended) = <<>> /\ WithoutTrailing(ended) = ended
          /\ ReplaceLoneHalves(ended) = read \o <<Newline>>
      BY <1>2, NewlineDecoded
    <3>2. ended \in Seq(Symbols)
      BY <1>0, <1>1, WrittenIsSymbols DEF Writes
    <3>3. p.held \o ended = ended
      <4> HIDE DEF ended
      <4> QED
        BY <3>2
    <3>4. [p EXCEPT !.held = <<>>] = p
      BY DEF IsParser
    <3>5. q = PushBytes(p, read \o <<Newline>>)
      BY <1>1, <2>2, <3>1, <3>3, <3>4 DEF PushChunk, PushText
    <3> QED
      BY <1>0, <1>2, <3>5, FragmentEnds
  <2> QED
    BY <2>1, <2>2
<1> DEFINE bytes == p.carry \o b
           text == ReplaceLoneHalves(WithoutTrailing(bytes))
           half == TrailingHalf(bytes)
           p2 == WithCarry(p, half)
<1>4. q = ConsumeLine(p2, text)
  <2>1. /\ WithPending(p, b).carry = p.carry /\ WithPending(p, b).pending = b
        /\ [WithPending(p, b) EXCEPT !.pending = <<>>, !.carry = half] = p2
    BY DEF WithPending, WithCarry, IsParser
  <2> HIDE DEF p2, half, q
  <2> QED
    BY <1>3, <2>1 DEF ConsumeLineBytes, half
<1>5. /\ IsParser(p2) /\ p2.held = <<>> /\ p2.pending = <<>> /\ p2.carry = half
      /\ p2.complete = p.complete /\ p2.line = p.line /\ p2.records = p.records
      /\ p2.issues = p.issues
  BY DEF WithCarry, IsParser
<1> HIDE DEF q, p2, text, half
<1>6. /\ IsParser(q) /\ q.held = <<>> /\ q.pending = <<>> /\ q.carry = half
      /\ q.complete = p.complete /\ q.line = p.line + 1 /\ HasRead(q, p2, text)
  BY <1>4, <1>5, LineConsumed
<1>7. HasRead(q, p, text)
  BY <1>5, <1>6 DEF HasRead
<1>8. line.kind # "cut" => b \in {<<>>, << <<line, 1>>, <<line, 2>> >>}
  BY <1>0, <1>3, BodyIsFragment
<1>9. Carried(half)
  BY <1>0, <1>2, <1>3, <1>8, CarryKept DEF half
<1>10. ASSUME p.carry = <<>> PROVE IsTextOf(text, w) /\ (line.kind # "cut" => half = <<>>)
  <2>1. b \in Seq(Symbols)
    BY <1>0, <1>2, <1>3, FragmentIsSymbols
  <2>2. p.carry \o b = b
    BY <1>10, <2>1
  <2>3. text = ReplaceLoneHalves(WithoutTrailing(b)) /\ half = TrailingHalf(b)
    BY <2>2 DEF text, half
  <2> HIDE DEF body, read
  <2>4. CASE line.kind = "blank"
    <3>1. b = <<>>
      BY <1>0, <1>3, <2>4, BodyIsFragment DEF body, read
    <3>2. text = <<>> /\ half = <<>>
      BY <1>0, <2>3, <3>1, FragmentsDecoded
    <3> QED
      BY <2>4, <3>2 DEF IsTextOf
  <2>5. CASE line.kind = "cut"
    <3>1. b \in {<< <<line, 0>>, <<line, 1>> >>, << <<line, 0>>, <<line, 0>> >>}
      BY <1>0, <1>3, <2>5, BodyIsFragment DEF body, read
    <3>2. text \in {<< <<line, 0>> >>, << <<line, 0>>, <<line, 0>> >>}
      BY <1>0, <2>3, <3>1, FragmentsDecoded
    <3> QED
      BY <2>5, <3>2 DEF IsTextOf
  <2>6. CASE line.kind \notin {"blank", "cut"}
    <3>1. b = << <<line, 1>>, <<line, 2>> >>
      BY <1>0, <1>3, <2>6, BodyIsFragment DEF body, read
    <3>2. text = b /\ half = <<>>
      BY <1>0, <2>3, <3>1, FragmentsDecoded
    <3> QED
      BY <2>6, <3>1, <3>2 DEF IsTextOf
  <2> QED
    BY <2>4, <2>5, <2>6
<1> QED
  BY <1>6, <1>7, <1>9, <1>10 DEF q

\* The end of the stream reads what is pending and held, when there is any.
LEMMA FinishReads ==
    ASSUME NEW p, IsParser(p), NEW rest, rest = p.pending \o ReplaceLoneHalves(p.held)
    PROVE  LET f == FinishParsing(p)
           IN  /\ rest = <<>> => f.records = p.records /\ f.issues = p.issues
               /\ rest # <<>> => HasRead(f, p, ReplaceLoneHalves(p.carry \o rest))
<1> DEFINE text == ReplaceLoneHalves(p.carry \o rest)
           last == ConsumeLine(p, text)
           q == IF rest = <<>> THEN p ELSE last
           carry == IF rest = <<>> THEN q.carry ELSE <<>>
           f == FinishParsing(p)
<1>1. f = [q EXCEPT !.held = <<>>, !.pending = <<>>, !.complete = TRUE, !.carry = carry]
  BY DEF FinishParsing
<1> HIDE DEF text, carry, f
<1>2. IsParser(last) /\ HasRead(last, p, text)
  BY LineConsumed
<1> HIDE DEF last
<1>3. IsParser(q)
  BY <1>2
<1> HIDE DEF q
<1>4. f.records = q.records /\ f.issues = q.issues
  BY <1>1, <1>3 DEF IsParser
<1>5. (rest = <<>> => q = p) /\ (rest # <<>> => q = last)
  BY DEF q
<1> QED
  BY <1>2, <1>4, <1>5 DEF f, text, HasRead

LEMMA LostTwice ==
    ASSUME NEW line \in Lines
    PROVE  << <<line, 0>> >> \o << <<line, 0>> >> = << <<line, 0>>, <<line, 0>> >>
<1> DEFINE lost == << <<line, 0>> >>
           both == << <<line, 0>>, <<line, 0>> >>
           r == lost \o lost
<1>1. lost \in Seq(Symbols) /\ both \in Seq(Symbols)
  BY FragmentIsSymbols DEF Fragments
<1>2. Len(lost) = 1 /\ lost[1] = <<line, 0>>
  OBVIOUS
<1>3. Len(both) = 2 /\ both[1] = <<line, 0>> /\ both[2] = <<line, 0>>
  OBVIOUS
<1> HIDE DEF lost, both
<1>4. r \in Seq(Symbols) /\ Len(r) = 2 /\ r[1] = lost[1] /\ r[2] = lost[1]
  <2>1. /\ lost \o lost \in Seq(Symbols) /\ Len(lost \o lost) = Len(lost) + Len(lost)
        /\ \A i \in 1..Len(lost) : (lost \o lost)[i] = lost[i]
        /\ \A i \in 1..Len(lost) : (lost \o lost)[Len(lost) + i] = lost[i]
    BY <1>1
  <2>2. 1 \in 1..Len(lost) /\ Len(lost) + 1 = 2
    BY <1>2
  <2> QED
    BY <1>2, <2>1, <2>2
<1> HIDE DEF r
<1>5. \A i \in 1..Len(r) : r[i] = both[i]
  BY <1>2, <1>3, <1>4
<1>6. r = both
  BY <1>1, <1>3, <1>4, <1>5, SeqEqual
<1> QED
  BY <1>6 DEF r, lost, both

\* What a last line without its newline leaves behind in the parser.
LEMMA LastPartWaits ==
    ASSUME NEW p, IsParser(p), p.held = <<>>, p.pending = <<>>,
           NEW w \in Writes, w.part # "line", w.line.kind # "blank",
           w.line.kind = "cut" => w.part # "torn"
    PROVE  LET q == PushChunk(p, Written(w))
               rest == q.pending \o ReplaceLoneHalves(q.held)
           IN  /\ IsParser(q) /\ q.carry = p.carry /\ q.line = p.line
               /\ q.records = p.records /\ q.issues = p.issues
               /\ rest \in Fragments(w.line) /\ rest # <<>>
               /\ IsTextOf(ReplaceLoneHalves(rest), w)
<1> DEFINE line == w.line
           b == Written(w)
           q == PushChunk(p, b)
           none == <<>>
           pair == << <<line, 1>>, <<line, 2>> >>
           cut  == << <<line, 0>>, <<line, 1>> >>
           half == << <<line, 1>> >>
           lost == << <<line, 0>> >>
           both == << <<line, 0>>, <<line, 0>> >>
<1>0. line \in Lines
  BY DEF Writes
<1>1. \/ b = pair /\ line.kind # "cut" /\ w.part = "unended"
      \/ b = cut /\ line.kind = "cut" /\ w.part = "unended"
      \/ b = half /\ line.kind # "cut" /\ w.part = "torn"
  <2>1. CASE w.part = "unended"
    <3>1. b = Body(line)
      BY <2>1 DEF Written
    <3> QED
      BY <1>0, <2>1, <3>1, BodyIsFragment
  <2>2. CASE w.part = "torn"
    BY <2>2 DEF Written
  <2> QED
    BY <2>1, <2>2 DEF Writes
<1>2. /\ none \in Fragments(line) /\ pair \in Fragments(line) /\ cut \in Fragments(line)
      /\ half \in Fragments(line) /\ lost \in Fragments(line) /\ both \in Fragments(line)
  BY DEF Fragments
<1>3. ASSUME NEW c \in Fragments(line) PROVE c \in Seq(Symbols) /\ c \o none = c /\ none \o c = c
  <2>1. c \in Seq(Symbols)
    BY <1>0, FragmentIsSymbols
  <2> QED
    BY <2>1
<1>4. /\ TrailingHalf(pair) = none /\ WithoutTrailing(pair) = pair
      /\ TrailingHalf(cut) = half /\ WithoutTrailing(cut) = lost
      /\ TrailingHalf(half) = half /\ WithoutTrailing(half) = none
      /\ ReplaceLoneHalves(none) = none /\ ReplaceLoneHalves(pair) = pair
      /\ ReplaceLoneHalves(lost) = lost /\ ReplaceLoneHalves(both) = both
      /\ ReplaceLoneHalves(cut) = both /\ ReplaceLoneHalves(half) = lost
  BY <1>0, FragmentsDecoded
<1>5. pair # none /\ cut # none /\ half # none /\ lost # none /\ both # none
  OBVIOUS
<1>6. lost \o lost = both
  BY <1>0, LostTwice
<1>7. ASSUME NEW h \in Fragments(line), NEW c \in Fragments(line), q = WithPending(Holding(p, h), c)
      PROVE  /\ IsParser(q) /\ q.carry = p.carry /\ q.line = p.line
             /\ q.records = p.records /\ q.issues = p.issues
             /\ q.pending = c /\ q.held = h
  <2> DEFINE p2 == Holding(p, h)
  <2>1. /\ IsParser(p2) /\ p2.carry = p.carry /\ p2.line = p.line
        /\ p2.records = p.records /\ p2.issues = p.issues /\ p2.held = h
    BY HoldingFields
  <2> HIDE DEF p2
  <2>2. /\ IsParser(WithPending(p2, c)) /\ WithPending(p2, c).carry = p2.carry
        /\ WithPending(p2, c).line = p2.line /\ WithPending(p2, c).records = p2.records
        /\ WithPending(p2, c).issues = p2.issues /\ WithPending(p2, c).pending = c
        /\ WithPending(p2, c).held = p2.held
    BY <2>1 DEF WithPending, IsParser
  <2> HIDE DEF q
  <2>3. q = WithPending(p2, c)
    BY <1>7 DEF p2
  <2> QED
    BY <2>1, <2>2, <2>3
<1> HIDE DEF none, pair, cut, half, lost, both, b
<1>8. PICK h, c \in Fragments(line) :
        /\ q = WithPending(Holding(p, h), c)
        /\ \/ h = none /\ c = b
           \/ mode = "text" /\ h = TrailingHalf(b) /\ c = ReplaceLoneHalves(WithoutTrailing(b))
  <2>1. b \in Fragments(line)
    BY <1>1, <1>2
  <2>2. CASE mode # "text"
    <3>1. q = PushBytes(p, b)
      BY <2>2 DEF PushChunk
    <3>2. q = WithPending(p, b)
      BY <1>0, <2>1, <3>1, FragmentWaits
    <3>3. Holding(p, none) = p
      BY DEF Holding, IsParser, none
    <3> QED
      BY <1>2, <2>1, <3>2, <3>3
  <2>3. CASE mode = "text"
    <3> DEFINE h == TrailingHalf(b)
               c == ReplaceLoneHalves(WithoutTrailing(b))
    <3>1. p.held \o b = b
      BY <1>3, <2>1 DEF none
    <3>2. q = PushBytes(Holding(p, h), c)
      BY <2>3, <3>1 DEF PushChunk, PushText, Holding
    <3>3. c \in Fragments(line) /\ h \in Fragments(line)
      BY <1>1, <1>2, <1>4
    <3>4. IsParser(Holding(p, h)) /\ Holding(p, h).pending = <<>>
      BY HoldingFields
    <3> HIDE DEF h, c
    <3>5. q = WithPending(Holding(p, h), c)
      BY <1>0, <3>2, <3>3, <3>4, FragmentWaits
    <3> QED
      BY <2>3, <3>3, <3>5 DEF h, c
  <2> QED
    BY <2>2, <2>3
<1>9. /\ IsParser(q) /\ q.carry = p.carry /\ q.line = p.line
      /\ q.records = p.records /\ q.issues = p.issues /\ q.pending = c /\ q.held = h
  BY <1>7, <1>8
<1> HIDE DEF q
<1> DEFINE rest == c \o ReplaceLoneHalves(h)
<1>10. /\ b = pair => rest = pair
       /\ b = cut => rest \in {cut, both}
       /\ b = half => rest \in {half, lost}
  <2>1. CASE h = none /\ c = b
    BY <1>2, <1>3, <1>4, <2>1
  <2>2. CASE h = TrailingHalf(b) /\ c = ReplaceLoneHalves(WithoutTrailing(b))
    <3>1. CASE b = pair
      BY <1>2, <1>3, <1>4, <1>5, <2>2, <3>1
    <3>2. CASE b = cut
      BY <1>2, <1>3, <1>4, <1>6, <2>2, <3>2
    <3>3. CASE b = half
      BY <1>2, <1>3, <1>4, <2>2, <3>3
    <3> QED
      BY <3>1, <3>2, <3>3
  <2> QED
    BY <1>8, <2>1, <2>2
<1> HIDE DEF rest
<1>11. rest \in Fragments(line) /\ rest # <<>>
  BY <1>1, <1>2, <1>5, <1>10 DEF none
<1>12. IsTextOf(ReplaceLoneHalves(rest), w)
  <2>1. CASE b = pair /\ line.kind # "cut" /\ w.part = "unended"
    BY <1>4, <1>10, <2>1 DEF IsTextOf, pair
  <2>2. CASE b # pair /\ (line.kind = "cut" \/ w.part = "torn")
    <3>1. ReplaceLoneHalves(rest) \in {lost, both}
      BY <1>1, <1>4, <1>10, <2>2
    <3> QED
      BY <2>2, <3>1 DEF IsTextOf, lost, both
  <2>3. cut # pair /\ half # pair
    BY DEF cut, pair, half
  <2> QED
    BY <1>1, <2>1, <2>2, <2>3
<1>13. rest = q.pending \o ReplaceLoneHalves(q.held)
  BY <1>9 DEF rest
<1> QED
  BY <1>9, <1>11, <1>12, <1>13 DEF q, b

\* A last line without its newline is read when the stream ends.
LEMMA LastPartRead ==
    ASSUME NEW p, IsParser(p), p.held = <<>>, p.pending = <<>>, Carried(p.carry),
           NEW w \in Writes, w.part # "line", w.line.kind # "blank",
           w.line.kind = "cut" => w.part # "torn"
    PROVE  LET f == FinishParsing(PushChunk(p, Written(w)))
           IN  \E text : HasRead(f, p, text) /\ (p.carry = <<>> => IsTextOf(text, w))
<1> DEFINE q == PushChunk(p, Written(w))
           rest == q.pending \o ReplaceLoneHalves(q.held)
           f == FinishParsing(q)
           text == ReplaceLoneHalves(q.carry \o rest)
<1>1. /\ IsParser(q) /\ q.carry = p.carry /\ q.line = p.line
      /\ q.records = p.records /\ q.issues = p.issues
      /\ rest \in Fragments(w.line) /\ rest # <<>> /\ IsTextOf(ReplaceLoneHalves(rest), w)
  BY LastPartWaits
<1> HIDE DEF q
<1>2. HasRead(f, q, text)
  BY <1>1, FinishReads
<1>3. w.line \in Lines
  BY DEF Writes
<1>4. rest \in Seq(Symbols)
  BY <1>1, <1>3, FragmentIsSymbols
<1> HIDE DEF rest
<1>5. p.carry = <<>> => q.carry \o rest = rest
  BY <1>1, <1>4
<1>6. p.carry = <<>> => IsTextOf(text, w)
  BY <1>1, <1>5
<1> HIDE DEF text, f
<1>7. HasRead(f, p, text)
  BY <1>1, <1>2 DEF HasRead
<1> QED
  BY <1>6, <1>7 DEF f, q

-----------------------------------------------------------------------------
(* What the records tell of what the child has written *)

\* One more index: the last of them, and the sum over them.
LEMMA LastIndex ==
    ASSUME NEW n \in Nat, NEW M \in SUBSET (1..n)
    PROVE  Max(M \cup {n + 1}) = n + 1 /\ (M # {} => Max(M) \in M)
<1> DEFINE T == M \cup {n + 1}
           m == Max(T)
<1>1. n + 1 \in Nat /\ T \in SUBSET (1..(n + 1)) /\ n + 1 \in T
  OBVIOUS
<1>2. m \in T /\ \A y \in T : m >= y
  <2> HIDE DEF T
  <2> QED
    BY <1>1, MaxMember
<1> HIDE DEF m
<1>3. m = n + 1
  BY <1>1, <1>2
<1>4. M # {} => Max(M) \in M
  BY MaxMember
<1> QED
  BY <1>3, <1>4 DEF m

Total(used, S) == IF S = {} THEN Absent ELSE SumFunctionOnSet(used, S)

OneMore(total, used) == IF total = Absent THEN used ELSE total + used

LEMMA TotalGrows ==
    ASSUME NEW n \in Nat, NEW M \in SUBSET (1..n), NEW w, NEW v,
           \A i \in M : w[i] \in Nat /\ v[i] = w[i]
    PROVE  /\ Total(v, M) = Total(w, M)
           /\ v[n + 1] \in Nat => Total(v, M \cup {n + 1}) = OneMore(Total(w, M), v[n + 1])
<1>1. IsFiniteSet(M) /\ n + 1 \notin M
  <2>1. IsFiniteSet(1..n) /\ M \subseteq 1..n
    BY FS_Interval
  <2>2. IsFiniteSet(M)
    BY <2>1, FS_Subset
  <2> QED
    BY <2>2
<1>2. SumFunctionOnSet(v, M) = SumFunctionOnSet(w, M)
  BY <1>1, SumIsSame
<1>3. ASSUME v[n + 1] \in Nat
      PROVE  /\ SumFunctionOnSet(w, M) \in Nat
             /\ SumFunctionOnSet(v, M \cup {n + 1}) = SumFunctionOnSet(w, M) + v[n + 1]
  <2> DEFINE x == n + 1
  <2>1. x \notin M /\ v[x] \in Nat
    BY <1>1, <1>3
  <2> HIDE DEF x
  <2>2. /\ SumFunctionOnSet(w, M) \in Nat
        /\ SumFunctionOnSet(v, M \cup {x}) = SumFunctionOnSet(w, M) + v[x]
    BY <1>1, <2>1, SumGrows
  <2> QED
    BY <2>2 DEF x
<1>4. ASSUME M = {} PROVE SumFunctionOnSet(w, M) = 0
  <2>1. \A i \in M : w[i] = 0 /\ w[i] \in Nat
    BY <1>4
  <2>2. SumFunctionOnSet(w, M) = SumOver(w, M)
    BY <1>1, <2>1, SumFunctionIsSum
  <2> QED
    BY <1>1, <2>1, <2>2, SumOfNothing
<1>5. ASSUME v[n + 1] \in Nat
      PROVE  Total(v, M \cup {n + 1}) = OneMore(Total(w, M), v[n + 1])
  <2> DEFINE sum == SumFunctionOnSet(w, M)
             used == v[n + 1]
             more == SumFunctionOnSet(v, M \cup {n + 1})
  <2>1. sum \in Nat /\ used \in Nat /\ more = sum + used /\ (M = {} => sum = 0)
    BY <1>3, <1>4, <1>5
  <2>2. M \cup {n + 1} # {}
    OBVIOUS
  <2>3. Total(v, M \cup {n + 1}) = more /\ Total(w, M) = IF M = {} THEN Absent ELSE sum
    BY <2>2 DEF Total
  <2> HIDE DEF sum, used, more
  <2>4. more = OneMore(Total(w, M), used)
    <3>1. CASE M = {}
      BY <2>1, <2>3, <3>1 DEF OneMore
    <3>2. CASE M # {}
      BY <2>1, <2>3, <3>2 DEF OneMore, Absent
    <3> QED
      BY <3>1, <3>2
  <2> QED
    BY <2>3, <2>4 DEF used
<1> QED
  BY <1>2, <1>5 DEF Total

LEMMA Appended ==
    ASSUME NEW S, NEW s \in Seq(S), NEW x \in S
    PROVE  LET t == Append(s, x)
           IN  /\ t \in Seq(S) /\ t # <<>> /\ Last(t) = x
               /\ Len(s) \in Nat /\ DOMAIN s = 1..Len(s) /\ DOMAIN t = 1..(Len(s) + 1)
               /\ t[Len(s) + 1] = x /\ \A i \in 1..Len(s) : t[i] = s[i] /\ s[i] \in S
<1> DEFINE t == Append(s, x)
<1>1. /\ t \in Seq(S) /\ Len(t) = Len(s) + 1 /\ t[Len(s) + 1] = x
      /\ \A i \in 1..Len(s) : t[i] = s[i]
  BY AppendProperties
<1>2. Len(s) \in Nat /\ DOMAIN s = 1..Len(s) /\ \A i \in 1..Len(s) : s[i] \in S
  BY SeqFacts
<1> HIDE DEF t
<1>3. DOMAIN t = 1..(Len(s) + 1)
  BY <1>1, SeqFacts
<1>4. t # <<>> /\ Last(t) = x
  BY <1>1, <1>2 DEF Last
<1> QED
  BY <1>1, <1>2, <1>3, <1>4 DEF t

\* A line that is an output of the stage's own.
IsOwn(line) == line.kind = "envelope" /\ line.accepted /\ line.expected

LEMMA OutputsGrow ==
    ASSUME NEW records \in Seq(Lines), NEW line \in Lines
    PROVE  ExtractGatedHeadlessOutput(Append(records, line))
             = IF IsOwn(line) THEN line ELSE ExtractGatedHeadlessOutput(records)
<1> DEFINE t == Append(records, line)
           n == Len(records)
           M == {i \in DOMAIN records : IsOwn(records[i])}
           M2 == {i \in DOMAIN t : IsOwn(t[i])}
<1>1. /\ n \in Nat /\ DOMAIN records = 1..n /\ DOMAIN t = 1..(n + 1)
      /\ t[n + 1] = line /\ \A i \in 1..n : t[i] = records[i]
  BY Appended
<1>2. /\ ExtractGatedHeadlessOutput(records) = IF M = {} THEN NoLine ELSE records[Max(M)]
      /\ ExtractGatedHeadlessOutput(t) = IF M2 = {} THEN NoLine ELSE t[Max(M2)]
  BY DEF ExtractGatedHeadlessOutput, IsExpectedOutput, IsOwn
<1> HIDE DEF t, n
<1>3. M \in SUBSET (1..n) /\ M2 = IF IsOwn(line) THEN M \cup {n + 1} ELSE M
  <2>1. \A i : i \in 1..(n + 1) <=> i \in 1..n \/ i = n + 1
    BY <1>1
  <2> QED
    BY <1>1, <2>1
<1> HIDE DEF M, M2
<1>4. Max(M \cup {n + 1}) = n + 1 /\ (M # {} => Max(M) \in 1..n)
  BY <1>1, <1>3, LastIndex
<1>5. ExtractGatedHeadlessOutput(t) = IF IsOwn(line) THEN line ELSE ExtractGatedHeadlessOutput(records)
  <2>1. CASE IsOwn(line)
    BY <1>1, <1>2, <1>3, <1>4, <2>1
  <2>2. CASE ~IsOwn(line)
    BY <1>1, <1>2, <1>3, <1>4, <2>2
  <2> QED
    BY <2>1, <2>2
<1> QED
  BY <1>5 DEF t

LEMMA UsageGrows ==
    ASSUME NEW records \in Seq(Lines), NEW line \in Lines
    PROVE  ExtractStageUsage(Append(records, line))
             = IF line.kind = "usage" THEN OneMore(ExtractStageUsage(records), line.used)
               ELSE ExtractStageUsage(records)
<1> DEFINE t == Append(records, line)
           n == Len(records)
           M == {i \in DOMAIN records : records[i].kind = "usage"}
           M2 == {i \in DOMAIN t : t[i].kind = "usage"}
           w == [i \in M |-> records[i].used]
           v == [i \in M2 |-> t[i].used]
<1>1. /\ n \in Nat /\ DOMAIN records = 1..n /\ DOMAIN t = 1..(n + 1)
      /\ t[n + 1] = line /\ \A i \in 1..n : t[i] = records[i] /\ records[i] \in Lines
  BY Appended
<1>2. ExtractStageUsage(records) = Total(w, M) /\ ExtractStageUsage(t) = Total(v, M2)
  BY DEF ExtractStageUsage, Total
<1> HIDE DEF t, n
<1>3. M \in SUBSET (1..n) /\ M2 = IF line.kind = "usage" THEN M \cup {n + 1} ELSE M
  <2>1. \A i : i \in 1..(n + 1) <=> i \in 1..n \/ i = n + 1
    BY <1>1
  <2> QED
    BY <1>1, <2>1
<1>4. \A i \in M : w[i] \in Nat /\ v[i] = w[i]
  <2> SUFFICES ASSUME NEW i \in M PROVE w[i] \in Nat /\ v[i] = w[i]
    OBVIOUS
  <2>1. i \in M2 /\ i \in 1..n
    BY <1>3
  <2>2. w[i] = records[i].used /\ v[i] = t[i].used /\ t[i] = records[i]
    BY <1>1, <2>1
  <2>3. records[i] \in Lines /\ records[i].kind = "usage"
    BY <1>1, <2>1
  <2>4. records[i].used \in Nat
    BY <2>3, AgentOutputAssumption
  <2> HIDE DEF w, v
  <2> QED
    BY <2>2, <2>4
<1>5. line.kind = "usage" => v[n + 1] = line.used /\ v[n + 1] \in Nat
  <2> SUFFICES ASSUME line.kind = "usage" PROVE v[n + 1] = line.used /\ line.used \in Nat
    OBVIOUS
  <2>1. line.used \in Nat
    BY AgentOutputAssumption
  <2>2. n + 1 \in M2
    BY <1>3
  <2> QED
    BY <1>1, <2>1, <2>2
<1> HIDE DEF M, M2, w, v
<1>6. /\ Total(v, M) = Total(w, M)
      /\ v[n + 1] \in Nat => Total(v, M \cup {n + 1}) = OneMore(Total(w, M), v[n + 1])
  <2>1. n \in Nat /\ M \in SUBSET (1..n)
    BY <1>1, <1>3
  <2> QED
    BY <1>4, <2>1, TotalGrows
<1> QED
  BY <1>2, <1>3, <1>5, <1>6 DEF t

\* The same of what the child has written.
OwnIn(writes) == {i \in DOMAIN writes : writes[i].part # "torn" /\ IsOwn(writes[i].line)}

LastOwnIn(writes) == IF OwnIn(writes) = {} THEN NoLine ELSE writes[Max(OwnIn(writes))].line

ReportsIn(writes) == {i \in DOMAIN writes : writes[i].part # "torn" /\ writes[i].line.kind = "usage"}

ReportedIn(writes) ==
    Total([i \in ReportsIn(writes) |-> writes[i].line.used], ReportsIn(writes))

CleanIn(writes) == \A i \in DOMAIN writes : ~IsFlaw(writes[i])

UncutIn(writes) == \A i \in DOMAIN writes : writes[i].line.kind # "cut"

LEMMA WritesGrow ==
    ASSUME NEW writes \in Seq(Writes), NEW w \in Writes
    PROVE  LET more == Append(writes, w)
           IN  /\ LastOwnIn(more) = IF w.part # "torn" /\ IsOwn(w.line) THEN w.line
                                    ELSE LastOwnIn(writes)
               /\ ReportedIn(more) = IF w.part # "torn" /\ w.line.kind = "usage"
                                     THEN OneMore(ReportedIn(writes), w.line.used)
                                     ELSE ReportedIn(writes)
               /\ CleanIn(more) <=> CleanIn(writes) /\ ~IsFlaw(w)
               /\ UncutIn(more) <=> UncutIn(writes) /\ w.line.kind # "cut"
<1> DEFINE t == Append(writes, w)
           n == Len(writes)
<1>1. /\ n \in Nat /\ DOMAIN writes = 1..n /\ DOMAIN t = 1..(n + 1)
      /\ t[n + 1] = w /\ \A i \in 1..n : t[i] = writes[i] /\ writes[i] \in Writes
  BY Appended
<1> HIDE DEF t, n
<1>2. \A i : i \in 1..(n + 1) <=> i \in 1..n \/ i = n + 1
  BY <1>1
<1>3. CleanIn(t) <=> CleanIn(writes) /\ ~IsFlaw(w)
  <2>1. n + 1 \in DOMAIN t /\ \A i \in DOMAIN t : i \in 1..n \/ i = n + 1
    BY <1>1, <1>2
  <2>2. \A i \in 1..n : i \in DOMAIN t /\ t[i] = writes[i]
    BY <1>1, <1>2
  <2> QED
    BY <1>1, <2>1, <2>2 DEF CleanIn
<1>4. UncutIn(t) <=> UncutIn(writes) /\ w.line.kind # "cut"
  <2>1. n + 1 \in DOMAIN t /\ \A i \in DOMAIN t : i \in 1..n \/ i = n + 1
    BY <1>1, <1>2
  <2>2. \A i \in 1..n : i \in DOMAIN t /\ t[i] = writes[i]
    BY <1>1, <1>2
  <2> QED
    BY <1>1, <2>1, <2>2 DEF UncutIn
<1>5. LastOwnIn(t) = IF w.part # "torn" /\ IsOwn(w.line) THEN w.line ELSE LastOwnIn(writes)
  <2> DEFINE own == w.part # "torn" /\ IsOwn(w.line)
             M == OwnIn(writes)
             M2 == OwnIn(t)
  <2>1. M \in SUBSET (1..n) /\ M2 = IF own THEN M \cup {n + 1} ELSE M
    BY <1>1, <1>2 DEF OwnIn
  <2>2. /\ LastOwnIn(writes) = IF M = {} THEN NoLine ELSE writes[Max(M)].line
        /\ LastOwnIn(t) = IF M2 = {} THEN NoLine ELSE t[Max(M2)].line
    BY DEF LastOwnIn
  <2> HIDE DEF M, M2, own
  <2>3. Max(M \cup {n + 1}) = n + 1 /\ (M # {} => Max(M) \in 1..n)
    BY <1>1, <2>1, LastIndex
  <2>4. CASE own
    BY <1>1, <2>1, <2>2, <2>3, <2>4 DEF own
  <2>5. CASE ~own
    BY <1>1, <2>1, <2>2, <2>3, <2>5 DEF own
  <2> QED
    BY <2>4, <2>5
<1>6. ReportedIn(t) = IF w.part # "torn" /\ w.line.kind = "usage"
                      THEN OneMore(ReportedIn(writes), w.line.used) ELSE ReportedIn(writes)
  <2> DEFINE report == w.part # "torn" /\ w.line.kind = "usage"
             M == ReportsIn(writes)
             M2 == ReportsIn(t)
             f == [i \in M |-> writes[i].line.used]
             g == [i \in M2 |-> t[i].line.used]
  <2>1. M \in SUBSET (1..n) /\ M2 = IF report THEN M \cup {n + 1} ELSE M
    BY <1>1, <1>2 DEF ReportsIn
  <2>2. ReportedIn(writes) = Total(f, M) /\ ReportedIn(t) = Total(g, M2)
    BY DEF ReportedIn
  <2>3. \A i \in M : writes[i].line \in Lines /\ writes[i].line.kind = "usage"
    BY <1>1 DEF ReportsIn, Writes
  <2>4. \A i \in M : writes[i].line.used \in Nat
    BY <2>3, AgentOutputAssumption
  <2> HIDE DEF M, M2, report
  <2>5. \A i \in M : f[i] \in Nat /\ g[i] = f[i]
    BY <1>1, <2>1, <2>4
  <2>6. report => g[n + 1] = w.line.used /\ g[n + 1] \in Nat
    <3> SUFFICES ASSUME report PROVE g[n + 1] = w.line.used /\ w.line.used \in Nat
      OBVIOUS
    <3>1. w.line \in Lines /\ w.line.kind = "usage"
      BY DEF Writes, report
    <3>2. w.line.used \in Nat
      BY <3>1, AgentOutputAssumption
    <3>3. n + 1 \in M2
      BY <2>1
    <3> QED
      BY <1>1, <3>2, <3>3
  <2> HIDE DEF f, g
  <2>7. /\ Total(g, M) = Total(f, M)
        /\ g[n + 1] \in Nat => Total(g, M \cup {n + 1}) = OneMore(Total(f, M), g[n + 1])
    BY <1>1, <2>1, <2>5, TotalGrows
  <2> QED
    BY <2>1, <2>2, <2>6, <2>7 DEF report
<1> QED
  BY <1>3, <1>4, <1>5, <1>6 DEF t

\* What a parser knows of what the child has written.
Told(p, writes) ==
    /\ UncutIn(writes) =>
         /\ p.records \in Seq(Lines)
         /\ ExtractGatedHeadlessOutput(p.records) = LastOwnIn(writes)
         /\ ExtractStageUsage(p.records) = ReportedIn(writes)
    /\ CleanIn(writes) <=> p.issues = <<>>

LEMMA ToldOnceMore ==
    ASSUME NEW writes \in Seq(Writes), NEW w \in Writes, w.line.kind = "blank" => w.part = "line",
           NEW p, Told(p, writes), p.issues \in Seq(Nat), p.line \in Nat,
           NEW q, NEW text, HasRead(q, p, text), UncutIn(writes) => IsTextOf(text, w)
    PROVE  Told(q, Append(writes, w)) /\ q.issues \in Seq(Nat)
<1> DEFINE more == Append(writes, w)
           line == w.line
<1>1. line \in Lines /\ line.kind \in LineKinds
  BY AgentOutputAssumption DEF Writes
<1>2. /\ LastOwnIn(more) = IF w.part # "torn" /\ IsOwn(line) THEN line ELSE LastOwnIn(writes)
      /\ ReportedIn(more) = IF w.part # "torn" /\ line.kind = "usage"
                            THEN OneMore(ReportedIn(writes), line.used) ELSE ReportedIn(writes)
      /\ CleanIn(more) <=> CleanIn(writes) /\ ~IsFlaw(w)
      /\ UncutIn(more) <=> UncutIn(writes) /\ line.kind # "cut"
  BY WritesGrow
<1>3. Append(p.issues, p.line) \in Seq(Nat) /\ Append(p.issues, p.line) # <<>>
  BY Appended
<1> HIDE DEF more
<1>4. CASE UncutIn(writes)
  <2>1. /\ q.records = IF IsRecord(w) THEN Append(p.records, line) ELSE p.records
        /\ q.issues = IF IsFlaw(w) THEN Append(p.issues, p.line) ELSE p.issues
    BY <1>1, <1>4, TextTells
  <2>2. /\ p.records \in Seq(Lines)
        /\ ExtractGatedHeadlessOutput(p.records) = LastOwnIn(writes)
        /\ ExtractStageUsage(p.records) = ReportedIn(writes)
        /\ CleanIn(writes) <=> p.issues = <<>>
    BY <1>4 DEF Told
  <2>3. CASE IsRecord(w)
    <3>1. /\ ExtractGatedHeadlessOutput(q.records)
               = IF IsOwn(line) THEN line ELSE ExtractGatedHeadlessOutput(p.records)
          /\ ExtractStageUsage(q.records)
               = IF line.kind = "usage" THEN OneMore(ExtractStageUsage(p.records), line.used)
                 ELSE ExtractStageUsage(p.records)
      BY <1>1, <2>1, <2>2, <2>3, OutputsGrow, UsageGrows
    <3>2. q.records \in Seq(Lines)
      BY <1>1, <2>1, <2>2, <2>3, Appended
    <3>3. w.part # "torn"
      BY <2>3 DEF IsRecord
    <3> QED
      BY <1>2, <1>3, <2>1, <2>2, <3>1, <3>2, <3>3 DEF Told, more
  <2>4. CASE ~IsRecord(w)
    <3>1. ~(w.part # "torn" /\ IsOwn(line)) /\ ~(w.part # "torn" /\ line.kind = "usage")
      BY <2>4 DEF IsRecord, IsOwn
    <3>2. q.records = p.records
      BY <2>1, <2>4
    <3> QED
      BY <1>2, <1>3, <2>1, <2>2, <3>1, <3>2 DEF Told, more
  <2> QED
    BY <2>3, <2>4
<1>5. CASE ~UncutIn(writes)
  <2>1. ~CleanIn(writes)
    BY <1>5 DEF UncutIn, CleanIn, IsFlaw
  <2>2. q.issues \in {p.issues, Append(p.issues, p.line)}
    BY DEF HasRead, IssuesAfter
  <2>3. p.issues # <<>>
    BY <2>1 DEF Told
  <2>4. ~UncutIn(more) /\ ~CleanIn(more)
    BY <1>2, <1>5, <2>1
  <2> QED
    BY <1>3, <2>2, <2>3, <2>4 DEF Told, more
<1> QED
  BY <1>4, <1>5

\* Between two lines the parser has read all that was written.
Settled(p, writes) ==
    /\ IsParser(p) /\ p.held = <<>> /\ p.pending = <<>> /\ Carried(p.carry)
    /\ UncutIn(writes) => p.carry = <<>>
    /\ p.line \in Nat /\ p.issues \in Seq(Nat)
    /\ Told(p, writes)

LEMMA EmptyReplaced == ReplaceLoneHalves(<<>>) = <<>> /\ <<>> \o <<>> = <<>>
<1> DEFINE none == <<>>
           r == ReplaceLoneHalves(none)
           Y == Symbols \cup {<<x[1], 0>> : x \in Symbols}
<1>1. none \in Seq(Symbols) /\ Len(none) = 0
  OBVIOUS
<1> HIDE DEF none
<1>2. r \in Seq(Y) /\ Len(r) = 0
  BY <1>1, ReplacedFacts
<1> HIDE DEF r, Y
<1>3. r = <<>>
  BY <1>2
<1>4. <<>> \o <<>> = <<>>
  OBVIOUS
<1> QED
  BY <1>3, <1>4 DEF r, none

LEMMA SettledIsFinished ==
    ASSUME NEW p, NEW writes, Settled(p, writes)
    PROVE  Told(FinishParsing(p), writes)
<1> DEFINE rest == p.pending \o ReplaceLoneHalves(p.held)
<1>1. ReplaceLoneHalves(<<>>) = <<>> /\ <<>> \o <<>> = <<>>
  BY EmptyReplaced
<1>2. rest = <<>>
  BY <1>1 DEF Settled
<1>3. IsParser(p)
  BY DEF Settled
<1> HIDE DEF rest
<1>4. FinishParsing(p).records = p.records /\ FinishParsing(p).issues = p.issues
  BY <1>2, <1>3, FinishReads DEF rest
<1> QED
  BY <1>4 DEF Settled, Told

\* Every whole line settles the parser again; the last part is read when the
\* stream ends.
LEMMA LineSettles ==
    ASSUME NEW p, NEW writes \in Seq(Writes), Settled(p, writes), NEW w \in Writes,
           w.line.kind = "blank" => w.part = "line", w.line.kind = "cut" => w.part # "torn"
    PROVE  LET q == PushChunk(p, Written(w))
           IN  /\ w.part = "line" => Settled(q, Append(writes, w))
               /\ Told(FinishParsing(q), Append(writes, w))
<1> DEFINE q == PushChunk(p, Written(w))
           more == Append(writes, w)
<1>1. /\ IsParser(p) /\ p.held = <<>> /\ p.pending = <<>> /\ Carried(p.carry)
      /\ UncutIn(writes) => p.carry = <<>>
      /\ p.line \in Nat /\ p.issues \in Seq(Nat) /\ Told(p, writes)
  BY DEF Settled
<1>2. UncutIn(more) <=> UncutIn(writes) /\ w.line.kind # "cut"
  BY WritesGrow
<1>3. CASE w.part = "line"
  <2>1. /\ IsParser(q) /\ q.held = <<>> /\ q.pending = <<>> /\ Carried(q.carry)
        /\ q.line = p.line + 1
        /\ \E text : /\ HasRead(q, p, text)
                     /\ p.carry = <<>> => /\ IsTextOf(text, w)
                                          /\ w.line.kind # "cut" => q.carry = <<>>
    BY <1>1, <1>3, WholeLineRead
  <2> HIDE DEF q, more
  <2>2. PICK text : /\ HasRead(q, p, text)
                    /\ p.carry = <<>> => /\ IsTextOf(text, w)
                                         /\ w.line.kind # "cut" => q.carry = <<>>
    BY <2>1
  <2>3. Told(q, more) /\ q.issues \in Seq(Nat)
    BY <1>1, <2>2, ToldOnceMore DEF more
  <2>4. q.line \in Nat
    BY <1>1, <2>1
  <2>5. UncutIn(more) => q.carry = <<>>
    BY <1>1, <1>2, <2>2
  <2>6. Settled(q, more)
    BY <2>1, <2>3, <2>4, <2>5 DEF Settled
  <2> QED
    BY <2>6, SettledIsFinished DEF q, more
<1>4. CASE w.part # "line"
  <2> DEFINE f == FinishParsing(q)
  <2>1. \E text : HasRead(f, p, text) /\ (p.carry = <<>> => IsTextOf(text, w))
    BY <1>1, <1>4, LastPartRead
  <2> HIDE DEF f, q, more
  <2>2. PICK text : HasRead(f, p, text) /\ (p.carry = <<>> => IsTextOf(text, w))
    BY <2>1
  <2>3. Told(f, more)
    BY <1>1, <2>2, ToldOnceMore DEF more
  <2> QED
    BY <1>4, <2>3 DEF f, q, more
<1> QED
  BY <1>3, <1>4

LEMMA NewIsSettled == Settled(NewParser, <<>>)
<1>1. IsParser(NewParser) /\ Carried(NewParser.carry)
  BY DEF IsParser, NewParser, Carried
<1>2. DOMAIN <<>> = {} /\ <<>> \in Seq(Lines) /\ <<>> \in Seq(Nat)
  OBVIOUS
<1>3. CleanIn(<<>>)
  BY <1>2 DEF CleanIn
<1>4. OwnIn(<<>>) = {} /\ ReportsIn(<<>>) = {}
  BY <1>2 DEF OwnIn, ReportsIn
<1>5. LastOwnIn(<<>>) = NoLine /\ ReportedIn(<<>>) = Absent
  BY <1>4 DEF LastOwnIn, ReportedIn, Total
<1>6. ExtractGatedHeadlessOutput(<<>>) = NoLine /\ ExtractStageUsage(<<>>) = Absent
  BY <1>2 DEF ExtractGatedHeadlessOutput, ExtractStageUsage
<1>7. /\ NewParser.held = <<>> /\ NewParser.pending = <<>> /\ NewParser.carry = <<>>
      /\ NewParser.line = 1 /\ NewParser.records = <<>> /\ NewParser.issues = <<>>
  BY DEF NewParser
<1> QED
  BY <1>1, <1>2, <1>3, <1>5, <1>6, <1>7 DEF Settled, Told

LEMMA EmptyStream ==
    ASSUME wrote = <<>>
    PROVE  Stream = <<>>
<1> DEFINE parts == [i \in DOMAIN wrote |-> Written(wrote[i])]
<1>1. DOMAIN parts = {}
  OBVIOUS
<1>2. parts = <<>>
  <2>1. parts \in Seq(Symbols) /\ Len(parts) = 0
    OBVIOUS
  <2> HIDE DEF parts
  <2> QED
    BY <2>1
<1>3. FlattenSeq(<<>>) = <<>>
  BY DEF FlattenSeq
<1> QED
  BY <1>2, <1>3 DEF Stream

-----------------------------------------------------------------------------
(* However the pipe cuts it, the whole stream tells what was written *)

\* What one chunk with all that was written makes of a new parser is settled
\* after each whole line, and knows what was written when the stream ends.
ToldInv ==
    /\ (wrote # <<>> => Last(wrote).part = "line") => Settled(PushChunk(NewParser, Stream), wrote)
    /\ Told(FinishParsing(PushChunk(NewParser, Stream)), wrote)

LEMMA ToldInvariant == Spec => []ToldInv
<1>1. Init => ToldInv
  <2> SUFFICES ASSUME Init PROVE ToldInv
    OBVIOUS
  <2>1. wrote = <<>>
    BY DEF Init
  <2>2. Stream = <<>>
    BY <2>1, EmptyStream
  <2>3. PushChunk(NewParser, Stream) = NewParser
    BY <2>2, EmptyChunk
  <2>4. Settled(NewParser, <<>>)
    BY NewIsSettled
  <2> QED
    BY <2>1, <2>3, <2>4, SettledIsFinished DEF ToldInv
<1>2. ParserInv /\ ToldInv /\ [Next]_vars => ToldInv'
  <2> SUFFICES ASSUME ParserInv, ToldInv, [Next]_vars PROVE ToldInv'
    OBVIOUS
  <2>1. CASE ChildWrites
    <3>1. /\ wrote # <<>> => Last(wrote).part = "line"
          /\ mode' = mode
      BY <2>1 DEF ChildWrites
    <3>2. PICK w \in Writes : /\ w.line.kind = "blank" => w.part = "line"
                              /\ w.line.kind = "cut" => w.part # "torn"
                              /\ wrote' = Append(wrote, w)
      BY <2>1 DEF ChildWrites, Writes
    <3>3. wrote \in Seq(Writes)
      BY DEF ParserInv, WroteType, Writes
    <3>4. Stream' = Stream \o Written(w)
      BY <3>2, StreamGrows DEF ParserInv, Writes
    <3> DEFINE p == PushChunk(NewParser, Stream)
               q == PushChunk(p, Written(w))
    <3>5. PushChunk(NewParser, Stream)' = q
      <4>1. Stream \in Seq(Symbols) /\ Written(w) \in Seq(Symbols)
        BY StreamIsSymbols, WrittenIsSymbols DEF ParserInv, Writes
      <4>2. IsParser(NewParser) /\ NewParser.held \in Seq(Symbols)
        BY DEF IsParser, NewParser
      <4>3. q = PushChunk(NewParser, Stream \o Written(w))
        BY <4>1, <4>2, ChunksJoin
      <4>4. PushChunk(NewParser, Stream)' = PushChunk(NewParser, Stream')
        BY <3>1 DEF PushChunk
      <4> QED
        BY <3>4, <4>3, <4>4
    <3>6. Settled(p, wrote)
      BY <3>1 DEF ToldInv
    <3> HIDE DEF p
    <3>7. /\ w.part = "line" => Settled(q, Append(wrote, w))
          /\ Told(FinishParsing(q), Append(wrote, w))
      BY <3>2, <3>3, <3>6, LineSettles
    <3>8. Last(wrote') = w /\ wrote' # <<>>
      BY <3>2, <3>3, Appended
    <3> HIDE DEF q
    <3> QED
      BY <3>2, <3>5, <3>7, <3>8 DEF ToldInv
  <2>2. CASE wrote' = wrote /\ mode' = mode
    <3>1. Stream' = Stream
      BY <2>2 DEF Stream
    <3>2. PushChunk(NewParser, Stream)' = PushChunk(NewParser, Stream)
      BY <2>2, <3>1 DEF PushChunk
    <3> QED
      BY <2>2, <3>2 DEF ToldInv
  <2>3. DataEvent \/ CloseEvent \/ UNCHANGED vars => wrote' = wrote /\ mode' = mode
    BY DEF DataEvent, CloseEvent, vars
  <2> QED
    BY <2>1, <2>2, <2>3 DEF Next
<1> QED
  BY <1>1, <1>2, ParserInvariant, PTL DEF Spec

-----------------------------------------------------------------------------
(* No chunk ends the stream *)

LEMMA SymbolKeepsOpen ==
    ASSUME NEW p, IsParser(p), NEW symbol
    PROVE  PushSymbol(p, symbol).complete = p.complete
<1>1. CASE symbol = Newline
  <2> DEFINE bytes == p.carry \o p.pending
             text == ReplaceLoneHalves(WithoutTrailing(bytes))
             p2 == [p EXCEPT !.pending = <<>>, !.carry = TrailingHalf(bytes)]
  <2>1. IsParser(p2) /\ p2.complete = p.complete
    <3> DEFINE p1 == WithPending(p, <<>>)
               half == TrailingHalf(bytes)
    <3>1. IsParser(p1) /\ p1.complete = p.complete
      BY UpdatesHold DEF WithPending, IsParser
    <3>2. p2 = WithCarry(p1, half)
      BY DEF WithPending, WithCarry, IsParser
    <3> HIDE DEF p1, half, p2
    <3>3. IsParser(WithCarry(p1, half)) /\ WithCarry(p1, half).complete = p1.complete
      BY <3>1, UpdatesHold DEF WithCarry, IsParser
    <3> QED
      BY <3>1, <3>2, <3>3
  <2>2. PushSymbol(p, symbol) = ConsumeLine(p2, text)
    BY <1>1 DEF PushSymbol, ConsumeLineBytes
  <2> HIDE DEF p2, text
  <2> QED
    BY <2>1, <2>2, LineConsumed
<1>2. CASE symbol # Newline
  BY <1>2 DEF PushSymbol, IsParser
<1> QED
  BY <1>1, <1>2

LEMMA PushKeepsOpen ==
    ASSUME NEW X, NEW b \in Seq(X), NEW p, IsParser(p)
    PROVE  PushBytes(p, b).complete = p.complete
<1>1. PICK states : IsRun(states, p, b) /\ PushBytes(p, b) = states[Len(b)]
  BY PushIsRun
<1>2. Len(b) \in Nat
  OBVIOUS
<1> DEFINE Good(k) == IsParser(states[k]) /\ states[k].complete = p.complete
           Bad == {k \in 0..Len(b) : ~Good(k)}
<1>3. Bad = {}
  <2> SUFFICES ASSUME Bad # {} PROVE FALSE
    OBVIOUS
  <2>1. Bad \in SUBSET Nat
    BY <1>2
  <2>2. PICK k \in Bad : \A m \in Bad : k <= m
    <3> HIDE DEF Bad
    <3> QED
      BY <2>1, SmallestElement
  <2>3. k # 0
    BY <1>1, <2>2 DEF IsRun
  <2>4. k \in 1..Len(b) /\ k - 1 \in 0..Len(b) /\ k - 1 \notin Bad
    BY <1>2, <2>2, <2>3
  <2>5. states[k] = PushSymbol(states[k - 1], b[k])
    BY <1>1, <2>4 DEF IsRun
  <2>6. Good(k - 1)
    BY <2>4
  <2>7. Good(k)
    BY <2>5, <2>6, SymbolHolds, SymbolKeepsOpen
  <2> QED
    BY <2>2, <2>7
<1>4. Good(Len(b))
  BY <1>2, <1>3
<1> QED
  BY <1>1, <1>4

LEMMA ChunkKeepsOpen ==
    ASSUME NEW X, NEW a \in Seq(X), NEW p, IsParser(p), p.held \in Seq(X)
    PROVE  PushChunk(p, a).complete = p.complete
<1>1. CASE mode # "text"
  BY <1>1, PushKeepsOpen DEF PushChunk
<1>2. CASE mode = "text"
  <2> DEFINE text == p.held \o a
             half == TrailingHalf(text)
             read == ReplaceLoneHalves(WithoutTrailing(text))
             Y == X \cup {<<x[1], 0>> : x \in X}
  <2>1. text \in Seq(X)
    OBVIOUS
  <2>2. WithoutTrailing(text) \in Seq(X)
    <3> HIDE DEF text
    <3> QED
      BY <2>1, HalvesFacts
  <2>3. read \in Seq(Y)
    <3> HIDE DEF text
    <3> QED
      BY <2>2, ReplacedFacts
  <2>4. PushChunk(p, a) = PushBytes(Holding(p, half), read)
    BY <1>2 DEF PushChunk, PushText, Holding
  <2> HIDE DEF half, read, Y
  <2>5. IsParser(Holding(p, half)) /\ Holding(p, half).complete = p.complete
    <3>1. Holding(p, half).complete = p.complete
      BY DEF Holding, IsParser
    <3> QED
      BY <3>1, HoldingFields
  <2> QED
    BY <2>3, <2>4, <2>5, PushKeepsOpen
<1> QED
  BY <1>1, <1>2

\* When the stream has ended, the result is what it has told.
ClosedInv ==
    parser.complete =>
      /\ parser = FinishParsing(PushChunk(NewParser, Stream))
      /\ \E exit, timedOut, aborted : result = BuildResult(parser, exit, timedOut, aborted)
      /\ decision = CheckStageDecision(stage, result)

LEMMA ClosedInvariant == Spec => []ClosedInv
<1>1. Init => ClosedInv
  BY DEF Init, NewParser, ClosedInv
<1>2. ParserInv /\ ClosedInv /\ [Next]_vars => ClosedInv'
  <2> SUFFICES ASSUME ParserInv, ClosedInv, [Next]_vars PROVE ClosedInv'
    OBVIOUS
  <2>1. CASE ChildWrites
    BY <2>1 DEF ChildWrites, ClosedInv
  <2>2. CASE DataEvent
    <3>1. PICK chunk : parser' = PushChunk(parser, chunk) /\ chunk \in Seq(Symbols)
      <4>1. PICK upto \in (given + 1)..Len(Stream) :
              parser' = PushChunk(parser, SubSeq(Stream, given + 1, upto))
        BY <2>2 DEF DataEvent
      <4> DEFINE s == Stream
      <4>2. s \in Seq(Symbols) /\ given \in 0..Len(s)
        BY StreamIsSymbols DEF ParserInv
      <4> HIDE DEF s
      <4>3. \A i \in (given + 1)..upto : s[i] \in Symbols
        BY <4>1, <4>2 DEF s
      <4>4. SubSeq(s, given + 1, upto) \in Seq(Symbols)
        BY <4>1, <4>2, <4>3, SubSeqProperties DEF s
      <4> QED
        BY <4>1, <4>4 DEF s
    <3>2. ~parser.complete
      BY <2>2 DEF DataEvent
    <3>3. parser'.complete = parser.complete
      BY <3>1, <3>2, ChunkKeepsOpen DEF ParserInv
    <3> QED
      BY <3>2, <3>3 DEF ClosedInv
  <2>3. CASE CloseEvent
    <3>1. /\ parser' = FinishParsing(parser) /\ ~parser.complete /\ given = Len(Stream)
          /\ wrote' = wrote /\ mode' = mode /\ gate' = gate /\ stage' = stage
          /\ decision' = CheckStageDecision(stage, result')
      BY <2>3 DEF CloseEvent
    <3>2. \E exit, timedOut, aborted : result' = BuildResult(parser', exit, timedOut, aborted)
      BY <2>3 DEF CloseEvent
    <3>3. parser = PushChunk(NewParser, Stream)
      <4> DEFINE s == Stream
      <4>1. s \in Seq(Symbols)
        BY StreamIsSymbols DEF ParserInv
      <4>2. SubSeq(s, 1, Len(s)) = s
        <5> HIDE DEF s
        <5> QED
          BY <4>1, SubSeqFull
      <4>3. SubSeq(Stream, 1, given) = Stream
        BY <3>1, <4>2
      <4> QED
        BY <3>1, <4>3 DEF ParserInv
    <3>4. PushChunk(NewParser, Stream)' = PushChunk(NewParser, Stream)
      <4>1. Stream' = Stream
        BY <3>1 DEF Stream
      <4> QED
        BY <3>1, <4>1 DEF PushChunk
    <3>5. \E exit, timedOut, aborted : (result = BuildResult(parser, exit, timedOut, aborted))'
      <4>1. PICK exit, timedOut, aborted : result' = BuildResult(parser', exit, timedOut, aborted)
        BY <3>2
      <4>2. BuildResult(parser, exit, timedOut, aborted)'
              = BuildResult(parser', exit, timedOut, aborted)
        BY <3>1 DEF BuildResult, OutputClass
      <4> QED
        BY <4>1, <4>2
    <3> QED
      BY <3>1, <3>3, <3>4, <3>5 DEF ClosedInv
  <2>4. CASE UNCHANGED vars
    <3>1. Stream' = Stream
      BY <2>4 DEF Stream, vars
    <3>2. PushChunk(NewParser, Stream)' = PushChunk(NewParser, Stream)
      BY <2>4, <3>1 DEF PushChunk, vars
    <3> QED
      BY <2>4, <3>2 DEF ClosedInv, vars, BuildResult, OutputClass
  <2> QED
    BY <2>1, <2>2, <2>3, <2>4 DEF Next
<1> QED
  BY <1>1, <1>2, ParserInvariant, PTL DEF Spec

-----------------------------------------------------------------------------
(* What decides about the stage, and what it has used *)

\* What the properties say of the writes of the child.
LEMMA SameOfWritten ==
    /\ OwnOutputs = OwnIn(wrote) /\ (IsCleanStream <=> CleanIn(wrote))
    /\ {i \in DOMAIN wrote : wrote[i].part # "torn" /\ wrote[i].line.kind = "usage"}
         = ReportsIn(wrote)
<1>1. OwnOutputs = OwnIn(wrote)
  BY DEF OwnOutputs, OwnIn, IsOwn
<1>2. IsCleanStream <=> CleanIn(wrote)
  BY DEF IsCleanStream, CleanIn, IsFlaw
<1> QED
  BY <1>1, <1>2 DEF ReportsIn

LEMMA GatesAnswer ==
    ASSUME NEW name \in GateNames, NEW p
    PROVE  PayloadGate(name, p) \in {"accept", "reject", "rejectWithFindings"}
<1>1. CASE name = "e2e-verify"
  BY <1>1 DEF PayloadGate, E2eVerify
<1>2. CASE name = "code-review"
  BY <1>2 DEF PayloadGate, CodeReview
<1>3. CASE name = "code-review-lenient"
  BY <1>3 DEF PayloadGate, CodeReviewLenient
<1>4. CASE name = "code-review-critical-only"
  BY <1>4 DEF PayloadGate, CodeReviewCriticalOnly
<1> QED
  BY <1>1, <1>2, <1>3, <1>4 DEF GateNames

\* The stage and the gate it names are those of the run.
GateInv ==
    /\ stage \in StageIds /\ StageDefs[stage].kind = "agent"
    /\ gate \in IF StageDefs[stage].gate THEN GateNames ELSE {"none"}

LEMMA GateInvariant == Spec => []GateInv
<1>1. Init => GateInv
  BY DEF Init, GateInv
<1>2. GateInv /\ [Next]_vars => GateInv'
  BY DEF GateInv, Next, ChildWrites, DataEvent, CloseEvent, vars
<1> QED
  BY <1>1, <1>2, PTL DEF Spec

\* When an agent stage has passed, and when its gate has rejected it.
LEMMA AgentDecides ==
    ASSUME NEW s, StageDefs[s].kind = "agent", NEW r
    PROVE  LET d == CheckStageDecision(s, r)
               ended == /\ ~r.aborted /\ ~r.timedOut /\ ~r.parseError
                        /\ r.output # "null" /\ r.exit = 0
           IN  /\ d.passed <=> ended /\ ~PayloadGateRejects(s, r)
               /\ d.kind = "gate-failed" => ended /\ PayloadGateRejects(s, r)
               /\ d.usage = r.usage
<1> DEFINE ended == /\ ~r.aborted /\ ~r.timedOut /\ ~r.parseError
                    /\ r.output # "null" /\ r.exit = 0
           failure == ExecutionFailure(s, r)
           d == CheckStageDecision(s, r)
           rejects == PayloadGateRejects(s, r)
<1>1. (failure = "passed" <=> ended) /\ failure # "gate-failed"
  BY DEF ExecutionFailure
<1>2. /\ d.kind = IF failure = "passed" /\ rejects THEN "gate-failed" ELSE failure
      /\ d.passed = (d.kind = "passed") /\ d.usage = r.usage
  BY DEF CheckStageDecision
<1> HIDE DEF ended, failure, rejects, d
<1>3. (d.passed <=> ended /\ ~rejects) /\ (d.kind = "gate-failed" => ended /\ rejects)
        /\ d.usage = r.usage
  BY <1>1, <1>2
<1> QED
  BY <1>3 DEF ended, rejects, d

LEMMA ResultTells ==
    ASSUME NEW p, NEW exit, NEW timedOut, NEW aborted,
           NEW line, line = ExtractGatedHeadlessOutput(p.records)
    PROVE  LET r == BuildResult(p, exit, timedOut, aborted)
           IN  /\ r.aborted = aborted /\ r.timedOut = timedOut /\ r.exit = exit
               /\ r.parseError <=> p.issues # <<>> \/ line = NoLine
               /\ r.output = OutputClass(line)
               /\ r.usage = ExtractStageUsage(p.records)
  BY DEF BuildResult, NoResult, GetParseError

\* What holds of a stage whose child's stdout has been closed.
LEMMA ClosedDecision ==
    ASSUME ParserInv, ToldInv, ClosedInv, GateInv, parser.complete
    PROVE  /\ LastOwnOutputDecides
           /\ UncutIn(wrote) => decision.usage = ReportedIn(wrote)
<1>1. Told(parser, wrote) /\ decision = CheckStageDecision(stage, result)
  BY DEF ClosedInv, ToldInv
<1>2. PICK exit, timedOut, aborted : result = BuildResult(parser, exit, timedOut, aborted)
  BY DEF ClosedInv
<1> DEFINE line == ExtractGatedHeadlessOutput(parser.records)
           own == OwnIn(wrote)
           clean == CleanIn(wrote)
           rejects == PayloadGateRejects(stage, result)
           answer == PayloadGate(gate, line.payload)
           ended == result.exit = 0 /\ ~result.timedOut /\ ~result.aborted
<1>3. /\ result.parseError <=> parser.issues # <<>> \/ line = NoLine
      /\ result.output = OutputClass(line)
      /\ result.usage = ExtractStageUsage(parser.records)
  BY <1>2, ResultTells
<1>4. /\ UncutIn(wrote) => line = LastOwnIn(wrote)
                           /\ ExtractStageUsage(parser.records) = ReportedIn(wrote)
      /\ clean <=> parser.issues = <<>>
      /\ clean => UncutIn(wrote)
  <2>1. clean => UncutIn(wrote)
    BY DEF CleanIn, UncutIn, IsFlaw
  <2> QED
    BY <1>1, <2>1 DEF Told
<1>5. /\ decision.passed <=> /\ ended /\ ~result.parseError /\ result.output # "null"
                             /\ ~rejects
      /\ decision.kind = "gate-failed" => ~result.parseError /\ result.output # "null" /\ rejects
      /\ decision.usage = result.usage
  BY <1>1, AgentDecides DEF GateInv
<1>6. /\ line = NoLine => result.output = "null"
      /\ line # NoLine /\ gate = "none" => result.output # "null" /\ ~rejects
      /\ line # NoLine /\ gate # "none" =>
           result.output # "null" /\ (rejects <=> answer # "accept")
  <2>1. result.output = IF line = NoLine THEN "null" ELSE IF gate = "none" THEN "accept" ELSE answer
    BY <1>3 DEF OutputClass
  <2>2. rejects <=> StageDefs[stage].gate /\ result.output \in {"reject", "rejectWithFindings"}
    BY DEF PayloadGateRejects
  <2>3. gate # "none" => gate \in GateNames /\ StageDefs[stage].gate
    BY DEF GateInv
  <2>4. gate # "none" => answer \in {"accept", "reject", "rejectWithFindings"}
    BY <2>3, GatesAnswer
  <2> HIDE DEF rejects, answer, line
  <2> QED
    BY <2>1, <2>2, <2>3, <2>4
<1>7. /\ own # {} => LastOwnIn(wrote) # NoLine /\ Max(own) \in own /\ \A j \in own : j <= Max(own)
                     /\ LastOwnIn(wrote) = wrote[Max(own)].line
      /\ own = {} => LastOwnIn(wrote) = NoLine
  <2>1. own \in SUBSET (1..Len(wrote)) /\ Len(wrote) \in Nat
    BY WroteFacts DEF ParserInv, OwnIn
  <2>2. own # {} => Max(own) \in own /\ \A y \in own : Max(own) >= y
    <3> HIDE DEF own
    <3> QED
      BY <2>1, MaxMember
  <2>3. LastOwnIn(wrote) = IF own = {} THEN NoLine ELSE wrote[Max(own)].line
    BY DEF LastOwnIn
  <2>4. \A i \in own : wrote[i].line # NoLine
    BY DEF OwnIn, IsOwn, NoLine
  <2> HIDE DEF own
  <2>5. \A y \in own : own # {} => y <= Max(own)
    <3> SUFFICES ASSUME NEW y \in own PROVE y <= Max(own)
      OBVIOUS
    <3> DEFINE m == Max(own)
    <3>0. own # {}
      OBVIOUS
    <3>1. m \in own /\ m >= y
      BY <2>2, <3>0
    <3> HIDE DEF m
    <3>2. m \in Nat /\ y \in Nat
      BY <2>1, <3>1
    <3>3. y <= m
      BY <3>1, <3>2
    <3> QED
      BY <3>3 DEF m
  <2> QED
    BY <2>2, <2>3, <2>4, <2>5
<1>8. OwnOutputs = own /\ (IsCleanStream <=> clean)
  BY SameOfWritten
<1>9. own \in SUBSET Nat
  BY WroteFacts DEF ParserInv, OwnIn
<1> DEFINE decides(i) == /\ \A j \in own : j <= i
                         /\ gate # "none" => PayloadGate(gate, wrote[i].line.payload) = "accept"
<1>10. ASSUME clean
       PROVE  line # NoLine /\ (gate # "none" => answer = "accept") <=> \E i \in own : decides(i)
  <2>1. line = LastOwnIn(wrote)
    BY <1>4, <1>10
  <2>2. CASE own = {}
    BY <1>7, <2>1, <2>2
  <2>3. CASE own # {}
    <3> DEFINE m == Max(own)
    <3>1. m \in own /\ (\A j \in own : j <= m) /\ line = wrote[m].line /\ line # NoLine
      BY <1>7, <2>1, <2>3
    <3> HIDE DEF m, own, line
    <3>2. \A i \in own : (\A j \in own : j <= i) => i = m
      <4> SUFFICES ASSUME NEW i \in own, \A j \in own : j <= i PROVE i = m
        OBVIOUS
      <4>1. m <= i /\ i <= m /\ i \in Nat /\ m \in Nat
        BY <1>9, <3>1
      <4> QED
        BY <4>1
    <3>3. (gate # "none" => answer = "accept") <=> \E i \in own : decides(i)
      BY <3>1, <3>2
    <3> QED
      BY <3>1, <3>3
  <2> QED
    BY <2>2, <2>3
<1> HIDE DEF line, own, clean, rejects, answer, ended, decides
<1>11. decision.passed <=> ended /\ clean /\ \E i \in own : decides(i)
  <2>1. CASE clean
    BY <1>3, <1>4, <1>5, <1>6, <1>10, <2>1
  <2>2. CASE ~clean
    BY <1>3, <1>4, <1>5, <2>2
  <2> QED
    BY <2>1, <2>2
<1>12. decision.kind = "gate-failed" => gate # "none" /\ clean /\ own # {}
  BY <1>3, <1>4, <1>5, <1>6, <1>7
<1>13. UncutIn(wrote) => decision.usage = ReportedIn(wrote)
  BY <1>3, <1>4, <1>5
<1>14. LastOwnOutputDecides
  BY <1>8, <1>11, <1>12 DEF LastOwnOutputDecides, ended, decides
<1> QED
  BY <1>13, <1>14

\* However its child's output was cut into chunks, a stage passes exactly when the
\* child ended by itself with exit 0, every line it wrote can be read, and the
\* gate takes the last output that is the stage's own: for every set of lines and
\* streams of every length.
THEOREM LastOutputsDecide == Spec => []LastOwnOutputDecides
<1>1. ParserInv /\ ToldInv /\ ClosedInv /\ GateInv => LastOwnOutputDecides
  <2>1. ~parser.complete => LastOwnOutputDecides
    BY DEF LastOwnOutputDecides
  <2> QED
    BY <2>1, ClosedDecision
<1> QED
  BY <1>1, ParserInvariant, ToldInvariant, ClosedInvariant, GateInvariant, PTL

\* All the usage that a child has reported counts, whatever was wrong with the rest
\* of its output, unless a line before was cut inside a character.
THEOREM AllUsageCounts == Spec => []UsageIsWhole
<1>1. ParserInv /\ ToldInv /\ ClosedInv /\ GateInv => UsageIsWhole
  <2> SUFFICES ASSUME ParserInv, ToldInv, ClosedInv, GateInv, parser.complete,
                      \A i \in DOMAIN wrote : wrote[i].line.kind # "cut"
               PROVE  decision.usage
                        = IF ReportsIn(wrote) = {} THEN Absent
                          ELSE SumFunctionOnSet([i \in ReportsIn(wrote) |-> wrote[i].line.used],
                                                ReportsIn(wrote))
    BY DEF UsageIsWhole, ReportsIn
  <2>1. decision.usage = ReportedIn(wrote)
    BY ClosedDecision DEF UncutIn
  <2> QED
    BY <2>1 DEF ReportedIn, Total
<1> QED
  BY <1>1, ParserInvariant, ToldInvariant, ClosedInvariant, GateInvariant, PTL
=============================================================================
