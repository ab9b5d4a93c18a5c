----------------------------- MODULE AgentOutput -----------------------------
(***************************************************************************)
(* From the stdout of an agent stage's child to the decision about the     *)
(* stage: the child writes lines, the pipe delivers them in chunks cut     *)
(* anywhere, the JSONL parser (executors/pi/headless-jsonl-parser.ts)      *)
(* collects records, and on close the terminal output is gated             *)
(* (headless-stream-output.ts), a result built (run-bmad-stage.ts) and the *)
(* stage's payload gate asked (PayloadGates, StageEvaluation).             *)
(*                                                                         *)
(* A line is two symbols, the halves of a character it cannot be read      *)
(* without: two bytes of UTF-8 when the chunks are bytes, a surrogate pair *)
(* when they are strings.  A half that lost the other one is 0, and so is  *)
(* what is no JSON.                                                        *)
(***************************************************************************)
EXTENDS StageEvaluation, PayloadGates, SequencesExt

CONSTANTS
    Lines,       \* the lines a child may write
    MaxLines     \* bound on their number

LineKinds ==
    {"envelope",    \* a tool_execution_end with a terminal output
     "usage",       \* a message_end of the assistant
     "update",      \* a message_update
     "event",       \* any other JSON value
     "bulk",        \* over 500 000 characters, and none of the first two
     "garbage",     \* no JSON
     "cut",         \* no JSON, and the last character is not whole
     "blank"}

\* An envelope is "own" when gateHeadlessTerminalOutput accepts it under the
\* emission key and the schemas, and it is of the stage's workflow.
ASSUME AgentOutputAssumption ==
    /\ MaxLines \in Nat
    /\ \A line \in Lines :
         /\ line.kind \in LineKinds
         /\ line.kind = "envelope" => /\ line.accepted \in BOOLEAN /\ line.expected \in BOOLEAN
                                      /\ line.payload \in ReviewPayloadType \cup E2ePayloadType
         /\ line.kind = "usage" => line.used \in Nat

VARIABLES
    wrote,      \* ghost: the lines the child has written, [line, part]
    given,      \* how many symbols the parser has been given
    mode,       \* do the chunks come as bytes or as strings?
    parser,     \* HeadlessJsonlParserState
    stage,      \* the stage the child runs, and the gate it names
    gate,
    result,     \* the StageExecutionResult
    output,     \* the envelope in it
    decision    \* the StageDecision

vars == <<wrote, given, mode, parser, stage, gate, result, output, decision>>

NoLine     == [kind |-> "none"]
NoResult   == [aborted |-> FALSE, timedOut |-> FALSE, parseError |-> FALSE, exit |-> Absent,
               output |-> "null", lifted |-> FALSE, usage |-> Absent]
NoDecision == [kind |-> "none", passed |-> FALSE, findings |-> FALSE, usage |-> Absent]

\* "held" is a trailing high surrogate, "carry" the bytes the decoder keeps.
NewParser == [held |-> <<>>, pending |-> <<>>, carry |-> <<>>, line |-> 1,
              records |-> <<>>, issues |-> <<>>, complete |-> FALSE]

Init ==
    /\ wrote = <<>> /\ given = 0
    /\ mode \in {"bytes", "text"}
    /\ parser = NewParser
    /\ stage \in {s \in StageIds : StageDefs[s].kind = "agent"}
    /\ gate \in IF StageDefs[stage].gate THEN GateNames ELSE {"none"}
    /\ result = NoResult /\ output = NoLine /\ decision = NoDecision

-----------------------------------------------------------------------------
(* The symbols of a stream *)

Newline == <<NoLine, 3>>

Body(line) ==
    CASE line.kind = "blank" -> <<>>
      [] line.kind = "cut"   -> << <<line, 0>>, <<line, 1>> >>
      [] OTHER               -> << <<line, 1>>, <<line, 2>> >>

Written(w) ==
    CASE w.part = "line"    -> Body(w.line) \o <<Newline>>
      [] w.part = "unended" -> Body(w.line)
      [] w.part = "torn"    -> << <<w.line, 1>> >>

Stream == FlattenSeq([i \in DOMAIN wrote |-> Written(wrote[i])])

IsPaired(text, i) ==
    CASE text[i][2] = 1 -> i < Len(text) /\ text[i + 1] = <<text[i][1], 2>>
      [] text[i][2] = 2 -> i > 1 /\ text[i - 1] = <<text[i][1], 1>>
      [] OTHER          -> TRUE

\* Encoding and decoding alike replace a half without the other.
ReplaceLoneHalves(text) ==
    [i \in DOMAIN text |-> IF IsPaired(text, i) THEN text[i] ELSE <<text[i][1], 0>>]

\* What may still become a character with the symbol that follows.
TrailingHalf(text) ==
    IF text # <<>> /\ Last(text)[2] = 1 THEN <<Last(text)>> ELSE <<>>

WithoutTrailing(text) == SubSeq(text, 1, Len(text) - Len(TrailingHalf(text)))

-----------------------------------------------------------------------------
(* headless-jsonl-parser.ts *)

\* parseLine: a line that is too long to be parsed for nothing is skipped.
ParseLine(p, text) ==
    IF \E i \in DOMAIN text : text[i][1].kind = "bulk" THEN p
    ELSE IF /\ Len(text) = 2 /\ text = Body(text[1][1])
            /\ text[1][1].kind # "garbage"
    THEN IF text[1][1].kind = "update" THEN p
         ELSE [p EXCEPT !.records = Append(@, text[1][1])]
    ELSE [p EXCEPT !.issues = Append(@, p.line)]

ConsumeLine(p, text) ==
    [(IF text = <<>> THEN p ELSE ParseLine(p, text)) EXCEPT !.line = p.line + 1]

\* decode(..., {stream: true}): an unfinished character goes on in the next line.
ConsumeLineBytes(p) ==
    LET bytes == p.carry \o p.pending
    IN  ConsumeLine([p EXCEPT !.pending = <<>>, !.carry = TrailingHalf(bytes)],
                    ReplaceLoneHalves(WithoutTrailing(bytes)))

\* pushChunk, from its loop on: the rest of a line waits for its newline.
PushBytes(p, bytes) ==
    FoldLeft(LAMBDA q, symbol :
                 IF symbol = Newline THEN ConsumeLineBytes(q)
                 ELSE [q EXCEPT !.pending = Append(@, symbol)],
             p, bytes)

EncodeEachChunk(p, chunk) == PushBytes(p, ReplaceLoneHalves(chunk))

\* encodeTextChunk: a trailing high surrogate is held for the next chunk.
PushText(p, chunk) ==
    LET text == p.held \o chunk
    IN  PushBytes([p EXCEPT !.held = TrailingHalf(text)],
                  ReplaceLoneHalves(WithoutTrailing(text)))

PushChunk(p, chunk) == IF mode = "text" THEN PushText(p, chunk) ELSE PushBytes(p, chunk)

FinishParsingUnended(p) == [p EXCEPT !.held = <<>>, !.complete = TRUE]

\* finishParsing: what is held or pending is the last line, without a newline.
FinishParsing(p) ==
    LET rest == p.pending \o ReplaceLoneHalves(p.held)
        last == ConsumeLine(p, ReplaceLoneHalves(p.carry \o rest))
    IN  [(IF rest = <<>> THEN p ELSE last)
            EXCEPT !.held = <<>>, !.pending = <<>>, !.complete = TRUE,
                   !.carry = IF rest = <<>> THEN @ ELSE <<>>]

-----------------------------------------------------------------------------
(* headless-stream-output.ts *)

IsAcceptedOutput(line) == line.accepted

\* isExpectedOutput
IsExpectedOutput(line) == line.accepted /\ line.expected

\* The last candidate that is accepted; none, when there is none.
ExtractGatedHeadlessOutput(records) ==
    LET accepted == {i \in DOMAIN records :
                       records[i].kind = "envelope" /\ IsExpectedOutput(records[i])}
    IN  IF accepted = {} THEN NoLine ELSE records[Max(accepted)]

ExtractStageUsage(records) ==
    LET reports == {i \in DOMAIN records : records[i].kind = "usage"}
    IN  IF reports = {} THEN Absent
        ELSE SumFunctionOnSet([i \in reports |-> records[i].used], reports)

-----------------------------------------------------------------------------
(* run-bmad-stage.ts *)

\* getParseError: any line that could not be read, or no output.
GetParseError(p, line) == p.issues # <<>> \/ line = NoLine

\* What the stage's gate, if it has one, will say of the payload.
OutputClass(line) ==
    IF line = NoLine THEN "null"
    ELSE IF gate = "none" THEN "accept"
    ELSE PayloadGate(gate, line.payload)

BuildResult(p, exit, timedOut, aborted) ==
    LET line == ExtractGatedHeadlessOutput(p.records)
    IN  [NoResult EXCEPT !.aborted = aborted, !.timedOut = timedOut, !.exit = exit,
                         !.parseError = GetParseError(p, line),
                         !.output = OutputClass(line),
                         !.usage = ExtractStageUsage(p.records)]

-----------------------------------------------------------------------------
(* Actions *)

\* The child writes; its last line may lack the newline, or the half it was
\* killed at.
ChildWrites ==
    /\ ~parser.complete
    /\ Len(wrote) < MaxLines
    /\ wrote # <<>> => Last(wrote).part = "line"
    /\ \E line \in Lines, part \in {"line", "unended", "torn"} :
         /\ line.kind = "blank" => part = "line"
         /\ line.kind = "cut" => part # "torn"
         /\ wrote' = Append(wrote, [line |-> line, part |-> part])
    /\ UNCHANGED <<given, mode, parser, stage, gate, result, output, decision>>

\* A "data" event, with any part of what is in the pipe.
DataEvent ==
    /\ ~parser.complete
    /\ \E upto \in (given + 1)..Len(Stream) :
         /\ parser' = PushChunk(parser, SubSeq(Stream, given + 1, upto))
         /\ given' = upto
    /\ UNCHANGED <<wrote, mode, stage, gate, result, output, decision>>

\* "close": the pipe is empty; resolveClose, then checkStageDecision.
CloseEvent ==
    /\ ~parser.complete
    /\ given = Len(Stream)
    /\ parser' = FinishParsing(parser)
    /\ output' = ExtractGatedHeadlessOutput(parser'.records)
    /\ \E exit \in {Absent, 0, 1}, timedOut, aborted \in BOOLEAN :
         result' = BuildResult(parser', exit, timedOut, aborted)
    /\ decision' = CheckStageDecision(stage, result')
    /\ UNCHANGED <<wrote, given, mode, stage, gate>>

Next == ChildWrites \/ DataEvent \/ CloseEvent

Spec == Init /\ [][Next]_vars

-----------------------------------------------------------------------------
(* Properties *)

\* What the parser has made of a stream does not depend on how it was cut into
\* chunks: it is what one chunk with all of it would have given.
ParsingIsIncremental ==
    ~parser.complete => parser = PushChunk(NewParser, SubSeq(Stream, 1, given))

\* The terminal outputs in the stream that are whole and the stage's own.
OwnOutputs ==
    {i \in DOMAIN wrote :
        /\ wrote[i].part # "torn" /\ wrote[i].line.kind = "envelope"
        /\ wrote[i].line.accepted /\ wrote[i].line.expected}

\* Every line can be read, or is too long to matter.
IsCleanStream ==
    \A i \in DOMAIN wrote :
      /\ wrote[i].line.kind \notin {"garbage", "cut"}
      /\ wrote[i].part = "torn" => wrote[i].line.kind = "bulk"

\* A stage passes exactly when its child ended by itself with exit 0, every line
\* it wrote can be read, and its gate takes the last of the outputs that are its
\* own: no forged, torn, foreign or superseded output ever decides, and what
\* else is in the stream does not hide the one that does.
LastOwnOutputDecides ==
    parser.complete =>
      /\ decision.passed <=>
           /\ result.exit = 0 /\ ~result.timedOut /\ ~result.aborted
           /\ IsCleanStream
           /\ \E i \in OwnOutputs :
                /\ \A j \in OwnOutputs : j <= i
                /\ gate # "none" => PayloadGate(gate, wrote[i].line.payload) = "accept"
      /\ decision.kind = "gate-failed" => gate # "none" /\ IsCleanStream /\ OwnOutputs # {}

\* However a child ended and whatever was wrong with its output, all the usage it
\* has reported counts, unless a line before was cut inside a character.
UsageIsWhole ==
    LET reports == {i \in DOMAIN wrote : wrote[i].part # "torn" /\ wrote[i].line.kind = "usage"}
    IN  parser.complete /\ (\A i \in DOMAIN wrote : wrote[i].line.kind # "cut") =>
          decision.usage = IF reports = {} THEN Absent
                           ELSE SumFunctionOnSet([i \in reports |-> wrote[i].line.used], reports)

\* A review passes the strict gate or the critical-only gate only for the active
\* story and with no critical finding, in its counts or in its details.
PassedReviewIsClean ==
    decision.passed /\ gate \in {"code-review", "code-review-critical-only"} =>
        /\ output.payload.story = "active"
        /\ output.payload.counts["critical"] = 0
        /\ output.payload.keys = "v2" => output.payload.findings["critical"] = 0

=============================================================================
