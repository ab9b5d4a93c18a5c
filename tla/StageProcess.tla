---------------------------- MODULE StageProcess ----------------------------
(***************************************************************************)
(* One execution of a stage by its executor: a code stage as a detached    *)
(* process group (executors/code/local-code-executor.ts) or an agent stage *)
(* as one direct child (executors/pi/run-bmad-stage.ts).  The supervisor   *)
(* runs callbacks, each one action: the timeout, the abort listener, the   *)
(* kill timer, and the child's "error" and "close" events.  Between them   *)
(* the processes start helpers, write the findings file and exit, and the  *)
(* supervisor itself may die with its timers.                              *)
(*                                                                         *)
(* "close" needs the child's exit and the end of its output, so a helper   *)
(* that inherited the output pipes holds it back.                          *)
(*                                                                         *)
(* Output, diagnostics, durations and argv are left out; exit codes are    *)
(* zero, one, any other, or null (killed by a signal).                     *)
(*                                                                         *)
(* An operator whose name is that of the one below it with a suffix is a   *)
(* plausible bug of it; the runs notice each of them (PROJECT.json).       *)
(***************************************************************************)
EXTENDS Naturals, FiniteSets

CONSTANT Helpers      \* the processes the child may start, directly or not

Child == "child"
Procs == {Child} \cup Helpers

ASSUME HelpersAssumption == Child \notin Helpers

VARIABLES
    traits,     \* what the stage and its processes are like; chosen once
    alive,      \* the processes that exist
    started,    \* the helpers started so far
    asked,      \* the processes a SIGTERM reached
    exit,       \* the child's exit code, once it is gone
    file,       \* the stage's findings file
    spawned,    \* what became of the spawn call
    errored,    \* the child's one "error" event was delivered
    requested,  \* request.signal.aborted
    run,        \* the executor's RunState, timers and listener
    result,     \* what its promise was resolved with
    sent,       \* how often each signal was sent
    up          \* the supervisor is alive

processes == <<alive, started, asked, exit>>
vars == <<traits, processes, file, spawned, errored, requested, run, result, sent, up>>

ExitCodes == {"zero", "one", "other", "null"}
Reasons   == {"aborted", "timedOut"}
Signals   == {"SIGTERM", "SIGKILL"}

\* deaf: ignores SIGTERM; pipes: inherited the child's output; strays: left the
\* child's process group.
TraitsType == [kind: {"agent", "code"}, deaf: SUBSET Procs, pipes: SUBSET Helpers,
               strays: SUBSET Helpers]

\* "attached" is the instant between spawn returning and the check of a signal
\* that was aborted before.  An agent's "terminating" is killTimer # undefined.
RunType == [phase: {"idle", "attached", "running"}, aborted: BOOLEAN, timedOut: BOOLEAN,
            terminating: BOOLEAN, timeout: BOOLEAN, listening: BOOLEAN,
            killTimers: 0..1, settled: {"no", "resolved", "rejected"}]

NoResult   == [exit |-> "null", aborted |-> FALSE, timedOut |-> FALSE, findings |-> "none"]
ResultType == [exit: ExitCodes, aborted: BOOLEAN, timedOut: BOOLEAN,
               findings: {"none", "earlier", "fresh"}]

\* Types, and with them that the timeout and the abort share one kill timer.
TypeOK ==
    /\ traits \in TraitsType
    /\ alive \in SUBSET Procs /\ started \in SUBSET Helpers /\ asked \in SUBSET Procs
    /\ exit \in ExitCodes \cup {"none"}
    /\ file \in {"absent", "earlier", "torn", "fresh"}
    /\ spawned \in {"not", "threw", "ok", "failing", "failed"}
    /\ errored \in BOOLEAN /\ requested \in BOOLEAN /\ up \in BOOLEAN
    /\ run \in RunType
    /\ result \in ResultType
    /\ sent \in [Signals -> Nat]

IsCode == traits.kind = "code"

Init ==
    /\ traits \in TraitsType
    /\ alive = {} /\ started = {} /\ asked = {} /\ exit = "none"
    /\ file \in {"absent", "earlier"}
    /\ spawned = "not" /\ errored = FALSE /\ requested \in BOOLEAN
    /\ run = [phase |-> "idle", aborted |-> FALSE, timedOut |-> FALSE, terminating |-> FALSE,
              timeout |-> FALSE, listening |-> FALSE, killTimers |-> 0, settled |-> "no"]
    /\ result = NoResult
    /\ sent = [s \in Signals |-> 0]
    /\ up = TRUE

-----------------------------------------------------------------------------
(* Signals and settlement *)

\* kill(-pid) reaches the group, child.kill the child while Node has its handle.
Reached   == IF IsCode THEN alive \ traits.strays ELSE alive \cap {Child}
CanSignal == IF IsCode THEN spawned = "ok" ELSE Child \in alive

Send(signal) ==
    /\ sent'  = IF CanSignal THEN [sent EXCEPT ![signal] = @ + 1] ELSE sent
    /\ asked' = IF signal = "SIGTERM" THEN asked \cup Reached ELSE asked
    /\ alive' = IF signal = "SIGKILL" THEN alive \ Reached ELSE alive
    /\ exit'  = IF signal = "SIGKILL" /\ Child \in Reached THEN "null" ELSE exit
    /\ UNCHANGED started

\* A code stage is asked to stop once, an agent once for each reason.
AsksToStop(r) == ~IsCode \/ (~r.terminating /\ r.settled = "no")

Terminating(r, reason) ==
    [r EXCEPT ![reason] = TRUE, !.terminating = @ \/ AsksToStop(r),
              !.killTimers = IF AsksToStop(r) /\ ~r.terminating THEN @ + 1 ELSE @]

Terminate(r, reason) ==
    /\ run' = Terminating(r, reason)
    /\ IF AsksToStop(r) THEN Send("SIGTERM") ELSE UNCHANGED <<processes, sent>>

SettledKeepingTimeout(r, how) ==
    [r EXCEPT !.settled = how, !.listening = FALSE,
              !.killTimers = IF IsCode /\ how = "resolved" /\ r.terminating THEN @ ELSE 0]

SettledDroppingKill(r, how) ==
    [r EXCEPT !.settled = how, !.timeout = FALSE, !.listening = FALSE, !.killTimers = 0]

\* cleanup: a terminated code stage keeps its kill timer after it is resolved.
Settled(r, how) ==
    [r EXCEPT !.settled = how, !.timeout = FALSE, !.listening = FALSE,
              !.killTimers = IF IsCode /\ how = "resolved" /\ r.terminating THEN @ ELSE 0]

LiftedAnyway(r, code) ==
    IF IsCode /\ code = "one" /\ file \in {"earlier", "fresh"} THEN file ELSE "none"

\* The findings file is read at settlement, after exit 1 with no flag only; a
\* file that does not parse lifts nothing.
Lifted(r, code) ==
    IF IsCode /\ code = "one" /\ ~r.timedOut /\ ~r.aborted /\ file \in {"earlier", "fresh"}
    THEN file ELSE "none"

ResolveOnce(r, code) ==
    IF r.settled # "no" THEN run' = r /\ UNCHANGED result
    ELSE /\ run' = Settled(r, "resolved")
         /\ result' = [exit |-> code, aborted |-> r.aborted, timedOut |-> r.timedOut,
                       findings |-> Lifted(r, code)]

-----------------------------------------------------------------------------
(* The supervisor *)

SpawnThrows ==
    /\ up /\ run.phase = "idle"
    /\ spawned' = "threw"
    /\ run' = [run EXCEPT !.phase = "running", !.settled = "rejected"]
    /\ UNCHANGED <<traits, processes, file, errored, requested, result, sent, up>>

\* A spawn that fails later (no such executable) reports it as an "error" event.
Spawn ==
    /\ up /\ run.phase = "idle"
    /\ spawned' \in {"ok", "failing"}
    /\ alive' = IF spawned' = "ok" THEN {Child} ELSE {}
    /\ run' = [run EXCEPT !.phase = "attached", !.timeout = TRUE, !.listening = TRUE]
    /\ UNCHANGED <<traits, started, asked, exit, file, errored, requested, result, sent, up>>

\* The rest of the same callback: a signal aborted before the spawn.
CheckAborted ==
    /\ up /\ run.phase = "attached"
    /\ LET r == [run EXCEPT !.phase = "running"]
       IN  IF requested THEN Terminate(r, "aborted")
           ELSE run' = r /\ UNCHANGED <<processes, sent>>
    /\ UNCHANGED <<traits, file, spawned, errored, requested, result, up>>

\* The turns of the event loop: none before the spawn's "error" is delivered.
Turn == up /\ run.phase = "running" /\ spawned # "failing"

TimeoutFires ==
    /\ Turn /\ run.timeout
    /\ Terminate([run EXCEPT !.timeout = FALSE], "timedOut")
    /\ UNCHANGED <<traits, file, spawned, errored, requested, result, up>>

\* The run's AbortSignal (cli.ts: SIGINT or SIGTERM to the supervisor).
AbortRequested ==
    /\ up /\ ~requested
    /\ requested' = TRUE
    /\ \/ run.phase = "idle" /\ UNCHANGED <<processes, sent, run>>
       \/ /\ Turn
          /\ IF run.listening THEN Terminate([run EXCEPT !.listening = FALSE], "aborted")
             ELSE UNCHANGED <<processes, sent, run>>
    /\ UNCHANGED <<traits, file, spawned, errored, result, up>>

KillTimerFiresOnly ==
    /\ Turn /\ run.killTimers > 0
    /\ Send("SIGKILL")
    /\ run' = [run EXCEPT !.killTimers = @ - 1] /\ UNCHANGED result
    /\ UNCHANGED <<traits, file, spawned, errored, requested, up>>

\* A code stage is resolved by its kill timer, "close" or not.
KillTimerFires ==
    /\ Turn /\ run.killTimers > 0
    /\ Send("SIGKILL")
    /\ LET r == [run EXCEPT !.killTimers = @ - 1]
       IN  IF IsCode THEN ResolveOnce(r, "null") ELSE run' = r /\ UNCHANGED result
    /\ UNCHANGED <<traits, file, spawned, errored, requested, up>>

RejectsAlways(r) == r.settled = "no"

Rejects(r) ==
    /\ r.settled = "no"
    /\ IF IsCode THEN ~r.terminating ELSE ~r.timedOut /\ ~r.aborted

\* The spawn failed, or a signal could not be delivered.
ErrorEvent ==
    /\ up /\ run.phase = "running" /\ ~errored
    /\ spawned = "failing" \/ (spawned = "ok" /\ run.terminating)
    /\ errored' = TRUE
    /\ spawned' = IF spawned = "failing" THEN "failed" ELSE spawned
    /\ run' = IF Rejects(run) THEN Settled(run, "rejected") ELSE run
    /\ UNCHANGED <<traits, processes, file, requested, result, sent, up>>

CloseEventOnExit ==
    /\ Turn /\ run.settled = "no" /\ spawned = "ok" /\ Child \notin alive
    /\ ResolveOnce(run, exit)
    /\ UNCHANGED <<traits, processes, file, spawned, errored, requested, sent, up>>

CloseEvent ==
    /\ Turn /\ run.settled = "no"
    /\ \/ spawned = "ok" /\ Child \notin alive /\ alive \cap traits.pipes = {}
       \/ spawned = "failed"
    /\ ResolveOnce(run, IF spawned = "ok" THEN exit ELSE "other")
    /\ UNCHANGED <<traits, processes, file, spawned, errored, requested, sent, up>>

\* Killed, or ended by a second SIGTERM once cli.ts has removed its handlers.
SupervisorDies ==
    /\ up
    /\ up' = FALSE
    /\ UNCHANGED <<traits, processes, file, spawned, errored, requested, run, result, sent>>

-----------------------------------------------------------------------------
(* The processes of the stage *)

\* A helper has its group and its output from a process that still has them.
StartHelper(h) ==
    /\ h \notin started /\ alive # {}
    /\ h \in traits.strays \/ alive \ traits.strays # {}
    /\ h \in traits.pipes => alive \cap ({Child} \cup traits.pipes) # {}
    /\ started' = started \cup {h}
    /\ alive' = alive \cup {h}
    /\ UNCHANGED <<traits, asked, exit, file, spawned, errored, requested, run, result, sent, up>>

Exit(p) ==
    /\ p \in alive
    /\ alive' = alive \ {p}
    /\ exit' \in IF p = Child THEN ExitCodes ELSE {exit}
    /\ UNCHANGED <<traits, started, asked, file, spawned, errored, requested, run, result, sent, up>>

WriteFindings ==
    /\ IsCode /\ alive # {}
    /\ file' \in {"torn", "fresh"}
    /\ UNCHANGED <<traits, processes, spawned, errored, requested, run, result, sent, up>>

Next ==
    \/ SpawnThrows \/ Spawn \/ CheckAborted
    \/ TimeoutFires \/ AbortRequested \/ KillTimerFires \/ ErrorEvent \/ CloseEvent
    \/ SupervisorDies \/ WriteFindings
    \/ \E h \in Helpers : StartHelper(h)
    \/ \E p \in Procs : Exit(p)

Spec == Init /\ [][Next]_vars

\* Armed timers fire and due events are delivered while the supervisor lives; a
\* process that a SIGTERM reached exits unless it ignores the signal.
Obeys(p) == p \in asked \ traits.deaf /\ Exit(p)

FairSpec ==
    /\ Spec
    /\ WF_vars(CheckAborted) /\ WF_vars(TimeoutFires) /\ WF_vars(KillTimerFires)
    /\ WF_vars(spawned = "failing" /\ ErrorEvent) /\ WF_vars(CloseEvent)
    /\ \A p \in Procs : WF_vars(Obeys(p))

-----------------------------------------------------------------------------
(* Properties *)

\* A result that names no reason comes from processes nobody signalled, and none
\* will be: no flag, timer or listener outlives it (resolveOnce, resolveClose).
UnflaggedIsUntouched ==
    run.settled # "no" /\ ~result.aborted /\ ~result.timedOut =>
        /\ ~run.aborted /\ ~run.timedOut
        /\ ~run.timeout /\ ~run.listening /\ run.killTimers = 0
        /\ \A s \in Signals : sent[s] = 0

\* What a terminated child does last is no verdict of its stage: its execution
\* is never rejected as a failed spawn, and lifts no findings even if the child
\* answers SIGTERM with exit 1 (attachHandlers, liftablePath).
TerminatedIsNoVerdict ==
    run.aborted \/ run.timedOut =>
        run.settled # "rejected" /\ result.findings = "none"

\* A resolved execution has no child, and no process that could still write to
\* its output, but for a terminated code stage ("close" against "exit").
OutputIsComplete ==
    run.settled = "resolved" =>
        /\ Child \notin alive
        /\ alive \cap traits.pipes = {} \/ (IsCode /\ run.terminating)

\* After a timeout or an abort of a code stage nothing of its process group
\* survives, whether or not its result was delivered before (cleanup).
GroupIsKilled ==
    IsCode /\ run.terminating ~> alive \subseteq traits.strays \/ ~up

\* Every execution settles: only an agent's helper that keeps the output of its
\* dead parent open can hold one up, and that only for an agent stage.
ExecutionSettles ==
    run.phase = "attached" ~>
        \/ run.settled # "no" \/ ~up
        \/ ~IsCode /\ Child \notin alive /\ alive \cap traits.pipes # {}

=============================================================================
