------------------------- MODULE StageProcessProofs -------------------------
(***************************************************************************)
(* Proofs about StageProcess, for any set of helper processes.  The        *)
(* invariant ties the executor's flags to its timers, to the signals sent  *)
(* and to the result; each property is a consequence of it.                *)
(***************************************************************************)
EXTENDS StageProcess, TLAPS

\* Before the spawn nothing has happened; without a child nothing lives, and a
\* child that is gone has left an exit code.
PhasesInOrder ==
    /\ spawned = "not" <=> run.phase = "idle"
    /\ run.phase = "idle" => ~run.timeout /\ ~run.listening /\ ~run.terminating
    /\ run.phase # "running" => run.settled = "no"
    /\ spawned # "ok" => alive = {}
    /\ spawned = "ok" => Child \in alive \/ exit # "none"

\* A reason, the one kill timer and the signals come together.
ReasonsAndSignals ==
    /\ run.terminating <=> run.aborted \/ run.timedOut
    /\ ~run.terminating => run.killTimers = 0 /\ \A s \in Signals : sent[s] = 0

\* What settlement leaves behind.
SettlementIsFinal ==
    /\ run.settled = "no" => result = NoResult
    /\ run.settled # "no" => ~run.timeout /\ ~run.listening
    /\ run.settled = "resolved" =>
         result.aborted = run.aborted /\ result.timedOut = run.timedOut
    /\ run.settled = "rejected" => ~run.terminating /\ result = NoResult
    /\ result.findings # "none" => ~run.terminating

IInv == TypeOK /\ PhasesInOrder /\ ReasonsAndSignals /\ SettlementIsFinal /\ OutputIsComplete

-----------------------------------------------------------------------------
(* Types of what the actions are built from *)

LEMMA TerminatingType ==
    ASSUME NEW r \in RunType, NEW reason \in Reasons,
           r.terminating \/ r.killTimers = 0
    PROVE  /\ Terminating(r, reason) \in RunType
           /\ Terminating(r, reason).terminating = (r.terminating \/ AsksToStop(r))
           /\ Terminating(r, reason).aborted = (r.aborted \/ reason = "aborted")
           /\ Terminating(r, reason).timedOut = (r.timedOut \/ reason = "timedOut")
           /\ Terminating(r, reason).phase = r.phase
           /\ Terminating(r, reason).settled = r.settled
           /\ Terminating(r, reason).timeout = r.timeout
           /\ Terminating(r, reason).listening = r.listening
<1> DEFINE b == r.terminating \/ AsksToStop(r)
           k == IF AsksToStop(r) /\ ~r.terminating THEN r.killTimers + 1 ELSE r.killTimers
<1>1. b \in BOOLEAN /\ k \in 0..1
  BY DEF RunType, AsksToStop, IsCode
<1>2. Terminating(r, reason) =
        [r EXCEPT ![reason] = TRUE, !.terminating = b, !.killTimers = k]
  BY DEF Terminating
<1> HIDE DEF b, k
<1> DEFINE t == Terminating(r, reason)
<1>3. CASE reason = "aborted"
  <2>1. t = [r EXCEPT !.aborted = TRUE, !.terminating = b, !.killTimers = k]
    BY <1>2, <1>3
  <2>2. t \in RunType /\ t.terminating = b /\ t.aborted = TRUE /\ t.timedOut = r.timedOut
    BY <1>1, <2>1 DEF RunType
  <2>3. t.phase = r.phase /\ t.settled = r.settled /\ t.timeout = r.timeout
        /\ t.listening = r.listening
    BY <2>1 DEF RunType
  <2> QED
    BY <1>3, <2>2, <2>3 DEF b, RunType
<1>4. CASE reason = "timedOut"
  <2>1. t = [r EXCEPT !.timedOut = TRUE, !.terminating = b, !.killTimers = k]
    BY <1>2, <1>4
  <2>2. t \in RunType /\ t.terminating = b /\ t.timedOut = TRUE /\ t.aborted = r.aborted
    BY <1>1, <2>1 DEF RunType
  <2>3. t.phase = r.phase /\ t.settled = r.settled /\ t.timeout = r.timeout
        /\ t.listening = r.listening
    BY <2>1 DEF RunType
  <2> QED
    BY <1>4, <2>2, <2>3 DEF b, RunType
<1> QED
  BY <1>3, <1>4 DEF Reasons

LEMMA SettledType ==
    ASSUME NEW r \in RunType, NEW how \in {"resolved", "rejected"}
    PROVE  Settled(r, how) \in RunType
<1> DEFINE k == IF IsCode /\ how = "resolved" /\ r.terminating THEN r.killTimers ELSE 0
<1>1. k \in 0..1
  BY DEF RunType
<1>2. Settled(r, how) = [r EXCEPT !.settled = how, !.timeout = FALSE, !.listening = FALSE,
                                  !.killTimers = k]
  BY DEF Settled
<1> HIDE DEF k
<1> QED
  BY <1>1, <1>2 DEF RunType

LEMMA LiftedType ==
    ASSUME NEW r, NEW code
    PROVE  Lifted(r, code) \in {"none", "earlier", "fresh"}
BY DEF Lifted

LEMMA SendType ==
    ASSUME TypeOK, NEW signal \in Signals, Send(signal)
    PROVE  /\ alive' \in SUBSET Procs /\ alive' \subseteq alive
           /\ started' \in SUBSET Helpers /\ asked' \in SUBSET Procs
           /\ exit' \in ExitCodes \cup {"none"}
           /\ sent' \in [Signals -> Nat]
           /\ exit # "none" => exit' # "none"
           /\ Child \in alive => Child \in alive' \/ exit' # "none"
<1>1. Reached \subseteq alive
  BY DEF Reached
<1>2. sent' \in [Signals -> Nat]
  BY DEF TypeOK, Send, Signals
<1> QED
  BY <1>1, <1>2 DEF TypeOK, Send, ExitCodes

-----------------------------------------------------------------------------
(* The two things a callback does: ask the child to stop, and settle *)

\* r is the RunState a callback has when it calls terminate: run, but for the
\* phase, the timeout that just fired or the listener that was just used up.
LEMMA TerminateStep ==
    ASSUME IInv, NEW r \in RunType, NEW reason \in Reasons,
           r.aborted = run.aborted, r.timedOut = run.timedOut,
           r.terminating = run.terminating, r.killTimers = run.killTimers,
           r.settled = "no", run.settled = "no", r.phase = "running", spawned # "not",
           Terminate(r, reason), requested' \in BOOLEAN,
           UNCHANGED <<traits, file, spawned, errored, result, up>>
    PROVE  IInv'
<1> USE DEF IInv
<1>0. run' = Terminating(r, reason)
  BY DEF Terminate
<1>1. r.terminating \/ r.killTimers = 0
  BY DEF ReasonsAndSignals
<1>2. /\ run' \in RunType /\ run'.phase = "running" /\ run'.settled = "no"
      /\ run'.terminating = (r.terminating \/ AsksToStop(r))
      /\ run'.aborted = (r.aborted \/ reason = "aborted")
      /\ run'.timedOut = (r.timedOut \/ reason = "timedOut")
  BY <1>0, <1>1, TerminatingType
<1>3. /\ alive' \in SUBSET Procs /\ alive' \subseteq alive
      /\ started' \in SUBSET Helpers /\ asked' \in SUBSET Procs
      /\ exit' \in ExitCodes \cup {"none"} /\ sent' \in [Signals -> Nat]
      /\ exit # "none" => exit' # "none"
      /\ Child \in alive => Child \in alive' \/ exit' # "none"
  <2>1. CASE AsksToStop(r)
    BY <2>1, SendType DEF Terminate, Signals
  <2>2. CASE ~AsksToStop(r)
    BY <2>2 DEF Terminate, TypeOK, processes
  <2> QED
    BY <2>1, <2>2
<1>4. TypeOK'
  BY <1>2, <1>3 DEF TypeOK
<1>5. PhasesInOrder'
  BY <1>2, <1>3 DEF PhasesInOrder
<1>6. run'.terminating = TRUE /\ (run'.aborted \/ run'.timedOut)
  BY <1>2 DEF AsksToStop, Reasons, IsCode, RunType
<1>7. ReasonsAndSignals'
  BY <1>6 DEF ReasonsAndSignals
<1>8. SettlementIsFinal'
  <2>1. result' = NoResult
    BY DEF SettlementIsFinal
  <2> QED
    BY <1>2, <2>1 DEF SettlementIsFinal, NoResult
<1>9. OutputIsComplete'
  BY <1>2 DEF OutputIsComplete
<1> QED
  BY <1>4, <1>5, <1>7, <1>8, <1>9

\* What resolving does to the executor's own state; r is run, or run without the
\* kill timer that just fired.
LEMMA ResolveStep ==
    ASSUME IInv, NEW r \in RunType, NEW code \in ExitCodes,
           r.aborted = run.aborted, r.timedOut = run.timedOut,
           r.terminating = run.terminating, r.settled = run.settled,
           r.timeout = run.timeout, r.listening = run.listening, r.phase = "running",
           r.terminating \/ r.killTimers = 0, ResolveOnce(r, code)
    PROVE  /\ run' \in RunType /\ result' \in ResultType
           /\ run'.phase = "running" /\ run'.terminating = run.terminating
           /\ run'.aborted = run.aborted /\ run'.timedOut = run.timedOut
           /\ run'.terminating \/ run'.killTimers = 0
           /\ run'.settled = IF run.settled = "no" THEN "resolved" ELSE run.settled
           /\ SettlementIsFinal'
<1> USE DEF IInv
<1>1. CASE run.settled # "no"
  BY <1>1 DEF ResolveOnce, TypeOK, SettlementIsFinal
<1>2. CASE run.settled = "no"
  <2>1. run' = Settled(r, "resolved")
    BY <1>2 DEF ResolveOnce
  <2>2. result' = [exit |-> code, aborted |-> r.aborted, timedOut |-> r.timedOut,
                   findings |-> Lifted(r, code)]
    BY <1>2 DEF ResolveOnce
  <2>3. run' \in RunType
    BY <2>1, SettledType
  <2>4. result' \in ResultType
    BY <2>2, LiftedType DEF ResultType, RunType
  <2>5. /\ run'.phase = "running" /\ run'.terminating = run.terminating
        /\ run'.aborted = run.aborted /\ run'.timedOut = run.timedOut
        /\ run'.settled = "resolved" /\ run'.timeout = FALSE /\ run'.listening = FALSE
    BY <2>1 DEF Settled, RunType
  <2>6. run'.killTimers = IF IsCode /\ r.terminating THEN r.killTimers ELSE 0
    BY <2>1 DEF Settled, RunType
  <2>7. result'.findings # "none" => ~run.terminating
    BY <2>2 DEF Lifted, ReasonsAndSignals
  <2>8. result'.aborted = run'.aborted /\ result'.timedOut = run'.timedOut
    BY <2>2, <2>5
  <2>9. SettlementIsFinal'
    BY <2>5, <2>7, <2>8 DEF SettlementIsFinal
  <2> QED
    BY <1>2, <2>3, <2>4, <2>5, <2>6, <2>9
<1> QED
  BY <1>1, <1>2

-----------------------------------------------------------------------------
(* The invariant *)

LEMMA InitInvariant == Init => IInv
<1> SUFFICES ASSUME Init PROVE IInv
  OBVIOUS
<1>1. run \in RunType /\ result \in ResultType
  BY DEF Init, RunType, ResultType, NoResult, ExitCodes
<1>2. TypeOK
  BY <1>1 DEF Init, TypeOK, Signals
<1> QED
  BY <1>2 DEF Init, IInv, PhasesInOrder, ReasonsAndSignals, SettlementIsFinal, OutputIsComplete,
              NoResult

LEMMA NextInvariant == IInv /\ [Next]_vars => IInv'
<1> SUFFICES ASSUME IInv, [Next]_vars PROVE IInv'
  OBVIOUS
<1> USE DEF IInv
<1>1. CASE SpawnThrows
  <2>1. /\ run' \in RunType /\ run'.phase = "running" /\ run'.settled = "rejected"
        /\ run'.terminating = run.terminating /\ run'.aborted = run.aborted
        /\ run'.timedOut = run.timedOut /\ run'.killTimers = run.killTimers
        /\ run'.timeout = run.timeout /\ run'.listening = run.listening
    BY <1>1 DEF SpawnThrows, TypeOK, RunType
  <2>2. TypeOK'
    BY <1>1, <2>1 DEF SpawnThrows, TypeOK, processes
  <2>3. PhasesInOrder'
    BY <1>1, <2>1 DEF SpawnThrows, PhasesInOrder, processes
  <2>4. ReasonsAndSignals'
    BY <1>1, <2>1 DEF SpawnThrows, ReasonsAndSignals
  <2>5. SettlementIsFinal'
    BY <1>1, <2>1 DEF SpawnThrows, PhasesInOrder, SettlementIsFinal, NoResult
  <2> QED
    BY <2>1, <2>2, <2>3, <2>4, <2>5 DEF OutputIsComplete
<1>2. CASE Spawn
  <2>1. /\ run' \in RunType /\ run'.phase = "attached" /\ run'.settled = "no"
        /\ run'.terminating = run.terminating /\ run'.aborted = run.aborted
        /\ run'.timedOut = run.timedOut /\ run'.killTimers = run.killTimers
    BY <1>2 DEF Spawn, TypeOK, RunType, PhasesInOrder
  <2>2. TypeOK'
    BY <1>2, <2>1 DEF Spawn, TypeOK, Procs
  <2>3. PhasesInOrder'
    BY <1>2, <2>1 DEF Spawn, PhasesInOrder
  <2>4. ReasonsAndSignals'
    BY <1>2, <2>1 DEF Spawn, ReasonsAndSignals
  <2>5. SettlementIsFinal'
    BY <1>2, <2>1 DEF Spawn, PhasesInOrder, SettlementIsFinal, NoResult
  <2> QED
    BY <2>1, <2>2, <2>3, <2>4, <2>5 DEF OutputIsComplete
<1>3. CASE CheckAborted
  <2> DEFINE r == [run EXCEPT !.phase = "running"]
  <2>1. /\ r \in RunType /\ r.phase = "running" /\ r.settled = run.settled
        /\ r.terminating = run.terminating /\ r.aborted = run.aborted
        /\ r.timedOut = run.timedOut /\ r.killTimers = run.killTimers
        /\ r.timeout = run.timeout /\ r.listening = run.listening
    BY DEF TypeOK, RunType
  <2>2. run.settled = "no" /\ spawned # "not"
    BY <1>3 DEF CheckAborted, PhasesInOrder
  <2>3. CASE requested
    <3>1. Terminate(r, "aborted") /\ requested' \in BOOLEAN
      BY <1>3, <2>3 DEF CheckAborted, TypeOK
    <3>2. UNCHANGED <<traits, file, spawned, errored, result, up>>
      BY <1>3 DEF CheckAborted
    <3> HIDE DEF r
    <3> QED
      BY <2>1, <2>2, <3>1, <3>2, TerminateStep DEF Reasons
  <2>4. CASE ~requested
    <3>1. run' = r /\ UNCHANGED <<processes, sent>>
      BY <1>3, <2>4 DEF CheckAborted
    <3> HIDE DEF r
    <3>2. TypeOK'
      BY <1>3, <2>1, <3>1 DEF CheckAborted, TypeOK, processes
    <3>3. PhasesInOrder'
      BY <1>3, <2>1, <2>2, <3>1 DEF CheckAborted, PhasesInOrder, processes
    <3>4. ReasonsAndSignals'
      BY <2>1, <3>1 DEF ReasonsAndSignals
    <3>5. SettlementIsFinal'
      BY <1>3, <2>1, <2>2, <3>1 DEF CheckAborted, SettlementIsFinal
    <3> QED
      BY <2>1, <2>2, <3>1, <3>2, <3>3, <3>4, <3>5 DEF OutputIsComplete
  <2> QED
    BY <2>3, <2>4
<1>4. CASE TimeoutFires
  <2> DEFINE r == [run EXCEPT !.timeout = FALSE]
  <2>1. /\ r \in RunType /\ r.phase = run.phase /\ r.settled = run.settled
        /\ r.terminating = run.terminating /\ r.aborted = run.aborted
        /\ r.timedOut = run.timedOut /\ r.killTimers = run.killTimers
    BY DEF TypeOK, RunType
  <2>2. run.settled = "no" /\ run.phase = "running" /\ spawned # "not"
    BY <1>4 DEF TimeoutFires, Turn, PhasesInOrder, SettlementIsFinal
  <2>3. Terminate(r, "timedOut") /\ requested' \in BOOLEAN
    BY <1>4 DEF TimeoutFires, TypeOK
  <2>4. UNCHANGED <<traits, file, spawned, errored, result, up>>
    BY <1>4 DEF TimeoutFires
  <2> HIDE DEF r
  <2> QED
    BY <2>1, <2>2, <2>3, <2>4, TerminateStep DEF Reasons
<1>5. CASE AbortRequested
  <2>1. requested' \in BOOLEAN /\ UNCHANGED <<traits, file, spawned, errored, result, up>>
    BY <1>5 DEF AbortRequested
  <2>2. CASE UNCHANGED <<processes, sent, run>>
    <3>1. TypeOK'
      BY <2>1, <2>2 DEF TypeOK, processes
    <3> QED
      BY <2>1, <2>2, <3>1 DEF processes, PhasesInOrder, ReasonsAndSignals, SettlementIsFinal,
                              OutputIsComplete, IsCode
  <2>3. CASE Turn /\ run.listening /\ Terminate([run EXCEPT !.listening = FALSE], "aborted")
    <3> DEFINE r == [run EXCEPT !.listening = FALSE]
    <3>1. /\ r \in RunType /\ r.phase = run.phase /\ r.settled = run.settled
          /\ r.terminating = run.terminating /\ r.aborted = run.aborted
          /\ r.timedOut = run.timedOut /\ r.killTimers = run.killTimers
      BY DEF TypeOK, RunType
    <3>2. run.settled = "no" /\ run.phase = "running" /\ spawned # "not"
      BY <2>3 DEF Turn, PhasesInOrder, SettlementIsFinal
    <3>3. Terminate(r, "aborted")
      BY <2>3
    <3> HIDE DEF r
    <3> QED
      BY <2>1, <3>1, <3>2, <3>3, TerminateStep DEF Reasons
  <2> QED
    BY <1>5, <2>2, <2>3 DEF AbortRequested
<1>6. CASE KillTimerFires
  <2> DEFINE r == [run EXCEPT !.killTimers = run.killTimers - 1]
  <2>1. run.killTimers = 1 /\ run.terminating
    <3>1. run.killTimers \in 0..1 /\ run.killTimers > 0
      BY <1>6 DEF KillTimerFires, TypeOK, RunType
    <3>2. run.killTimers = 1
      BY <3>1
    <3>3. run.killTimers # 0 => run.terminating
      BY DEF ReasonsAndSignals
    <3> QED
      BY <3>2, <3>3
  <2>2. /\ r \in RunType /\ r.phase = run.phase /\ r.settled = run.settled
        /\ r.terminating = run.terminating /\ r.aborted = run.aborted
        /\ r.timedOut = run.timedOut /\ r.killTimers = 0
        /\ r.timeout = run.timeout /\ r.listening = run.listening
    <3>1. r = [run EXCEPT !.killTimers = 0]
      BY <2>1
    <3> HIDE DEF r
    <3> QED
      BY <3>1 DEF TypeOK, RunType
  <2>3. Send("SIGKILL") /\ UNCHANGED <<traits, file, spawned, errored, requested, up>>
    BY <1>6 DEF KillTimerFires
  <2>4. /\ alive' \in SUBSET Procs /\ alive' \subseteq alive
        /\ started' \in SUBSET Helpers /\ asked' \in SUBSET Procs
        /\ exit' \in ExitCodes \cup {"none"} /\ sent' \in [Signals -> Nat]
        /\ exit # "none" => exit' # "none"
        /\ Child \in alive => Child \in alive' \/ exit' # "none"
    BY <2>3, SendType DEF Signals
  <2>5. run.phase = "running"
    BY <1>6 DEF KillTimerFires, Turn
  <2>6. CASE IsCode
    <3>1. ResolveOnce(r, "null")
      BY <1>6, <2>6 DEF KillTimerFires
    <3> HIDE DEF r
    <3>2. /\ run' \in RunType /\ result' \in ResultType
          /\ run'.phase = "running" /\ run'.terminating = run.terminating
          /\ run'.aborted = run.aborted /\ run'.timedOut = run.timedOut
          /\ SettlementIsFinal'
      BY <2>2, <2>5, <3>1, ResolveStep DEF ExitCodes
    <3>3. TypeOK'
      BY <2>3, <2>4, <3>2 DEF TypeOK
    <3>4. PhasesInOrder'
      BY <2>3, <2>4, <2>5, <3>2 DEF PhasesInOrder
    <3>5. ReasonsAndSignals'
      BY <2>1, <3>2 DEF ReasonsAndSignals
    <3>6. Child \notin alive'
      BY <2>3, <2>6, HelpersAssumption DEF Send, Reached, TypeOK, TraitsType
    <3>7. OutputIsComplete'
      BY <2>1, <2>3, <2>6, <3>2, <3>6 DEF OutputIsComplete, IsCode
    <3> QED
      BY <3>2, <3>3, <3>4, <3>5, <3>7
  <2>7. CASE ~IsCode
    <3>1. run' = r /\ UNCHANGED result
      BY <1>6, <2>7 DEF KillTimerFires
    <3> HIDE DEF r
    <3>2. TypeOK'
      BY <2>2, <2>3, <2>4, <3>1 DEF TypeOK
    <3>3. PhasesInOrder'
      BY <2>2, <2>3, <2>4, <2>5, <3>1 DEF PhasesInOrder
    <3>4. ReasonsAndSignals'
      BY <2>1, <2>2, <3>1 DEF ReasonsAndSignals
    <3>5. SettlementIsFinal'
      BY <2>2, <3>1 DEF SettlementIsFinal
    <3>6. OutputIsComplete'
      BY <2>2, <2>3, <2>4, <3>1 DEF OutputIsComplete, IsCode
    <3> QED
      BY <3>2, <3>3, <3>4, <3>5, <3>6
  <2> QED
    BY <2>6, <2>7
<1>7. CASE ErrorEvent
  <2>1. /\ UNCHANGED <<traits, processes, file, requested, result, sent, up>>
        /\ errored' = TRUE /\ spawned' \in {spawned, "failed"}
        /\ run.phase = "running"
        /\ spawned' = "ok" => spawned = "ok"
        /\ spawned \in {"failing", "ok"}
        /\ spawned' # "failed" => spawned' = spawned
        /\ spawned' = "failed" => spawned = "failing"
    BY <1>7 DEF ErrorEvent
  <2>2. CASE Rejects(run)
    <3>1. run' = Settled(run, "rejected")
      BY <1>7, <2>2 DEF ErrorEvent
    <3>2. run.settled = "no" /\ ~run.terminating
      BY <2>2 DEF Rejects, ReasonsAndSignals
    <3>3. run' \in RunType
      BY <3>1, SettledType DEF TypeOK
    <3>4. /\ run'.phase = run.phase /\ run'.settled = "rejected"
          /\ run'.terminating = run.terminating /\ run'.aborted = run.aborted
          /\ run'.timedOut = run.timedOut /\ run'.killTimers = 0
          /\ run'.timeout = FALSE /\ run'.listening = FALSE
      BY <3>1 DEF Settled, TypeOK, RunType
    <3>5. TypeOK'
      BY <2>1, <3>3 DEF TypeOK, processes
    <3>6. PhasesInOrder'
      BY <2>1, <3>4 DEF PhasesInOrder, processes
    <3>7. ReasonsAndSignals'
      BY <2>1, <3>4 DEF ReasonsAndSignals
    <3>8. SettlementIsFinal'
      BY <2>1, <3>2, <3>4 DEF SettlementIsFinal, NoResult
    <3> QED
      BY <3>4, <3>5, <3>6, <3>7, <3>8 DEF OutputIsComplete
  <2>3. CASE ~Rejects(run)
    <3>1. run' = run
      BY <1>7, <2>3 DEF ErrorEvent
    <3>2. TypeOK'
      BY <2>1, <3>1 DEF TypeOK, processes
    <3>3. PhasesInOrder'
      BY <2>1, <3>1 DEF PhasesInOrder, processes
    <3> QED
      BY <2>1, <3>1, <3>2, <3>3 DEF processes, ReasonsAndSignals, SettlementIsFinal,
                                    OutputIsComplete, IsCode
  <2> QED
    BY <2>2, <2>3
<1>8. CASE CloseEvent
  <2> DEFINE code == IF spawned = "ok" THEN exit ELSE "other"
  <2>1. /\ UNCHANGED <<traits, processes, file, spawned, errored, requested, sent, up>>
        /\ ResolveOnce(run, code) /\ run.settled = "no" /\ run.phase = "running"
    BY <1>8 DEF CloseEvent, Turn
  <2>2. code \in ExitCodes
    BY <1>8 DEF CloseEvent, PhasesInOrder, TypeOK, ExitCodes
  <2>3. Child \notin alive /\ alive \cap traits.pipes = {}
    BY <1>8 DEF CloseEvent, PhasesInOrder
  <2> HIDE DEF code
  <2>4. run.terminating \/ run.killTimers = 0
    BY DEF ReasonsAndSignals
  <2>5. /\ run' \in RunType /\ result' \in ResultType
        /\ run'.phase = "running" /\ run'.terminating = run.terminating
        /\ run'.aborted = run.aborted /\ run'.timedOut = run.timedOut
        /\ run'.terminating \/ run'.killTimers = 0
        /\ SettlementIsFinal'
    BY <2>1, <2>2, <2>4, ResolveStep DEF TypeOK
  <2>6. TypeOK'
    BY <2>1, <2>5 DEF TypeOK, processes
  <2>7. PhasesInOrder'
    BY <2>1, <2>5 DEF PhasesInOrder, processes
  <2>8. ReasonsAndSignals'
    BY <2>1, <2>5 DEF ReasonsAndSignals
  <2>9. OutputIsComplete'
    BY <2>1, <2>3 DEF OutputIsComplete, processes
  <2> QED
    BY <2>5, <2>6, <2>7, <2>8, <2>9
<1>9. CASE SupervisorDies
  <2>1. TypeOK'
    BY <1>9 DEF SupervisorDies, TypeOK, processes
  <2> QED
    BY <1>9, <2>1 DEF SupervisorDies, processes, PhasesInOrder, ReasonsAndSignals,
                      SettlementIsFinal, OutputIsComplete, IsCode
<1>10. CASE WriteFindings
  <2>1. TypeOK'
    BY <1>10 DEF WriteFindings, TypeOK, processes
  <2> QED
    BY <1>10, <2>1 DEF WriteFindings, processes, PhasesInOrder, ReasonsAndSignals,
                       SettlementIsFinal, OutputIsComplete, IsCode
<1>11. CASE \E h \in Helpers : StartHelper(h)
  <2> PICK h \in Helpers : StartHelper(h)
    BY <1>11
  <2>1. TypeOK'
    BY DEF StartHelper, TypeOK, Procs
  <2>2. PhasesInOrder'
    BY DEF StartHelper, PhasesInOrder
  <2>3. ReasonsAndSignals' /\ SettlementIsFinal'
    BY DEF StartHelper, ReasonsAndSignals, SettlementIsFinal
  <2>4. OutputIsComplete'
    <3>1. h # Child
      BY HelpersAssumption
    <3> QED
      BY <3>1 DEF StartHelper, OutputIsComplete, IsCode
  <2> QED
    BY <2>1, <2>2, <2>3, <2>4
<1>12. CASE \E p \in Procs : Exit(p)
  <2> PICK p \in Procs : Exit(p)
    BY <1>12
  <2>1. exit' \in ExitCodes \cup {"none"}
    BY DEF Exit, TypeOK
  <2>2. TypeOK'
    BY <2>1 DEF Exit, TypeOK
  <2>3. PhasesInOrder'
    <3>1. CASE p = Child
      <4>1. exit' # "none"
        BY <3>1 DEF Exit, ExitCodes
      <4> QED
        BY <4>1 DEF Exit, PhasesInOrder
    <3>2. CASE p # Child
      BY <3>2 DEF Exit, PhasesInOrder
    <3> QED
      BY <3>1, <3>2
  <2> QED
    BY <2>2, <2>3 DEF Exit, ReasonsAndSignals, SettlementIsFinal, OutputIsComplete, IsCode
<1>13. CASE UNCHANGED vars
  <2>1. TypeOK'
    BY <1>13 DEF vars, processes, TypeOK
  <2> QED
    BY <1>13, <2>1 DEF vars, processes, PhasesInOrder, ReasonsAndSignals, SettlementIsFinal,
                       OutputIsComplete, IsCode
<1> QED
  BY <1>1, <1>2, <1>3, <1>4, <1>5, <1>6, <1>7, <1>8, <1>9, <1>10, <1>11, <1>12, <1>13 DEF Next

-----------------------------------------------------------------------------
(* What holds of every execution *)

LEMMA ExecutionInvariant == Spec => []IInv
<1>1. Init => IInv
  BY InitInvariant
<1>2. IInv /\ [Next]_vars => IInv'
  BY NextInvariant
<1> QED
  BY <1>1, <1>2, PTL DEF Spec

\* Types; in particular an execution never has two kill timers, so that its
\* process group is killed by force at most once (terminate, killWithEscalation).
THEOREM ExecutionTypeCorrect == Spec => []TypeOK
<1>1. IInv => TypeOK
  BY DEF IInv
<1> QED
  BY <1>1, ExecutionInvariant, PTL

\* An execution reported without a reason was never signalled and never will be.
THEOREM UnflaggedResultsAreUntouched == Spec => []UnflaggedIsUntouched
<1>1. IInv => UnflaggedIsUntouched
  <2> SUFFICES ASSUME IInv, run.settled # "no", ~result.aborted, ~result.timedOut
               PROVE  /\ ~run.aborted /\ ~run.timedOut
                      /\ ~run.timeout /\ ~run.listening /\ run.killTimers = 0
                      /\ \A s \in Signals : sent[s] = 0
    BY DEF UnflaggedIsUntouched
  <2>1. run.settled \in {"resolved", "rejected"}
    BY DEF IInv, TypeOK, RunType
  <2>2. ~run.terminating
    BY <2>1 DEF IInv, SettlementIsFinal, ReasonsAndSignals
  <2> QED
    BY <2>2 DEF IInv, SettlementIsFinal, ReasonsAndSignals
<1> QED
  BY <1>1, ExecutionInvariant, PTL

\* A terminated child gives no verdict: no rejection, no findings.
THEOREM TerminatedStagesGiveNoVerdict == Spec => []TerminatedIsNoVerdict
<1>1. IInv => TerminatedIsNoVerdict
  BY DEF IInv, ReasonsAndSignals, SettlementIsFinal, TerminatedIsNoVerdict
<1> QED
  BY <1>1, ExecutionInvariant, PTL

\* However many helpers a child starts, a result is delivered once its output is
\* complete, or after a code stage's termination.
THEOREM ResultsHaveCompleteOutput == Spec => []OutputIsComplete
<1>1. IInv => OutputIsComplete
  BY DEF IInv
<1> QED
  BY <1>1, ExecutionInvariant, PTL
=============================================================================
