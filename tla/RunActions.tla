------------------------------ MODULE RunActions ------------------------------
(***************************************************************************)
(* Runner processes, each with one dispatch of the same story: the command *)
(* line (cli.ts) calls runPipelineAction (actions/), which takes the       *)
(* dispatch lock (DispatchLock), loads the state file, compiles the RunDef *)
(* there is now, decides whether that file may be run under it, lets the   *)
(* pipeline runner work on it, and reports one result.                     *)
(*                                                                         *)
(* The pipeline runner is reduced to what it saves (PipelineRunner has the *)
(* rest).  The run id of a process is the process.  A recovery stands for  *)
(* the pair of the receipt's run id and the reason.                        *)
(***************************************************************************)
EXTENDS DispatchLock, RunDefinitions

CONSTANTS
    Catalogs,       \* the files that may be in the directory of the pipelines
    Earlier,        \* the run id of a receipt an earlier runner has made
    NoRecovery,     \* no terminal recovery is asked for
    SinkMayFail     \* may the injected event sink throw?

RunDefs == {SelectAndCompileRunDef(files) : files \in Catalogs} \ {NoDef}

NoSeal == [run |-> NoRecovery, def |-> NoDef]
Runs   == Procs \cup {Earlier}

ASSUME RunActionsAssumption ==
    /\ \A files \in Catalogs : files \subseteq FileType
    /\ Earlier \notin Procs /\ NoRecovery \notin Runs
    /\ SinkMayFail \in BOOLEAN

VARIABLES
    disk,       \* the state file of the story
    act,        \* where each process is in runPipelineAction
    recovery,   \* the terminal recovery each process was asked for
    def,        \* the RunDef each process has compiled
    mem,        \* the state each process works on
    out,        \* what the event sink of each process was given
    last        \* ghost: the file as each process has loaded or saved it last

actionVars == <<disk, act, recovery, def, mem, out, last>>
runVars == <<vars, actionVars>>

ActionPoints == {"idle", "lock", "load", "compile", "resolve", "correct", "stages", "done",
                 "failed", "needs-attention", "throw", "release", "ended", "rejected", "gone"}
FsmStatuses == {"done", "failed", "needs-attention"}
ResultStatuses == {"passed", "failed", "needs-attention"}
PipelineStatuses == {"pending", "running"} \cup FsmStatuses

\* What the action keeps of a state file: a checkpoint and a receipt are the run
\* and the RunDef they were made under; superseded receipts are archived.
NoFile == [status |-> "absent", def |-> NoDef, identity |-> NoDef, checkpoint |-> NoSeal,
           receipt |-> NoSeal, archive |-> <<>>]

InitialFile(d) == [NoFile EXCEPT !.status = "pending", !.def = d]

\* Files of an earlier runner, which kept no copy of the RunDef: a pipeline that is
\* done, and one whose receipt was superseded and that stopped on the way.
EarlierFiles ==
    {[InitialFile(d) EXCEPT !.status = "done", !.checkpoint = [run |-> Earlier, def |-> d],
                            !.receipt = [run |-> Earlier, def |-> d]] : d \in RunDefs}
    \cup
    {[InitialFile(d) EXCEPT !.status = "needs-attention",
                            !.archive = <<[expected |-> Earlier, identity |-> NoDef,
                                           receipt |-> [run |-> Earlier, def |-> d]]>>] :
       d \in RunDefs}

RunInit ==
    /\ Init
    /\ disk \in {NoFile} \cup EarlierFiles
    /\ act = [p \in Procs |-> "idle"]
    /\ recovery = [p \in Procs |-> NoRecovery]
    /\ def = [p \in Procs |-> NoDef]
    /\ mem = [p \in Procs |-> NoFile]
    /\ out = [p \in Procs |-> <<>>]
    /\ last = [p \in Procs |-> NoFile]

-----------------------------------------------------------------------------
(* state/fs-state-validation.ts: the RunDef a file and its receipts name *)

\* archivedRunDefMatches
ArchivedRunDefMatches(record, st) ==
    \/ record.receipt.def = st.def
    \/ /\ record.identity # NoDef /\ st.identity # NoDef
       /\ EqualExceptTimeouts(record.identity, st.identity)

IsValidFile(st) ==
    /\ st.identity \in {NoDef, st.def}
    /\ st.checkpoint # NoSeal => st.checkpoint.def = st.def
    /\ st.receipt # NoSeal => st.receipt = st.checkpoint
    /\ st.status = "done" => st.receipt # NoSeal
    /\ \A i \in DOMAIN st.archive :
         /\ st.archive[i].identity \in {NoDef, st.archive[i].receipt.def}
         /\ ArchivedRunDefMatches(st.archive[i], st)
         /\ \A j \in DOMAIN st.archive : st.archive[i].expected = st.archive[j].expected => i = j

-----------------------------------------------------------------------------
(* Leaving a step, reporting and saving *)

At(p, point) == act[p] = point /\ alive[p]

Goto(p, point) == act' = [act EXCEPT ![p] = point]

\* The events reach the sink one after the other, unless it throws at one.
EmitThen(p, events, point, caught) ==
    \/ out' = [out EXCEPT ![p] = @ \o events] /\ Goto(p, point)
    \/ /\ SinkMayFail
       /\ \E n \in 0..(Len(events) - 1) :
            out' = [out EXCEPT ![p] = @ \o SubSeq(events, 1, n) \o <<"lost">>]
       /\ Goto(p, caught)

Throw(p) == Goto(p, "throw") /\ UNCHANGED <<disk, mem, last>>

\* saveState: a state that does not validate is refused with a throw.
Save(p, st, point) ==
    IF IsValidFile(st)
    THEN /\ disk' = st
         /\ mem' = [mem EXCEPT ![p] = st] /\ last' = [last EXCEPT ![p] = st]
         /\ Goto(p, point)
    ELSE Throw(p)

-----------------------------------------------------------------------------
(* run-pipeline-action.ts *)

\* A malformed request throws before the lock; the command line prints the error.
ValidateActionRequest(p) ==
    /\ At(p, "idle")
    /\ \/ recovery' \in {[recovery EXCEPT ![p] = r] : r \in Runs \cup {NoRecovery}}
          /\ Goto(p, "lock")
       \/ UNCHANGED recovery /\ Goto(p, "rejected")
    /\ UNCHANGED <<vars, disk, def, mem, out, last>>

\* acquireDispatchLock, one of its steps (DispatchLock).
AcquireDispatchLock(p) ==
    /\ At(p, "lock")
    /\ pc[p] \notin {"held", "refused", "failed"}
    /\ Acquire(p)
    /\ UNCHANGED actionVars

SettleLockHeldByThrow(p) ==
    /\ At(p, "lock") /\ pc[p] = "refused"
    /\ EmitThen(p, <<"error", "needs-attention">>, "throw", "rejected")
    /\ UNCHANGED <<vars, disk, recovery, def, mem, last>>

\* settleLockHeld: the run is not started, and the file not even read.
SettleLockHeld(p) ==
    /\ At(p, "lock") /\ pc[p] = "refused"
    /\ EmitThen(p, <<"error", "needs-attention">>, "ended", "rejected")
    /\ UNCHANGED <<vars, disk, recovery, def, mem, last>>

\* The acquisition itself throws, outside of the catch.
AcquisitionThrows(p) ==
    /\ At(p, "lock") /\ pc[p] = "failed"
    /\ Goto(p, "rejected")
    /\ UNCHANGED <<vars, disk, recovery, def, mem, out, last>>

StartRun(p) ==
    /\ At(p, "lock") /\ pc[p] = "held"
    /\ EmitThen(p, <<"run.started">>, "load", "throw")
    /\ UNCHANGED <<vars, disk, recovery, def, mem, last>>

SettleThrowUnreleased(p) ==
    /\ At(p, "throw")
    /\ EmitThen(p, <<"error", "needs-attention">>, "ended", "release")
    /\ UNCHANGED <<vars, disk, recovery, def, mem, last>>

\* settleThrow: whatever was thrown behind the lock becomes a result.
SettleThrow(p) ==
    /\ At(p, "throw")
    /\ EmitThen(p, <<"error", "needs-attention">>, "release", "release")
    /\ UNCHANGED <<vars, disk, recovery, def, mem, last>>

\* finishAction, with the status settleDone or settleFsmFailure has given it.
FinishAction(p) ==
    /\ \E status \in FsmStatuses :
         /\ At(p, status)
         /\ EmitThen(p, <<IF status = "done" THEN "passed" ELSE status>>, "release", "throw")
    /\ UNCHANGED <<vars, disk, recovery, def, mem, last>>

\* The finally block; removing the directory takes two steps of DispatchLock.
ReleaseLock(p) ==
    /\ At(p, "release")
    /\ \/ /\ Release(p) \/ Unlink(p) \/ Rmdir(p)
          /\ UNCHANGED <<act, mem, last>>
       \/ /\ pc[p] = "released"
          /\ Goto(p, "ended")
          /\ mem' = [mem EXCEPT ![p] = NoFile] /\ last' = [last EXCEPT ![p] = NoFile]
          /\ UNCHANGED vars
    /\ UNCHANGED <<disk, recovery, def, out>>

-----------------------------------------------------------------------------
(* run-pipeline-execution.ts, run-pipeline-identity.ts *)

LoadState(p) ==
    /\ At(p, "load")
    /\ mem' = [mem EXCEPT ![p] = disk] /\ last' = [last EXCEPT ![p] = disk]
    /\ Goto(p, "compile")
    /\ UNCHANGED <<vars, disk, recovery, def, out>>

\* The pipelines as they are now; the one that is asked for may not be there, or
\* not be valid, and the model be unresolved.
SelectAndCompile(p) ==
    /\ At(p, "compile")
    /\ \/ \E files \in Catalogs :
            LET d == SelectAndCompileRunDef(files) IN
            /\ d # NoDef
            /\ def' = [def EXCEPT ![p] = d]
            /\ Goto(p, "resolve")
       \/ UNCHANGED def /\ Goto(p, "throw")
    /\ UNCHANGED <<vars, disk, recovery, mem, out, last>>

LastArchived(st) == st.archive[Len(st.archive)]

\* correctionInProgress: this recovery was applied by a run that did not finish.
CorrectionInProgress(p, st) ==
    /\ st.archive # <<>> /\ LastArchived(st).expected = recovery[p]
    /\ st.status \in {"pending", "running", "failed", "needs-attention"}
    /\ st.checkpoint = NoSeal /\ st.receipt = NoSeal

\* isTimeoutOnlyRecoveryRetry
IsTimeoutOnlyRecoveryRetry(p, st) ==
    /\ recovery[p] # NoRecovery
    /\ st.identity # NoDef
    /\ CorrectionInProgress(p, st)
    /\ EqualExceptTimeouts(st.identity, def[p])

\* assertResumeIdentity
MayRunUnder(p, st) == st.def = def[p] \/ IsTimeoutOnlyRecoveryRetry(p, st)

WithActiveRunDefIdentityOnly(st, d) == [st EXCEPT !.def = d, !.identity = d]

\* withActiveRunDefIdentity: archived receipts that do not name their RunDef yet
\* are given the one the file still names, when they were made under it.
WithActiveRunDefIdentity(st, d) ==
    [st EXCEPT
        !.def = d, !.identity = d,
        !.archive = [i \in DOMAIN st.archive |->
            IF /\ st.identity # NoDef /\ st.archive[i].identity = NoDef
               /\ st.archive[i].receipt.def = st.identity
            THEN [st.archive[i] EXCEPT !.identity = st.identity]
            ELSE st.archive[i]]]

ReconcileState(st) == IF st.status = "running" THEN [st EXCEPT !.status = "pending"] ELSE st

\* resolveRecoveryState saves nothing; the throws are those of a missing file, of
\* another RunDef, and of a done state that would have to be repaired first.
ResolveRecoveryState(p) ==
    /\ At(p, "resolve") /\ recovery[p] # NoRecovery
    /\ \/ /\ mem[p] # NoFile /\ MayRunUnder(p, mem[p])
          /\ mem' = [mem EXCEPT ![p] = WithActiveRunDefIdentity(mem[p], def[p])]
          /\ Goto(p, "correct")
          /\ UNCHANGED <<disk, last>>
       \/ /\ mem[p] = NoFile \/ ~MayRunUnder(p, mem[p]) \/ mem[p].status = "done"
          /\ Throw(p)
    /\ UNCHANGED <<vars, recovery, def, out>>

\* resolveInitialState
ResolveInitialState(p) ==
    /\ At(p, "resolve") /\ recovery[p] = NoRecovery
    /\ mem[p] = NoFile
    /\ Save(p, InitialFile(def[p]), "stages")
    /\ UNCHANGED <<vars, recovery, def, out>>

\* resolveReconciledResumeState
ResolveReconciledResumeState(p) ==
    /\ At(p, "resolve") /\ recovery[p] = NoRecovery
    /\ mem[p] # NoFile
    /\ IF MayRunUnder(p, mem[p])
       THEN IF ReconcileState(mem[p]) = mem[p]
            THEN Goto(p, "stages") /\ UNCHANGED <<disk, mem, last>>
            ELSE Save(p, ReconcileState(mem[p]), "stages")
       ELSE Throw(p)
    /\ UNCHANGED <<vars, recovery, def, out>>

-----------------------------------------------------------------------------
(* core/pipeline-runner.ts, reduced to what it saves *)

\* maybeApplyTerminalCorrection; what else it asks for is in PipelineRunner.
ApplyTerminalCorrection(p) ==
    /\ At(p, "correct")
    /\ IF CorrectionInProgress(p, mem[p])
       THEN Goto(p, "stages") /\ UNCHANGED <<disk, mem, last>>
       ELSE \/ Goto(p, "needs-attention") /\ UNCHANGED <<disk, mem, last>>
            \/ /\ mem[p].status = "done" /\ mem[p].receipt.run = recovery[p]
               /\ Save(p, [mem[p] EXCEPT
                             !.status = "running", !.checkpoint = NoSeal, !.receipt = NoSeal,
                             !.archive = Append(@, [expected |-> recovery[p],
                                                    identity |-> mem[p].identity,
                                                    receipt  |-> mem[p].receipt])],
                       "stages")
    /\ UNCHANGED <<vars, recovery, def, out>>

\* A stage is run, a review approved, or an approval dropped.
RunStage(p) ==
    /\ At(p, "stages")
    /\ \E approval \in {mem[p].checkpoint, NoSeal, [run |-> p, def |-> mem[p].def]} :
         Save(p, [mem[p] EXCEPT !.status = "running", !.checkpoint = approval, !.receipt = NoSeal],
              "stages")
    /\ UNCHANGED <<vars, recovery, def, out>>

FinishStagesUnsaved(p) ==
    /\ At(p, "stages")
    /\ \E status \in FsmStatuses : Goto(p, status)
    /\ UNCHANGED <<vars, disk, mem, last, recovery, def, out>>

FinishStages(p) ==
    /\ At(p, "stages")
    /\ \/ \E status \in FsmStatuses \ {"done"} :
            Save(p, [mem[p] EXCEPT !.status = status], status)
       \/ /\ mem[p].checkpoint # NoSeal
          /\ Save(p, [mem[p] EXCEPT !.status = "done", !.receipt = mem[p].checkpoint], "done")
    /\ UNCHANGED <<vars, recovery, def, out>>

\* A save or an executor fails in a way the runner does not settle.
StagesThrow(p) ==
    /\ At(p, "stages")
    /\ Throw(p)
    /\ UNCHANGED <<vars, recovery, def, out>>

-----------------------------------------------------------------------------
\* The process exits after its answer (cli.ts sets its exit code), or is killed or
\* turned away before it has tried; its memory is gone.
ProcessEnds(p) ==
    /\ Exit(p) \/ Crash(p)
    /\ act' = [act EXCEPT ![p] = "gone"]
    /\ recovery' = [recovery EXCEPT ![p] = NoRecovery]
    /\ def' = [def EXCEPT ![p] = NoDef]
    /\ mem' = [mem EXCEPT ![p] = NoFile]
    /\ out' = [out EXCEPT ![p] = <<>>]
    /\ last' = [last EXCEPT ![p] = NoFile]
    /\ UNCHANGED disk

RunPipelineAction(p) ==
    \/ ValidateActionRequest(p) \/ AcquireDispatchLock(p) \/ SettleLockHeld(p)
    \/ AcquisitionThrows(p) \/ StartRun(p) \/ LoadState(p) \/ SelectAndCompile(p)
    \/ ResolveRecoveryState(p) \/ ResolveInitialState(p) \/ ResolveReconciledResumeState(p)
    \/ ApplyTerminalCorrection(p) \/ RunStage(p) \/ FinishStages(p) \/ StagesThrow(p)
    \/ FinishAction(p) \/ SettleThrow(p) \/ ReleaseLock(p)

RunNext == \E p \in Procs : RunPipelineAction(p) \/ ProcessEnds(p)

RunSpec == RunInit /\ [][RunNext]_runVars

-----------------------------------------------------------------------------
(* Properties *)

\* A process that replaces the file has seen it as it is: no transition another
\* process has saved is lost, although loading and saving are far apart.
NoLostUpdate ==
    [][disk' # disk => \E p \in Procs : last'[p] = disk' /\ last[p] = disk]_runVars

\* However a run ends, and whatever was thrown on the way, its lock is gone when
\* the command line gets the answer.
EndedRunHoldsNothing ==
    \A p \in Procs : act[p] = "ended" => info # p /\ pc[p] \in {"released", "refused"}

ResultsOf(events) == {i \in DOMAIN events : events[i] \in ResultStatuses}

\* "A run emits exactly one result record." (CONTEXT.md:68) It is the last event,
\* and a sink that throws is not given a second one it accepts.
OneResult ==
    \A p \in Procs :
      /\ Cardinality(ResultsOf(out[p])) <= 1
      /\ ResultsOf(out[p]) \subseteq {Len(out[p])}
      /\ act[p] = "ended" => ResultsOf(out[p]) # {} \/ \E i \in DOMAIN out[p] : out[p][i] = "lost"

\* A run says "passed", and exits with 0, only while it holds the lock and the file
\* is done under the RunDef the run has compiled.
PassedIsDurable ==
    [][\A p \in Procs :
         Len(out'[p]) > Len(out[p]) /\ out'[p][Len(out'[p])] = "passed"
         => pc[p] = "held" /\ disk.status = "done" /\ disk.receipt.def = def[p]]_runVars

\* The state a run goes to work with is one the store accepts, and was saved under
\* the RunDef the run has compiled, whatever recoveries and timeout changes came
\* before; the file itself is never left in another state.
WorkingStateIsValid ==
    /\ disk # NoFile => IsValidFile(disk)
    /\ \A p \in Procs :
         act[p] \in {"correct", "stages"} /\ alive[p] => mem[p].def = def[p] /\ IsValidFile(mem[p])

Runner(stages) == INSTANCE StageEvaluation WITH StageDefs <- stages

\* Whatever is in the YAML files, a pipeline the run goes on with is one the stage
\* evaluation is made for: the checks of the raw RunDef, which know names, are the
\* assumptions of the compiled one, which knows positions.
CompiledFitsTheRunner ==
    \A p \in Procs :
      act[p] \in {"resolve", "correct", "stages"} =>
        Runner(CompileRunDef(def[p]))!CrossFieldInvariants

\* What a RunDef makes the runner do.
Pipeline(d) == [i \in DOMAIN d.stages |-> <<CompileRunDef(d)[i], d.stages[i].rest>>]

\* "Resume identity includes the RunDef digest, so code command/argv changes cannot
\* reuse prior state" (actions/CONTEXT.md): a file keeps its pipeline, and its timeouts
\* change only while no approval stands, in the recovery that has superseded one.
ShapeIsKept ==
    [][disk # NoFile /\ disk'.def # disk.def =>
         /\ Pipeline(disk'.def) = Pipeline(disk.def)
         /\ disk.checkpoint = NoSeal /\ disk.receipt = NoSeal
         /\ disk.archive # <<>>]_runVars
=============================================================================
