-------------------------- MODULE RunActionsProofs --------------------------
(***************************************************************************)
(* What holds of the dispatch lock and of the run action that uses it, for *)
(* every number of processes, every catalog of pipelines and every history *)
(* of the state file.  The first part is about the protocol of the lock    *)
(* alone, the module DispatchLock; the second shows that runs follow it.   *)
(***************************************************************************)
EXTENDS RunActions, SequenceTheorems, FiniteSetTheorems, TLAPS

-----------------------------------------------------------------------------
(* The dispatch lock *)

\* Types are kept by every step of every process.
LEMMA TypeOKStep == TypeOK /\ [Next]_vars => TypeOK'
<1> SUFFICES ASSUME TypeOK, [Next]_vars PROVE TypeOK'
  OBVIOUS
<1> USE DispatchLockAssumption DEF TypeOK, Points, Acquiring, Removing, Settled
<1>1. ASSUME NEW p \in Procs, Mkdir(p) PROVE TypeOK'
  BY <1>1 DEF Mkdir
<1>2. ASSUME NEW p \in Procs, WriteInfo(p) PROVE TypeOK'
  BY <1>2 DEF WriteInfo
<1>3. ASSUME NEW p \in Procs, WriteFails(p) PROVE TypeOK'
  BY <1>3 DEF WriteFails, Remove
<1>4. ASSUME NEW p \in Procs, ReadInfo(p) PROVE TypeOK'
  BY <1>4 DEF ReadInfo
<1>5. ASSUME NEW p \in Procs, CheckStale(p) PROVE TypeOK'
  BY <1>5 DEF CheckStale, Remove
<1>6. ASSUME NEW p \in Procs, Release(p) PROVE TypeOK'
  BY <1>6 DEF Release, Remove
<1>7. ASSUME NEW p \in Procs, Unlink(p) PROVE TypeOK'
  BY <1>7 DEF Unlink
<1>8. ASSUME NEW p \in Procs, Rmdir(p) PROVE TypeOK'
  BY <1>8 DEF Rmdir
<1>9. ASSUME NEW p \in Procs, Exit(p) \/ Crash(p) \/ Age(p) PROVE TypeOK'
  BY <1>9 DEF Exit, Crash, Age
<1>10. CASE UNCHANGED vars
  BY <1>10 DEF vars
<1> QED
  BY <1>1, <1>2, <1>3, <1>4, <1>5, <1>6, <1>7, <1>8, <1>9, <1>10 DEF Next, Acquire

\* Every variable has its type, and an info file is always in a directory.
THEOREM TypeCorrect == Spec => []TypeOK
<1>1. Init => TypeOK
  BY DispatchLockAssumption DEF Init, TypeOK, Points
<1> QED
  BY <1>1, TypeOKStep, PTL DEF Spec

-----------------------------------------------------------------------------
(* Whoever competes, a lock that is not stale is really held. *)

LEMMA FreshLockStep == TypeOK /\ FreshLockIsHeld /\ [Next]_vars => FreshLockIsHeld'
<1> SUFFICES ASSUME TypeOK, FreshLockIsHeld, [Next]_vars PROVE FreshLockIsHeld'
  OBVIOUS
<1> USE DispatchLockAssumption DEF TypeOK, FreshLockIsHeld, IsStale
<1>1. ASSUME NEW p \in Procs, Mkdir(p) PROVE FreshLockIsHeld'
  BY <1>1 DEF Mkdir
<1>2. ASSUME NEW p \in Procs, WriteInfo(p) PROVE FreshLockIsHeld'
  BY <1>2 DEF WriteInfo
<1>3. ASSUME NEW p \in Procs, WriteFails(p) PROVE FreshLockIsHeld'
  BY <1>3 DEF WriteFails, Remove
<1>4. ASSUME NEW p \in Procs, ReadInfo(p) PROVE FreshLockIsHeld'
  BY <1>4 DEF ReadInfo
<1>5. ASSUME NEW p \in Procs, CheckStale(p) PROVE FreshLockIsHeld'
  BY <1>5 DEF CheckStale, Remove
<1>6. ASSUME NEW p \in Procs, Release(p) PROVE FreshLockIsHeld'
  BY <1>6 DEF Release, Remove
<1>7. ASSUME NEW p \in Procs, Unlink(p) PROVE FreshLockIsHeld'
  BY <1>7 DEF Unlink
<1>8. ASSUME NEW p \in Procs, Rmdir(p) PROVE FreshLockIsHeld'
  BY <1>8 DEF Rmdir
<1>9. ASSUME NEW p \in Procs, Exit(p) \/ Crash(p) \/ Age(p) PROVE FreshLockIsHeld'
  BY <1>9 DEF Exit, Crash, Age, Settled
<1>10. CASE UNCHANGED vars
  BY <1>10 DEF vars
<1> QED
  BY <1>1, <1>2, <1>3, <1>4, <1>5, <1>6, <1>7, <1>8, <1>9, <1>10 DEF Next, Acquire

\* With any number of processes, overlapping and aging as they like, nothing an
\* ended dispatch left behind ever blocks the next one.
THEOREM FreshLocksAreHeld == Spec => []FreshLockIsHeld
<1>1. Init => FreshLockIsHeld
  BY DispatchLockAssumption DEF Init, FreshLockIsHeld
<1> QED
  BY <1>1, FreshLockStep, TypeCorrect, PTL DEF Spec

-----------------------------------------------------------------------------
(* Exclusion, when processes come one at a time and no dispatch outlives   *)
(* staleMs.  A holder that has begun to release still owns the file.       *)

Owns(p) == pc[p] = "held" \/ (pc[p] = "unlink" /\ then[p] = "released")

SerialInv ==
    /\ \A p \in Procs : pc[p] \notin Settled => alive[p]
    /\ \A p \in Procs : ~old[p]
    /\ \A p \in Procs : Owns(p) => dir /\ info = p
    /\ \A p, q \in Procs : Busy(p) /\ Busy(q) => p = q
    /\ \A p, q \in Procs : pc[p] = "check" /\ Owns(q) => saw[p] = q
    /\ \A p, q \in Procs : Busy(p) /\ Owns(q) => pc[p] \in {"read", "check"}

LEMMA SerialStep ==
    ASSUME ~Overlap, ~MayAge
    PROVE  TypeOK /\ SerialInv /\ [Next]_vars => SerialInv'
<1> SUFFICES ASSUME TypeOK, SerialInv, [Next]_vars PROVE SerialInv'
  OBVIOUS
<1> USE DispatchLockAssumption
    DEF TypeOK, SerialInv, Owns, Busy, Acquiring, Removing, Settled, Points
<1>1. ASSUME NEW p \in Procs, Mkdir(p) PROVE SerialInv'
  BY <1>1 DEF Mkdir
<1>2. ASSUME NEW p \in Procs, WriteInfo(p) PROVE SerialInv'
  BY <1>2 DEF WriteInfo
<1>3. ASSUME NEW p \in Procs, WriteFails(p) PROVE SerialInv'
  BY <1>3 DEF WriteFails, Remove
<1>4. ASSUME NEW p \in Procs, ReadInfo(p) PROVE SerialInv'
  BY <1>4 DEF ReadInfo
<1>5. ASSUME NEW p \in Procs, CheckStale(p) PROVE SerialInv'
  BY <1>5 DEF CheckStale, Remove, IsStale
<1>6. ASSUME NEW p \in Procs, Release(p) PROVE SerialInv'
  BY <1>6 DEF Release, Remove
<1>7. ASSUME NEW p \in Procs, Unlink(p) PROVE SerialInv'
  BY <1>7 DEF Unlink
<1>8. ASSUME NEW p \in Procs, Rmdir(p) PROVE SerialInv'
  BY <1>8 DEF Rmdir
<1>9. ASSUME NEW p \in Procs, Exit(p) PROVE SerialInv'
  BY <1>9 DEF Exit
<1>10. ASSUME NEW p \in Procs, Crash(p) PROVE SerialInv'
  BY <1>10 DEF Crash
<1>11. ASSUME NEW p \in Procs, Age(p) PROVE SerialInv'
  BY <1>11 DEF Age
<1>12. CASE UNCHANGED vars
  BY <1>12 DEF vars
<1> QED
  BY <1>1, <1>2, <1>3, <1>4, <1>5, <1>6, <1>7, <1>8, <1>9, <1>10, <1>11, <1>12 DEF Next, Acquire

\* When processes come one at a time, the lock of a holder is there, names it, and
\* nobody gets past reading it, whichever of the processes are killed and wherever.
THEOREM SerialInvariant ==
    ASSUME ~Overlap, ~MayAge
    PROVE  Spec => []SerialInv
<1>1. Init => SerialInv
  BY DispatchLockAssumption DEF Init, SerialInv, Owns, Busy, Acquiring, Removing, Settled
<1>2. TypeOK /\ SerialInv /\ [Next]_vars => SerialInv'
  BY SerialStep
<1> QED
  BY <1>1, <1>2, TypeCorrect, PTL DEF Spec

\* When processes start one at a time and no holder outlives staleMs, a story is
\* never dispatched twice, whichever of the processes are killed and wherever.
THEOREM SerialExclusion ==
    ASSUME ~Overlap, ~MayAge
    PROVE  Spec => []MutualExclusion
<1>1. SerialInv => MutualExclusion
  BY DEF SerialInv, MutualExclusion, Owns
<1> QED
  BY <1>1, SerialInvariant, PTL

-----------------------------------------------------------------------------
(* Whoever competes, only a process that had the lock is ever named by the *)
(* file, or read from it: the name goes with the holder's own removal, or  *)
(* with that of somebody who reclaims it.                                  *)

Releasing(p) == pc[p] \in Removing /\ then[p] = "released"
HadLock(p)   == pc[p] \in {"held", "released", "dead"} \/ Releasing(p)

HolderInv ==
    /\ \A p \in Procs : pc[p] = "dead" => ~alive[p]
    /\ info \in Procs => Owns(info) \/ pc[info] = "dead"
    /\ \A p \in Procs : saw[p] \in Procs => saw[p] # p /\ HadLock(saw[p])

LEMMA HolderStep == TypeOK /\ HolderInv /\ [Next]_vars => HolderInv'
<1> SUFFICES ASSUME TypeOK, HolderInv, [Next]_vars PROVE HolderInv'
  OBVIOUS
<1> USE DispatchLockAssumption
    DEF TypeOK, HolderInv, Owns, HadLock, Releasing, Acquiring, Removing, Settled, Points
<1>1. ASSUME NEW p \in Procs, Mkdir(p) PROVE HolderInv'
  BY <1>1 DEF Mkdir
<1>2. ASSUME NEW p \in Procs, WriteInfo(p) PROVE HolderInv'
  BY <1>2 DEF WriteInfo
<1>3. ASSUME NEW p \in Procs, WriteFails(p) PROVE HolderInv'
  BY <1>3 DEF WriteFails, Remove
<1>4. ASSUME NEW p \in Procs, ReadInfo(p) PROVE HolderInv'
  BY <1>4 DEF ReadInfo
<1>5. ASSUME NEW p \in Procs, CheckStale(p) PROVE HolderInv'
  BY <1>5 DEF CheckStale, Remove
<1>6. ASSUME NEW p \in Procs, Release(p) PROVE HolderInv'
  BY <1>6 DEF Release, Remove
<1>7. ASSUME NEW p \in Procs, Unlink(p) PROVE HolderInv'
  BY <1>7 DEF Unlink
<1>8. ASSUME NEW p \in Procs, Rmdir(p) PROVE HolderInv'
  BY <1>8 DEF Rmdir
<1>9. ASSUME NEW p \in Procs, Exit(p) \/ Crash(p) \/ Age(p) PROVE HolderInv'
  BY <1>9 DEF Exit, Crash, Age
<1>10. CASE UNCHANGED vars
  BY <1>10 DEF vars
<1> QED
  BY <1>1, <1>2, <1>3, <1>4, <1>5, <1>6, <1>7, <1>8, <1>9, <1>10 DEF Next, Acquire

\* With any number of processes, overlapping and aging as they like, the process the
\* info file names holds the lock, is giving it back, or was killed.
THEOREM HoldersAreNamed == Spec => []HolderInv
<1>1. Init => HolderInv
  BY DispatchLockAssumption DEF Init, HolderInv
<1> QED
  BY <1>1, HolderStep, TypeCorrect, PTL DEF Spec

-----------------------------------------------------------------------------
(* One process at a time finds nothing in its way once it has reclaimed.   *)

TurnInv ==
    /\ \A p, q \in Procs : Busy(p) /\ Busy(q) => p = q
    /\ \A p \in Procs : pc[p] = "rmdir" /\ Busy(p) => info = NoInfo
    /\ \A p \in Procs : pc[p] = "second" => ~dir

LEMMA TurnStep ==
    ASSUME ~Overlap
    PROVE  TypeOK /\ TurnInv /\ [Next]_vars => TurnInv'
<1> SUFFICES ASSUME TypeOK, TurnInv, [Next]_vars PROVE TurnInv'
  OBVIOUS
<1> USE DispatchLockAssumption
    DEF TypeOK, TurnInv, Busy, Acquiring, Removing, Settled, Points
<1>1. ASSUME NEW p \in Procs, Mkdir(p) PROVE TurnInv'
  BY <1>1 DEF Mkdir
<1>2. ASSUME NEW p \in Procs, WriteInfo(p) PROVE TurnInv'
  BY <1>2 DEF WriteInfo
<1>3. ASSUME NEW p \in Procs, WriteFails(p) PROVE TurnInv'
  BY <1>3 DEF WriteFails, Remove
<1>4. ASSUME NEW p \in Procs, ReadInfo(p) PROVE TurnInv'
  BY <1>4 DEF ReadInfo
<1>5. ASSUME NEW p \in Procs, CheckStale(p) PROVE TurnInv'
  BY <1>5 DEF CheckStale, Remove
<1>6. ASSUME NEW p \in Procs, Release(p) PROVE TurnInv'
  BY <1>6 DEF Release, Remove
<1>7. ASSUME NEW p \in Procs, Unlink(p) PROVE TurnInv'
  BY <1>7 DEF Unlink
<1>8. ASSUME NEW p \in Procs, Rmdir(p) PROVE TurnInv'
  BY <1>8 DEF Rmdir
<1>9. ASSUME NEW p \in Procs, Exit(p) \/ Crash(p) \/ Age(p) PROVE TurnInv'
  BY <1>9 DEF Exit, Crash, Age
<1>10. CASE UNCHANGED vars
  BY <1>10 DEF vars
<1> QED
  BY <1>1, <1>2, <1>3, <1>4, <1>5, <1>6, <1>7, <1>8, <1>9, <1>10 DEF Next, Acquire

\* Only a step that finds a live holder, or an obstacle in its second try, refuses.
Justified ==
    \A p \in Procs :
       pc[p] # "refused" /\ pc'[p] = "refused" =>
         \E q \in Procs \ {p} : alive[q] /\ pc[q] \in {"held", "unlink", "rmdir", "released"}

LEMMA JustifiedStep == TypeOK /\ HolderInv /\ TurnInv /\ [Next]_vars => Justified
<1> SUFFICES ASSUME TypeOK, HolderInv, TurnInv, [Next]_vars PROVE Justified
  OBVIOUS
<1> USE DEF TypeOK, Justified
<1>1. ASSUME NEW p \in Procs, CheckStale(p) PROVE Justified
  <2>1. CASE IsStale(saw[p])
    BY <1>1, <2>1 DEF CheckStale, Remove
  <2>2. CASE ~IsStale(saw[p])
    <3>1. saw[p] \in Procs /\ saw[p] # p /\ alive[saw[p]] /\ HadLock(saw[p])
      BY <2>2 DEF IsStale, HolderInv
    <3>2. pc[saw[p]] \in {"held", "unlink", "rmdir", "released"}
      BY <3>1 DEF HolderInv, HadLock, Releasing, Removing
    <3>3. \A q \in Procs \ {p} : pc'[q] = pc[q]
      BY <1>1, <2>2 DEF CheckStale
    <3> QED
      BY <3>1, <3>2, <3>3
  <2> QED
    BY <2>1, <2>2
<1>2. ASSUME NEW p \in Procs, Mkdir(p) PROVE Justified
  BY <1>2 DEF Mkdir, TurnInv
<1>3. ASSUME NEW p \in Procs, WriteInfo(p) \/ WriteFails(p) \/ ReadInfo(p) PROVE Justified
  BY <1>3 DEF WriteInfo, WriteFails, ReadInfo, Remove
<1>4. ASSUME NEW p \in Procs, Unlink(p) \/ Release(p) PROVE Justified
  BY <1>4 DEF Unlink, Release, Remove
<1>5. ASSUME NEW p \in Procs, Rmdir(p) PROVE Justified
  BY <1>5 DEF Rmdir
<1>6. ASSUME NEW p \in Procs, Exit(p) \/ Crash(p) \/ Age(p) PROVE Justified
  BY <1>6 DEF Exit, Crash, Age
<1>7. CASE UNCHANGED vars
  BY <1>7 DEF vars
<1> QED
  BY <1>1, <1>2, <1>3, <1>4, <1>5, <1>6, <1>7 DEF Next, Acquire

\* When processes start one at a time, a dispatch is turned away only while another
\* process is alive that had the lock, even if a holder outlives staleMs.
THEOREM RefusalsAreJustified ==
    ASSUME ~Overlap
    PROVE  Spec => RefusalIsJustified
<1>1. Init => TurnInv
  BY DispatchLockAssumption DEF Init, TurnInv, Busy, Acquiring, Removing
<1>2. TypeOK /\ TurnInv /\ [Next]_vars => TurnInv'
  BY TurnStep
<1>3. TypeOK /\ HolderInv /\ TurnInv /\ [Next]_vars => Justified
  BY JustifiedStep
<1>4. Spec => [][Justified]_vars
  BY <1>1, <1>2, <1>3, TypeCorrect, HoldersAreNamed, PTL DEF Spec
<1> QED
  BY <1>4 DEF RefusalIsJustified, Justified

-----------------------------------------------------------------------------
(* The runs that use it *)

Defs  == RunDefs \cup {NoDef}
Seals == [run: Runs \cup {NoRecovery}, def: Defs]
ArchiveRecords == [expected: Runs \cup {NoRecovery}, identity: Defs, receipt: Seals]

StateFileType ==
    [status: PipelineStatuses \cup {"absent"}, def: Defs, identity: Defs,
     checkpoint: Seals, receipt: Seals, archive: Seq(ArchiveRecords)]

Events == {"run.started", "error", "lost"} \cup ResultStatuses

RunTypeOK ==
    /\ disk \in StateFileType
    /\ act \in [Procs -> ActionPoints]
    /\ recovery \in [Procs -> Runs \cup {NoRecovery}]
    /\ def \in [Procs -> Defs]
    /\ mem \in [Procs -> StateFileType]
    /\ out \in [Procs -> Seq(Events)]
    /\ last \in [Procs -> StateFileType]

\* The points at which a process has the lock and may save.
Working == {"load", "compile", "resolve", "correct", "stages", "done", "failed",
            "needs-attention", "throw"}

\* Where the action is says where its process is in the protocol of the lock.
PointOf(p) ==
    /\ alive[p] <=> act[p] # "gone"
    /\ pc[p] = "dead" => act[p] = "gone"
    /\ act[p] = "idle" => pc[p] = "first"
    /\ act[p] = "lock" => pc[p] # "released" /\ ~Releasing(p)
    /\ act[p] \in Working => pc[p] = "held"
    /\ act[p] = "release" => pc[p] \in {"held", "released"} \/ Releasing(p)
    /\ act[p] = "ended" => pc[p] \in {"released", "refused"}
    /\ act[p] = "rejected" => pc[p] \in {"first", "refused", "failed"}
    /\ act[p] \in {"resolve", "correct", "stages"} => def[p] \in RunDefs

PointInv == \A p \in Procs : PointOf(p)

\* A result is the last event, and it is there, or lost, once it is given.
HasLost(events) == \E i \in DOMAIN events : events[i] = "lost"

ResultOf(p) ==
    /\ act[p] \notin {"release", "ended"} => ResultsOf(out[p]) = {}
    /\ act[p] \in {"release", "ended"} =>
         \/ ResultsOf(out[p]) = {Len(out[p])}
         \/ ResultsOf(out[p]) = {} /\ HasLost(out[p])

ResultInv == \A p \in Procs : ResultOf(p)

\* What the store accepts, and what a run works on.
ValidOf(p) ==
    /\ IsValidFile(mem[p])
    /\ act[p] \in {"correct", "stages"} => mem[p].def = def[p]

ValidInv == IsValidFile(disk) /\ \A p \in Procs : ValidOf(p)

\* While a process works nobody else replaces the file.
LastOf(p) ==
    /\ act[p] \in {"compile", "resolve", "correct", "stages", "done", "failed", "needs-attention"}
         => last[p] = disk
    /\ act[p] \in {"compile", "resolve"} => mem[p] = disk
    /\ act[p] \in {"correct", "stages"} /\ disk # NoFile =>
         \/ mem[p].def = disk.def
         \/ /\ EqualExceptTimeouts(disk.def, mem[p].def)
            /\ disk.checkpoint = NoSeal /\ disk.receipt = NoSeal /\ disk.archive # <<>>
    /\ act[p] = "done" => disk.status = "done" /\ disk.receipt.def = def[p]

LastInv == \A p \in Procs : LastOf(p)

-----------------------------------------------------------------------------
(* The lock *)

\* Whatever a run does with its state file, it uses the lock by its protocol.
LEMMA LockStep == [RunNext]_runVars => [Next]_vars
<1> SUFFICES ASSUME RunNext PROVE [Next]_vars
  BY DEF runVars
<1> PICK p \in Procs : RunPipelineAction(p) \/ ProcessEnds(p)
  BY DEF RunNext
<1>1. CASE AcquireDispatchLock(p)
  BY <1>1 DEF AcquireDispatchLock, Next
<1>2. CASE ReleaseLock(p)
  <2>1. CASE Release(p) \/ Unlink(p) \/ Rmdir(p)
    BY <2>1 DEF Next, Acquire
  <2>2. CASE UNCHANGED vars
    BY <2>2
  <2> QED
    BY <1>2, <2>1, <2>2 DEF ReleaseLock
<1>3. CASE ProcessEnds(p)
  BY <1>3 DEF ProcessEnds, Next
<1>4. CASE ValidateActionRequest(p) \/ SettleLockHeld(p) \/ AcquisitionThrows(p) \/ StartRun(p)
  BY <1>4 DEF ValidateActionRequest, SettleLockHeld, AcquisitionThrows, StartRun
<1>5. CASE LoadState(p) \/ SelectAndCompile(p) \/ FinishAction(p) \/ SettleThrow(p)
  BY <1>5 DEF LoadState, SelectAndCompile, FinishAction, SettleThrow
<1>6. CASE ResolveRecoveryState(p) \/ ResolveInitialState(p) \/ ResolveReconciledResumeState(p)
  BY <1>6 DEF ResolveRecoveryState, ResolveInitialState, ResolveReconciledResumeState
<1>7. CASE ApplyTerminalCorrection(p) \/ RunStage(p) \/ FinishStages(p) \/ StagesThrow(p)
  BY <1>7 DEF ApplyTerminalCorrection, RunStage, FinishStages, StagesThrow
<1> QED
  BY <1>1, <1>2, <1>3, <1>4, <1>5, <1>6, <1>7 DEF RunPipelineAction

\* The run action implements the protocol of the lock, so that what is proved of the
\* lock holds of the runs.
THEOREM RunsUseTheLock == RunSpec => Spec
<1>1. RunInit => Init
  BY DEF RunInit
<1> QED
  BY <1>1, LockStep, PTL DEF RunSpec, Spec

-----------------------------------------------------------------------------
(* Types *)

\* A RunDef that has been compiled is one the validation has accepted.
LEMMA CompiledIsValid ==
    ASSUME NEW d \in RunDefs
    PROVE  d \in RawRunDefType /\ IsRunDef(d)
<1> PICK files \in Catalogs : d = SelectAndCompileRunDef(files) /\ d # NoDef
  BY DEF RunDefs
<1>1. d = SelectRunDef(files) /\ d # NoDef
  BY DEF SelectAndCompileRunDef
<1>2. PICK f \in files : f.listed /\ d = f.def /\ CanDiscover(files)
  BY <1>1 DEF SelectRunDef
<1>3. f \in FileType
  BY RunActionsAssumption
<1> QED
  BY <1>2, <1>3 DEF CanDiscover, FileType

LEMMA EarlierFileTypes == {NoFile} \cup EarlierFiles \subseteq StateFileType
<1>1. NoFile \in StateFileType
  BY DEF NoFile, StateFileType, Defs, Seals, NoSeal
<1>2. \A d \in RunDefs : [run |-> Earlier, def |-> d] \in Seals
  BY DEF Runs, Defs, Seals
<1>3. \A d \in RunDefs :
        [expected |-> Earlier, identity |-> NoDef, receipt |-> [run |-> Earlier, def |-> d]]
          \in ArchiveRecords
  BY <1>2 DEF ArchiveRecords, Runs, Defs
<1>4. \A d \in RunDefs : InitialFile(d) \in StateFileType
  BY <1>1 DEF InitialFile, StateFileType, PipelineStatuses, Defs
<1>5. ASSUME NEW st \in StateFileType, NEW seal \in Seals
      PROVE  [st EXCEPT !.status = "done", !.checkpoint = seal, !.receipt = seal]
               \in StateFileType
  BY DEF StateFileType, PipelineStatuses, FsmStatuses
<1>6. ASSUME NEW st \in StateFileType, NEW archive \in Seq(ArchiveRecords)
      PROVE  [st EXCEPT !.status = "needs-attention", !.archive = archive] \in StateFileType
  BY DEF StateFileType, PipelineStatuses, FsmStatuses
<1>7. \A rec \in ArchiveRecords : <<rec>> \in Seq(ArchiveRecords)
  OBVIOUS
<1> SUFFICES ASSUME NEW st \in EarlierFiles PROVE st \in StateFileType
  BY <1>1
<1>8. CASE \E d \in RunDefs :
             st = [InitialFile(d) EXCEPT !.status = "done",
                                         !.checkpoint = [run |-> Earlier, def |-> d],
                                         !.receipt = [run |-> Earlier, def |-> d]]
  BY <1>2, <1>4, <1>5, <1>8
<1>9. CASE \E d \in RunDefs :
             st = [InitialFile(d) EXCEPT
                     !.status = "needs-attention",
                     !.archive = <<[expected |-> Earlier, identity |-> NoDef,
                                    receipt |-> [run |-> Earlier, def |-> d]]>>]
  <2> PICK d \in RunDefs :
             st = [InitialFile(d) EXCEPT
                     !.status = "needs-attention",
                     !.archive = <<[expected |-> Earlier, identity |-> NoDef,
                                    receipt |-> [run |-> Earlier, def |-> d]]>>]
    BY <1>9
  <2> DEFINE rec == [expected |-> Earlier, identity |-> NoDef,
                     receipt |-> [run |-> Earlier, def |-> d]]
  <2>1. <<rec>> \in Seq(ArchiveRecords)
    BY <1>3, <1>7
  <2> HIDE DEF rec
  <2> QED
    BY <2>1, <1>4, <1>6 DEF rec
<1> QED
  BY <1>8, <1>9, ZenonT(20) DEF EarlierFiles

LEMMA EmitTypes ==
    ASSUME RunTypeOK, NEW p \in Procs, NEW events \in Seq(Events), NEW point \in ActionPoints,
           NEW caught \in ActionPoints, EmitThen(p, events, point, caught)
    PROVE  out' \in [Procs -> Seq(Events)] /\ act' \in [Procs -> ActionPoints]
<1>1. out[p] \o events \in Seq(Events)
  BY DEF RunTypeOK
<1>2. \A n \in 0..(Len(events) - 1) :
        out[p] \o SubSeq(events, 1, n) \o <<"lost">> \in Seq(Events)
  <2> TAKE n \in 0..(Len(events) - 1)
  <2>1. SubSeq(events, 1, n) \in Seq(Events)
    OBVIOUS
  <2>2. out[p] \in Seq(Events) /\ <<"lost">> \in Seq(Events)
    BY DEF RunTypeOK, Events
  <2> QED
    BY <2>1, <2>2
<1> QED
  BY <1>1, <1>2 DEF EmitThen, Goto, RunTypeOK

LEMMA SaveTypes ==
    ASSUME RunTypeOK, NEW p \in Procs, NEW st \in StateFileType, NEW point \in ActionPoints,
           Save(p, st, point)
    PROVE  /\ disk' \in StateFileType
           /\ mem' \in [Procs -> StateFileType] /\ last' \in [Procs -> StateFileType]
           /\ act' \in [Procs -> ActionPoints]
  BY DEF Save, Throw, Goto, RunTypeOK, ActionPoints

LEMMA IdentityTypes ==
    ASSUME NEW st \in StateFileType, NEW d \in Defs
    PROVE  /\ WithActiveRunDefIdentity(st, d) \in StateFileType
           /\ LET w == WithActiveRunDefIdentity(st, d) IN
              /\ w.status = st.status /\ w.def = d /\ w.identity = d
              /\ w.checkpoint = st.checkpoint /\ w.receipt = st.receipt
              /\ DOMAIN w.archive = DOMAIN st.archive
              /\ \A i \in DOMAIN st.archive :
                   w.archive[i] =
                     IF /\ st.identity # NoDef /\ st.archive[i].identity = NoDef
                        /\ st.archive[i].receipt.def = st.identity
                     THEN [st.archive[i] EXCEPT !.identity = st.identity]
                     ELSE st.archive[i]
<1> DEFINE Record(i) == IF /\ st.identity # NoDef /\ st.archive[i].identity = NoDef
                           /\ st.archive[i].receipt.def = st.identity
                        THEN [st.archive[i] EXCEPT !.identity = st.identity]
                        ELSE st.archive[i]
           archive == [i \in DOMAIN st.archive |-> Record(i)]
<1>1. st.archive \in Seq(ArchiveRecords) /\ DOMAIN st.archive = 1..Len(st.archive)
  BY DEF StateFileType
<1>2. \A i \in DOMAIN st.archive : Record(i) \in ArchiveRecords
  <2> TAKE i \in DOMAIN st.archive
  <2>1. st.archive[i] \in ArchiveRecords /\ st.identity \in Defs
    BY <1>1 DEF StateFileType
  <2>2. \A rec \in ArchiveRecords, e \in Defs : [rec EXCEPT !.identity = e] \in ArchiveRecords
    BY DEF ArchiveRecords
  <2> QED
    BY <2>1, <2>2
<1>3. archive \in Seq(ArchiveRecords)
  <2> HIDE DEF Record
  <2> QED
    BY <1>1, <1>2
<1>4. WithActiveRunDefIdentity(st, d) = [st EXCEPT !.def = d, !.identity = d, !.archive = archive]
  BY DEF WithActiveRunDefIdentity
<1> HIDE DEF archive
<1>5. WithActiveRunDefIdentity(st, d) \in StateFileType
  BY <1>3, <1>4 DEF StateFileType
<1>6. LET w == WithActiveRunDefIdentity(st, d) IN
        /\ w.status = st.status /\ w.def = d /\ w.identity = d
        /\ w.checkpoint = st.checkpoint /\ w.receipt = st.receipt
        /\ w.archive = archive
  BY <1>4 DEF StateFileType
<1> QED
  BY <1>5, <1>6 DEF archive

\* Every state a run hands to the store.
LEMMA UpdateTypes ==
    ASSUME NEW st \in StateFileType, NEW status \in PipelineStatuses, NEW seal \in Seals,
           NEW rec \in ArchiveRecords
    PROVE  /\ [st EXCEPT !.status = status] \in StateFileType
           /\ [st EXCEPT !.status = status, !.receipt = seal] \in StateFileType
           /\ [st EXCEPT !.status = status, !.checkpoint = seal, !.receipt = NoSeal]
                \in StateFileType
           /\ [st EXCEPT !.status = status, !.checkpoint = NoSeal, !.receipt = NoSeal,
                         !.archive = Append(@, rec)] \in StateFileType
<1>1. NoSeal \in Seals
  BY DEF NoSeal, Seals, Defs
<1>2. Append(st.archive, rec) \in Seq(ArchiveRecords)
  BY DEF StateFileType
<1> DEFINE archive == Append(st.archive, rec)
<1>3. [st EXCEPT !.status = status, !.checkpoint = NoSeal, !.receipt = NoSeal,
                 !.archive = archive] \in StateFileType
  <2>1. archive \in Seq(ArchiveRecords)
    BY <1>2
  <2> HIDE DEF archive
  <2> QED
    BY <1>1, <2>1 DEF StateFileType
<1> QED
  BY <1>1, <1>3 DEF StateFileType

LEMMA ResolveTypes ==
    ASSUME RunTypeOK, NEW p \in Procs,
           \/ ResolveRecoveryState(p)
           \/ ResolveInitialState(p)
           \/ ResolveReconciledResumeState(p)
    PROVE  RunTypeOK'
<1> USE DEF RunTypeOK
<1>1. CASE ResolveRecoveryState(p)
  <2>1. WithActiveRunDefIdentity(mem[p], def[p]) \in StateFileType
    BY IdentityTypes
  <2> QED
    BY <1>1, <2>1 DEF ResolveRecoveryState, Throw, Goto, ActionPoints
<1>2. CASE ResolveInitialState(p)
  <2>1. InitialFile(def[p]) \in StateFileType
    BY EarlierFileTypes DEF InitialFile, StateFileType, PipelineStatuses
  <2>2. Save(p, InitialFile(def[p]), "stages")
    BY <1>2 DEF ResolveInitialState
  <2> QED
    BY <1>2, <2>1, <2>2, SaveTypes DEF ResolveInitialState, ActionPoints
<1>3. CASE ResolveReconciledResumeState(p)
  <2>1. ReconcileState(mem[p]) \in StateFileType
    BY UpdateTypes DEF ReconcileState, StateFileType, PipelineStatuses
  <2>2. CASE Save(p, ReconcileState(mem[p]), "stages")
    BY <1>3, <2>1, <2>2, SaveTypes DEF ResolveReconciledResumeState, ActionPoints
  <2>3. CASE Throw(p) \/ (Goto(p, "stages") /\ UNCHANGED <<disk, mem, last>>)
    BY <1>3, <2>3 DEF ResolveReconciledResumeState, Throw, Goto, ActionPoints
  <2> QED
    BY <1>3, <2>2, <2>3 DEF ResolveReconciledResumeState
<1> QED
  BY <1>1, <1>2, <1>3

LEMMA StageTypes ==
    ASSUME RunTypeOK, NEW p \in Procs,
           ApplyTerminalCorrection(p) \/ RunStage(p) \/ FinishStages(p) \/ StagesThrow(p)
    PROVE  RunTypeOK'
<1> DEFINE st == mem[p]
<1>1. st \in StateFileType /\ st.checkpoint \in Seals /\ st.receipt \in Seals /\ st.identity \in Defs
  BY DEF RunTypeOK, StateFileType
<1>2. /\ recovery[p] \in Runs \cup {NoRecovery}
      /\ [run |-> p, def |-> st.def] \in Seals /\ NoSeal \in Seals
  BY <1>1 DEF RunTypeOK, StateFileType, Seals, NoSeal, Runs, Defs
<1>3. [expected |-> recovery[p], identity |-> st.identity, receipt |-> st.receipt]
        \in ArchiveRecords
  BY <1>1, <1>2 DEF ArchiveRecords
<1>4. CASE \E s \in StateFileType, point \in ActionPoints : Save(p, s, point)
  BY <1>4, SaveTypes
     DEF ApplyTerminalCorrection, RunStage, FinishStages, StagesThrow, RunTypeOK
<1>5. CASE \E point \in ActionPoints : Goto(p, point) /\ UNCHANGED <<disk, mem, last>>
  BY <1>5 DEF ApplyTerminalCorrection, RunStage, FinishStages, StagesThrow, RunTypeOK, Goto
<1>6. CASE ApplyTerminalCorrection(p)
  <2>1. CASE Save(p, [st EXCEPT !.status = "running", !.checkpoint = NoSeal, !.receipt = NoSeal,
                                !.archive = Append(@, [expected |-> recovery[p],
                                                       identity |-> st.identity,
                                                       receipt  |-> st.receipt])], "stages")
    BY <1>1, <1>3, <1>4, <2>1, UpdateTypes DEF PipelineStatuses, ActionPoints
  <2> QED
    BY <1>5, <1>6, <2>1 DEF ApplyTerminalCorrection, ActionPoints
<1>7. CASE RunStage(p)
  <2> PICK approval \in Seals :
        Save(p, [st EXCEPT !.status = "running", !.checkpoint = approval, !.receipt = NoSeal],
             "stages")
    BY <1>1, <1>2, <1>7 DEF RunStage
  <2> QED
    BY <1>1, <1>4, UpdateTypes, <1>3 DEF PipelineStatuses, ActionPoints
<1>8. CASE FinishStages(p)
  <2>1. CASE \E status \in FsmStatuses \ {"done"} : Save(p, [st EXCEPT !.status = status], status)
    BY <1>1, <1>2, <1>3, <1>4, <2>1, UpdateTypes DEF PipelineStatuses, FsmStatuses, ActionPoints
  <2>2. CASE Save(p, [st EXCEPT !.status = "done", !.receipt = st.checkpoint], "done")
    BY <1>1, <1>2, <1>3, <1>4, <2>2, UpdateTypes DEF PipelineStatuses, FsmStatuses, ActionPoints
  <2> QED
    BY <1>8, <2>1, <2>2 DEF FinishStages
<1>9. CASE StagesThrow(p)
  BY <1>5, <1>9 DEF StagesThrow, Throw, ActionPoints
<1> QED
  BY <1>6, <1>7, <1>8, <1>9

LEMMA RunTypeStep == RunTypeOK /\ [RunNext]_runVars => RunTypeOK'
<1> SUFFICES ASSUME RunTypeOK, [RunNext]_runVars PROVE RunTypeOK'
  OBVIOUS
<1>1. CASE UNCHANGED runVars
  BY <1>1 DEF runVars, actionVars, RunTypeOK
<1>2. ASSUME NEW p \in Procs, ProcessEnds(p) PROVE RunTypeOK'
  BY <1>2, EarlierFileTypes DEF ProcessEnds, RunTypeOK, ActionPoints, Defs
<1> SUFFICES ASSUME NEW p \in Procs, RunPipelineAction(p) PROVE RunTypeOK'
  BY <1>1, <1>2 DEF RunNext
<1>3. CASE ValidateActionRequest(p)
  BY <1>3 DEF ValidateActionRequest, Goto, ActionPoints, RunTypeOK
<1>4. CASE AcquireDispatchLock(p)
  BY <1>4 DEF AcquireDispatchLock, actionVars, RunTypeOK
<1>5. CASE SettleLockHeld(p) \/ SettleThrow(p)
  <2>1. <<"error", "needs-attention">> \in Seq(Events)
    BY DEF Events, ResultStatuses
  <2> QED
    BY <1>5, <2>1, EmitTypes DEF SettleLockHeld, SettleThrow, ActionPoints, RunTypeOK
<1>6. CASE AcquisitionThrows(p)
  BY <1>6 DEF AcquisitionThrows, Goto, ActionPoints, RunTypeOK
<1>7. CASE StartRun(p)
  <2>1. <<"run.started">> \in Seq(Events)
    BY DEF Events
  <2> QED
    BY <1>7, <2>1, EmitTypes DEF StartRun, ActionPoints, RunTypeOK
<1>8. CASE FinishAction(p)
  <2>1. \A status \in FsmStatuses :
          <<IF status = "done" THEN "passed" ELSE status>> \in Seq(Events)
    BY DEF Events, ResultStatuses, FsmStatuses
  <2> QED
    BY <1>8, <2>1, EmitTypes DEF FinishAction, ActionPoints, RunTypeOK
<1>9. CASE ReleaseLock(p)
  BY <1>9, EarlierFileTypes DEF ReleaseLock, Goto, ActionPoints, RunTypeOK
<1>10. CASE LoadState(p)
  BY <1>10 DEF LoadState, Goto, ActionPoints, RunTypeOK
<1>11. CASE SelectAndCompile(p)
  <2>1. \A files \in Catalogs :
          SelectAndCompileRunDef(files) # NoDef => SelectAndCompileRunDef(files) \in Defs
    BY DEF RunDefs, Defs
  <2> QED
    BY <1>11, <2>1 DEF SelectAndCompile, Goto, ActionPoints, RunTypeOK
<1> QED
  BY <1>3, <1>4, <1>5, <1>6, <1>7, <1>8, <1>9, <1>10, <1>11, ResolveTypes, StageTypes
     DEF RunPipelineAction

\* Every variable of the run action has its type.
THEOREM RunTypeCorrect == RunSpec => []RunTypeOK
<1>1. RunInit => RunTypeOK
  BY EarlierFileTypes DEF RunInit, RunTypeOK, ActionPoints, Defs
<1> QED
  BY <1>1, RunTypeStep, PTL DEF RunSpec

-----------------------------------------------------------------------------
(* A step of a process is its own *)

LEMMA LockOthers ==
    ASSUME TypeOK, NEW p \in Procs, Acquire(p) \/ Release(p) \/ Exit(p) \/ Crash(p),
           NEW q \in Procs, q # p
    PROVE  pc'[q] = pc[q] /\ then'[q] = then[q] /\ alive'[q] = alive[q]
<1> USE DEF TypeOK
<1>1. CASE Mkdir(p) \/ WriteInfo(p) \/ WriteFails(p) \/ ReadInfo(p)
  BY <1>1 DEF Mkdir, WriteInfo, WriteFails, ReadInfo, Remove
<1>2. CASE CheckStale(p) \/ Unlink(p) \/ Rmdir(p)
  BY <1>2 DEF CheckStale, Unlink, Rmdir, Remove
<1>3. CASE Release(p) \/ Exit(p) \/ Crash(p)
  BY <1>3 DEF Release, Exit, Crash, Remove
<1> QED
  BY <1>1, <1>2, <1>3 DEF Acquire

OwnStep(q) ==
    /\ pc'[q] = pc[q] /\ then'[q] = then[q] /\ alive'[q] = alive[q] /\ act'[q] = act[q]
    /\ recovery'[q] = recovery[q] /\ def'[q] = def[q] /\ mem'[q] = mem[q]
    /\ out'[q] = out[q] /\ last'[q] = last[q]

LEMMA OthersStay ==
    ASSUME TypeOK, RunTypeOK, NEW p \in Procs, RunPipelineAction(p) \/ ProcessEnds(p),
           NEW q \in Procs, q # p
    PROVE  OwnStep(q)
<1> USE DEF OwnStep, RunTypeOK, Goto, Throw, vars, actionVars
<1>1. CASE ProcessEnds(p)
  BY <1>1, LockOthers DEF ProcessEnds
<1>2. CASE AcquireDispatchLock(p)
  BY <1>2, LockOthers DEF AcquireDispatchLock
<1>3. CASE ReleaseLock(p)
  <2>1. CASE Release(p) \/ Unlink(p) \/ Rmdir(p)
    BY <1>3, <2>1, LockOthers DEF ReleaseLock, Acquire
  <2>2. CASE UNCHANGED vars
    BY <1>3, <2>2 DEF ReleaseLock
  <2> QED
    BY <1>3, <2>1, <2>2 DEF ReleaseLock
<1>4. CASE ValidateActionRequest(p) \/ AcquisitionThrows(p) \/ LoadState(p) \/ SelectAndCompile(p)
  BY <1>4 DEF ValidateActionRequest, AcquisitionThrows, LoadState, SelectAndCompile
<1>5. CASE SettleLockHeld(p) \/ StartRun(p) \/ FinishAction(p) \/ SettleThrow(p)
  BY <1>5 DEF SettleLockHeld, StartRun, FinishAction, SettleThrow, EmitThen
<1>6. CASE ResolveRecoveryState(p)
  BY <1>6 DEF ResolveRecoveryState
<1>7. CASE ResolveInitialState(p) \/ ResolveReconciledResumeState(p)
  BY <1>7 DEF ResolveInitialState, ResolveReconciledResumeState, Save
<1>8. CASE ApplyTerminalCorrection(p)
  <2>1. ASSUME NEW st, Save(p, st, "stages") PROVE act'[q] = act[q] /\ mem'[q] = mem[q] /\ last'[q] = last[q]
    BY <2>1 DEF Save
  <2> QED
    BY <1>8, <2>1 DEF ApplyTerminalCorrection
<1>9. CASE RunStage(p) \/ StagesThrow(p)
  <2>1. ASSUME NEW st, Save(p, st, "stages") PROVE act'[q] = act[q] /\ mem'[q] = mem[q] /\ last'[q] = last[q]
    BY <2>1 DEF Save
  <2> QED
    BY <1>9, <2>1 DEF RunStage, StagesThrow
<1>10. CASE FinishStages(p)
  <2>1. ASSUME NEW st, NEW point, Save(p, st, point)
        PROVE  act'[q] = act[q] /\ mem'[q] = mem[q] /\ last'[q] = last[q]
    BY <2>1 DEF Save
  <2> QED
    BY <1>10, <2>1 DEF FinishStages
<1> QED
  BY <1>1, <1>2, <1>3, <1>4, <1>5, <1>6, <1>7, <1>8, <1>9, <1>10 DEF RunPipelineAction

-----------------------------------------------------------------------------
(* Where a run is, and its lock *)

LEMMA PointOfStep ==
    ASSUME TypeOK, RunTypeOK, NEW p \in Procs, PointOf(p), RunPipelineAction(p) \/ ProcessEnds(p)
    PROVE  PointOf(p)'
<1> USE DEF TypeOK, RunTypeOK, PointOf, Working, Releasing, Removing, At, Goto, vars, actionVars
<1>1. CASE ProcessEnds(p)
  BY <1>1 DEF ProcessEnds, Exit, Crash, Settled
<1>2. CASE AcquireDispatchLock(p)
  <2> USE <1>2 DEF AcquireDispatchLock
  <2>1. CASE Mkdir(p) \/ WriteInfo(p) \/ WriteFails(p) \/ ReadInfo(p)
    BY <2>1 DEF Mkdir, WriteInfo, WriteFails, ReadInfo, Remove
  <2>2. CASE CheckStale(p) \/ Unlink(p) \/ Rmdir(p)
    BY <2>2 DEF CheckStale, Unlink, Rmdir, Remove
  <2> QED
    BY <2>1, <2>2 DEF Acquire
<1>3. CASE ReleaseLock(p)
  BY <1>3 DEF ReleaseLock, Release, Unlink, Rmdir, Remove
<1>4. CASE ValidateActionRequest(p) \/ AcquisitionThrows(p) \/ LoadState(p)
  BY <1>4 DEF ValidateActionRequest, AcquisitionThrows, LoadState
<1>5. CASE SelectAndCompile(p)
  <2>1. \A files \in Catalogs :
          SelectAndCompileRunDef(files) # NoDef => SelectAndCompileRunDef(files) \in RunDefs
    BY DEF RunDefs
  <2> QED
    BY <1>5, <2>1 DEF SelectAndCompile
<1>6. CASE SettleLockHeld(p) \/ StartRun(p) \/ SettleThrow(p)
  BY <1>6 DEF SettleLockHeld, StartRun, SettleThrow, EmitThen
<1>7. CASE FinishAction(p)
  BY <1>7 DEF FinishAction, EmitThen, FsmStatuses
<1>8. CASE ResolveRecoveryState(p)
  BY <1>8 DEF ResolveRecoveryState, Throw
<1>9. CASE ResolveInitialState(p) \/ ResolveReconciledResumeState(p)
  BY <1>9 DEF ResolveInitialState, ResolveReconciledResumeState, Save, Throw
<1>10. CASE ApplyTerminalCorrection(p) \/ RunStage(p) \/ FinishStages(p) \/ StagesThrow(p)
  <2>1. \A st, point : Save(p, st, point) => Goto(p, point) \/ Goto(p, "throw")
    BY DEF Save, Throw
  <2>2. act[p] \in {"correct", "stages"} /\ alive[p] /\ UNCHANGED <<vars, def>>
    BY <1>10 DEF ApplyTerminalCorrection, RunStage, FinishStages, StagesThrow
  <2>3. \E point \in {"stages", "done", "failed", "needs-attention", "throw"} : Goto(p, point)
    BY <1>10, <2>1
       DEF ApplyTerminalCorrection, RunStage, FinishStages, StagesThrow, FsmStatuses, Throw
  <2> QED
    BY <2>2, <2>3
<1> QED
  BY <1>1, <1>2, <1>3, <1>4, <1>5, <1>6, <1>7, <1>8, <1>9, <1>10 DEF RunPipelineAction

LEMMA PointStep == TypeOK /\ RunTypeOK /\ PointInv /\ [RunNext]_runVars => PointInv'
<1> SUFFICES ASSUME TypeOK, RunTypeOK, PointInv, [RunNext]_runVars, NEW q \in Procs PROVE PointOf(q)'
  BY DEF PointInv
<1>1. PointOf(q)
  BY DEF PointInv
<1>2. CASE UNCHANGED runVars
  BY <1>1, <1>2 DEF runVars, vars, actionVars, PointOf, Releasing
<1>3. ASSUME NEW p \in Procs, RunPipelineAction(p) \/ ProcessEnds(p) PROVE PointOf(q)'
  <2>1. CASE q = p
    BY <1>1, <1>3, <2>1, PointOfStep
  <2>2. CASE q # p
    BY <1>1, <1>3, <2>2, OthersStay DEF OwnStep, PointOf, Releasing
  <2> QED
    BY <2>1, <2>2
<1> QED
  BY <1>2, <1>3 DEF RunNext

\* Behind the lock a run holds it, a run with an answer has given it back or was
\* never given it, and only a killed or ended process is not alive.
THEOREM RunsHoldTheirLock == RunSpec => []PointInv
<1>1. RunInit => PointInv
  BY DEF RunInit, Init, PointInv, PointOf, Working, Releasing, Removing
<1> QED
  BY <1>1, PointStep, RunTypeCorrect, RunsUseTheLock, TypeCorrect, PTL DEF RunSpec

\* However a run ends, its lock is gone when the command line gets the answer: not
\* even another process' reclaim can leave its name there.
THEOREM EndedRunsHoldNothing == RunSpec => []EndedRunHoldsNothing
<1>1. PointInv /\ HolderInv => EndedRunHoldsNothing
  BY DEF PointInv, PointOf, HolderInv, EndedRunHoldsNothing, Owns
<1> QED
  BY <1>1, RunsHoldTheirLock, RunsUseTheLock, HoldersAreNamed, PTL

-----------------------------------------------------------------------------
(* The result *)

\* The results of a longer stream: those there were, and those that are added.
LEMMA ResultsOfMore ==
    ASSUME NEW s \in Seq(Events), NEW t \in Seq(Events)
    PROVE  /\ s \o t \in Seq(Events) /\ Len(s \o t) = Len(s) + Len(t)
           /\ ResultsOf(s \o t) = ResultsOf(s) \cup {Len(s) + i : i \in ResultsOf(t)}
           /\ HasLost(t) => HasLost(s \o t)
<1> DEFINE u == s \o t
<1>1. /\ u \in Seq(Events) /\ Len(u) = Len(s) + Len(t)
      /\ \A i \in 1..Len(u) : u[i] = IF i <= Len(s) THEN s[i] ELSE t[i - Len(s)]
  BY ConcatProperties
<1> HIDE DEF u
<1>2. DOMAIN u = 1..(Len(s) + Len(t)) /\ DOMAIN s = 1..Len(s) /\ DOMAIN t = 1..Len(t)
  BY <1>1
<1>3. Len(s) \in Nat /\ Len(t) \in Nat
  OBVIOUS
<1>4. ASSUME NEW i \in ResultsOf(u) PROVE i \in ResultsOf(s) \cup {Len(s) + j : j \in ResultsOf(t)}
  <2>1. i \in 1..(Len(s) + Len(t)) /\ u[i] \in ResultStatuses
    BY <1>2 DEF ResultsOf
  <2>2. CASE i <= Len(s)
    BY <1>1, <1>2, <1>3, <2>1, <2>2 DEF ResultsOf
  <2>3. CASE i > Len(s)
    <3>1. i - Len(s) \in DOMAIN t /\ t[i - Len(s)] = u[i]
      BY <1>1, <1>2, <1>3, <2>1, <2>3
    <3>2. i - Len(s) \in ResultsOf(t) /\ i = Len(s) + (i - Len(s))
      BY <1>3, <2>1, <3>1 DEF ResultsOf
    <3> QED
      BY <3>2
  <2> QED
    BY <1>3, <2>1, <2>2, <2>3
<1>5. ASSUME NEW i \in ResultsOf(s) PROVE i \in ResultsOf(u)
  BY <1>1, <1>2, <1>3 DEF ResultsOf
<1>6. ASSUME NEW j \in ResultsOf(t) PROVE Len(s) + j \in ResultsOf(u)
  <2>1. j \in 1..Len(t) /\ t[j] \in ResultStatuses
    BY <1>2 DEF ResultsOf
  <2>2. Len(s) + j \in 1..(Len(s) + Len(t)) /\ u[Len(s) + j] = t[j]
    BY <1>1, <1>3, <2>1
  <2> QED
    BY <1>2, <2>1, <2>2 DEF ResultsOf
<1>7. ASSUME HasLost(t) PROVE HasLost(u)
  <2> PICK j \in DOMAIN t : t[j] = "lost"
    BY <1>7 DEF HasLost
  <2>1. Len(s) + j \in DOMAIN u /\ u[Len(s) + j] = t[j]
    BY <1>1, <1>2, <1>3
  <2> QED
    BY <2>1 DEF HasLost
<1> QED
  BY <1>1, <1>4, <1>5, <1>6, <1>7 DEF u

LEMMA NoResultsOfMore ==
    ASSUME NEW s \in Seq(Events), NEW t \in Seq(Events), ResultsOf(s) = {}, ResultsOf(t) = {}
    PROVE  s \o t \in Seq(Events) /\ ResultsOf(s \o t) = {}
<1>1. {Len(s) + i : i \in {}} = {}
  OBVIOUS
<1> QED
  BY <1>1, ResultsOfMore

\* Events of which only the last may be a result.
OneAtMost(events) ==
    /\ events \in Seq(Events) /\ events # <<>>
    /\ ResultsOf(events) \subseteq {Len(events)}

LEMMA EventLists ==
    /\ OneAtMost(<<"error", "needs-attention">>)
    /\ ResultsOf(<<"error", "needs-attention">>) = {2}
    /\ OneAtMost(<<"run.started">>) /\ ResultsOf(<<"run.started">>) = {}
    /\ \A r \in ResultStatuses : OneAtMost(<<r>>) /\ ResultsOf(<<r>>) = {1}
    /\ ResultsOf(<<"lost">>) = {} /\ <<"lost">> \in Seq(Events) /\ HasLost(<<"lost">>)
<1> USE DEF ResultsOf, ResultStatuses, Events
<1>1. OneAtMost(<<"error", "needs-attention">>) /\ ResultsOf(<<"error", "needs-attention">>) = {2}
  BY DEF OneAtMost
<1>2. OneAtMost(<<"run.started">>) /\ ResultsOf(<<"run.started">>) = {}
  BY DEF OneAtMost
<1>3. ASSUME NEW r \in ResultStatuses PROVE OneAtMost(<<r>>) /\ ResultsOf(<<r>>) = {1}
  BY DEF OneAtMost
<1>4. ResultsOf(<<"lost">>) = {} /\ <<"lost">> \in Seq(Events) /\ HasLost(<<"lost">>)
  BY DEF HasLost
<1> QED
  BY <1>1, <1>2, <1>3, <1>4

\* A sink that throws has got no result; one that does not, has got all events.
LEMMA EmitResults ==
    ASSUME RunTypeOK, NEW p \in Procs, NEW events, OneAtMost(events), NEW point, NEW caught,
           EmitThen(p, events, point, caught), ResultsOf(out[p]) = {}
    PROVE  \/ /\ act'[p] = point
              /\ ResultsOf(out'[p]) = IF ResultsOf(events) = {} THEN {} ELSE {Len(out'[p])}
           \/ act'[p] = caught /\ ResultsOf(out'[p]) = {} /\ HasLost(out'[p])
<1> USE DEF RunTypeOK, OneAtMost
<1>1. CASE out' = [out EXCEPT ![p] = @ \o events] /\ Goto(p, point)
  <2>1. out'[p] = out[p] \o events /\ out[p] \in Seq(Events) /\ act'[p] = point
    BY <1>1 DEF Goto
  <2>2. ResultsOf(events) = {} \/ ResultsOf(events) = {Len(events)}
    BY DEF OneAtMost
  <2>3. /\ ResultsOf(out'[p]) = {Len(out[p]) + i : i \in ResultsOf(events)}
        /\ Len(out'[p]) = Len(out[p]) + Len(events)
    BY <2>1, ResultsOfMore
  <2> QED
    BY <2>1, <2>2, <2>3
<1>2. ASSUME NEW n \in 0..(Len(events) - 1),
             out' = [out EXCEPT ![p] = @ \o SubSeq(events, 1, n) \o <<"lost">>],
             Goto(p, caught)
      PROVE  act'[p] = caught /\ ResultsOf(out'[p]) = {} /\ HasLost(out'[p])
  <2> DEFINE part == SubSeq(events, 1, n)
  <2>1. out'[p] = (out[p] \o part) \o <<"lost">> /\ out[p] \in Seq(Events) /\ act'[p] = caught
    BY <1>2 DEF Goto
  <2>2. Len(events) \in Nat
    OBVIOUS
  <2>3. /\ part \in Seq(Events) /\ Len(part) = n
        /\ \A i \in 1..n : part[i] = events[i]
    BY <2>2
  <2> HIDE DEF part
  <2>4. ResultsOf(part) = {}
    <3> SUFFICES ASSUME NEW i \in ResultsOf(part) PROVE FALSE
      OBVIOUS
    <3>1. i \in 1..n /\ events[i] \in ResultStatuses
      BY <2>3 DEF ResultsOf
    <3>2. i \in ResultsOf(events) /\ i # Len(events)
      BY <2>2, <3>1 DEF ResultsOf
    <3> QED
      BY <3>2
  <2>5. out[p] \o part \in Seq(Events) /\ ResultsOf(out[p] \o part) = {}
    BY <2>1, <2>3, <2>4, NoResultsOfMore
  <2>6. ResultsOf(<<"lost">>) = {} /\ <<"lost">> \in Seq(Events) /\ HasLost(<<"lost">>)
    BY EventLists
  <2>7. ResultsOf(out'[p]) = {}
    BY <2>1, <2>5, <2>6, NoResultsOfMore
  <2>8. HasLost(out'[p])
    BY <2>1, <2>5, <2>6, ResultsOfMore
  <2> QED
    BY <2>1, <2>7, <2>8
<1> QED
  BY <1>1, <1>2 DEF EmitThen

LEMMA ResultOfStep ==
    ASSUME RunTypeOK, NEW p \in Procs, ResultOf(p), RunPipelineAction(p) \/ ProcessEnds(p)
    PROVE  ResultOf(p)'
<1> USE DEF RunTypeOK, ResultOf, At, Goto
<1>1. CASE ProcessEnds(p)
  <2>1. out'[p] = <<>> /\ act'[p] = "gone"
    BY <1>1 DEF ProcessEnds
  <2> QED
    BY <2>1 DEF ResultsOf
<1>2. CASE SettleLockHeld(p)
  <2>1. EmitThen(p, <<"error", "needs-attention">>, "ended", "rejected") /\ act[p] = "lock"
    BY <1>2 DEF SettleLockHeld
  <2> QED
    BY <2>1, EmitResults, EventLists
<1>3. CASE SettleThrow(p)
  <2>1. EmitThen(p, <<"error", "needs-attention">>, "release", "release") /\ act[p] = "throw"
    BY <1>3 DEF SettleThrow
  <2> QED
    BY <2>1, EmitResults, EventLists
<1>4. CASE StartRun(p)
  <2>1. EmitThen(p, <<"run.started">>, "load", "throw") /\ act[p] = "lock"
    BY <1>4 DEF StartRun
  <2> QED
    BY <2>1, EmitResults, EventLists
<1>5. CASE FinishAction(p)
  <2> PICK status \in FsmStatuses :
        /\ act[p] = status
        /\ EmitThen(p, <<IF status = "done" THEN "passed" ELSE status>>, "release", "throw")
    BY <1>5 DEF FinishAction
  <2> DEFINE r == IF status = "done" THEN "passed" ELSE status
  <2>1. r \in ResultStatuses /\ act[p] \notin {"release", "ended"}
    BY DEF ResultStatuses, FsmStatuses
  <2>2. EmitThen(p, <<r>>, "release", "throw")
    OBVIOUS
  <2> HIDE DEF r
  <2> QED
    BY <2>1, <2>2, EmitResults, EventLists
<1>6. CASE AcquireDispatchLock(p)
  BY <1>6 DEF AcquireDispatchLock, actionVars
<1>7. CASE ReleaseLock(p)
  BY <1>7 DEF ReleaseLock
<1>8. CASE ValidateActionRequest(p) \/ AcquisitionThrows(p) \/ LoadState(p) \/ SelectAndCompile(p)
  BY <1>8 DEF ValidateActionRequest, AcquisitionThrows, LoadState, SelectAndCompile
<1>9. CASE \/ ResolveRecoveryState(p) \/ ResolveInitialState(p) \/ ResolveReconciledResumeState(p)
           \/ ApplyTerminalCorrection(p) \/ RunStage(p) \/ FinishStages(p) \/ StagesThrow(p)
  <2>1. \A st, point : Save(p, st, point) => Goto(p, point) \/ Goto(p, "throw")
    BY DEF Save, Throw
  <2>2. act[p] \in {"resolve", "correct", "stages"} /\ out' = out
    BY <1>9 DEF ResolveRecoveryState, ResolveInitialState, ResolveReconciledResumeState,
                ApplyTerminalCorrection, RunStage, FinishStages, StagesThrow
  <2>3. \E point \in {"correct", "stages", "done", "failed", "needs-attention", "throw"} :
          Goto(p, point)
    BY <1>9, <2>1
       DEF ResolveRecoveryState, ResolveInitialState, ResolveReconciledResumeState,
           ApplyTerminalCorrection, RunStage, FinishStages, StagesThrow, FsmStatuses, Throw
  <2> QED
    BY <2>2, <2>3
<1> QED
  BY <1>1, <1>2, <1>3, <1>4, <1>5, <1>6, <1>7, <1>8, <1>9 DEF RunPipelineAction

LEMMA ResultStep == TypeOK /\ RunTypeOK /\ ResultInv /\ [RunNext]_runVars => ResultInv'
<1> SUFFICES ASSUME TypeOK, RunTypeOK, ResultInv, [RunNext]_runVars, NEW q \in Procs
             PROVE  ResultOf(q)'
  BY DEF ResultInv
<1>1. ResultOf(q)
  BY DEF ResultInv
<1>2. CASE UNCHANGED runVars
  BY <1>1, <1>2 DEF runVars, actionVars, ResultOf
<1>3. ASSUME NEW p \in Procs, RunPipelineAction(p) \/ ProcessEnds(p) PROVE ResultOf(q)'
  <2>1. CASE q = p
    BY <1>1, <1>3, <2>1, ResultOfStep
  <2>2. CASE q # p
    BY <1>1, <1>3, <2>2, OthersStay DEF OwnStep, ResultOf
  <2> QED
    BY <2>1, <2>2
<1> QED
  BY <1>2, <1>3 DEF RunNext

\* A run gives one result, as its last event, and an ended run has given it unless
\* its sink threw: whatever failed on the way, wherever the sink threw.
THEOREM RunsGiveOneResult == RunSpec => []OneResult
<1>1. RunInit => ResultInv
  <2>1. ResultsOf(<<>>) = {}
    BY DEF ResultsOf
  <2> QED
    BY <2>1 DEF RunInit, ResultInv, ResultOf
<1>2. ResultInv => OneResult
  <2> SUFFICES ASSUME ResultInv, NEW p \in Procs
               PROVE  /\ Cardinality(ResultsOf(out[p])) <= 1
                      /\ ResultsOf(out[p]) \subseteq {Len(out[p])}
                      /\ act[p] = "ended" => ResultsOf(out[p]) # {} \/ HasLost(out[p])
    BY DEF OneResult, HasLost
  <2>1. ResultOf(p)
    BY DEF ResultInv
  <2>2. ResultsOf(out[p]) = {} \/ ResultsOf(out[p]) = {Len(out[p])}
    BY <2>1 DEF ResultOf
  <2>3. Cardinality(ResultsOf(out[p])) <= 1
    <3>1. Cardinality({}) = 0 /\ Cardinality({Len(out[p])}) = 1
      BY FS_EmptySet, FS_Singleton, Zenon
    <3>2. CASE ResultsOf(out[p]) = {}
      BY <3>1, <3>2
    <3>3. CASE ResultsOf(out[p]) = {Len(out[p])}
      BY <3>1, <3>3
    <3> QED
      BY <2>2, <3>2, <3>3
  <2> QED
    BY <2>1, <2>2, <2>3 DEF ResultOf
<1> QED
  BY <1>1, <1>2, ResultStep, RunTypeCorrect, RunsUseTheLock, TypeCorrect, PTL DEF RunSpec

-----------------------------------------------------------------------------
(* The working state *)

LEMMA EqualExceptTimeoutsIsTransitive ==
    ASSUME NEW d, NEW e, NEW f, EqualExceptTimeouts(d, e), EqualExceptTimeouts(e, f)
    PROVE  EqualExceptTimeouts(d, f)
  BY DEF EqualExceptTimeouts

LEMMA RunDefsAreThere == NoDef \notin RunDefs
  BY DEF RunDefs

\* A recovery with changed timeouts is let through only over a state without
\* approvals, the run that superseded its receipt not having finished.
LEMMA MayRunUnderCases ==
    ASSUME NEW p \in Procs, NEW st \in StateFileType, MayRunUnder(p, st)
    PROVE  \/ st.def = def[p]
           \/ /\ recovery[p] # NoRecovery
              /\ st.identity # NoDef /\ EqualExceptTimeouts(st.identity, def[p])
              /\ st.checkpoint = NoSeal /\ st.receipt = NoSeal /\ st.archive # <<>>
              /\ st.status # "done"
  BY DEF MayRunUnder, IsTimeoutOnlyRecoveryRetry, CorrectionInProgress

\* Naming the active RunDef in a state that may be run under it keeps the state
\* valid: every archived receipt still matches it, directly or up to timeouts.
LEMMA IdentityKeepsValidity ==
    ASSUME NEW p \in Procs, NEW st \in StateFileType, IsValidFile(st),
           def[p] \in RunDefs, MayRunUnder(p, st)
    PROVE  IsValidFile(WithActiveRunDefIdentity(st, def[p]))
<1> DEFINE d == def[p]
           w == WithActiveRunDefIdentity(st, d)
           Named(i) == /\ st.identity # NoDef /\ st.archive[i].identity = NoDef
                       /\ st.archive[i].receipt.def = st.identity
<1>1. /\ w.status = st.status /\ w.def = d /\ w.identity = d
      /\ w.checkpoint = st.checkpoint /\ w.receipt = st.receipt
      /\ DOMAIN w.archive = DOMAIN st.archive
      /\ \A i \in DOMAIN st.archive :
           w.archive[i] = IF Named(i) THEN [st.archive[i] EXCEPT !.identity = st.identity]
                          ELSE st.archive[i]
  BY IdentityTypes DEF Defs
<1>2. d # NoDef /\ st.identity \in {NoDef, st.def}
  BY RunDefsAreThere DEF IsValidFile
<1>3. \/ st.def = d
      \/ /\ st.identity # NoDef /\ EqualExceptTimeouts(st.identity, d)
         /\ st.checkpoint = NoSeal /\ st.receipt = NoSeal /\ st.status # "done"
  BY MayRunUnderCases
<1> HIDE DEF d, w
<1>4. /\ w.identity \in {NoDef, w.def}
      /\ w.checkpoint # NoSeal => w.checkpoint.def = w.def
      /\ w.receipt # NoSeal => w.receipt = w.checkpoint
      /\ w.status = "done" => w.receipt # NoSeal
  BY <1>1, <1>3 DEF IsValidFile
<1>5. ASSUME NEW i \in DOMAIN st.archive
      PROVE  /\ w.archive[i].expected = st.archive[i].expected
             /\ w.archive[i].receipt = st.archive[i].receipt
             /\ w.archive[i].identity = IF Named(i) THEN st.identity ELSE st.archive[i].identity
  <2>1. st.archive[i] \in ArchiveRecords
    BY <1>5 DEF StateFileType
  <2> QED
    BY <1>1, <2>1 DEF ArchiveRecords
<1>6. ASSUME NEW i \in DOMAIN w.archive
      PROVE  /\ w.archive[i].identity \in {NoDef, w.archive[i].receipt.def}
             /\ ArchivedRunDefMatches(w.archive[i], w)
             /\ \A j \in DOMAIN w.archive :
                  w.archive[i].expected = w.archive[j].expected => i = j
  <2>1. i \in DOMAIN st.archive
    BY <1>1
  <2>2. /\ st.archive[i].identity \in {NoDef, st.archive[i].receipt.def}
        /\ ArchivedRunDefMatches(st.archive[i], st)
        /\ \A j \in DOMAIN st.archive : st.archive[i].expected = st.archive[j].expected => i = j
    BY <2>1 DEF IsValidFile
  <2>3. w.archive[i].identity \in {NoDef, w.archive[i].receipt.def}
    BY <1>5, <2>1, <2>2
  <2>4. \A j \in DOMAIN w.archive : w.archive[i].expected = w.archive[j].expected => i = j
    BY <1>1, <1>5, <2>1, <2>2
  <2>5. ArchivedRunDefMatches(w.archive[i], w)
    <3> USE <1>1, <1>2, <1>5, <2>1 DEF ArchivedRunDefMatches
    <3>1. CASE st.def = d
      BY <2>2, <3>1
    <3>2. CASE /\ st.identity # NoDef /\ EqualExceptTimeouts(st.identity, d)
               /\ st.archive[i].receipt.def = st.def
      BY <2>2, <3>2
    <3>3. CASE /\ EqualExceptTimeouts(st.identity, d)
               /\ st.archive[i].identity # NoDef
               /\ EqualExceptTimeouts(st.archive[i].identity, st.identity)
      BY <3>3, EqualExceptTimeoutsIsTransitive
    <3> QED
      BY <1>3, <2>2, <3>1, <3>2, <3>3
  <2> QED
    BY <2>3, <2>4, <2>5
<1> QED
  BY <1>4, <1>6 DEF IsValidFile, w, d

LEMMA SaveFacts ==
    ASSUME RunTypeOK, NEW p \in Procs, NEW st, NEW point, Save(p, st, point)
    PROVE  \/ /\ IsValidFile(st) /\ disk' = st /\ mem'[p] = st /\ last'[p] = st
              /\ act'[p] = point
           \/ UNCHANGED <<disk, mem, last>> /\ act'[p] = "throw"
  BY DEF Save, Throw, Goto, RunTypeOK

\* What the runner saves keeps its RunDef, and a done state has the approved receipt.
LEMMA StageFacts ==
    ASSUME RunTypeOK, NEW p \in Procs,
           ApplyTerminalCorrection(p) \/ RunStage(p) \/ FinishStages(p) \/ StagesThrow(p)
    PROVE  /\ def' = def /\ act[p] \in {"correct", "stages"} /\ alive[p]
           /\ \/ /\ \E point \in {"stages", "needs-attention", "throw"} : Goto(p, point)
                 /\ UNCHANGED <<disk, mem, last>>
              \/ \E st, point :
                   /\ Save(p, st, point) /\ st.def = mem[p].def
                   /\ point = "done" => /\ mem[p].checkpoint # NoSeal
                                        /\ st.status = "done" /\ st.receipt = mem[p].checkpoint
<1>1. def' = def /\ act[p] \in {"correct", "stages"} /\ alive[p]
  BY DEF ApplyTerminalCorrection, RunStage, FinishStages, StagesThrow, At
<1>2. mem[p] \in StateFileType
  BY DEF RunTypeOK
<1>3. CASE ApplyTerminalCorrection(p)
  <2> DEFINE archive == Append(mem[p].archive, [expected |-> recovery[p],
                                                identity |-> mem[p].identity,
                                                receipt  |-> mem[p].receipt])
             st == [mem[p] EXCEPT !.status = "running", !.checkpoint = NoSeal,
                                  !.receipt = NoSeal, !.archive = archive]
  <2>1. CASE Save(p, st, "stages")
    <3>1. st.def = mem[p].def
      <4> HIDE DEF archive
      <4> QED
        BY <1>2 DEF StateFileType
    <3> HIDE DEF st
    <3> QED
      BY <1>1, <2>1, <3>1
  <2>2. CASE /\ \E point \in {"stages", "needs-attention"} : Goto(p, point)
             /\ UNCHANGED <<disk, mem, last>>
    BY <1>1, <2>2
  <2> QED
    BY <1>3, <2>1, <2>2 DEF ApplyTerminalCorrection
<1>4. CASE RunStage(p)
  <2> PICK approval :
        Save(p, [mem[p] EXCEPT !.status = "running", !.checkpoint = approval, !.receipt = NoSeal],
             "stages")
    BY <1>4 DEF RunStage
  <2>1. [mem[p] EXCEPT !.status = "running", !.checkpoint = approval, !.receipt = NoSeal].def
          = mem[p].def
    BY <1>2 DEF StateFileType
  <2> QED
    BY <1>1, <2>1
<1>5. CASE FinishStages(p)
  <2>1. \A status : [mem[p] EXCEPT !.status = status].def = mem[p].def
    BY <1>2 DEF StateFileType
  <2> DEFINE st == [mem[p] EXCEPT !.status = "done", !.receipt = mem[p].checkpoint]
  <2>2. st.def = mem[p].def /\ st.status = "done" /\ st.receipt = mem[p].checkpoint
    BY <1>2 DEF StateFileType
  <2>3. CASE mem[p].checkpoint # NoSeal /\ Save(p, st, "done")
    <3> HIDE DEF st
    <3> QED
      BY <1>1, <2>2, <2>3
  <2>4. CASE \E status \in FsmStatuses \ {"done"} :
               Save(p, [mem[p] EXCEPT !.status = status], status)
    BY <1>1, <2>1, <2>4
  <2> QED
    BY <1>5, <2>3, <2>4 DEF FinishStages
<1>6. CASE StagesThrow(p)
  BY <1>1, <1>6 DEF StagesThrow, Throw
<1> QED
  BY <1>3, <1>4, <1>5, <1>6

LEMMA ValidOfStep ==
    ASSUME RunTypeOK, NEW p \in Procs, PointOf(p), ValidOf(p), IsValidFile(disk),
           RunPipelineAction(p) \/ ProcessEnds(p)
    PROVE  ValidOf(p)' /\ IsValidFile(disk)'
<1> USE DEF RunTypeOK, ValidOf, At, Goto, Throw, IsValidFile, ArchivedRunDefMatches
<1>1. IsValidFile(NoFile)
  BY DEF NoFile
<1> HIDE DEF IsValidFile, ArchivedRunDefMatches
<1>2. CASE ProcessEnds(p)
  BY <1>1, <1>2 DEF ProcessEnds
<1>3. CASE AcquireDispatchLock(p)
  BY <1>3 DEF AcquireDispatchLock, actionVars
<1>4. CASE ReleaseLock(p)
  BY <1>1, <1>4 DEF ReleaseLock
<1>5. CASE ValidateActionRequest(p) \/ AcquisitionThrows(p) \/ LoadState(p) \/ SelectAndCompile(p)
  BY <1>5 DEF ValidateActionRequest, AcquisitionThrows, LoadState, SelectAndCompile
<1>6. CASE SettleLockHeld(p) \/ StartRun(p) \/ FinishAction(p) \/ SettleThrow(p)
  BY <1>6 DEF SettleLockHeld, StartRun, FinishAction, SettleThrow, EmitThen
<1>7. CASE ResolveRecoveryState(p)
  <2>1. CASE Throw(p)
    BY <1>7, <2>1 DEF ResolveRecoveryState
  <2>2. CASE /\ MayRunUnder(p, mem[p])
             /\ mem' = [mem EXCEPT ![p] = WithActiveRunDefIdentity(mem[p], def[p])]
             /\ UNCHANGED disk
    <3>1. def[p] \in RunDefs /\ def' = def
      BY <1>7 DEF ResolveRecoveryState, PointOf
    <3>2. IsValidFile(WithActiveRunDefIdentity(mem[p], def[p]))
      BY <2>2, <3>1, IdentityKeepsValidity
    <3>3. WithActiveRunDefIdentity(mem[p], def[p]).def = def[p]
      BY <3>1, IdentityTypes DEF Defs
    <3> QED
      BY <2>2, <3>1, <3>2, <3>3
  <2> QED
    BY <1>7, <2>1, <2>2 DEF ResolveRecoveryState
<1>8. CASE ResolveInitialState(p)
  <2>1. InitialFile(def[p]).def = def[p]
    BY DEF InitialFile, NoFile
  <2>2. Save(p, InitialFile(def[p]), "stages") /\ def' = def
    BY <1>8 DEF ResolveInitialState
  <2> QED
    BY <2>1, <2>2, SaveFacts, <1>8 DEF ResolveInitialState
<1>9. CASE ResolveReconciledResumeState(p)
  <2>1. def' = def /\ recovery[p] = NoRecovery /\ act[p] = "resolve"
    BY <1>9 DEF ResolveReconciledResumeState
  <2>2. CASE Throw(p)
    BY <2>1, <2>2
  <2>3. CASE MayRunUnder(p, mem[p])
    <3>1. mem[p].def = def[p]
      BY <2>1, <2>3, MayRunUnderCases
    <3>2. ReconcileState(mem[p]).def = mem[p].def
      BY DEF ReconcileState, StateFileType
    <3>3. CASE Goto(p, "stages") /\ UNCHANGED <<disk, mem, last>>
      BY <2>1, <3>1, <3>3
    <3>4. CASE Save(p, ReconcileState(mem[p]), "stages")
      BY <2>1, <3>1, <3>2, <3>4, SaveFacts
    <3> QED
      BY <1>9, <2>3, <3>3, <3>4 DEF ResolveReconciledResumeState
  <2> QED
    BY <1>9, <2>2, <2>3 DEF ResolveReconciledResumeState
<1>10. CASE ApplyTerminalCorrection(p) \/ RunStage(p) \/ FinishStages(p) \/ StagesThrow(p)
  <2>1. def' = def /\ act[p] \in {"correct", "stages"}
    BY <1>10, StageFacts
  <2>2. CASE UNCHANGED <<disk, mem, last>>
    BY <2>1, <2>2, <1>10, StageFacts
  <2>3. CASE \E st, point : Save(p, st, point) /\ st.def = mem[p].def
    BY <2>1, <2>3, SaveFacts
  <2> QED
    BY <1>10, <2>2, <2>3, StageFacts
<1> QED
  BY <1>2, <1>3, <1>4, <1>5, <1>6, <1>7, <1>8, <1>9, <1>10 DEF RunPipelineAction

LEMMA ValidStep == TypeOK /\ RunTypeOK /\ PointInv /\ ValidInv /\ [RunNext]_runVars => ValidInv'
<1> SUFFICES ASSUME TypeOK, RunTypeOK, PointInv, ValidInv, [RunNext]_runVars PROVE ValidInv'
  OBVIOUS
<1>1. CASE UNCHANGED runVars
  BY <1>1 DEF runVars, actionVars, ValidInv, ValidOf, IsValidFile, ArchivedRunDefMatches
<1>2. ASSUME NEW p \in Procs, RunPipelineAction(p) \/ ProcessEnds(p) PROVE ValidInv'
  <2>1. IsValidFile(disk)' /\ ValidOf(p)'
    BY <1>2, ValidOfStep DEF PointInv, ValidInv
  <2>2. ASSUME NEW q \in Procs, q # p PROVE ValidOf(q)'
    <3>1. ValidOf(q) /\ OwnStep(q)
      BY <1>2, <2>2, OthersStay DEF ValidInv
    <3> QED
      BY <3>1 DEF ValidOf, OwnStep, IsValidFile, ArchivedRunDefMatches
  <2> QED
    BY <2>1, <2>2 DEF ValidInv
<1> QED
  BY <1>1, <1>2 DEF RunNext

LEMMA EarlierFilesAreValid == \A st \in {NoFile} \cup EarlierFiles : IsValidFile(st)
<1>1. IsValidFile(NoFile)
  BY DEF IsValidFile, NoFile
<1>2. ASSUME NEW d \in RunDefs
      PROVE  IsValidFile([InitialFile(d) EXCEPT !.status = "done",
                                                !.checkpoint = [run |-> Earlier, def |-> d],
                                                !.receipt = [run |-> Earlier, def |-> d]])
  BY RunActionsAssumption DEF IsValidFile, InitialFile, NoFile, NoSeal, Runs
<1>3. ASSUME NEW d \in RunDefs
      PROVE  IsValidFile([InitialFile(d) EXCEPT
                            !.status = "needs-attention",
                            !.archive = <<[expected |-> Earlier, identity |-> NoDef,
                                           receipt |-> [run |-> Earlier, def |-> d]]>>])
  BY DEF IsValidFile, InitialFile, NoFile, ArchivedRunDefMatches
<1> QED
  BY <1>1, <1>2, <1>3 DEF EarlierFiles

\* The store never holds a state it would refuse, and a run works on one it would
\* take, at whatever point it is.
THEOREM ValidInvariant == RunSpec => []ValidInv
<1>1. RunInit => ValidInv
  BY EarlierFilesAreValid DEF RunInit, ValidInv, ValidOf
<1> QED
  BY <1>1, ValidStep, RunTypeCorrect, RunsUseTheLock, TypeCorrect, RunsHoldTheirLock, PTL
     DEF RunSpec

\* The store never holds a state it would refuse, and a run goes to work on one under
\* the RunDef it has compiled, whatever recoveries and timeout changes came before.
THEOREM WorkingStatesAreValid == RunSpec => []WorkingStateIsValid
<1>1. ValidInv => WorkingStateIsValid
  BY DEF ValidInv, ValidOf, WorkingStateIsValid
<1> QED
  BY <1>1, ValidInvariant, PTL

-----------------------------------------------------------------------------
(* The pipeline a run has compiled *)

\* Stage ids are told apart, in the absence of a RunDef too.
LEMMA DefTypes ==
    ASSUME NEW d \in Defs
    PROVE  /\ d.stages \in Seq(RawStageType)
           /\ \A i, j \in DOMAIN d.stages : d.stages[i].id = d.stages[j].id => i = j
<1>1. CASE d = NoDef
  <2>1. <<>> \in Seq(RawStageType) /\ DOMAIN <<>> = {}
    OBVIOUS
  <2>2. NoDef.stages = <<>>
    BY DEF NoDef
  <2> QED
    BY <1>1, <2>1, <2>2
<1>2. CASE d \in RunDefs
  <2>1. d \in RawRunDefType /\ IsRunDef(d)
    BY <1>2, CompiledIsValid
  <2>2. DOMAIN d.stages = 1..Len(d.stages) /\ Len(d.stages) \in Nat
    BY <2>1 DEF RawRunDefType
  <2>3. \A i \in DOMAIN d.stages : \A j \in 1..(i - 1) : d.stages[j].id # d.stages[i].id
    BY <2>1 DEF IsRunDef
  <2> QED
    BY <2>1, <2>2, <2>3 DEF RawRunDefType
<1> QED
  BY <1>1, <1>2 DEF Defs

\* The position a name stands for.
LEMMA IndexOfIsPosition ==
    ASSUME NEW d \in Defs, NEW id
    PROVE  /\ IndexOf(d, id) = 0 <=> ~\E i \in DOMAIN d.stages : d.stages[i].id = id
           /\ IndexOf(d, id) # 0 => /\ IndexOf(d, id) \in DOMAIN d.stages
                                    /\ d.stages[IndexOf(d, id)].id = id
<1>1. /\ DOMAIN d.stages = 1..Len(d.stages) /\ Len(d.stages) \in Nat
      /\ \A i, j \in DOMAIN d.stages : d.stages[i].id = d.stages[j].id => i = j
  BY DefTypes
<1>2. CASE \E i \in DOMAIN d.stages : d.stages[i].id = id
  <2>1. \E i \in DOMAIN d.stages :
           d.stages[i].id = id /\ \A j \in 1..(i - 1) : d.stages[j].id # id
    BY <1>1, <1>2
  <2>2. IndexOf(d, id) = CHOOSE i \in DOMAIN d.stages :
           d.stages[i].id = id /\ \A j \in 1..(i - 1) : d.stages[j].id # id
    BY <1>2 DEF IndexOf
  <2>3. IndexOf(d, id) \in DOMAIN d.stages /\ d.stages[IndexOf(d, id)].id = id
    BY <2>1, <2>2
  <2> QED
    BY <1>1, <1>2, <2>3
<1>3. CASE ~\E i \in DOMAIN d.stages : d.stages[i].id = id
  BY <1>3 DEF IndexOf
<1> QED
  BY <1>2, <1>3

LEMMA CompiledStageFits ==
    ASSUME NEW d \in RunDefs, NEW i \in DOMAIN d.stages
    PROVE  LET c == CompileStage(d, i) IN
           /\ c \in [kind: {"agent", "code"}, gate: BOOLEAN, review: BOOLEAN, onFail: Nat,
                     budget: Nat \cup {NoNumber}]
           /\ c.onFail < i
           /\ c.kind = "agent" => (c.gate <=> c.onFail # 0)
           /\ c.kind = "code" => ~c.gate
           /\ c.review => c.gate
<1> DEFINE stage == d.stages[i]
           c == CompileStage(d, i)
<1>1. d \in RawRunDefType /\ IsRunDef(d)
  BY CompiledIsValid
<1>2. /\ IsStage(stage)
      /\ stage.gate # None => stage.onFail # None
      /\ stage.kind = "agent" /\ stage.onFail # None => stage.gate # None
      /\ OnFailTargetIsEarlier(d, i)
      /\ stage.kind = "agent" => stage.budget # EmptyBudget
  BY <1>1 DEF IsRunDef
<1>3. i \in Nat \ {0} /\ stage \in RawStageType
  BY <1>1 DEF RawRunDefType
<1>4. /\ stage.kind \in {"agent", "code"} /\ stage.budget \in Int
      /\ stage.budget >= EmptyBudget
      /\ stage.kind = "code" => stage.gate = None /\ stage.budget = NoNumber
  BY <1>2, <1>3 DEF IsStage, RawStageType
<1>5. stage.budget \in Nat \cup {NoNumber}
  BY <1>2, <1>4 DEF EmptyBudget, NoNumber
<1>6. /\ stage.onFail = None => c.onFail = 0
      /\ stage.onFail # None => c.onFail \in 1..(i - 1)
  BY <1>2 DEF OnFailTargetIsEarlier, CompileStage
<1>7. /\ c = [kind |-> c.kind, gate |-> c.gate, review |-> c.review, onFail |-> c.onFail,
              budget |-> c.budget]
      /\ c.kind = stage.kind /\ c.gate = (stage.gate # None)
      /\ c.review = (stage.gate \in ReviewGates) /\ c.budget = stage.budget
  BY DEF CompileStage
<1>8. stage.gate \in ReviewGates => stage.gate # None
  BY RunDefinitionsAssumption
<1>9. c.onFail \in Nat /\ c.onFail < i /\ (c.onFail # 0 <=> stage.onFail # None)
  BY <1>3, <1>6
<1> HIDE DEF c, stage
<1>10. /\ c \in [kind: {"agent", "code"}, gate: BOOLEAN, review: BOOLEAN, onFail: Nat,
                 budget: Nat \cup {NoNumber}]
       /\ c.onFail < i
       /\ c.kind = "agent" => (c.gate <=> c.onFail # 0)
       /\ c.kind = "code" => ~c.gate
       /\ c.review => c.gate
  <2>1. c \in [kind: {"agent", "code"}, gate: BOOLEAN, review: BOOLEAN, onFail: Nat,
               budget: Nat \cup {NoNumber}]
    <3>1. /\ c.kind \in {"agent", "code"} /\ c.gate \in BOOLEAN /\ c.review \in BOOLEAN
          /\ c.onFail \in Nat /\ c.budget \in Nat \cup {NoNumber}
      BY <1>4, <1>5, <1>7, <1>9
    <3> QED
      BY <1>7, <3>1
  <2>2. c.kind = "agent" => (c.gate <=> c.onFail # 0)
    BY <1>2, <1>7, <1>9
  <2>3. c.kind = "code" => ~c.gate
    BY <1>4, <1>7
  <2>4. c.review => c.gate
    BY <1>7, <1>8
  <2> QED
    BY <1>9, <2>1, <2>2, <2>3, <2>4
<1> QED
  BY <1>10 DEF c

\* Whatever is in the YAML files, a pipeline a run goes on with meets the assumptions
\* the stage evaluation makes of it.
THEOREM CompiledPipelinesFit == RunSpec => []CompiledFitsTheRunner
<1>1. ASSUME NEW d \in RunDefs PROVE Runner(CompileRunDef(d))!CrossFieldInvariants
  <2> DEFINE stages == CompileRunDef(d)
             T == [kind: {"agent", "code"}, gate: BOOLEAN, review: BOOLEAN, onFail: Nat,
                   budget: Nat \cup {NoNumber}]
  <2>1. d \in RawRunDefType /\ d.stages # <<>>
    BY CompiledIsValid DEF IsRunDef
  <2>2. DOMAIN d.stages = 1..Len(d.stages) /\ Len(d.stages) \in Nat \ {0}
    BY <2>1 DEF RawRunDefType
  <2>3. \A i \in 1..Len(d.stages) : CompileStage(d, i) \in T
    BY <2>2, CompiledStageFits
  <2>4. stages = [i \in 1..Len(d.stages) |-> CompileStage(d, i)]
    BY <2>2 DEF CompileRunDef
  <2> HIDE DEF T, stages
  <2>5. stages \in Seq(T) /\ Len(stages) = Len(d.stages)
    BY <2>2, <2>3, <2>4
  <2>6. \A i \in 1..Len(stages) :
          /\ stages[i].onFail < i
          /\ stages[i].kind = "agent" => (stages[i].gate <=> stages[i].onFail # 0)
          /\ stages[i].kind = "code" => ~stages[i].gate
          /\ stages[i].review => stages[i].gate
    BY <2>2, <2>4, <2>5, CompiledStageFits
  <2>7. T = Runner(stages)!StageDefType
    BY DEF T, Runner!StageDefType, Runner!Absent, NoNumber
  <2>8. Runner(stages)!CrossFieldInvariants
    BY <2>2, <2>5, <2>6, <2>7
       DEF Runner!CrossFieldInvariants, Runner!StageIds, Runner!N, Runner!NoStage
  <2> QED
    BY <2>8 DEF stages
<1>2. PointInv => CompiledFitsTheRunner
  BY <1>1 DEF PointInv, PointOf, CompiledFitsTheRunner
<1> QED
  BY <1>2, RunsHoldTheirLock, PTL

-----------------------------------------------------------------------------
(* The file, when processes come one at a time *)

\* What a run does that is changed in its timeouts only, it does on the same stages,
\* with the same targets.
LEMMA SamePipeline ==
    ASSUME NEW d \in Defs, NEW e \in Defs, EqualExceptTimeouts(d, e)
    PROVE  Pipeline(d) = Pipeline(e)
<1>1. /\ d.stages \in Seq(RawStageType) /\ e.stages \in Seq(RawStageType)
      /\ \A i, j \in DOMAIN d.stages : d.stages[i].id = d.stages[j].id => i = j
  BY DefTypes
<1>2. DOMAIN d.stages = DOMAIN e.stages
  BY DEF EqualExceptTimeouts
<1>3. ASSUME NEW i \in DOMAIN d.stages
      PROVE  /\ d.stages[i].id = e.stages[i].id /\ d.stages[i].kind = e.stages[i].kind
             /\ d.stages[i].gate = e.stages[i].gate /\ d.stages[i].onFail = e.stages[i].onFail
             /\ d.stages[i].budget = e.stages[i].budget /\ d.stages[i].rest = e.stages[i].rest
  <2>1. d.stages[i] \in RawStageType /\ e.stages[i] \in RawStageType
    BY <1>1, <1>2
  <2>2. WithoutTimeout(d.stages[i]) = WithoutTimeout(e.stages[i])
    BY DEF EqualExceptTimeouts
  <2>3. \A x \in RawStageType :
          /\ WithoutTimeout(x).id = x.id /\ WithoutTimeout(x).kind = x.kind
          /\ WithoutTimeout(x).gate = x.gate /\ WithoutTimeout(x).onFail = x.onFail
          /\ WithoutTimeout(x).budget = x.budget /\ WithoutTimeout(x).rest = x.rest
    BY DEF WithoutTimeout, RawStageType
  <2> QED
    BY <2>1, <2>2, <2>3
<1>4. ASSUME NEW id PROVE IndexOf(d, id) = IndexOf(e, id)
  <2>1. CASE \E i \in DOMAIN d.stages : d.stages[i].id = id
    <3>1. /\ IndexOf(d, id) \in DOMAIN d.stages /\ d.stages[IndexOf(d, id)].id = id
          /\ IndexOf(e, id) \in DOMAIN e.stages /\ e.stages[IndexOf(e, id)].id = id
      BY <1>2, <1>3, <2>1, IndexOfIsPosition
    <3> QED
      BY <1>1, <1>2, <1>3, <3>1
  <2>2. CASE ~\E i \in DOMAIN d.stages : d.stages[i].id = id
    BY <1>2, <1>3, <2>2, IndexOfIsPosition
  <2> QED
    BY <2>1, <2>2
<1>5. ASSUME NEW i \in DOMAIN d.stages PROVE CompileStage(d, i) = CompileStage(e, i)
  BY <1>3, <1>4 DEF CompileStage
<1>6. ASSUME NEW i \in DOMAIN d.stages
      PROVE  /\ CompileRunDef(d)[i] = CompileRunDef(e)[i]
             /\ d.stages[i].rest = e.stages[i].rest
  BY <1>2, <1>3, <1>5 DEF CompileRunDef
<1> QED
  BY <1>2, <1>6 DEF Pipeline

\* Only a run at work replaces the file, and it knows what it has put there.
LEMMA DiskStep ==
    ASSUME RunTypeOK, NEW p \in Procs, RunPipelineAction(p) \/ ProcessEnds(p), disk' # disk
    PROVE  act[p] \in {"resolve", "correct", "stages"} /\ last'[p] = disk'
<1>1. CASE ProcessEnds(p) \/ AcquireDispatchLock(p) \/ ReleaseLock(p)
  BY <1>1 DEF ProcessEnds, AcquireDispatchLock, ReleaseLock, actionVars
<1>2. CASE ValidateActionRequest(p) \/ AcquisitionThrows(p) \/ LoadState(p) \/ SelectAndCompile(p)
  BY <1>2 DEF ValidateActionRequest, AcquisitionThrows, LoadState, SelectAndCompile
<1>3. CASE SettleLockHeld(p) \/ StartRun(p) \/ FinishAction(p) \/ SettleThrow(p)
  BY <1>3 DEF SettleLockHeld, StartRun, FinishAction, SettleThrow
<1>4. CASE ResolveRecoveryState(p)
  BY <1>4 DEF ResolveRecoveryState, Throw
<1>5. CASE ResolveInitialState(p) \/ ResolveReconciledResumeState(p)
  <2>1. act[p] = "resolve"
    BY <1>5 DEF ResolveInitialState, ResolveReconciledResumeState, At
  <2>2. \E st, point : Save(p, st, point)
    BY <1>5 DEF ResolveInitialState, ResolveReconciledResumeState, Throw
  <2> QED
    BY <2>1, <2>2, SaveFacts
<1>6. CASE ApplyTerminalCorrection(p) \/ RunStage(p) \/ FinishStages(p) \/ StagesThrow(p)
  <2>1. act[p] \in {"correct", "stages"} /\ \E st, point : Save(p, st, point)
    BY <1>6, StageFacts
  <2> QED
    BY <2>1, SaveFacts
<1> QED
  BY <1>1, <1>2, <1>3, <1>4, <1>5, <1>6 DEF RunPipelineAction

LEMMA LastOfStep ==
    ASSUME RunTypeOK, NEW p \in Procs, PointOf(p), ValidOf(p), IsValidFile(disk), LastOf(p),
           RunPipelineAction(p) \/ ProcessEnds(p)
    PROVE  LastOf(p)'
<1> USE DEF RunTypeOK, LastOf, At, Goto, Throw
<1>1. CASE ProcessEnds(p)
  BY <1>1 DEF ProcessEnds
<1>2. CASE AcquireDispatchLock(p)
  BY <1>2 DEF AcquireDispatchLock, actionVars
<1>3. CASE ReleaseLock(p)
  BY <1>3 DEF ReleaseLock
<1>4. CASE ValidateActionRequest(p) \/ AcquisitionThrows(p) \/ LoadState(p) \/ SelectAndCompile(p)
  BY <1>4 DEF ValidateActionRequest, AcquisitionThrows, LoadState, SelectAndCompile
<1>5. CASE SettleLockHeld(p) \/ StartRun(p) \/ FinishAction(p) \/ SettleThrow(p)
  BY <1>5 DEF SettleLockHeld, StartRun, FinishAction, SettleThrow, EmitThen
<1>6. CASE ResolveRecoveryState(p)
  <2>1. CASE Throw(p)
    BY <1>6, <2>1 DEF ResolveRecoveryState
  <2>2. CASE /\ MayRunUnder(p, mem[p])
             /\ mem' = [mem EXCEPT ![p] = WithActiveRunDefIdentity(mem[p], def[p])]
             /\ act' = [act EXCEPT ![p] = "correct"]
             /\ UNCHANGED <<disk, last>>
    <3>1. mem[p] = disk /\ last[p] = disk
      BY <1>6 DEF ResolveRecoveryState
    <3>2. mem'[p].def = def[p] /\ act'[p] = "correct" /\ last'[p] = disk'
      BY <2>2, <3>1, IdentityTypes
    <3>3. disk.identity # NoDef => disk.identity = disk.def
      BY DEF IsValidFile
    <3>4. \/ disk.def = def[p]
          \/ /\ disk.identity # NoDef /\ EqualExceptTimeouts(disk.identity, def[p])
             /\ disk.checkpoint = NoSeal /\ disk.receipt = NoSeal /\ disk.archive # <<>>
      BY <2>2, <3>1, MayRunUnderCases
    <3>5. disk' = disk
      BY <2>2
    <3> QED
      BY <3>2, <3>3, <3>4, <3>5
  <2> QED
    BY <1>6, <2>1, <2>2 DEF ResolveRecoveryState
<1>7. CASE ResolveInitialState(p)
  BY <1>7, SaveFacts DEF ResolveInitialState
<1>8. CASE ResolveReconciledResumeState(p)
  <2>1. CASE Throw(p)
    BY <2>1
  <2>2. CASE Save(p, ReconcileState(mem[p]), "stages")
    BY <2>2, SaveFacts
  <2>3. CASE Goto(p, "stages") /\ UNCHANGED <<disk, mem, last>>
    BY <1>8, <2>3 DEF ResolveReconciledResumeState
  <2> QED
    BY <1>8, <2>1, <2>2, <2>3 DEF ResolveReconciledResumeState
<1>9. CASE ApplyTerminalCorrection(p) \/ RunStage(p) \/ FinishStages(p) \/ StagesThrow(p)
  <2>1. def' = def /\ act[p] \in {"correct", "stages"}
    BY <1>9, StageFacts
  <2>2. CASE /\ \E point \in {"stages", "needs-attention", "throw"} : Goto(p, point)
             /\ UNCHANGED <<disk, mem, last>>
    BY <2>1, <2>2
  <2>3. ASSUME NEW st, NEW point, Save(p, st, point), st.def = mem[p].def,
               point = "done" => /\ mem[p].checkpoint # NoSeal
                                 /\ st.status = "done" /\ st.receipt = mem[p].checkpoint
        PROVE  LastOf(p)'
    <3>1. mem[p].def = def[p] /\ (mem[p].checkpoint # NoSeal => mem[p].checkpoint.def = def[p])
      BY <2>1 DEF ValidOf, IsValidFile
    <3>2. CASE UNCHANGED <<disk, mem, last>> /\ act'[p] = "throw"
      BY <2>1, <3>2
    <3>3. CASE disk' = st /\ mem'[p] = st /\ last'[p] = st /\ act'[p] = point
      BY <2>1, <2>3, <3>1, <3>3
    <3> QED
      BY <2>3, <3>2, <3>3, SaveFacts
  <2> QED
    BY <1>9, <2>2, <2>3, StageFacts
<1> QED
  BY <1>1, <1>2, <1>3, <1>4, <1>5, <1>6, <1>7, <1>8, <1>9 DEF RunPipelineAction

LEMMA LastStep ==
    /\ TypeOK /\ RunTypeOK /\ PointInv /\ ValidInv /\ LastInv /\ MutualExclusion
    /\ [RunNext]_runVars
    => LastInv'
<1> SUFFICES ASSUME TypeOK, RunTypeOK, PointInv, ValidInv, LastInv, MutualExclusion,
                    [RunNext]_runVars, NEW q \in Procs
             PROVE  LastOf(q)'
  BY DEF LastInv
<1>1. LastOf(q) /\ PointOf(q)
  BY DEF LastInv, PointInv
<1>2. CASE UNCHANGED runVars
  BY <1>1, <1>2 DEF runVars, actionVars, LastOf
<1>3. ASSUME NEW p \in Procs, RunPipelineAction(p) \/ ProcessEnds(p) PROVE LastOf(q)'
  <2>1. CASE q = p
    BY <1>1, <1>3, <2>1, LastOfStep DEF ValidInv, PointInv, LastInv
  <2>2. CASE q # p /\ disk' = disk
    BY <1>1, <1>3, <2>2, OthersStay DEF OwnStep, LastOf
  <2>3. CASE q # p /\ disk' # disk
    <3>1. act[p] \in Working /\ pc[p] = "held"
      BY <1>3, <2>3, DiskStep DEF PointInv, PointOf, Working
    <3>2. act[q] \notin Working
      BY <1>1, <2>3, <3>1 DEF MutualExclusion, PointOf
    <3>3. act'[q] = act[q]
      BY <1>3, <2>3, OthersStay DEF OwnStep
    <3> QED
      BY <3>2, <3>3 DEF LastOf, Working
  <2> QED
    BY <2>1, <2>2, <2>3
<1> QED
  BY <1>2, <1>3 DEF RunNext

\* When processes come one at a time and none outlives staleMs, nobody else replaces
\* the file a run has loaded.
THEOREM FilesAreOwn ==
    ASSUME ~Overlap, ~MayAge
    PROVE  RunSpec => []LastInv
<1>1. RunInit => LastInv
  BY DEF RunInit, LastInv, LastOf
<1>2. RunSpec => []MutualExclusion
  BY RunsUseTheLock, SerialExclusion, PTL
<1>3. RunSpec => []ValidInv
  BY ValidInvariant
<1> QED
  BY <1>1, <1>2, <1>3, LastStep, RunTypeCorrect, RunsUseTheLock, TypeCorrect, RunsHoldTheirLock, PTL
     DEF RunSpec

\* What a step may do to the file, and say of it.
LostNothing == disk' # disk => \E p \in Procs : last'[p] = disk' /\ last[p] = disk

PassedOf(p) ==
    Len(out'[p]) > Len(out[p]) /\ out'[p][Len(out'[p])] = "passed"
    => pc[p] = "held" /\ disk.status = "done" /\ disk.receipt.def = def[p]

KeptShape ==
    disk # NoFile /\ disk'.def # disk.def =>
      /\ Pipeline(disk'.def) = Pipeline(disk.def)
      /\ disk.checkpoint = NoSeal /\ disk.receipt = NoSeal
      /\ disk.archive # <<>>

LEMMA LostNothingStep ==
    RunTypeOK /\ LastInv /\ [RunNext]_runVars => LostNothing
<1> SUFFICES ASSUME RunTypeOK, LastInv, RunNext, disk' # disk PROVE LostNothing
  BY DEF runVars, actionVars, LostNothing
<1> PICK p \in Procs : RunPipelineAction(p) \/ ProcessEnds(p)
  BY DEF RunNext
<1> QED
  BY DiskStep DEF LastInv, LastOf, LostNothing

\* When processes come one at a time, no transition a process has saved is lost to
\* another one, although loading and saving are far apart.
THEOREM NoUpdateIsLost ==
    ASSUME ~Overlap, ~MayAge
    PROVE  RunSpec => NoLostUpdate
<1>1. RunSpec => [][LostNothing]_runVars
  BY LostNothingStep, RunTypeCorrect, FilesAreOwn, PTL DEF RunSpec
<1> QED
  BY <1>1 DEF NoLostUpdate, LostNothing

\* The last event a step gives the sink is the last of the list, or it is lost.
LEMMA EmitLast ==
    ASSUME RunTypeOK, NEW p \in Procs, NEW events, OneAtMost(events), NEW point, NEW caught,
           EmitThen(p, events, point, caught)
    PROVE  \/ out'[p][Len(out'[p])] = events[Len(events)] /\ act'[p] = point
           \/ out'[p][Len(out'[p])] = "lost"
<1> USE DEF RunTypeOK, OneAtMost
<1>1. out[p] \in Seq(Events) /\ Len(events) \in Nat \ {0}
  OBVIOUS
<1>2. CASE out' = [out EXCEPT ![p] = @ \o events] /\ Goto(p, point)
  <2>1. out'[p] = out[p] \o events /\ act'[p] = point
    BY <1>2 DEF Goto
  <2>2. /\ Len(out'[p]) = Len(out[p]) + Len(events)
        /\ out'[p][Len(out[p]) + Len(events)] = events[Len(events)]
    BY <1>1, <2>1, ConcatProperties
  <2> QED
    BY <2>1, <2>2
<1>3. ASSUME NEW n \in 0..(Len(events) - 1),
             out' = [out EXCEPT ![p] = @ \o SubSeq(events, 1, n) \o <<"lost">>]
      PROVE  out'[p][Len(out'[p])] = "lost"
  <2> DEFINE s == out[p] \o SubSeq(events, 1, n)
  <2>1. SubSeq(events, 1, n) \in Seq(Events)
    BY <1>1
  <2>2. s \in Seq(Events) /\ out'[p] = s \o <<"lost">>
    BY <1>1, <1>3, <2>1
  <2> HIDE DEF s
  <2>3. Len(out'[p]) = Len(s) + 1 /\ out'[p][Len(s) + 1] = "lost"
    BY <2>2, EventLists
  <2> QED
    BY <2>3
<1> QED
  BY <1>2, <1>3 DEF EmitThen

LEMMA PassedStep ==
    /\ TypeOK /\ RunTypeOK /\ PointInv /\ LastInv /\ [RunNext]_runVars
    => \A p \in Procs : PassedOf(p)
<1> SUFFICES ASSUME TypeOK, RunTypeOK, PointInv, LastInv, [RunNext]_runVars, NEW p \in Procs,
                    Len(out'[p]) > Len(out[p]), out'[p][Len(out'[p])] = "passed"
             PROVE  pc[p] = "held" /\ disk.status = "done" /\ disk.receipt.def = def[p]
  BY DEF PassedOf
<1>1. out'[p] # out[p]
  BY DEF RunTypeOK
<1>2. PICK q \in Procs : RunPipelineAction(q) \/ ProcessEnds(q)
  BY <1>1 DEF runVars, actionVars, RunNext
<1>3. q = p
  BY <1>1, <1>2, OthersStay DEF OwnStep
<1>4. CASE SettleLockHeld(p) \/ SettleThrow(p)
  BY <1>4, EmitLast, EventLists DEF SettleLockHeld, SettleThrow
<1>5. CASE StartRun(p)
  BY <1>5, EmitLast, EventLists DEF StartRun
<1>6. CASE FinishAction(p)
  <2> PICK status \in FsmStatuses :
        /\ act[p] = status
        /\ EmitThen(p, <<IF status = "done" THEN "passed" ELSE status>>, "release", "throw")
    BY <1>6 DEF FinishAction, At
  <2>1. CASE status = "done"
    BY <2>1 DEF LastInv, LastOf, PointInv, PointOf, Working
  <2>2. CASE status # "done"
    <3>1. EmitThen(p, <<status>>, "release", "throw") /\ status \in ResultStatuses
      BY <2>2 DEF FsmStatuses, ResultStatuses
    <3>2. out'[p][Len(out'[p])] = status \/ out'[p][Len(out'[p])] = "lost"
      BY <3>1, EmitLast, EventLists
    <3> QED
      BY <2>2, <3>2 DEF FsmStatuses
  <2> QED
    BY <2>1, <2>2
<1>7. CASE ProcessEnds(p)
  BY <1>7 DEF ProcessEnds, RunTypeOK
<1>8. CASE AcquireDispatchLock(p) \/ ReleaseLock(p)
  BY <1>1, <1>8 DEF AcquireDispatchLock, ReleaseLock, actionVars
<1>9. CASE ValidateActionRequest(p) \/ AcquisitionThrows(p) \/ LoadState(p) \/ SelectAndCompile(p)
  BY <1>1, <1>9 DEF ValidateActionRequest, AcquisitionThrows, LoadState, SelectAndCompile
<1>10. CASE \/ ResolveRecoveryState(p) \/ ResolveInitialState(p) \/ ResolveReconciledResumeState(p)
            \/ ApplyTerminalCorrection(p) \/ RunStage(p) \/ FinishStages(p) \/ StagesThrow(p)
  BY <1>1, <1>10
     DEF ResolveRecoveryState, ResolveInitialState, ResolveReconciledResumeState,
         ApplyTerminalCorrection, RunStage, FinishStages, StagesThrow
<1> QED
  BY <1>2, <1>3, <1>4, <1>5, <1>6, <1>7, <1>8, <1>9, <1>10 DEF RunPipelineAction

\* When processes come one at a time, a run says "passed" only while it holds the lock
\* and the file is done under the RunDef the run has compiled.
THEOREM PassedRunsAreDurable ==
    ASSUME ~Overlap, ~MayAge
    PROVE  RunSpec => PassedIsDurable
<1>1. RunSpec => [][\A p \in Procs : PassedOf(p)]_runVars
  BY PassedStep, RunTypeCorrect, FilesAreOwn, RunsUseTheLock, TypeCorrect, RunsHoldTheirLock, PTL
     DEF RunSpec
<1> QED
  BY <1>1 DEF PassedIsDurable, PassedOf

LEMMA ShapeStep ==
    RunTypeOK /\ ValidInv /\ LastInv /\ [RunNext]_runVars => KeptShape
<1> SUFFICES ASSUME RunTypeOK, ValidInv, LastInv, [RunNext]_runVars,
                    disk # NoFile, disk'.def # disk.def
             PROVE  /\ Pipeline(disk'.def) = Pipeline(disk.def)
                    /\ disk.checkpoint = NoSeal /\ disk.receipt = NoSeal
                    /\ disk.archive # <<>>
  BY DEF KeptShape
<1>1. PICK p \in Procs : RunPipelineAction(p) \/ ProcessEnds(p)
  BY DEF runVars, actionVars, RunNext
<1>2. act[p] \in {"resolve", "correct", "stages"} /\ LastOf(p) /\ ValidOf(p)
  BY <1>1, DiskStep DEF LastInv, ValidInv
<1>3. CASE act[p] = "resolve"
  <2>1. mem[p] = disk
    BY <1>2, <1>3 DEF LastOf
  <2>2. ReconcileState(disk).def = disk.def
    BY DEF ReconcileState, RunTypeOK, StateFileType
  <2>3. ResolveRecoveryState(p) \/ ResolveInitialState(p) \/ ResolveReconciledResumeState(p)
    <3>1. ~ProcessEnds(p)
      BY DEF ProcessEnds
    <3>2. ~(ApplyTerminalCorrection(p) \/ RunStage(p) \/ FinishStages(p) \/ StagesThrow(p))
      BY <1>3, StageFacts
    <3>3. ~(AcquireDispatchLock(p) \/ ReleaseLock(p) \/ ValidateActionRequest(p)
              \/ AcquisitionThrows(p) \/ LoadState(p) \/ SelectAndCompile(p))
      BY DEF AcquireDispatchLock, ReleaseLock, ValidateActionRequest, AcquisitionThrows,
             LoadState, SelectAndCompile, actionVars
    <3>4. ~(SettleLockHeld(p) \/ StartRun(p) \/ FinishAction(p) \/ SettleThrow(p))
      BY DEF SettleLockHeld, StartRun, FinishAction, SettleThrow
    <3> QED
      BY <1>1, <3>1, <3>2, <3>3, <3>4 DEF RunPipelineAction
  <2>4. disk' # disk
    OBVIOUS
  <2>5. ~ResolveRecoveryState(p) /\ ~ResolveInitialState(p)
    BY <2>1, <2>4 DEF ResolveRecoveryState, ResolveInitialState, Throw
  <2>6. Save(p, ReconcileState(disk), "stages")
    BY <2>1, <2>3, <2>4, <2>5 DEF ResolveReconciledResumeState, Throw
  <2> QED
    BY <2>2, <2>4, <2>6, SaveFacts
<1>4. CASE act[p] \in {"correct", "stages"}
  <2>1. ApplyTerminalCorrection(p) \/ RunStage(p) \/ FinishStages(p) \/ StagesThrow(p)
    <3>1. ~ProcessEnds(p)
      BY DEF ProcessEnds
    <3>2. ~(ResolveRecoveryState(p) \/ ResolveInitialState(p) \/ ResolveReconciledResumeState(p))
      BY <1>4 DEF ResolveRecoveryState, ResolveInitialState, ResolveReconciledResumeState, At
    <3>3. ~(AcquireDispatchLock(p) \/ ReleaseLock(p) \/ ValidateActionRequest(p)
              \/ AcquisitionThrows(p) \/ LoadState(p) \/ SelectAndCompile(p))
      BY DEF AcquireDispatchLock, ReleaseLock, ValidateActionRequest, AcquisitionThrows,
             LoadState, SelectAndCompile, actionVars
    <3>4. ~(SettleLockHeld(p) \/ StartRun(p) \/ FinishAction(p) \/ SettleThrow(p))
      BY DEF SettleLockHeld, StartRun, FinishAction, SettleThrow
    <3> QED
      BY <1>1, <3>1, <3>2, <3>3, <3>4 DEF RunPipelineAction
  <2>2. PICK st, point : Save(p, st, point) /\ st.def = mem[p].def
    BY <2>1, StageFacts
  <2>3. disk'.def = mem[p].def
    BY <2>2, SaveFacts
  <2>4. /\ EqualExceptTimeouts(disk.def, mem[p].def)
        /\ disk.checkpoint = NoSeal /\ disk.receipt = NoSeal /\ disk.archive # <<>>
    BY <1>2, <1>4, <2>3 DEF LastOf
  <2>5. disk.def \in Defs /\ mem[p].def \in Defs
    BY DEF RunTypeOK, StateFileType
  <2> QED
    BY <2>3, <2>4, <2>5, SamePipeline
<1> QED
  BY <1>2, <1>3, <1>4

\* When processes come one at a time, a file keeps its pipeline, and its timeouts
\* change only while no approval stands, in the recovery that has superseded one.
THEOREM ShapesAreKept ==
    ASSUME ~Overlap, ~MayAge
    PROVE  RunSpec => ShapeIsKept
<1>1. RunSpec => [][KeptShape]_runVars
  BY ShapeStep, RunTypeCorrect, FilesAreOwn, ValidInvariant, PTL DEF RunSpec
<1> QED
  BY <1>1 DEF ShapeIsKept, KeptShape

\* A run is turned away only while another process is alive that had the lock.
THEOREM RunRefusalsAreJustified ==
    ASSUME ~Overlap
    PROVE  RunSpec => RefusalIsJustified
  BY RunsUseTheLock, RefusalsAreJustified, PTL
=============================================================================
