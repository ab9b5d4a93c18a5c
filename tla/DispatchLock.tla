---------------------------- MODULE DispatchLock ----------------------------
(***************************************************************************)
(* The per-story dispatch lock (state/dispatch-lock.ts): a directory made  *)
(* with mkdir, with a file naming its holder inside.  Several runner       *)
(* processes compete for it, each for one dispatch; every await is a step  *)
(* of its own, and a process may be killed at any of them.                 *)
(*                                                                         *)
(* A process stands for its pid and run id.  "old" says that the           *)
(* startedAt of a holder lies staleMs (six hours by default) in the past.  *)
(*                                                                         *)
(* An operator whose name is that of the one below it with a suffix is a   *)
(* plausible bug of it; the runs notice each of them (PROJECT.json).       *)
(***************************************************************************)
EXTENDS Integers, FiniteSets

CONSTANTS
    Procs,       \* the runner processes
    Overlap,     \* may a process start to acquire while another one is at it?
    MayAge       \* may a holder live longer than staleMs?

\* Contents of the info file: who holds the lock, nothing, or a torn write.
NoInfo    == "no info"
Malformed == "malformed"

ASSUME DispatchLockAssumption ==
    /\ Overlap \in BOOLEAN /\ MayAge \in BOOLEAN
    /\ NoInfo \notin Procs /\ Malformed \notin Procs

VARIABLES
    dir,      \* does the lock directory exist?
    info,     \* the info file in it
    pc,       \* the await each process is suspended at
    saw,      \* the holder each process has read
    then,     \* where each process goes on when its rm is over
    alive,    \* would kill(pid, 0) find the process?
    old       \* has the process' lock outlived staleMs?

vars == <<dir, info, pc, saw, then, alive, old>>

Acquiring == {"read", "check", "second", "write"}
Removing  == {"unlink", "rmdir"}
Settled   == {"refused", "failed", "released", "dead"}
Points    == {"first", "held"} \cup Acquiring \cup Removing \cup Settled

Init ==
    /\ dir = FALSE
    /\ info = NoInfo
    /\ pc = [p \in Procs |-> "first"]
    /\ saw = [p \in Procs |-> NoInfo]
    /\ then = [p \in Procs |-> "second"]
    /\ alive = [p \in Procs |-> TRUE]
    /\ old = [p \in Procs |-> FALSE]

\* p has begun to acquire and has not got an answer yet.
Busy(p) == pc[p] \in Acquiring \/ (pc[p] \in Removing /\ then[p] # "released")

\* rm -r of the directory, then "next": the file goes first, and a directory
\* somebody has written into meanwhile stays (releaseDispatchLock swallows it).
Remove(p, next) == pc' = [pc EXCEPT ![p] = "unlink"] /\ then' = [then EXCEPT ![p] = next]

-----------------------------------------------------------------------------
(* tryCreateAndWriteLock *)

\* mkdir: EEXIST sends the first try to the reclaim and ends the second one.
Mkdir(p) ==
    /\ \/ pc[p] = "first" /\ (Overlap \/ \A q \in Procs : ~Busy(q))
       \/ pc[p] = "second"
    /\ dir' = TRUE
    /\ pc' = [pc EXCEPT ![p] = IF ~dir THEN "write"
                               ELSE IF pc[p] = "first" THEN "read" ELSE "refused"]
    /\ UNCHANGED <<info, saw, then, alive, old>>

WriteInfo(p) ==
    /\ pc[p] = "write"
    /\ dir
    /\ info' = p
    /\ pc' = [pc EXCEPT ![p] = "held"]
    /\ UNCHANGED <<dir, saw, then, alive, old>>

\* Any other error: ENOENT when the directory is gone, or an I/O failure that may
\* leave a torn file.  Whatever lock is there is removed, and the error thrown.
WriteFails(p) ==
    /\ pc[p] = "write"
    /\ info' \in IF dir THEN {info, Malformed} ELSE {info}
    /\ Remove(p, "failed")
    /\ UNCHANGED <<dir, saw, alive, old>>

-----------------------------------------------------------------------------
(* reclaimAndAcquire *)

ReadInfo(p) ==
    /\ pc[p] = "read"
    /\ saw' = [saw EXCEPT ![p] = info]
    /\ pc' = [pc EXCEPT ![p] = "check"]
    /\ UNCHANGED <<dir, info, then, alive, old>>

IsStaleAlways(holder)  == TRUE
IsStaleIfNamed(holder) == holder \in Procs /\ (~alive[holder] \/ old[holder])

\* isDispatchLockStale
IsStale(holder) == holder \in Procs => ~alive[holder] \/ old[holder]

CheckStale(p) ==
    /\ pc[p] = "check"
    /\ IF IsStale(saw[p])
       THEN Remove(p, "second")
       ELSE pc' = [pc EXCEPT ![p] = "refused"] /\ UNCHANGED then
    /\ UNCHANGED <<dir, info, saw, alive, old>>

-----------------------------------------------------------------------------
(* releaseDispatchLock: whoever calls it, and whatever lock is there *)

ReleaseForgotten(p) ==
    /\ pc[p] = "held"
    /\ pc' = [pc EXCEPT ![p] = "released"]
    /\ UNCHANGED <<dir, info, saw, then, alive, old>>

Release(p) ==
    /\ pc[p] = "held"
    /\ Remove(p, "released")
    /\ UNCHANGED <<dir, info, saw, alive, old>>

Unlink(p) ==
    /\ pc[p] = "unlink"
    /\ info' = NoInfo
    /\ pc' = [pc EXCEPT ![p] = "rmdir"]
    /\ UNCHANGED <<dir, saw, then, alive, old>>

RmdirWaits(p) ==
    /\ pc[p] = "rmdir"
    /\ info = NoInfo
    /\ dir' = FALSE
    /\ pc' = [pc EXCEPT ![p] = then[p]]
    /\ UNCHANGED <<info, saw, then, alive, old>>

Rmdir(p) ==
    /\ pc[p] = "rmdir"
    /\ dir' = (dir /\ info # NoInfo)
    /\ pc' = [pc EXCEPT ![p] = then[p]]
    /\ UNCHANGED <<info, saw, then, alive, old>>

-----------------------------------------------------------------------------
(* The environment *)

\* The process exits after its dispatch.
Exit(p) ==
    /\ pc[p] \in {"refused", "failed", "released"} /\ alive[p]
    /\ alive' = [alive EXCEPT ![p] = FALSE]
    /\ UNCHANGED <<dir, info, pc, saw, then, old>>

\* SIGKILL, or the machine goes down; a write may be torn.
Crash(p) ==
    /\ pc[p] \notin Settled
    /\ pc' = [pc EXCEPT ![p] = "dead"]
    /\ alive' = [alive EXCEPT ![p] = FALSE]
    /\ info' \in IF dir /\ pc[p] = "write" THEN {info, Malformed} ELSE {info}
    /\ UNCHANGED <<dir, saw, then, old>>

Age(p) ==
    /\ MayAge
    /\ pc[p] = "held" /\ ~old[p]
    /\ old' = [old EXCEPT ![p] = TRUE]
    /\ UNCHANGED <<dir, info, pc, saw, then, alive>>

-----------------------------------------------------------------------------
\* What the code does once it has been started: every call but the dispatch
\* itself ends.
Acquire(p) ==
    Mkdir(p) \/ WriteInfo(p) \/ WriteFails(p) \/ ReadInfo(p) \/ CheckStale(p)
        \/ Unlink(p) \/ Rmdir(p)

Next == \E p \in Procs : Acquire(p) \/ Release(p) \/ Exit(p) \/ Crash(p) \/ Age(p)

Spec == Init /\ [][Next]_vars

\* Local file operations of a process that is running come back.
FairSpec == Spec /\ \A p \in Procs : WF_vars(Acquire(p))

-----------------------------------------------------------------------------
\* Every variable has its type, and there is no info file without a directory:
\* a removal takes both or leaves both.
TypeOK ==
    /\ dir \in BOOLEAN
    /\ info \in Procs \cup {NoInfo, Malformed}
    /\ info # NoInfo => dir
    /\ pc \in [Procs -> Points]
    /\ saw \in [Procs -> Procs \cup {NoInfo, Malformed}]
    /\ then \in [Procs -> {"second", "failed", "released"}]
    /\ alive \in [Procs -> BOOLEAN]
    /\ old \in [Procs -> BOOLEAN]

\* At most one process dispatches the story ("A lock handle, or undefined when
\* another live dispatch holds it.").
MutualExclusion ==
    \A p, q \in Procs : pc[p] = "held" /\ pc[q] = "held" => p = q

\* A lock that does not count as stale names a process that holds it or is
\* giving it back: nothing an ended dispatch left behind blocks the next one.
FreshLockIsHeld ==
    info \in Procs /\ ~IsStale(info) => pc[info] \in {"held", "unlink"}

\* A dispatch is turned away only while another process is alive that had the lock.
RefusalIsJustified ==
    [][\A p \in Procs :
         pc[p] # "refused" /\ pc'[p] = "refused" =>
           \E q \in Procs \ {p} : alive[q] /\ pc[q] \in {"held", "unlink", "rmdir", "released"}]_vars

\* Every acquisition gets an answer, or its process is killed.
AcquisitionEnds == \A p \in Procs : Busy(p) ~> ~Busy(p)
==============================================================================
