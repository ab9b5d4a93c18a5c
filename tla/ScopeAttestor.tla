---------------------------- MODULE ScopeAttestor ----------------------------
(***************************************************************************)
(* One attestation of the worktree (actions/git-scope-attestor.ts): a      *)
(* series of git commands and file reads, some of them in parallel, while  *)
(* an editor, a fetch or another git command may change what they read.    *)
(* PipelineRunner takes the answer of an attestation in one step; this     *)
(* module says when that is justified, and what is left when it is not.    *)
(*                                                                         *)
(* A read of the repository is one instant.  What is computed from commits *)
(* (the merge base, the committed diff) cannot change and belongs to the   *)
(* read of HEAD.  The default branch is a line of numbered commits, and    *)
(* origin/HEAD keeps naming the same branch.                               *)
(***************************************************************************)
EXTENDS Naturals, Sequences

CONSTANTS
    Paths,              \* the paths of the repository
    DocPaths,           \* those isDocumentationPath accepts
    OwnPaths,           \* those below .pi/pipeline/
    Contents,           \* what the file at each path may hold; 0 is a missing file
    Alike,              \* the contents <<old, new>> similar enough for git to see a rename
    BaseTrees,          \* the trees of the commits of the default branch
    MaxEdits,           \* bound: changes of the repository
    MaxAttestations     \* bound: attestations

Missing == 0
Bases == DOMAIN BaseTrees
Files == {files \in [Paths -> UNION {Contents[p] : p \in Paths}] :
            \A p \in Paths : files[p] \in Contents[p]}

\* What is read besides the files; a ref may be read again in the same await.
RefReads == {"branch", "local", "remote", "local again", "remote again", "head", "status"}

ASSUME AttestorAssumption ==
    /\ DocPaths \subseteq Paths /\ OwnPaths \subseteq Paths \ DocPaths
    /\ Paths \cap RefReads = {}
    /\ Contents \in [Paths -> SUBSET Nat] /\ \A p \in Paths : Missing \in Contents[p]
    /\ Alike \subseteq Nat \X Nat
    /\ \A p \in Paths : \A c \in Contents[p] \ {Missing} : <<c, c>> \in Alike
    /\ Bases = 1..Len(BaseTrees) /\ Bases # {}
    /\ \A b \in Bases : BaseTrees[b] \in Files
    /\ MaxEdits \in Nat /\ MaxAttestations \in Nat

VARIABLES
    repo,       \* the repository: refs, HEAD, index and worktree
    pc,         \* the await the attestation is suspended at; "idle" without one
    request,    \* the phase asked for and the review checkpoint to compare with
    todo,       \* the reads of this await that are still outstanding
    got,        \* the answers of the others
    obs,        \* what earlier awaits established
    result,     \* the answer of the last attestation
    edits,      \* changes of the repository so far
    seen        \* ghost: what was true of the repository during the attestation

vars == <<repo, pc, request, todo, got, obs, result, edits, seen>>

Awaits == {"branch", "identity", "stable", "head", "status", "files", "absence", "confirm"}
Answers == {"none", "rejected", "review-checkpoint", "review-invalidated", "review-base-stale",
            "final-receipt"}

\* A commit of the feature branch: the latest default commit it contains, how many
\* of its own it adds (0: it is that default commit) and its files.
Commit(base, own, files) == [base |-> base, own |-> own, files |-> files]

NoCheckpoint == [branch |-> 0, base |-> 0, reviewed |-> <<>>]
NoObservation == [branch |-> 0, base |-> 0, head |-> Commit(0, 0, <<>>), porcelain |-> <<>>,
                  files |-> <<>>]

-----------------------------------------------------------------------------
(* git, as the attestor uses it *)

\* The porcelain codes of a path: index against HEAD, worktree against index.  A
\* path taken out of the index and still there has two entries.
StatusCodes(head, index, work) ==
    IF index = Missing
    THEN (IF head # Missing THEN {"D "} ELSE {}) \cup (IF work # Missing THEN {"??"} ELSE {})
    ELSE LET Code(gone, dirty, same) == IF work = Missing THEN gone
                                        ELSE IF work # index THEN dirty ELSE same
         IN  IF head = Missing THEN Code({"AD"}, {"AM"}, {"A "})
             ELSE IF head # index THEN Code({"MD"}, {"MM"}, {"M "})
             ELSE Code({" D"}, {" M"}, {})

\* The status is asked for without --no-renames: a staged deletion and a staged
\* addition of alike contents make one record, a rename.
IsRename(from, to) ==
    /\ repo.head.files[from] # Missing /\ repo.index[from] = Missing
    /\ repo.head.files[to] = Missing /\ repo.index[to] # Missing
    /\ <<repo.head.files[from], repo.index[to]>> \in Alike

IsRenamed(p) == \E q \in Paths : IsRename(p, q) \/ IsRename(q, p)

\* The record of a rename stands at both of its paths.  What it says of the
\* worktree, and which of several alike paths git pairs, is left out: no record of
\* that kind is accepted.
Porcelain ==
    [p \in Paths |-> IF IsRenamed(p) THEN {"R "}
                     ELSE StatusCodes(repo.head.files[p], repo.index[p], repo.work[p])]

MergeBase(base, head) == IF base < head.base THEN base ELSE head.base

\* The paths the feature branch has committed since its merge base.
CommittedPaths(base, head) ==
    {p \in Paths : BaseTrees[MergeBase(base, head)][p] # head.files[p]}

Synchronized == IF repo.local = repo.remote THEN {repo.local} ELSE {}

-----------------------------------------------------------------------------
(* What an observation makes of the answers *)

PresentCodes == {" M", "M ", "MM", "??", "A ", "AM"}
AbsentCodes  == {"D ", " D"}

\* parseChangedPaths: one entry per path, with a code it knows; a rename has none.
IsSupportedPorcelain(porcelain) ==
    \A p \in Paths : \/ porcelain[p] = {}
                     \/ \E code \in PresentCodes \cup AbsentCodes : porcelain[p] = {code}

\* mergePathObservations: the paths in scope; a dirty path is what the worktree
\* makes of it, a committed one what HEAD has.
ScopePaths(base, head, porcelain) ==
    (CommittedPaths(base, head) \cup {p \in Paths : porcelain[p] # {}}) \ OwnPaths

IsListedAbsentCommittedFirst(p, head, porcelain) ==
    IF p \in CommittedPaths(obs.base, head) THEN head.files[p] = Missing
    ELSE porcelain[p] \subseteq AbsentCodes

IsListedAbsent(p, head, porcelain) ==
    IF porcelain[p] = {} THEN head.files[p] = Missing ELSE porcelain[p] \subseteq AbsentCodes

ListedPaths == ScopePaths(obs.base, obs.head, obs.porcelain)
ListedAbsent == {p \in ListedPaths : IsListedAbsent(p, obs.head, obs.porcelain)}

Without(files, paths) == [p \in DOMAIN files \ paths |-> files[p]]

ReviewedOf(files) == Without(files, DocPaths)

-----------------------------------------------------------------------------
(* Reading *)

\* What a read returns now; a path is read with readBytes.
Answer(read) ==
    CASE read = "branch" -> repo.branch
      [] read \in {"local", "local again"} -> repo.local
      [] read \in {"remote", "remote again"} -> repo.remote
      [] read = "head" -> repo.head
      [] read = "status" -> Porcelain
      [] OTHER -> repo.work[read]

\* The attestation goes on to its next await.
Await(point, reads) ==
    /\ pc' = point
    /\ todo' = reads
    /\ got' = <<>>

\* An attestation ends with an answer; a throw anywhere in it is "rejected".
Conclude(answer) ==
    /\ Await("idle", {})
    /\ result' = answer
    /\ UNCHANGED obs

Reject == Conclude("rejected")

RequestAttestation ==
    /\ pc = "idle"
    /\ request.count < MaxAttestations
    /\ \E phase \in {"review", "final"} :
         request' = [request EXCEPT !.phase = phase, !.count = @ + 1]
    /\ Await("branch", {"branch"})
    /\ obs' = NoObservation
    /\ result' = "none"
    /\ seen' = [synced |-> Synchronized, since |-> edits, head |-> repo.head, changed |-> {},
                settled |-> FALSE]
    /\ UNCHANGED <<repo, edits>>

\* The changed paths of the repository as it is, whatever was read of it.
ChangedNow == ScopePaths(obs.base, repo.head, Porcelain)

\* One of the reads this await is for returns.
Read ==
    /\ \E read \in todo :
         /\ todo' = todo \ {read}
         /\ got' = [x \in DOMAIN got \cup {read} |->
                     IF x = read THEN Answer(read) ELSE got[x]]
         /\ seen' = IF pc = "status"
                    THEN [seen EXCEPT !.head = repo.head, !.changed = ChangedNow]
                    ELSE seen
    /\ UNCHANGED <<repo, pc, request, obs, result, edits>>

\* The await is over: all of its reads have returned.
Returned(point) == pc = point /\ todo = {}

ReadBranch ==
    /\ Returned("branch")
    /\ obs' = [obs EXCEPT !.branch = got["branch"]]
    /\ Await("identity", {"local", "remote"})
    /\ UNCHANGED <<repo, request, result, edits, seen>>

\* readIdentity: both refs have to name the same commit.
ReadIdentity ==
    /\ Returned("identity")
    /\ IF got["local"] = got["remote"]
       THEN /\ obs' = [obs EXCEPT !.base = got["local"]]
            /\ Await("stable", {"local", "remote"})
            /\ UNCHANGED result
       ELSE Reject
    /\ UNCHANGED <<repo, request, edits, seen>>

IsStableIdentityUnchecked(local, remote, base) == TRUE

IsStableIdentity(local, remote, base) == local = base /\ remote = base

\* requireStableIdentity: and to name it still.
RequireStableIdentity ==
    /\ Returned("stable")
    /\ IF IsStableIdentity(got["local"], got["remote"], obs.base)
       THEN Await("head", {"head"}) /\ UNCHANGED <<obs, result>>
       ELSE Reject
    /\ UNCHANGED <<repo, request, edits, seen>>

\* observeCommittedScope
ObserveCommittedScope ==
    /\ Returned("head")
    /\ obs' = [obs EXCEPT !.head = got["head"]]
    /\ Await("status", {"status"})
    /\ UNCHANGED <<repo, request, result, edits, seen>>

ListScope ==
    /\ Returned("status")
    /\ IF IsSupportedPorcelain(got["status"])
       THEN /\ obs' = [obs EXCEPT !.porcelain = got["status"]]
            /\ Await("files", ScopePaths(obs.base, obs.head, got["status"]))
            /\ UNCHANGED result
       ELSE Reject
    /\ UNCHANGED <<repo, request, edits, seen>>

-----------------------------------------------------------------------------
(* Answering *)

ObservedCheckpoint(files) ==
    [branch |-> obs.branch, base |-> obs.base, reviewed |-> ReviewedOf(files)]

\* finalScopeResult up to the confirmation a stale base needs.
AnswerFinal(checkpoint, files) ==
    IF checkpoint.branch # obs.branch THEN Conclude("rejected") /\ UNCHANGED seen
    ELSE IF checkpoint.base = obs.base
         THEN /\ Conclude(IF checkpoint.reviewed = ReviewedOf(files)
                          THEN "final-receipt" ELSE "review-invalidated")
              /\ UNCHANGED seen
    ELSE IF MergeBase(obs.base, obs.head) # obs.base
         THEN Conclude("rejected") /\ UNCHANGED seen
    ELSE /\ Await("confirm", {"branch", "local", "remote", "head", "status"})
         /\ seen' = [seen EXCEPT !.settled =
                        /\ repo.branch = obs.branch /\ Synchronized = {obs.base}
                        /\ repo.head = obs.head]
         /\ UNCHANGED <<obs, result>>

AnswerRequest(files) ==
    IF request.phase = "review"
    THEN /\ Conclude("review-checkpoint")
         /\ request' = [request EXCEPT !.checkpoint = ObservedCheckpoint(files)]
         /\ UNCHANGED seen
    ELSE /\ AnswerFinal(IF request.checkpoint = NoCheckpoint
                        THEN ObservedCheckpoint(files) ELSE request.checkpoint, files)
         /\ UNCHANGED request

\* observeRepositoryFile: a present path has to be there, an absent one not; an
\* observation without absent paths is not confirmed.
FilesRead ==
    /\ Returned("files")
    /\ IF \E p \in ListedPaths : (got[p] = Missing) # (p \in ListedAbsent)
       THEN Reject /\ UNCHANGED <<request, seen>>
       ELSE IF ListedAbsent # {}
       THEN /\ obs' = [obs EXCEPT !.files = got]
            /\ Await("absence", {"head", "status"})
            /\ UNCHANGED <<request, result, seen>>
       ELSE AnswerRequest(got)
    /\ UNCHANGED <<repo, edits>>

IsStableAbsenceStatusOnly(head, porcelain) == porcelain = obs.porcelain

IsStableAbsence(head, porcelain) == head = obs.head /\ porcelain = obs.porcelain

\* confirmStableAbsence
ConfirmStableAbsence ==
    /\ Returned("absence")
    /\ IF IsStableAbsence(got["head"], got["status"])
       THEN AnswerRequest(obs.files)
       ELSE Reject /\ UNCHANGED <<request, seen>>
    /\ UNCHANGED <<repo, edits>>

IdentityReadTwice == {"local again", "remote again"} \subseteq DOMAIN got

\* The identity of the base is read again in full, beside the other three.
ConfirmIdentity ==
    /\ pc = "confirm"
    /\ {"local", "remote"} \subseteq DOMAIN got
    /\ {"local again", "remote again"} \cap (DOMAIN got \cup todo) = {}
    /\ IF got["local"] = got["remote"]
       THEN /\ todo' = todo \cup {"local again", "remote again"}
            /\ UNCHANGED <<pc, got, obs, result>>
       ELSE Reject
    /\ UNCHANGED <<repo, request, edits, seen>>

ObservationMovedBaseOnly ==
    \/ ~IsStableIdentity(got["local again"], got["remote again"], got["local"])
    \/ got["local"] # obs.base

ObservationMoved ==
    \/ got["branch"] # obs.branch
    \/ ~IsStableIdentity(got["local again"], got["remote again"], got["local"])
    \/ got["local"] # obs.base
    \/ got["head"] # obs.head
    \/ got["status"] # obs.porcelain

\* staleBaseResult
ConfirmStaleBase ==
    /\ Returned("confirm") /\ IdentityReadTwice
    /\ IF ObservationMoved THEN Reject ELSE Conclude("review-base-stale")
    /\ UNCHANGED <<repo, request, edits, seen>>

AttestorStep ==
    \/ Read \/ ReadBranch \/ ReadIdentity \/ RequireStableIdentity \/ ObserveCommittedScope
    \/ ListScope \/ FilesRead \/ ConfirmStableAbsence \/ ConfirmIdentity \/ ConfirmStaleBase

-----------------------------------------------------------------------------
(* What may change the repository meanwhile *)

\* A change after the last attestation would be seen by none.
Change(changed) ==
    /\ edits < MaxEdits
    /\ pc # "idle" \/ request.count < MaxAttestations
    /\ changed # repo
    /\ repo' = changed
    /\ edits' = edits + 1
    /\ seen' = [seen EXCEPT !.synced =
                    @ \cup (IF repo'.local = repo'.remote THEN {repo'.local} ELSE {})]
    /\ UNCHANGED <<pc, request, todo, got, obs, result>>

EditFile == \E p \in Paths : \E c \in Contents[p] : Change([repo EXCEPT !.work[p] = c])

StageFile == \E p \in Paths : Change([repo EXCEPT !.index[p] = repo.work[p]])

CommitIndex ==
    /\ repo.index # repo.head.files
    /\ Change([repo EXCEPT !.head = Commit(@.base, @.own + 1, repo.index)])

AdvanceLocalDefault ==
    /\ repo.local + 1 \in Bases
    /\ Change([repo EXCEPT !.local = @ + 1])

AdvanceRemoteDefault ==
    /\ repo.remote + 1 \in Bases
    /\ Change([repo EXCEPT !.remote = @ + 1])

SwitchToNewBranch == Change([repo EXCEPT !.branch = @ + 1])

\* A clean branch takes the default branch in, by a fast forward or a merge.
BringUpToBase ==
    LET old == BaseTrees[repo.head.base]
        new == BaseTrees[repo.local]
        merged == [p \in Paths |-> IF repo.head.files[p] = old[p] THEN new[p]
                                   ELSE repo.head.files[p]]
    IN  /\ repo.head.base < repo.local
        /\ repo.head.files = repo.index /\ repo.index = repo.work
        /\ Change([repo EXCEPT
                     !.head = Commit(repo.local, IF @.own = 0 THEN 0 ELSE @.own + 1, merged),
                     !.index = merged, !.work = merged])

RepositoryChanges ==
    \/ EditFile \/ StageFile \/ CommitIndex \/ AdvanceLocalDefault \/ AdvanceRemoteDefault
    \/ SwitchToNewBranch \/ BringUpToBase

-----------------------------------------------------------------------------
\* A clean feature branch of no or one commit.
Init ==
    /\ \E files \in Files :
         repo = [branch |-> 1, local |-> 1, remote |-> 1,
                 head |-> Commit(1, IF files = BaseTrees[1] THEN 0 ELSE 1, files),
                 index |-> files, work |-> files]
    /\ pc = "idle"
    /\ request = [phase |-> "review", count |-> 0, checkpoint |-> NoCheckpoint]
    /\ todo = {}
    /\ got = <<>>
    /\ obs = NoObservation
    /\ result = "none"
    /\ edits = 0
    /\ seen = [synced |-> {}, since |-> 0, head |-> repo.head, changed |-> {}, settled |-> FALSE]

Next == RequestAttestation \/ AttestorStep \/ RepositoryChanges

Spec == Init /\ [][Next]_vars

-----------------------------------------------------------------------------
(* Properties *)

TypeOK ==
    /\ repo \in [branch : Nat \ {0}, local : Bases, remote : Bases, index : Files, work : Files,
                 head : [base : Bases, own : Nat, files : Files]]
    /\ pc \in {"idle"} \cup Awaits
    /\ request.phase \in {"review", "final"} /\ request.count \in 0..MaxAttestations
    /\ todo \cap DOMAIN got = {}
    /\ pc = "idle" => todo = {} /\ got = <<>>
    /\ pc = "files" => todo \cup DOMAIN got = ListedPaths
    /\ result \in Answers /\ (pc # "idle" => result = "none")
    /\ edits \in 0..MaxEdits

\* The base an attestation relies on was the local and the remote default at one
\* and the same instant of it, although the four reads are not one step
\* (actions/git-default-base.ts).
BaseWasSynchronized ==
    \/ pc \in {"head", "status", "files", "absence", "confirm"}
    \/ result \notin {"none", "rejected"}
    => obs.base \in seen.synced

\* An answer that counts a file as deleted is about one state of the repository:
\* HEAD was, when the status was taken, the commit the changes are relative to,
\* and no changed path is left out (confirmStableAbsence).
AbsentScopeIsWhole ==
    result \notin {"none", "rejected"} /\ obs.files # <<>>
    => seen.head = obs.head /\ seen.changed = DOMAIN obs.files

\* A review is sent back for a stale base only if there was an instant at which the
\* branch, the base and HEAD were all what the answer says (staleBaseResult).
StaleBaseIsReal ==
    result = "review-base-stale" => seen.settled /\ obs.base # request.checkpoint.base

\* In scope is what HEAD, the index or the worktree has changed since the merge base.
ChangedSinceBase ==
    LET old == BaseTrees[MergeBase(repo.local, repo.head)]
    IN  {p \in Paths \ OwnPaths : {old[p]} # {repo.head.files[p], repo.index[p], repo.work[p]}}

\* The codes tell the worktree's state of every path: nothing staged is a rename,
\* and a staged change does not disagree with the worktree on whether the file
\* exists.
IsUnambiguous ==
    \A p \in Paths : /\ ~IsRenamed(p)
                     /\ repo.index[p] # repo.head.files[p]
                          => (repo.index[p] = Missing) = (repo.work[p] = Missing)

ReviewedNow == [p \in ChangedSinceBase \ DocPaths |-> repo.work[p]]

\* The answer as a function of one state of the repository, in the terms of
\* PipelineRunner's FinalScopeResult.
AnswerNow ==
    IF repo.local # repo.remote \/ ~IsUnambiguous THEN "rejected"
    ELSE IF request.phase = "review" THEN "review-checkpoint"
    ELSE IF request.checkpoint = NoCheckpoint THEN "final-receipt"
    ELSE IF request.checkpoint.branch # repo.branch THEN "rejected"
    ELSE IF request.checkpoint.base = repo.local
         THEN IF request.checkpoint.reviewed = ReviewedNow
              THEN "final-receipt" ELSE "review-invalidated"
    ELSE IF repo.head.base < repo.local THEN "rejected" ELSE "review-base-stale"

\* Nothing has changed since this attestation was asked for.
IsQuiet == edits = seen.since

\* In a repository nobody touches an attestation answers what the one-step
\* attestor of PipelineRunner answers, and a checkpoint holds the changed code.
QuietAnswer ==
    result # "none" /\ IsQuiet
    => /\ result = AnswerNow
       /\ result = "review-checkpoint" => request.checkpoint.reviewed = ReviewedNow

\* "a clean worktree cannot hide post-review committed drift" (README.md:70): a
\* receipt compares every changed code path there was when the status was taken.
ReceiptCoversScope ==
    result = "final-receipt" /\ request.checkpoint # NoCheckpoint
    => seen.changed \ DocPaths = DOMAIN request.checkpoint.reviewed
=============================================================================
