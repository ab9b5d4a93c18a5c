------------------------- MODULE ScopeAttestorProofs -------------------------
(***************************************************************************)
(* What an attestation may rely on, for every repository, any number of    *)
(* changes at any instant and any number of attestations.                  *)
(*                                                                         *)
(* The reads are no snapshot.  What makes their answers agree with one     *)
(* instant is that refs and HEAD only move forward: a ref that is read     *)
(* twice with the same answer has not moved in between.                    *)
(***************************************************************************)
EXTENDS ScopeAttestor, TLAPS

\* Before, or the same commit: no commit of the branch comes back.
HeadLeq(g, h) == g = h \/ g.base < h.base \/ (g.base = h.base /\ g.own < h.own)

HeadType == [base: Bases, own: Nat, files: Files]

RepoLeq(r, s) ==
    /\ r.branch <= s.branch /\ r.local <= s.local /\ r.remote <= s.remote
    /\ HeadLeq(r.head, s.head)

Started  == Awaits \ {"branch"}
HasBase  == Started \ {"identity"}
IsBased  == HasBase \ {"stable"}
HasHead  == IsBased \ {"head"}
HasScope == HasHead \ {"status"}

Shapes ==
    /\ obs = [branch |-> obs.branch, base |-> obs.base, head |-> obs.head,
              porcelain |-> obs.porcelain, files |-> obs.files]
    /\ seen = [synced |-> seen.synced, since |-> seen.since, head |-> seen.head,
               changed |-> seen.changed, settled |-> seen.settled]
    /\ request = [phase |-> request.phase, count |-> request.count,
                  checkpoint |-> request.checkpoint]
    /\ got = [x \in DOMAIN got |-> got[x]]

ReadsInv ==
    /\ todo \cap DOMAIN got = {}
    /\ pc = "idle" => todo = {} /\ got = <<>>
    /\ pc \in Awaits => result = "none"
    /\ pc = "branch" => todo \cup DOMAIN got = {"branch"}
    /\ pc \in {"identity", "stable"} => todo \cup DOMAIN got = {"local", "remote"}
    /\ pc = "head" => todo \cup DOMAIN got = {"head"}
    /\ pc = "status" => todo \cup DOMAIN got = {"status"}
    /\ pc = "files" => todo \cup DOMAIN got = ListedPaths
    /\ pc = "absence" => todo \cup DOMAIN got = {"head", "status"}
    /\ pc = "confirm" =>
         \/ todo \cup DOMAIN got = {"branch", "local", "remote", "head", "status"}
         \/ /\ todo \cup DOMAIN got = RefReads
            /\ {"local", "remote"} \subseteq DOMAIN got /\ got["local"] = got["remote"]

\* What was read lies behind, or is as it was.
OrderInv ==
    /\ "branch" \in DOMAIN got => got["branch"] \in Nat /\ got["branch"] <= repo.branch
    /\ "local" \in DOMAIN got => got["local"] \in Bases /\ got["local"] <= repo.local
    /\ "remote" \in DOMAIN got => got["remote"] \in Bases /\ got["remote"] <= repo.remote
    /\ "head" \in DOMAIN got => got["head"] \in HeadType /\ HeadLeq(got["head"], repo.head)
    /\ pc \in Started => obs.branch \in Nat /\ obs.branch <= repo.branch
    /\ pc \in HasBase =>
         obs.base \in Bases /\ obs.base <= repo.local /\ obs.base <= repo.remote
    /\ pc \in HasHead => obs.head \in HeadType /\ HeadLeq(obs.head, repo.head)

\* A read has returned v, or would if it returned now.
IsStill(read, v) == IF read \in DOMAIN got THEN got[read] = v ELSE Answer(read) = v

SyncInv ==
    /\ pc \in Awaits => Synchronized \subseteq seen.synced
    /\ pc = "stable" /\ IsStill("local", obs.base) /\ IsStill("remote", obs.base)
         => obs.base \in seen.synced
    /\ BaseWasSynchronized

SettledInv ==
    /\ pc = "confirm" =>
         /\ obs.base # request.checkpoint.base
         /\ IsStill("branch", obs.branch) /\ IsStill("local", obs.base)
            /\ IsStill("remote", obs.base) /\ IsStill("head", obs.head) => seen.settled
    /\ StaleBaseIsReal

WholeInv ==
    /\ pc = "status" /\ "status" \in DOMAIN got =>
         /\ HeadLeq(obs.head, seen.head) /\ HeadLeq(seen.head, repo.head)
         /\ seen.head \in HeadType
         /\ seen.changed = ScopePaths(obs.base, seen.head, got["status"])
    /\ pc \in HasScope =>
         /\ HeadLeq(obs.head, seen.head) /\ HeadLeq(seen.head, repo.head)
         /\ seen.head \in HeadType
         /\ seen.changed = ScopePaths(obs.base, seen.head, obs.porcelain)
    /\ pc \in Awaits \ {"absence", "confirm"} => obs.files = <<>>
    /\ pc = "absence" =>
         /\ DOMAIN obs.files = ListedPaths
         /\ "head" \in DOMAIN got => HeadLeq(seen.head, got["head"])
    /\ pc = "confirm" /\ obs.files # <<>> =>
         seen.head = obs.head /\ seen.changed = DOMAIN obs.files
    /\ AbsentScopeIsWhole

QuietInv ==
    /\ seen.since \in Nat /\ seen.since <= edits
    /\ IsQuiet =>
         /\ \A x \in DOMAIN got : got[x] = Answer(x)
         /\ pc \in Started => obs.branch = repo.branch
         /\ pc \in HasBase => obs.base = repo.local /\ repo.local = repo.remote
         /\ pc \in HasHead => obs.head = repo.head
         /\ pc \in HasScope => obs.porcelain = Porcelain /\ IsUnambiguous
         /\ pc = "absence" => obs.files = [p \in ListedPaths |-> repo.work[p]]
         /\ pc = "confirm" => AnswerNow = "review-base-stale"
    /\ QuietAnswer

-----------------------------------------------------------------------------
(* Commits and refs move forward *)

LEMMA HeadOrder ==
    ASSUME NEW g \in HeadType, NEW h \in HeadType, NEW k \in HeadType
    PROVE  /\ HeadLeq(g, g)
           /\ HeadLeq(g, h) /\ HeadLeq(h, k) => HeadLeq(g, k)
           /\ HeadLeq(g, h) /\ HeadLeq(h, g) => g = h
<1> USE AttestorAssumption
<1>1. /\ g.base \in Nat /\ h.base \in Nat /\ k.base \in Nat
      /\ g.own \in Nat /\ h.own \in Nat /\ k.own \in Nat
  BY DEF HeadType
<1> QED
  BY <1>1 DEF HeadLeq

RepoType == [branch: Nat \ {0}, local: Bases, remote: Bases, index: Files, work: Files,
             head: HeadType]

\* A repository with one field changed.
LEMMA RepoFields ==
    ASSUME NEW r \in RepoType
    PROVE  /\ r.branch \in Nat \ {0} /\ r.local \in Nat /\ r.remote \in Nat
           /\ r.local \in Bases /\ r.remote \in Bases
           /\ r.index \in Files /\ r.work \in Files /\ r.head \in HeadType
           /\ r.head.base \in Bases /\ r.head.own \in Nat /\ r.head.files \in Files
           /\ r.head.base \in Nat
           /\ RepoLeq(r, r)
           /\ \A f \in Files : /\ [r EXCEPT !.index = f] \in RepoType
                               /\ RepoLeq(r, [r EXCEPT !.index = f])
                               /\ [r EXCEPT !.work = f] \in RepoType
                               /\ RepoLeq(r, [r EXCEPT !.work = f])
           /\ \A h \in HeadType : HeadLeq(r.head, h) =>
                               /\ [r EXCEPT !.head = h] \in RepoType
                               /\ RepoLeq(r, [r EXCEPT !.head = h])
           /\ r.local + 1 \in Bases =>
                /\ [r EXCEPT !.local = r.local + 1] \in RepoType
                /\ RepoLeq(r, [r EXCEPT !.local = r.local + 1])
           /\ r.remote + 1 \in Bases =>
                /\ [r EXCEPT !.remote = r.remote + 1] \in RepoType
                /\ RepoLeq(r, [r EXCEPT !.remote = r.remote + 1])
           /\ [r EXCEPT !.branch = r.branch + 1] \in RepoType
           /\ RepoLeq(r, [r EXCEPT !.branch = r.branch + 1])
<1>1. /\ r.branch \in Nat \ {0} /\ r.local \in Bases /\ r.remote \in Bases
      /\ r.index \in Files /\ r.work \in Files /\ r.head \in HeadType
  BY DEF RepoType
<1>2. r.head.base \in Bases /\ r.head.own \in Nat /\ r.head.files \in Files
  BY <1>1 DEF HeadType
<1>3. \A b \in Bases : b \in Nat
  BY AttestorAssumption
<1>4. r.local \in Nat /\ r.remote \in Nat /\ r.head.base \in Nat
  BY <1>1, <1>2, <1>3
<1>5. HeadLeq(r.head, r.head)
  BY DEF HeadLeq
<1> HIDE DEF HeadLeq
<1>6. RepoLeq(r, r)
  BY <1>1, <1>4, <1>5 DEF RepoLeq
<1>7. \A f \in Files : [r EXCEPT !.index = f] \in RepoType /\ [r EXCEPT !.work = f] \in RepoType
  BY DEF RepoType
<1>8. \A f \in Files : /\ RepoLeq(r, [r EXCEPT !.index = f])
                      /\ RepoLeq(r, [r EXCEPT !.work = f])
  BY <1>1, <1>4, <1>5 DEF RepoLeq
<1>9. \A h \in HeadType : [r EXCEPT !.head = h] \in RepoType
  BY DEF RepoType
<1>10. \A h \in HeadType : HeadLeq(r.head, h) => RepoLeq(r, [r EXCEPT !.head = h])
  BY <1>1, <1>4 DEF RepoLeq
<1>11. r.local + 1 \in Bases =>
         /\ [r EXCEPT !.local = r.local + 1] \in RepoType
         /\ RepoLeq(r, [r EXCEPT !.local = r.local + 1])
  BY <1>1, <1>4, <1>5 DEF RepoLeq, RepoType
<1>12. r.remote + 1 \in Bases =>
         /\ [r EXCEPT !.remote = r.remote + 1] \in RepoType
         /\ RepoLeq(r, [r EXCEPT !.remote = r.remote + 1])
  BY <1>1, <1>4, <1>5 DEF RepoLeq, RepoType
<1>13. [r EXCEPT !.branch = r.branch + 1] \in RepoType
  BY <1>1 DEF RepoType
<1>14. RepoLeq(r, [r EXCEPT !.branch = r.branch + 1])
  BY <1>1, <1>4, <1>5 DEF RepoLeq
<1>15. \A f \in Files : /\ [r EXCEPT !.index = f] \in RepoType
                        /\ RepoLeq(r, [r EXCEPT !.index = f])
                        /\ [r EXCEPT !.work = f] \in RepoType
                        /\ RepoLeq(r, [r EXCEPT !.work = f])
  BY <1>7, <1>8
<1>16. \A h \in HeadType : HeadLeq(r.head, h) =>
                        /\ [r EXCEPT !.head = h] \in RepoType
                        /\ RepoLeq(r, [r EXCEPT !.head = h])
  BY <1>9, <1>10
<1> QED
  BY <1>1, <1>2, <1>4, <1>6, <1>11, <1>12, <1>13, <1>14, <1>15, <1>16

\* Whoever changes the repository: no ref, no branch and no HEAD goes back.
LEMMA RepoMoves ==
    ASSUME TypeOK, RepositoryChanges
    PROVE  /\ repo' \in RepoType /\ RepoLeq(repo, repo')
           /\ edits' = edits + 1 /\ edits' \in 0..MaxEdits
           /\ seen' = [seen EXCEPT !.synced =
                         @ \cup (IF repo'.local = repo'.remote THEN {repo'.local} ELSE {})]
           /\ UNCHANGED <<pc, request, todo, got, obs, result>>
<1> USE AttestorAssumption
<1>1. repo \in RepoType
  BY DEF TypeOK, RepoType, HeadType
<1>0. /\ repo.local \in Nat /\ repo.remote \in Nat /\ repo.branch \in Nat
      /\ repo.head.base \in Bases /\ repo.head.base \in Nat /\ repo.head.own \in Nat
      /\ repo.local \in Bases /\ repo.index \in Files
  BY <1>1, RepoFields
<1>2. \A r : Change(r) =>
           /\ repo' = r /\ edits' = edits + 1 /\ edits' \in 0..MaxEdits
           /\ seen' = [seen EXCEPT !.synced =
                         @ \cup (IF repo'.local = repo'.remote THEN {repo'.local} ELSE {})]
           /\ UNCHANGED <<pc, request, todo, got, obs, result>>
  BY DEF Change, TypeOK
<1>3. \A f \in Files, p \in Paths : \A c \in Contents[p] : [f EXCEPT ![p] = c] \in Files
  BY DEF Files
<1>4. \A f \in Files, p \in Paths : f[p] \in Contents[p]
  BY DEF Files
<1> SUFFICES \E r \in RepoType : Change(r) /\ RepoLeq(repo, r)
  BY <1>2
<1>5. CASE EditFile
  <2> PICK p \in Paths : \E c \in Contents[p] : Change([repo EXCEPT !.work[p] = c])
    BY <1>5 DEF EditFile
  <2> PICK c \in Contents[p] : Change([repo EXCEPT !.work[p] = c])
    OBVIOUS
  <2> DEFINE r == [repo EXCEPT !.work = [repo.work EXCEPT ![p] = c]]
  <2>1. [repo.work EXCEPT ![p] = c] \in Files
    BY <1>1, <1>3, RepoFields
  <2>2. r \in RepoType /\ RepoLeq(repo, r)
    BY <1>1, <2>1, RepoFields
  <2>3. Change(r)
    OBVIOUS
  <2> QED
    BY <2>2, <2>3
<1>6. CASE StageFile
  <2> PICK p \in Paths : Change([repo EXCEPT !.index[p] = repo.work[p]])
    BY <1>6 DEF StageFile
  <2> DEFINE r == [repo EXCEPT !.index = [repo.index EXCEPT ![p] = repo.work[p]]]
  <2>1. [repo.index EXCEPT ![p] = repo.work[p]] \in Files
    BY <1>1, <1>3, <1>4, RepoFields
  <2>2. r \in RepoType /\ RepoLeq(repo, r)
    BY <1>1, <2>1, RepoFields
  <2>3. Change(r)
    OBVIOUS
  <2> QED
    BY <2>2, <2>3
<1>7. CASE CommitIndex
  <2> DEFINE c == Commit(repo.head.base, repo.head.own + 1, repo.index)
             r == [repo EXCEPT !.head = c]
  <2>1. Change(r)
    BY <1>7 DEF CommitIndex
  <2>2. c \in HeadType /\ HeadLeq(repo.head, c)
    BY <1>0 DEF Commit, HeadType, HeadLeq
  <2> HIDE DEF c
  <2>3. r \in RepoType /\ RepoLeq(repo, r)
    BY <1>1, <2>2, RepoFields
  <2> QED
    BY <2>1, <2>3
<1>8. CASE AdvanceLocalDefault \/ AdvanceRemoteDefault
  <2> DEFINE l == [repo EXCEPT !.local = repo.local + 1]
             r == [repo EXCEPT !.remote = repo.remote + 1]
  <2>1. \/ Change(l) /\ repo.local + 1 \in Bases
        \/ Change(r) /\ repo.remote + 1 \in Bases
    BY <1>8 DEF AdvanceLocalDefault, AdvanceRemoteDefault
  <2>a. repo.local <= repo.local + 1 /\ repo.remote <= repo.remote + 1
    BY <1>0
  <2>2. repo.local + 1 \in Bases => l \in RepoType /\ RepoLeq(repo, l)
    BY <1>1, <2>a, RepoFields, Zenon
  <2>3. repo.remote + 1 \in Bases => r \in RepoType /\ RepoLeq(repo, r)
    BY <1>1, <2>a, RepoFields, Zenon
  <2> QED
    BY <2>1, <2>2, <2>3
<1>9. CASE SwitchToNewBranch
  <2> DEFINE r == [repo EXCEPT !.branch = repo.branch + 1]
  <2>1. Change(r)
    BY <1>9 DEF SwitchToNewBranch
  <2>2. r \in RepoType /\ RepoLeq(repo, r)
    BY <1>1, RepoFields
  <2> QED
    BY <2>1, <2>2
<1>10. CASE BringUpToBase
  <2> DEFINE old == BaseTrees[repo.head.base]
             new == BaseTrees[repo.local]
             merged == [p \in Paths |-> IF repo.head.files[p] = old[p] THEN new[p]
                                        ELSE repo.head.files[p]]
             c == Commit(repo.local, IF repo.head.own = 0 THEN 0 ELSE repo.head.own + 1, merged)
             r == [repo EXCEPT !.head = c, !.index = merged, !.work = merged]
  <2>1. Change(r) /\ repo.head.base < repo.local
    BY <1>10 DEF BringUpToBase
  <2>2. merged \in Files
    <3>1. new \in Files /\ repo.head.files \in Files
      BY <1>1, RepoFields
    <3>2. \A p \in Paths : merged[p] \in Contents[p]
      BY <1>4, <3>1
    <3>3. merged \in [Paths -> UNION {Contents[p] : p \in Paths}]
      BY <3>2
    <3> HIDE DEF merged
    <3> QED
      BY <3>2, <3>3 DEF Files
  <2>3. c \in HeadType /\ HeadLeq(repo.head, c)
    <3> HIDE DEF merged
    <3> QED
      BY <1>0, <2>1, <2>2 DEF Commit, HeadType, HeadLeq
  <2>4. r \in RepoType /\ RepoLeq(repo, r)
    <3> HIDE DEF merged, c
    <3> DEFINE i == [repo EXCEPT !.index = merged]
               w == [i EXCEPT !.work = merged]
    <3>1. i \in RepoType /\ i.head = repo.head
      BY <1>1, <2>2, RepoFields DEF RepoType
    <3>2. w \in RepoType /\ w.head = repo.head
      <4> HIDE DEF i
      <4> QED BY <3>1, <2>2, RepoFields DEF RepoType
    <3>3. r = [w EXCEPT !.head = c]
      BY <1>1 DEF RepoType
    <3>4. r \in RepoType
      <4> HIDE DEF w, r
      <4> QED BY <2>3, <3>2, <3>3, RepoFields
    <3>5. r.branch = repo.branch /\ r.local = repo.local /\ r.remote = repo.remote /\ r.head = c
      BY <1>1 DEF RepoType
    <3> QED
      BY <1>1, <2>3, <3>4, <3>5, RepoFields DEF RepoLeq
  <2> QED
    BY <2>1, <2>4
<1> QED
  BY <1>5, <1>6, <1>7, <1>8, <1>9, <1>10 DEF RepositoryChanges

-----------------------------------------------------------------------------
(* The awaits and their reads *)

BaseInv == TypeOK /\ Shapes /\ ReadsInv

\* One more answer; the others stay.
LEMMA ReadFacts ==
    ASSUME BaseInv, Read
    PROVE  \E read \in todo :
             /\ read \notin DOMAIN got
             /\ todo' = todo \ {read}
             /\ DOMAIN got' = DOMAIN got \cup {read}
             /\ got'[read] = Answer(read)
             /\ \A x \in DOMAIN got : got'[x] = got[x]
             /\ got' = [x \in DOMAIN got' |-> got'[x]]
             /\ todo' \cup DOMAIN got' = todo \cup DOMAIN got
             /\ todo' \cap DOMAIN got' = {}
<1>1. PICK read \in todo :
        /\ todo' = todo \ {read}
        /\ got' = [x \in DOMAIN got \cup {read} |-> IF x = read THEN Answer(read) ELSE got[x]]
  BY DEF Read
<1>2. read \notin DOMAIN got
  BY <1>1 DEF BaseInv, ReadsInv
<1>4. DOMAIN got' = DOMAIN got \cup {read}
  BY <1>1
<1>5. got'[read] = Answer(read) /\ \A x \in DOMAIN got : got'[x] = got[x]
  BY <1>1, <1>2
<1>6. got' = [x \in DOMAIN got' |-> got'[x]]
  BY <1>1, <1>4
<1>7. todo' \cup DOMAIN got' = todo \cup DOMAIN got /\ todo' \cap DOMAIN got' = {}
  BY <1>1, <1>2, <1>4 DEF BaseInv, ReadsInv
<1> QED
  BY <1>1, <1>2, <1>4, <1>5, <1>6, <1>7

\* An attestation that ends, or goes to confirm a stale base.
LEMMA AnswerFacts ==
    ASSUME NEW files, AnswerRequest(files), TypeOK
    PROVE  /\ \/ /\ pc' = "idle" /\ todo' = {} /\ result' \in Answers /\ result' # "review-base-stale"
                 /\ UNCHANGED seen
              \/ /\ pc' = "confirm" /\ UNCHANGED <<result, request>>
                 /\ todo' = {"branch", "local", "remote", "head", "status"}
                 /\ request.phase = "final"
                 /\ request.checkpoint # NoCheckpoint
                 /\ request.checkpoint.branch = obs.branch
                 /\ request.checkpoint.base # obs.base
                 /\ MergeBase(obs.base, obs.head) = obs.base
                 /\ seen' = [seen EXCEPT !.settled =
                               /\ repo.branch = obs.branch /\ Synchronized = {obs.base}
                               /\ repo.head = obs.head]
           /\ got' = <<>> /\ UNCHANGED obs
           /\ \/ UNCHANGED request
              \/ request' = [request EXCEPT !.checkpoint = ObservedCheckpoint(files)]
<1>1. CASE request.phase = "review"
  BY <1>1 DEF AnswerRequest, Conclude, Await, Answers
<1>2. CASE request.phase # "review"
  <2> DEFINE c == IF request.checkpoint = NoCheckpoint
                  THEN ObservedCheckpoint(files) ELSE request.checkpoint
  <2>1. AnswerFinal(c, files) /\ UNCHANGED request
    BY <1>2 DEF AnswerRequest
  <2>2. CASE c.branch # obs.branch \/ c.base = obs.base \/ MergeBase(obs.base, obs.head) # obs.base
    <3>1. \E a \in Answers \ {"review-base-stale"} : Conclude(a) /\ UNCHANGED seen
      <4> HIDE DEF c
      <4> QED BY <2>1, <2>2 DEF AnswerFinal, Answers
    <3> QED
      BY <2>1, <3>1 DEF Conclude, Await, Answers
  <2>3. CASE c.branch = obs.branch /\ c.base # obs.base /\ MergeBase(obs.base, obs.head) = obs.base
    <3>1. request.checkpoint # NoCheckpoint /\ c = request.checkpoint
      BY <2>3 DEF ObservedCheckpoint
    <3>2. request.phase = "final"
      BY <1>2 DEF TypeOK
    <3> HIDE DEF c
    <3> QED
      BY <2>1, <2>3, <3>1, <3>2 DEF AnswerFinal, Await
  <2> QED
    BY <2>2, <2>3
<1> QED
  BY <1>1, <1>2

\* Nothing is read twice, and an await waits for the reads its code asks for.
LEMMA BaseHolds == Spec => []BaseInv
<1> USE AttestorAssumption
<1>1. Init => BaseInv
  <2> SUFFICES ASSUME Init PROVE BaseInv
    OBVIOUS
  <2>1. TypeOK
    <3>1. PICK files \in Files :
            repo = [branch |-> 1, local |-> 1, remote |-> 1,
                    head |-> Commit(1, IF files = BaseTrees[1] THEN 0 ELSE 1, files),
                    index |-> files, work |-> files]
      BY DEF Init
    <3>2. 1 \in Bases
      BY DEF Bases
    <3> QED
      BY <3>1, <3>2 DEF Init, TypeOK, Answers, Commit
  <2>2. Shapes
    BY DEF Init, Shapes, NoObservation, NoCheckpoint
  <2>3. ReadsInv
    BY DEF Init, ReadsInv, Awaits
  <2> QED
    BY <2>1, <2>2, <2>3 DEF BaseInv
<1>2. BaseInv /\ [Next]_vars => BaseInv'
  <2> SUFFICES ASSUME BaseInv, [Next]_vars PROVE BaseInv'
    OBVIOUS
  <2> USE DEF BaseInv
  <2>0. ASSUME NEW answer \in Answers, Conclude(answer), UNCHANGED <<repo, request, edits, seen>>
        PROVE  BaseInv'
    <3>1. TypeOK'
      BY <2>0 DEF Conclude, Await, TypeOK
    <3>2. Shapes'
      BY <2>0 DEF Conclude, Await, Shapes
    <3>3. ReadsInv'
      BY <2>0 DEF Conclude, Await, ReadsInv, Awaits
    <3> QED
      BY <3>1, <3>2, <3>3
  <2>9. ASSUME Reject, UNCHANGED <<repo, request, edits, seen>>
        PROVE  BaseInv'
    BY <2>0, <2>9 DEF Reject, Answers
  <2>1. CASE RequestAttestation
    <3>1. TypeOK'
      BY <2>1 DEF RequestAttestation, Await, TypeOK, Awaits, Answers
    <3>2. Shapes'
      <4>1. PICK phase \in {"review", "final"} :
              request' = [request EXCEPT !.phase = phase, !.count = @ + 1]
        BY <2>1 DEF RequestAttestation
      <4>2. request' = [phase |-> request'.phase, count |-> request'.count,
                        checkpoint |-> request'.checkpoint]
        BY <4>1 DEF Shapes
      <4> QED
        BY <2>1, <4>2 DEF RequestAttestation, Await, Shapes, NoObservation
    <3>3. ReadsInv'
      BY <2>1 DEF RequestAttestation, Await, ReadsInv, Awaits
    <3> QED
      BY <3>1, <3>2, <3>3
  <2>2. CASE Read
    <3>1. PICK read \in todo :
             /\ read \notin DOMAIN got
             /\ todo' = todo \ {read}
             /\ DOMAIN got' = DOMAIN got \cup {read}
             /\ got'[read] = Answer(read)
             /\ \A x \in DOMAIN got : got'[x] = got[x]
             /\ got' = [x \in DOMAIN got' |-> got'[x]]
             /\ todo' \cup DOMAIN got' = todo \cup DOMAIN got
             /\ todo' \cap DOMAIN got' = {}
      BY <2>2, ReadFacts
    <3>2. UNCHANGED <<repo, pc, request, obs, result, edits>> /\ pc # "idle" /\ pc \in Awaits
      BY <2>2 DEF Read, ReadsInv, TypeOK
    <3>3. ListedPaths' = ListedPaths
      BY <3>2 DEF ListedPaths, ScopePaths, CommittedPaths, MergeBase
    <3>4. TypeOK'
      BY <3>1, <3>2, <3>3 DEF TypeOK
    <3>5. Shapes'
      BY <2>2, <3>1, <3>2 DEF Shapes, Read
    <3>6. ReadsInv'
      BY <3>1, <3>2, <3>3 DEF ReadsInv
    <3> QED
      BY <3>4, <3>5, <3>6
  <2>3. CASE ReadBranch
    <3>1. TypeOK'
      BY <2>3 DEF ReadBranch, Returned, Await, TypeOK, Awaits
    <3>2. Shapes'
      BY <2>3 DEF ReadBranch, Await, Shapes
    <3>3. ReadsInv'
      BY <2>3 DEF ReadBranch, Returned, Await, ReadsInv, Awaits
    <3> QED
      BY <3>1, <3>2, <3>3
  <2>4. CASE ReadIdentity
    <3>1. CASE obs' = [obs EXCEPT !.base = got["local"]] /\ Await("stable", {"local", "remote"})
                /\ UNCHANGED <<repo, request, edits, seen, result>> /\ pc = "identity"
      <4>1. TypeOK'
        BY <3>1 DEF Await, TypeOK, Awaits
      <4>2. Shapes'
        BY <3>1 DEF Await, Shapes
      <4>3. ReadsInv'
        BY <3>1 DEF Await, ReadsInv, Awaits
      <4> QED
        BY <4>1, <4>2, <4>3
    <3> QED
      BY <2>4, <2>9, <3>1 DEF ReadIdentity, Returned
  <2>5. CASE RequireStableIdentity
    <3>1. CASE Await("head", {"head"}) /\ UNCHANGED <<repo, request, edits, seen, obs, result>>
                /\ pc = "stable"
      <4>1. TypeOK'
        BY <3>1 DEF Await, TypeOK, Awaits
      <4>2. Shapes'
        BY <3>1 DEF Await, Shapes
      <4>3. ReadsInv'
        BY <3>1 DEF Await, ReadsInv, Awaits
      <4> QED
        BY <4>1, <4>2, <4>3
    <3> QED
      BY <2>5, <2>9, <3>1 DEF RequireStableIdentity, Returned
  <2>6. CASE ObserveCommittedScope
    <3>1. TypeOK'
      BY <2>6 DEF ObserveCommittedScope, Returned, Await, TypeOK, Awaits
    <3>2. Shapes'
      BY <2>6 DEF ObserveCommittedScope, Await, Shapes
    <3>3. ReadsInv'
      BY <2>6 DEF ObserveCommittedScope, Returned, Await, ReadsInv, Awaits
    <3> QED
      BY <3>1, <3>2, <3>3
  <2>7. CASE ListScope
    <3>1. CASE IsSupportedPorcelain(got["status"])
      <4>1. /\ obs' = [obs EXCEPT !.porcelain = got["status"]]
            /\ pc = "status" /\ pc' = "files" /\ got' = <<>>
            /\ todo' = ScopePaths(obs.base, obs.head, got["status"])
            /\ UNCHANGED <<repo, request, result, edits, seen>>
        BY <2>7, <3>1 DEF ListScope, Returned, Await
      <4>2. obs'.base = obs.base /\ obs'.head = obs.head /\ obs'.porcelain = got["status"]
        BY <4>1 DEF Shapes
      <4>3. todo' = ListedPaths'
        BY <4>1, <4>2 DEF ListedPaths, ScopePaths, CommittedPaths, MergeBase
      <4>4. TypeOK'
        BY <4>1, <4>3 DEF TypeOK, Awaits
      <4>5. Shapes'
        BY <4>1 DEF Shapes
      <4>6. ReadsInv'
        BY <4>1, <4>3 DEF ReadsInv, Awaits
      <4> QED
        BY <4>4, <4>5, <4>6
    <3> QED
      BY <2>7, <2>9, <3>1 DEF ListScope
  <2>8. ASSUME NEW files, AnswerRequest(files), pc \in Awaits, UNCHANGED <<repo, edits>>
        PROVE  BaseInv'
    <3>0. /\ \/ pc' = "idle" /\ todo' = {} /\ result' \in Answers /\ UNCHANGED seen
             \/ /\ pc' = "confirm" /\ UNCHANGED result
                /\ todo' = {"branch", "local", "remote", "head", "status"}
                /\ \E b : seen' = [seen EXCEPT !.settled = b]
          /\ got' = <<>> /\ UNCHANGED obs
          /\ \/ UNCHANGED request
             \/ \E c : request' = [request EXCEPT !.checkpoint = c]
      BY <2>8, AnswerFacts
    <3>1. request'.phase = request.phase /\ request'.count = request.count
      BY <3>0 DEF Shapes
    <3>2. TypeOK'
      BY <2>8, <3>0, <3>1 DEF TypeOK, Awaits
    <3>3. Shapes'
      BY <3>0 DEF Shapes
    <3>4. ReadsInv'
      BY <2>8, <3>0 DEF ReadsInv, Awaits
    <3> QED
      BY <3>2, <3>3, <3>4
  <2>10. CASE FilesRead
    <3>1. CASE obs' = [obs EXCEPT !.files = got] /\ Await("absence", {"head", "status"})
                /\ UNCHANGED <<repo, edits, request, result, seen>> /\ pc = "files"
      <4>1. TypeOK'
        BY <3>1 DEF Await, TypeOK, Awaits
      <4>2. Shapes'
        BY <3>1 DEF Await, Shapes
      <4>3. ReadsInv'
        BY <3>1 DEF Await, ReadsInv, Awaits
      <4> QED
        BY <4>1, <4>2, <4>3
    <3> QED
      BY <2>8, <2>9, <2>10, <3>1 DEF FilesRead, Returned, Awaits
  <2>11. CASE ConfirmStableAbsence
    BY <2>8, <2>9, <2>11 DEF ConfirmStableAbsence, Returned, Awaits
  <2>12. CASE ConfirmIdentity
    <3>1. CASE got["local"] = got["remote"]
      <4>1. /\ todo' = todo \cup {"local again", "remote again"}
            /\ {"local again", "remote again"} \cap (DOMAIN got \cup todo) = {}
            /\ {"local", "remote"} \subseteq DOMAIN got /\ pc = "confirm"
            /\ UNCHANGED <<pc, got, obs, result, repo, request, edits, seen>>
        BY <2>12, <3>1 DEF ConfirmIdentity
      <4>2. todo \cup DOMAIN got = {"branch", "local", "remote", "head", "status"}
        BY <4>1 DEF ReadsInv, RefReads
      <4>3. todo' \cup DOMAIN got' = RefReads /\ todo' \cap DOMAIN got' = {}
        BY <4>1, <4>2 DEF RefReads, ReadsInv
      <4>4. TypeOK'
        BY <4>1, <4>3 DEF TypeOK
      <4>5. Shapes'
        BY <4>1 DEF Shapes
      <4>6. ReadsInv'
        BY <3>1, <4>1, <4>3 DEF ReadsInv
      <4> QED
        BY <4>4, <4>5, <4>6
    <3> QED
      BY <2>9, <2>12, <3>1 DEF ConfirmIdentity
  <2>13. CASE ConfirmStaleBase
    BY <2>0, <2>9, <2>13 DEF ConfirmStaleBase, Answers
  <2>14. CASE RepositoryChanges
    <3>1. /\ repo' \in RepoType /\ edits' \in 0..MaxEdits
          /\ seen' = [seen EXCEPT !.synced =
                         @ \cup (IF repo'.local = repo'.remote THEN {repo'.local} ELSE {})]
          /\ UNCHANGED <<pc, request, todo, got, obs, result>>
      BY <2>14, RepoMoves
    <3>2. ListedPaths' = ListedPaths
      BY <3>1 DEF ListedPaths, ScopePaths, CommittedPaths, MergeBase
    <3>3. TypeOK'
      BY <3>1, <3>2 DEF TypeOK, RepoType, HeadType
    <3>4. Shapes'
      BY <3>1 DEF Shapes
    <3>5. ReadsInv'
      BY <3>1, <3>2 DEF ReadsInv
    <3> QED
      BY <3>3, <3>4, <3>5
  <2>15. CASE UNCHANGED vars
    <3>1. ListedPaths' = ListedPaths
      BY <2>15 DEF vars, ListedPaths, ScopePaths, CommittedPaths, MergeBase
    <3> QED
      BY <2>15, <3>1 DEF vars, TypeOK, Shapes, ReadsInv
  <2> QED
    BY <2>1, <2>2, <2>3, <2>4, <2>5, <2>6, <2>7, <2>10, <2>11, <2>12, <2>13, <2>14, <2>15
       DEF Next, AttestorStep
<1> QED
  BY <1>1, <1>2, PTL DEF Spec

\* Every variable of the attestor has its type (actions/git-scope-attestor.ts).
THEOREM AttestorTypeCorrect == Spec => []TypeOK
  BY BaseHolds, PTL DEF BaseInv

-----------------------------------------------------------------------------
(* What was read lies behind *)

\* Where an answer leaves the attestation.
LEMMA Answered ==
    ASSUME NEW files, AnswerRequest(files), TypeOK
    PROVE  pc' \in {"idle", "confirm"} /\ got' = <<>> /\ UNCHANGED obs
  BY AnswerFacts

LEMMA OrderHolds == Spec => []OrderInv
<1> USE AttestorAssumption
<1>1. Init => OrderInv
  BY DEF Init, OrderInv, HasHead, IsBased, HasBase, Started, Awaits
<1>2. BaseInv /\ OrderInv /\ [Next]_vars => OrderInv'
  <2> SUFFICES ASSUME BaseInv, OrderInv, [Next]_vars PROVE OrderInv'
    OBVIOUS
  <2>1. repo \in RepoType
    BY DEF BaseInv, TypeOK, RepoType, HeadType
  <2>2. /\ repo.branch \in Nat /\ repo.local \in Nat /\ repo.remote \in Nat
        /\ repo.local \in Bases /\ repo.remote \in Bases /\ repo.head \in HeadType
        /\ HeadLeq(repo.head, repo.head)
    BY <2>1, RepoFields DEF RepoLeq
  <2>3. ASSUME got' = <<>>, pc' = "idle"
        PROVE  OrderInv'
    BY <2>3 DEF OrderInv, HasHead, IsBased, HasBase, Started, Awaits
  <2>4. ASSUME got' = <<>>, UNCHANGED <<repo, obs>>, pc \in HasHead, pc' \in HasHead
        PROVE  OrderInv'
    BY <2>4 DEF OrderInv, HasHead, IsBased, HasBase, Started
  <2>5. CASE RequestAttestation
    BY <2>5 DEF RequestAttestation, Await, OrderInv, HasHead, IsBased, HasBase, Started
  <2>6. CASE Read
    <3>1. PICK read \in todo :
             /\ DOMAIN got' = DOMAIN got \cup {read}
             /\ got'[read] = Answer(read)
             /\ \A x \in DOMAIN got : got'[x] = got[x]
      BY <2>6, ReadFacts
    <3>2. UNCHANGED <<repo, pc, obs>>
      BY <2>6 DEF Read
    <3>3. /\ Answer("branch") = repo.branch /\ Answer("local") = repo.local
          /\ Answer("remote") = repo.remote /\ Answer("head") = repo.head
      BY DEF Answer
    <3> QED
      BY <2>2, <3>1, <3>2, <3>3 DEF OrderInv
  <2>7. CASE ReadBranch
    <3>1. /\ obs' = [obs EXCEPT !.branch = got["branch"]] /\ "branch" \in DOMAIN got
          /\ pc' = "identity" /\ got' = <<>> /\ UNCHANGED repo
      BY <2>7 DEF ReadBranch, Returned, Await, BaseInv, ReadsInv
    <3>2. obs'.branch = got["branch"]
      BY <3>1 DEF BaseInv, Shapes
    <3> QED
      BY <3>1, <3>2 DEF OrderInv, HasHead, IsBased, HasBase, Started
  <2>8. CASE ReadIdentity
    <3>1. CASE got["local"] = got["remote"]
      <4>1. /\ obs' = [obs EXCEPT !.base = got["local"]] /\ {"local", "remote"} \subseteq DOMAIN got
            /\ pc = "identity" /\ pc' = "stable" /\ got' = <<>> /\ UNCHANGED repo
        BY <2>8, <3>1 DEF ReadIdentity, Returned, Await, BaseInv, ReadsInv
      <4>2. obs'.base = got["local"] /\ obs'.branch = obs.branch
        BY <4>1 DEF BaseInv, Shapes
      <4> QED
        BY <3>1, <4>1, <4>2 DEF OrderInv, HasHead, IsBased, HasBase, Started, Awaits
    <3> QED
      BY <2>3, <2>8, <3>1 DEF ReadIdentity, Reject, Conclude, Await
  <2>9. CASE RequireStableIdentity
    <3>1. CASE pc' = "head" /\ pc = "stable" /\ got' = <<>> /\ UNCHANGED <<repo, obs>>
      BY <3>1 DEF OrderInv, HasHead, IsBased, HasBase, Started, Awaits
    <3> QED
      BY <2>3, <2>9, <3>1 DEF RequireStableIdentity, Returned, Reject, Conclude, Await
  <2>10. CASE ObserveCommittedScope
    <3>1. /\ obs' = [obs EXCEPT !.head = got["head"]] /\ "head" \in DOMAIN got
          /\ pc = "head" /\ pc' = "status" /\ got' = <<>> /\ UNCHANGED repo
      BY <2>10 DEF ObserveCommittedScope, Returned, Await, BaseInv, ReadsInv
    <3>2. obs'.head = got["head"] /\ obs'.base = obs.base /\ obs'.branch = obs.branch
      BY <3>1 DEF BaseInv, Shapes
    <3> QED
      BY <3>1, <3>2 DEF OrderInv, HasHead, IsBased, HasBase, Started, Awaits
  <2>11. CASE ListScope
    <3>1. CASE IsSupportedPorcelain(got["status"])
      <4>1. /\ obs' = [obs EXCEPT !.porcelain = got["status"]]
            /\ pc = "status" /\ pc' = "files" /\ got' = <<>> /\ UNCHANGED repo
        BY <2>11, <3>1 DEF ListScope, Returned, Await
      <4>2. obs'.base = obs.base /\ obs'.head = obs.head /\ obs'.branch = obs.branch
        BY <4>1 DEF BaseInv, Shapes
      <4> QED
        BY <4>1, <4>2 DEF OrderInv, HasHead, IsBased, HasBase, Started, Awaits
    <3> QED
      BY <2>3, <2>11, <3>1 DEF ListScope, Reject, Conclude, Await
  <2>12. ASSUME NEW files, AnswerRequest(files), pc \in HasHead, UNCHANGED repo
         PROVE  OrderInv'
    <3>1. pc' \in {"idle", "confirm"} /\ got' = <<>> /\ UNCHANGED obs
      BY <2>12, Answered DEF BaseInv
    <3> QED
      BY <2>3, <2>4, <2>12, <3>1 DEF HasHead, IsBased, HasBase, Started, Awaits
  <2>13. CASE FilesRead
    <3>1. pc = "files" /\ pc \in HasHead /\ "absence" \in HasHead
      BY <2>13 DEF FilesRead, Returned, HasHead, IsBased, HasBase, Started, Awaits
    <3>2. CASE obs' = [obs EXCEPT !.files = got] /\ pc' = "absence" /\ got' = <<>> /\ UNCHANGED repo
      <4>1. obs'.base = obs.base /\ obs'.head = obs.head /\ obs'.branch = obs.branch
        BY <3>2 DEF BaseInv, Shapes
      <4> QED
        BY <3>1, <3>2, <4>1 DEF OrderInv, HasHead, IsBased, HasBase, Started, Awaits
    <3> QED
      BY <2>3, <2>12, <2>13, <3>1, <3>2 DEF FilesRead, Reject, Conclude, Await
  <2>14. CASE ConfirmStableAbsence
    <3>1. pc \in HasHead
      BY <2>14 DEF ConfirmStableAbsence, Returned, HasHead, IsBased, HasBase, Started, Awaits
    <3> QED
      BY <2>3, <2>12, <2>14, <3>1 DEF ConfirmStableAbsence, Reject, Conclude, Await
  <2>15. CASE ConfirmIdentity
    <3>1. CASE UNCHANGED <<pc, got, obs, repo>>
      BY <3>1 DEF OrderInv
    <3> QED
      BY <2>3, <2>15, <3>1 DEF ConfirmIdentity, Reject, Conclude, Await
  <2>16. CASE ConfirmStaleBase
    BY <2>3, <2>16 DEF ConfirmStaleBase, Reject, Conclude, Await
  <2>17. CASE RepositoryChanges
    <3>1. repo' \in RepoType /\ RepoLeq(repo, repo') /\ UNCHANGED <<pc, got, obs>>
      BY <2>17, RepoMoves DEF BaseInv
    <3>2. /\ repo'.branch \in Nat /\ repo'.local \in Nat /\ repo'.remote \in Nat
          /\ repo'.head \in HeadType
      BY <3>1, RepoFields
    <3>3. /\ repo.branch <= repo'.branch /\ repo.local <= repo'.local
          /\ repo.remote <= repo'.remote /\ HeadLeq(repo.head, repo'.head)
      BY <3>1 DEF RepoLeq
    <3>4. \A g \in HeadType : HeadLeq(g, repo.head) => HeadLeq(g, repo'.head)
      BY <2>2, <3>2, <3>3, HeadOrder
    <3>5. /\ "head" \in DOMAIN got => HeadLeq(got["head"], repo'.head)
          /\ pc \in HasHead => HeadLeq(obs.head, repo'.head)
      BY <3>4 DEF OrderInv
    <3>6. \A b \in Bases : b \in Nat
      OBVIOUS
    <3> QED
      BY <2>2, <3>1, <3>2, <3>3, <3>5, <3>6 DEF OrderInv
  <2>18. CASE UNCHANGED vars
    BY <2>18 DEF vars, OrderInv
  <2> QED
    BY <2>5, <2>6, <2>7, <2>8, <2>9, <2>10, <2>11, <2>13, <2>14, <2>15, <2>16, <2>17, <2>18
       DEF Next, AttestorStep
<1> QED
  BY <1>1, <1>2, BaseHolds, PTL DEF Spec

-----------------------------------------------------------------------------
(* A ref that answers twice the same has not moved in between *)

\* The change of one ghost at a time.
LEMMA ChangeFacts ==
    ASSUME BaseInv, OrderInv, RepositoryChanges
    PROVE  /\ repo' \in RepoType
           /\ repo.branch <= repo'.branch /\ repo.local <= repo'.local
           /\ repo.remote <= repo'.remote /\ HeadLeq(repo.head, repo'.head)
           /\ seen'.synced = seen.synced \cup Synchronized'
           /\ seen'.since = seen.since /\ seen'.head = seen.head
           /\ seen'.changed = seen.changed /\ seen'.settled = seen.settled
           /\ edits' = edits + 1
           /\ UNCHANGED <<pc, request, todo, got, obs, result>>
<1>1. /\ repo' \in RepoType /\ RepoLeq(repo, repo')
      /\ seen' = [seen EXCEPT !.synced =
                    @ \cup (IF repo'.local = repo'.remote THEN {repo'.local} ELSE {})]
      /\ edits' = edits + 1
      /\ UNCHANGED <<pc, request, todo, got, obs, result>>
  BY RepoMoves DEF BaseInv
<1>2. seen'.synced = seen.synced \cup Synchronized'
  BY <1>1 DEF BaseInv, Shapes, Synchronized
<1> QED
  BY <1>1, <1>2 DEF RepoLeq, BaseInv, Shapes

\* A read that still answers v answered v before the repository changed.
LEMMA StillBefore ==
    ASSUME BaseInv, OrderInv, RepositoryChanges
    PROVE  /\ pc \in Started /\ IsStill("branch", obs.branch)' => IsStill("branch", obs.branch)
           /\ pc \in HasBase /\ IsStill("local", obs.base)' => IsStill("local", obs.base)
           /\ pc \in HasBase /\ IsStill("remote", obs.base)' => IsStill("remote", obs.base)
           /\ pc \in HasHead /\ IsStill("head", obs.head)' => IsStill("head", obs.head)
<1>1. repo \in RepoType /\ \A b \in Bases : b \in Nat
  BY AttestorAssumption DEF BaseInv, TypeOK, RepoType, HeadType
<1>2. /\ repo.branch \in Nat /\ repo.local \in Nat /\ repo.remote \in Nat
      /\ repo.head \in HeadType
  BY <1>1, RepoFields
<1>3. /\ repo' \in RepoType
      /\ repo.branch <= repo'.branch /\ repo.local <= repo'.local
      /\ repo.remote <= repo'.remote /\ HeadLeq(repo.head, repo'.head)
      /\ UNCHANGED <<pc, got, obs>>
  BY ChangeFacts
<1>4. /\ repo'.branch \in Nat /\ repo'.local \in Nat /\ repo'.remote \in Nat
      /\ repo'.head \in HeadType
  BY <1>3, RepoFields
<1>5. /\ IsStill("branch", obs.branch) <=>
           IF "branch" \in DOMAIN got THEN got["branch"] = obs.branch
                                      ELSE repo.branch = obs.branch
      /\ IsStill("local", obs.base) <=>
           IF "local" \in DOMAIN got THEN got["local"] = obs.base ELSE repo.local = obs.base
      /\ IsStill("remote", obs.base) <=>
           IF "remote" \in DOMAIN got THEN got["remote"] = obs.base ELSE repo.remote = obs.base
      /\ IsStill("head", obs.head) <=>
           IF "head" \in DOMAIN got THEN got["head"] = obs.head ELSE repo.head = obs.head
  BY DEF IsStill, Answer
<1>6. /\ IsStill("branch", obs.branch)' <=>
           IF "branch" \in DOMAIN got THEN got["branch"] = obs.branch
                                      ELSE repo'.branch = obs.branch
      /\ IsStill("local", obs.base)' <=>
           IF "local" \in DOMAIN got THEN got["local"] = obs.base ELSE repo'.local = obs.base
      /\ IsStill("remote", obs.base)' <=>
           IF "remote" \in DOMAIN got THEN got["remote"] = obs.base ELSE repo'.remote = obs.base
      /\ IsStill("head", obs.head)' <=>
           IF "head" \in DOMAIN got THEN got["head"] = obs.head ELSE repo'.head = obs.head
  BY <1>3 DEF IsStill, Answer
<1>7. /\ pc \in Started => obs.branch \in Nat /\ obs.branch <= repo.branch
      /\ pc \in HasBase =>
           obs.base \in Nat /\ obs.base <= repo.local /\ obs.base <= repo.remote
      /\ pc \in HasHead => obs.head \in HeadType /\ HeadLeq(obs.head, repo.head)
  BY <1>1 DEF OrderInv
<1>8. pc \in Started /\ repo'.branch = obs.branch => repo.branch = obs.branch
  BY <1>2, <1>3, <1>4, <1>7
<1>9. /\ pc \in HasBase /\ repo'.local = obs.base => repo.local = obs.base
      /\ pc \in HasBase /\ repo'.remote = obs.base => repo.remote = obs.base
  BY <1>2, <1>3, <1>4, <1>7
<1>10. pc \in HasHead /\ repo'.head = obs.head => repo.head = obs.head
  BY <1>2, <1>3, <1>4, <1>7, HeadOrder
<1> QED
  BY <1>5, <1>6, <1>8, <1>9, <1>10

\* A read answers what it would have answered.
LEMMA StillRead ==
    ASSUME BaseInv, Read, NEW x \in {"branch", "local", "remote", "head"}, NEW v
    PROVE  IsStill(x, v)' = IsStill(x, v)
<1>1. PICK read \in todo :
             /\ read \notin DOMAIN got
             /\ DOMAIN got' = DOMAIN got \cup {read}
             /\ got'[read] = Answer(read)
             /\ \A y \in DOMAIN got : got'[y] = got[y]
  BY ReadFacts
<1>2. UNCHANGED <<repo, pc, obs>>
  BY DEF Read
<1>3. Answer(x)' = Answer(x)
  BY <1>2 DEF Answer
<1> QED
  BY <1>1, <1>3 DEF IsStill

\* A base two reads of which agree was local and remote default at once.
LEMMA SyncHolds == Spec => []SyncInv
<1> USE AttestorAssumption
<1>1. Init => SyncInv
  BY DEF Init, SyncInv, BaseWasSynchronized, Awaits
<1>2. BaseInv /\ OrderInv /\ SyncInv /\ [Next]_vars => SyncInv'
  <2> SUFFICES ASSUME BaseInv, OrderInv, SyncInv, [Next]_vars PROVE SyncInv'
    OBVIOUS
  <2>1. ASSUME UNCHANGED <<repo, obs>>, seen'.synced = seen.synced, pc \in Awaits,
               pc' \in {"idle"} \cup HasHead \cup {"head"}, obs.base \in seen.synced
        PROVE  SyncInv'
    BY <2>1 DEF SyncInv, BaseWasSynchronized, Synchronized, HasHead, IsBased, HasBase, Started,
                Awaits
  <2>2. ASSUME pc' = "idle", result' = "rejected"
        PROVE  SyncInv'
    BY <2>2 DEF SyncInv, BaseWasSynchronized, Awaits
  <2>3. pc \in HasHead \cup {"head"} => obs.base \in seen.synced
    BY DEF SyncInv, BaseWasSynchronized, HasHead, IsBased, HasBase, Started, Awaits
  <2>4. /\ pc \in HasHead \cup {"head"} => pc \in Awaits
        /\ HasHead = {"status", "files", "absence", "confirm"}
    BY DEF HasHead, IsBased, HasBase, Started, Awaits
  <2>5. CASE RequestAttestation
    <3>1. /\ pc' = "branch" /\ result' = "none" /\ seen'.synced = Synchronized
          /\ UNCHANGED repo
      BY <2>5 DEF RequestAttestation, Await
    <3> QED
      BY <3>1 DEF SyncInv, BaseWasSynchronized, Synchronized
  <2>6. CASE Read
    <3>1. UNCHANGED <<repo, pc, request, obs, result>> /\ seen'.synced = seen.synced
      BY <2>6 DEF Read, BaseInv, Shapes
    <3>2. /\ IsStill("local", obs.base)' = IsStill("local", obs.base)
          /\ IsStill("remote", obs.base)' = IsStill("remote", obs.base)
      <4>1. \A v : /\ IsStill("local", v)' = IsStill("local", v)
                  /\ IsStill("remote", v)' = IsStill("remote", v)
        BY <2>6, StillRead
      <4> QED
        BY <3>1, <4>1 DEF IsStill
    <3> QED
      BY <3>1, <3>2 DEF SyncInv, BaseWasSynchronized, Synchronized
  <2>7. CASE ReadBranch
    BY <2>7 DEF ReadBranch, Returned, Await, SyncInv, BaseWasSynchronized, Synchronized, Awaits,
                BaseInv, ReadsInv
  <2>8. CASE ReadIdentity
    <3>1. CASE got["local"] = got["remote"]
      <4>1. /\ obs' = [obs EXCEPT !.base = got["local"]] /\ {"local", "remote"} \subseteq DOMAIN got
            /\ pc = "identity" /\ pc' = "stable" /\ got' = <<>> /\ UNCHANGED <<repo, result, seen>>
        BY <2>8, <3>1 DEF ReadIdentity, Returned, Await, BaseInv, ReadsInv
      <4>2. obs'.base = got["local"] /\ result = "none" /\ pc \in Awaits
        BY <4>1 DEF BaseInv, Shapes, ReadsInv, Awaits
      <4>3. /\ IsStill("local", obs.base)' => repo.local = obs'.base
            /\ IsStill("remote", obs.base)' => repo.remote = obs'.base
        BY <4>1 DEF IsStill, Answer
      <4>4. repo.local = obs'.base /\ repo.remote = obs'.base => obs'.base \in seen.synced
        BY <4>2 DEF SyncInv, Synchronized
      <4>5. Synchronized' = Synchronized
        BY <4>1 DEF Synchronized
      <4> QED
        BY <4>1, <4>2, <4>3, <4>4, <4>5 DEF SyncInv, BaseWasSynchronized
    <3> QED
      BY <2>2, <2>8, <3>1 DEF ReadIdentity, Reject, Conclude, Await
  <2>9. CASE RequireStableIdentity
    <3>1. CASE IsStableIdentity(got["local"], got["remote"], obs.base)
      <4>1. /\ pc = "stable" /\ pc' = "head" /\ {"local", "remote"} \subseteq DOMAIN got
            /\ UNCHANGED <<repo, obs, seen>>
        BY <2>9, <3>1 DEF RequireStableIdentity, Returned, Await, BaseInv, ReadsInv
      <4>2. IsStill("local", obs.base) /\ IsStill("remote", obs.base)
        BY <3>1, <4>1 DEF IsStableIdentity, IsStill
      <4> QED
        BY <2>1, <4>1, <4>2 DEF SyncInv, Awaits
    <3> QED
      BY <2>2, <2>9, <3>1 DEF RequireStableIdentity, Reject, Conclude, Await
  <2>10. CASE ObserveCommittedScope
    <3>1. /\ obs' = [obs EXCEPT !.head = got["head"]] /\ pc = "head" /\ pc' = "status"
          /\ UNCHANGED <<repo, seen>>
      BY <2>10 DEF ObserveCommittedScope, Returned, Await
    <3>2. obs'.base = obs.base
      BY <3>1 DEF BaseInv, Shapes
    <3> QED
      BY <2>3, <3>1, <3>2 DEF SyncInv, BaseWasSynchronized, Synchronized, Awaits
  <2>11. CASE ListScope
    <3>1. CASE IsSupportedPorcelain(got["status"])
      <4>1. /\ obs' = [obs EXCEPT !.porcelain = got["status"]] /\ pc = "status" /\ pc' = "files"
            /\ UNCHANGED <<repo, seen>>
        BY <2>11, <3>1 DEF ListScope, Returned, Await
      <4>2. obs'.base = obs.base
        BY <4>1 DEF BaseInv, Shapes
      <4> QED
        BY <2>3, <2>4, <4>1, <4>2 DEF SyncInv, BaseWasSynchronized, Synchronized, Awaits
    <3> QED
      BY <2>2, <2>11, <3>1 DEF ListScope, Reject, Conclude, Await
  <2>12. ASSUME NEW files, AnswerRequest(files), pc \in HasHead, UNCHANGED repo
         PROVE  SyncInv'
    <3>1. pc' \in {"idle", "confirm"} /\ UNCHANGED obs /\ seen'.synced = seen.synced
      <4>1. \/ UNCHANGED seen
            \/ \E b : seen' = [seen EXCEPT !.settled = b]
        BY <2>12, AnswerFacts DEF BaseInv
      <4> QED
        BY <2>12, <4>1, Answered DEF BaseInv, Shapes
    <3> QED
      BY <2>1, <2>3, <2>4, <2>12, <3>1
  <2>13. CASE FilesRead
    <3>1. pc = "files" /\ pc \in HasHead
      BY <2>4, <2>13 DEF FilesRead, Returned
    <3>2. CASE /\ obs' = [obs EXCEPT !.files = got] /\ pc' = "absence"
               /\ UNCHANGED <<repo, seen>>
      <4>1. obs'.base = obs.base
        BY <3>2 DEF BaseInv, Shapes
      <4> QED
        BY <2>3, <2>4, <3>1, <3>2, <4>1 DEF SyncInv, BaseWasSynchronized, Synchronized, Awaits
    <3> QED
      BY <2>2, <2>12, <2>13, <3>1, <3>2 DEF FilesRead, Reject, Conclude, Await
  <2>14. CASE ConfirmStableAbsence
    <3>1. pc \in HasHead
      BY <2>4, <2>14 DEF ConfirmStableAbsence, Returned
    <3> QED
      BY <2>2, <2>12, <2>14, <3>1 DEF ConfirmStableAbsence, Reject, Conclude, Await
  <2>15. CASE ConfirmIdentity
    <3>1. CASE UNCHANGED <<pc, got, obs, repo, seen>>
      BY <2>1, <2>3, <2>4, <2>15, <3>1 DEF ConfirmIdentity
    <3> QED
      BY <2>2, <2>15, <3>1 DEF ConfirmIdentity, Reject, Conclude, Await
  <2>16. CASE ConfirmStaleBase
    BY <2>1, <2>3, <2>4, <2>16 DEF ConfirmStaleBase, Returned, Reject, Conclude, Await
  <2>17. CASE RepositoryChanges
    <3>1. /\ seen'.synced = seen.synced \cup Synchronized'
          /\ UNCHANGED <<pc, request, todo, got, obs, result>>
      BY <2>17, ChangeFacts
    <3>2. /\ pc = "stable" /\ IsStill("local", obs.base)' => IsStill("local", obs.base)
          /\ pc = "stable" /\ IsStill("remote", obs.base)' => IsStill("remote", obs.base)
      BY <2>17, StillBefore DEF HasBase, Started, Awaits
    <3> QED
      BY <3>1, <3>2 DEF SyncInv, BaseWasSynchronized
  <2>18. CASE UNCHANGED vars
    BY <2>18 DEF vars, SyncInv, BaseWasSynchronized, Synchronized, IsStill, Answer
  <2> QED
    BY <2>5, <2>6, <2>7, <2>8, <2>9, <2>10, <2>11, <2>13, <2>14, <2>15, <2>16, <2>17, <2>18
       DEF Next, AttestorStep
<1> QED
  BY <1>1, <1>2, BaseHolds, OrderHolds, PTL DEF Spec

\* The base an answer relies on was the local and the remote default at one and the
\* same instant of the attestation (actions/git-default-base.ts), however the
\* refs are moved between its four reads: they are only moved forward.
THEOREM BasesWereSynchronized == Spec => []BaseWasSynchronized
  BY SyncHolds, PTL DEF SyncInv

\* Five reads that confirm what was observed lie on both sides of an instant at
\* which all of it was so: the one the confirmation began at.
LEMMA SettledHolds == Spec => []SettledInv
<1> USE AttestorAssumption
<1>1. Init => SettledInv
  BY DEF Init, SettledInv, StaleBaseIsReal
<1>2. BaseInv /\ OrderInv /\ SettledInv /\ [Next]_vars => SettledInv'
  <2> SUFFICES ASSUME BaseInv, OrderInv, SettledInv, [Next]_vars PROVE SettledInv'
    OBVIOUS
  <2>1. ASSUME pc' # "confirm", result' # "review-base-stale"
        PROVE  SettledInv'
    BY <2>1 DEF SettledInv, StaleBaseIsReal
  <2>2. pc \in Awaits => result = "none"
    BY DEF BaseInv, ReadsInv
  <2>3. CASE RequestAttestation
    BY <2>1, <2>3 DEF RequestAttestation, Await
  <2>4. CASE Read
    <3>1. UNCHANGED <<repo, pc, request, obs, result>> /\ seen'.settled = seen.settled
      BY <2>4 DEF Read, BaseInv, Shapes
    <3>2. /\ IsStill("branch", obs.branch)' = IsStill("branch", obs.branch)
          /\ IsStill("local", obs.base)' = IsStill("local", obs.base)
          /\ IsStill("remote", obs.base)' = IsStill("remote", obs.base)
          /\ IsStill("head", obs.head)' = IsStill("head", obs.head)
      <4>1. \A v : /\ IsStill("branch", v)' = IsStill("branch", v)
                  /\ IsStill("local", v)' = IsStill("local", v)
                  /\ IsStill("remote", v)' = IsStill("remote", v)
                  /\ IsStill("head", v)' = IsStill("head", v)
        BY <2>4, StillRead
      <4>2. IsStill("branch", obs.branch)' = IsStill("branch", obs.branch)
        BY <3>1, <4>1 DEF IsStill
      <4>3. IsStill("local", obs.base)' = IsStill("local", obs.base)
        BY <3>1, <4>1 DEF IsStill
      <4>4. IsStill("remote", obs.base)' = IsStill("remote", obs.base)
        BY <3>1, <4>1 DEF IsStill
      <4>5. IsStill("head", obs.head)' = IsStill("head", obs.head)
        BY <3>1, <4>1 DEF IsStill
      <4> QED
        BY <4>2, <4>3, <4>4, <4>5
    <3> QED
      BY <3>1, <3>2 DEF SettledInv, StaleBaseIsReal
  <2>5. CASE ReadBranch \/ ReadIdentity \/ RequireStableIdentity \/ ObserveCommittedScope
    <3>1. pc \in Awaits /\ pc' # "confirm" /\ result' \in {result, "rejected"}
      BY <2>5 DEF ReadBranch, ReadIdentity, RequireStableIdentity, ObserveCommittedScope, Returned,
                  Reject, Conclude, Await, Awaits
    <3> QED
      BY <2>1, <2>2, <3>1
  <2>6. CASE ListScope
    BY <2>1, <2>2, <2>6 DEF ListScope, Returned, Reject, Conclude, Await, Awaits
  <2>7. ASSUME NEW files, AnswerRequest(files), pc \in Awaits, UNCHANGED repo
        PROVE  SettledInv'
    <3>1. CASE pc' = "idle"
      <4>1. result' # "review-base-stale"
        BY <2>7, <3>1, AnswerFacts DEF BaseInv
      <4> QED
        BY <2>1, <3>1, <4>1
    <3>2. CASE pc' = "confirm"
      <4>1. /\ UNCHANGED <<result, request, obs>> /\ got' = <<>>
            /\ request.checkpoint.base # obs.base
            /\ seen' = [seen EXCEPT !.settled =
                               /\ repo.branch = obs.branch /\ Synchronized = {obs.base}
                               /\ repo.head = obs.head]
        BY <2>7, <3>2, AnswerFacts DEF BaseInv
      <4>2. seen'.settled <=> /\ repo.branch = obs.branch /\ Synchronized = {obs.base}
                              /\ repo.head = obs.head
        BY <4>1 DEF BaseInv, Shapes
      <4>3. /\ IsStill("branch", obs.branch)' => repo.branch = obs.branch
            /\ IsStill("local", obs.base)' => repo.local = obs.base
            /\ IsStill("remote", obs.base)' => repo.remote = obs.base
            /\ IsStill("head", obs.head)' => repo.head = obs.head
        BY <2>7, <4>1 DEF IsStill, Answer
      <4>4. repo.local = obs.base /\ repo.remote = obs.base => Synchronized = {obs.base}
        BY DEF Synchronized
      <4> QED
        BY <2>2, <2>7, <4>1, <4>2, <4>3, <4>4 DEF SettledInv, StaleBaseIsReal
    <3> QED
      BY <2>7, <3>1, <3>2, Answered DEF BaseInv
  <2>8. CASE FilesRead
    <3>1. CASE pc' = "absence" /\ pc = "files" /\ UNCHANGED result
      BY <2>1, <2>2, <3>1 DEF Awaits
    <3> QED
      BY <2>1, <2>7, <2>8, <3>1 DEF FilesRead, Returned, Reject, Conclude, Await, Awaits
  <2>9. CASE ConfirmStableAbsence
    BY <2>1, <2>7, <2>9 DEF ConfirmStableAbsence, Returned, Reject, Conclude, Await, Awaits
  <2>10. CASE ConfirmIdentity
    <3>1. CASE UNCHANGED <<pc, got, obs, repo, request, result, seen>>
      BY <3>1 DEF SettledInv, StaleBaseIsReal, IsStill, Answer
    <3> QED
      BY <2>1, <2>10, <3>1 DEF ConfirmIdentity, Reject, Conclude, Await
  <2>11. CASE ConfirmStaleBase
    <3>1. CASE ObservationMoved
      BY <2>1, <2>11, <3>1 DEF ConfirmStaleBase, Reject, Conclude, Await
    <3>2. CASE ~ObservationMoved
      <4>1. /\ pc = "confirm" /\ pc' = "idle" /\ UNCHANGED <<obs, request, seen>>
            /\ todo = {} /\ "local again" \in DOMAIN got
        BY <2>11, <3>2 DEF ConfirmStaleBase, Returned, IdentityReadTwice, Conclude, Await
      <4>2. DOMAIN got = RefReads /\ got["local"] = got["remote"]
        <5>1. todo \cup DOMAIN got = DOMAIN got
          BY <4>1
        <5> QED
          BY <4>1, <5>1 DEF BaseInv, ReadsInv
      <4>3. /\ IsStill("branch", obs.branch) /\ IsStill("local", obs.base)
            /\ IsStill("remote", obs.base) /\ IsStill("head", obs.head)
        BY <3>2, <4>2 DEF ObservationMoved, IsStill, RefReads
      <4> QED
        BY <4>1, <4>3 DEF SettledInv, StaleBaseIsReal
    <3> QED
      BY <3>1, <3>2
  <2>12. CASE RepositoryChanges
    <3>1. /\ seen'.settled = seen.settled /\ UNCHANGED <<pc, request, todo, got, obs, result>>
      BY <2>12, ChangeFacts
    <3>2. pc = "confirm" =>
            /\ IsStill("branch", obs.branch)' => IsStill("branch", obs.branch)
            /\ IsStill("local", obs.base)' => IsStill("local", obs.base)
            /\ IsStill("remote", obs.base)' => IsStill("remote", obs.base)
            /\ IsStill("head", obs.head)' => IsStill("head", obs.head)
      BY <2>12, StillBefore DEF HasHead, IsBased, HasBase, Started, Awaits
    <3> QED
      BY <3>1, <3>2 DEF SettledInv, StaleBaseIsReal
  <2>13. CASE UNCHANGED vars
    BY <2>13 DEF vars, SettledInv, StaleBaseIsReal, IsStill, Answer
  <2> QED
    BY <2>3, <2>4, <2>5, <2>6, <2>8, <2>9, <2>10, <2>11, <2>12, <2>13 DEF Next, AttestorStep
<1> QED
  BY <1>1, <1>2, BaseHolds, OrderHolds, PTL DEF Spec

\* A review is sent back for a stale base only if at one instant the branch, both
\* default refs and HEAD were what the answer says (staleBaseResult).
THEOREM StaleBasesAreReal == Spec => []StaleBaseIsReal
  BY SettledHolds, PTL DEF SettledInv

\* HEAD moves forward only: observed before the status and read again after it with
\* the same answer, it was that commit when the status was taken.
LEMMA WholeHolds == Spec => []WholeInv
<1> USE AttestorAssumption
<1>1. Init => WholeInv
  BY DEF Init, WholeInv, AbsentScopeIsWhole, HasScope, HasHead, IsBased, HasBase, Started, Awaits,
         NoObservation
<1>2. BaseInv /\ OrderInv /\ WholeInv /\ [Next]_vars => WholeInv'
  <2> SUFFICES ASSUME BaseInv, OrderInv, WholeInv, [Next]_vars PROVE WholeInv'
    OBVIOUS
  <2>1. HasScope = {"files", "absence", "confirm"}
    BY DEF HasScope, HasHead, IsBased, HasBase, Started, Awaits
  <2>2. ASSUME pc' = "idle", result' = "rejected"
        PROVE  WholeInv'
    BY <2>1, <2>2 DEF WholeInv, AbsentScopeIsWhole, Awaits
  <2>3. ASSUME pc' \in {"branch", "identity", "stable", "head", "status"}, got' = <<>>,
               obs'.files = <<>>
        PROVE  WholeInv'
    BY <2>1, <2>3 DEF WholeInv, AbsentScopeIsWhole
  <2>4. pc \in Awaits \ {"absence", "confirm"} => obs.files = <<>>
    BY DEF WholeInv
  <2>5. CASE RequestAttestation
    BY <2>3, <2>5 DEF RequestAttestation, Await, NoObservation
  <2>6. CASE ReadBranch
    <3>1. obs'.files = <<>>
      BY <2>4, <2>6 DEF ReadBranch, Returned, BaseInv, Shapes, Awaits
    <3> QED
      BY <2>3, <2>6, <3>1 DEF ReadBranch, Await
  <2>7. CASE ReadIdentity
    <3>1. CASE obs' = [obs EXCEPT !.base = got["local"]] /\ pc = "identity"
               /\ Await("stable", {"local", "remote"})
      <4>1. obs'.files = <<>>
        BY <2>4, <3>1 DEF BaseInv, Shapes, Awaits
      <4> QED
        BY <2>3, <3>1, <4>1 DEF Await
    <3> QED
      BY <2>2, <2>7, <3>1 DEF ReadIdentity, Returned, Reject, Conclude, Await
  <2>8. CASE RequireStableIdentity
    <3>1. CASE UNCHANGED obs /\ pc = "stable" /\ Await("head", {"head"})
      BY <2>3, <2>4, <3>1 DEF Await, Awaits
    <3> QED
      BY <2>2, <2>8, <3>1 DEF RequireStableIdentity, Returned, Reject, Conclude, Await
  <2>9. CASE ObserveCommittedScope
    <3>1. obs'.files = <<>>
      BY <2>4, <2>9 DEF ObserveCommittedScope, Returned, BaseInv, Shapes, Awaits
    <3> QED
      BY <2>3, <2>9, <3>1 DEF ObserveCommittedScope, Await
  <2>10. CASE Read
    <3>1. PICK read \in todo :
             /\ DOMAIN got' = DOMAIN got \cup {read}
             /\ got'[read] = Answer(read)
             /\ \A x \in DOMAIN got : got'[x] = got[x]
      BY <2>10, ReadFacts
    <3>2. UNCHANGED <<repo, pc, request, obs, result>>
      BY <2>10 DEF Read
    <3>3. ListedPaths' = ListedPaths
      BY <3>2 DEF ListedPaths, ScopePaths, CommittedPaths, MergeBase
    <3>4. CASE pc = "status"
      <4>1. seen'.head = repo.head /\ seen'.changed = ScopePaths(obs.base, repo.head, Porcelain)
        BY <2>10, <3>4 DEF Read, BaseInv, Shapes, ChangedNow
      <4>2. read = "status" /\ got'["status"] = Porcelain
        BY <3>1, <3>4 DEF BaseInv, ReadsInv, Answer
      <4>3. repo.head \in HeadType /\ HeadLeq(repo.head, repo.head)
        BY RepoFields DEF BaseInv, TypeOK, RepoType, HeadType, HeadLeq
      <4>4. HeadLeq(obs.head, repo.head)
        BY <3>4 DEF OrderInv, HasHead, IsBased, HasBase, Started, Awaits
      <4> QED
        BY <2>1, <3>2, <3>4, <4>1, <4>2, <4>3, <4>4 DEF WholeInv, AbsentScopeIsWhole, Awaits,
             ScopePaths, CommittedPaths, MergeBase
    <3>5. CASE pc # "status"
      <4>1. UNCHANGED seen
        BY <2>10, <3>5 DEF Read
      <4>2. pc = "absence" /\ "head" \in DOMAIN got' => HeadLeq(seen.head, got'["head"])
        <5>1. read = "head" => got'["head"] = repo.head
          BY <3>1 DEF Answer
        <5> QED
          BY <2>1, <3>1, <5>1 DEF WholeInv
      <4> QED
        BY <3>2, <3>3, <3>5, <4>1, <4>2 DEF WholeInv, AbsentScopeIsWhole, ScopePaths, CommittedPaths,
             MergeBase
    <3> QED
      BY <3>4, <3>5
  <2>11. CASE ListScope
    <3>1. CASE IsSupportedPorcelain(got["status"])
      <4>1. /\ obs' = [obs EXCEPT !.porcelain = got["status"]] /\ pc = "status" /\ pc' = "files"
            /\ todo = {} /\ UNCHANGED <<repo, result, seen>>
        BY <2>11, <3>1 DEF ListScope, Returned, Await
      <4>2. /\ obs'.base = obs.base /\ obs'.head = obs.head /\ obs'.files = <<>>
            /\ obs'.porcelain = got["status"]
        BY <2>4, <4>1 DEF BaseInv, Shapes, Awaits
      <4>3. "status" \in DOMAIN got
        BY <4>1 DEF BaseInv, ReadsInv
      <4> QED
        BY <4>1, <4>2, <4>3 DEF WholeInv, AbsentScopeIsWhole, ScopePaths, CommittedPaths, MergeBase
    <3> QED
      BY <2>2, <2>11, <3>1 DEF ListScope, Reject, Conclude, Await
  <2>12. ASSUME NEW files, AnswerRequest(files), pc \in HasScope, UNCHANGED repo,
                obs.files # <<>> => seen.head = obs.head /\ seen.changed = DOMAIN obs.files
         PROVE  WholeInv'
    <3>1. /\ pc' \in {"idle", "confirm"} /\ UNCHANGED obs
          /\ seen'.head = seen.head /\ seen'.changed = seen.changed
      <4>1. \/ UNCHANGED seen
            \/ \E b : seen' = [seen EXCEPT !.settled = b]
        BY <2>12, AnswerFacts DEF BaseInv
      <4> QED
        BY <2>12, <4>1, Answered DEF BaseInv, Shapes
    <3> QED
      BY <2>1, <2>12, <3>1 DEF WholeInv, AbsentScopeIsWhole, ScopePaths, CommittedPaths, MergeBase,
           Awaits
  <2>13. CASE FilesRead
    <3>1. pc = "files" /\ todo = {} /\ pc \in HasScope /\ obs.files = <<>>
      BY <2>1, <2>4, <2>13 DEF FilesRead, Returned, Awaits
    <3>2. CASE /\ obs' = [obs EXCEPT !.files = got] /\ pc' = "absence" /\ got' = <<>>
               /\ UNCHANGED <<repo, result, seen>>
      <4>1. /\ obs'.base = obs.base /\ obs'.head = obs.head /\ obs'.files = got
            /\ obs'.porcelain = obs.porcelain
        BY <3>2 DEF BaseInv, Shapes
      <4>2. DOMAIN got = ListedPaths
        <5>1. todo \cup DOMAIN got = DOMAIN got
          BY <3>1
        <5> QED
          BY <3>1, <5>1 DEF BaseInv, ReadsInv
      <4>3. ListedPaths' = ListedPaths
        BY <4>1 DEF ListedPaths, ScopePaths, CommittedPaths, MergeBase
      <4>4. result' = "none"
        BY <3>1, <3>2 DEF BaseInv, ReadsInv, Awaits
      <4> QED
        BY <2>1, <3>1, <3>2, <4>1, <4>2, <4>3, <4>4 DEF WholeInv, AbsentScopeIsWhole, ScopePaths,
             CommittedPaths, MergeBase
    <3> QED
      BY <2>2, <2>12, <2>13, <3>1, <3>2 DEF FilesRead, Reject, Conclude, Await
  <2>14. CASE ConfirmStableAbsence
    <3>1. CASE IsStableAbsence(got["head"], got["status"])
      <4>1. pc = "absence" /\ todo = {} /\ AnswerRequest(obs.files) /\ UNCHANGED repo
        BY <2>14, <3>1 DEF ConfirmStableAbsence, Returned
      <4>2. "head" \in DOMAIN got /\ got["head"] = obs.head
        BY <3>1, <4>1 DEF BaseInv, ReadsInv, IsStableAbsence
      <4>3. /\ HeadLeq(seen.head, obs.head) /\ HeadLeq(obs.head, seen.head)
            /\ seen.head \in HeadType /\ obs.head \in HeadType
        BY <2>1, <4>1, <4>2 DEF WholeInv, OrderInv, HasScope
      <4>4. seen.head = obs.head
        BY <4>3, HeadOrder
      <4>5. seen.changed = DOMAIN obs.files
        BY <2>1, <4>1, <4>4 DEF WholeInv, ListedPaths
      <4> QED
        BY <2>1, <2>12, <4>1, <4>4, <4>5
    <3> QED
      BY <2>2, <2>14, <3>1 DEF ConfirmStableAbsence, Reject, Conclude, Await
  <2>15. CASE ConfirmIdentity
    <3>1. CASE pc = "confirm" /\ UNCHANGED <<pc, got, obs, repo, request, result, seen>>
      BY <2>1, <3>1 DEF WholeInv, AbsentScopeIsWhole, ScopePaths, CommittedPaths, MergeBase
    <3> QED
      BY <2>2, <2>15, <3>1 DEF ConfirmIdentity, Reject, Conclude, Await
  <2>16. CASE ConfirmStaleBase
    <3>1. pc = "confirm" /\ pc' = "idle" /\ UNCHANGED <<obs, seen>>
      BY <2>16 DEF ConfirmStaleBase, Returned, Reject, Conclude, Await
    <3> QED
      BY <2>1, <3>1 DEF WholeInv, AbsentScopeIsWhole, Awaits
  <2>17. CASE RepositoryChanges
    <3>1. /\ repo' \in RepoType /\ HeadLeq(repo.head, repo'.head)
          /\ seen'.head = seen.head /\ seen'.changed = seen.changed
          /\ UNCHANGED <<pc, request, todo, got, obs, result>>
      BY <2>17, ChangeFacts
    <3>2. repo.head \in HeadType /\ repo'.head \in HeadType
      BY <3>1 DEF BaseInv, TypeOK, RepoType, HeadType
    <3>3. seen.head \in HeadType /\ HeadLeq(seen.head, repo.head) => HeadLeq(seen.head, repo'.head)
      BY <3>1, <3>2, HeadOrder
    <3>4. ListedPaths' = ListedPaths
      BY <3>1 DEF ListedPaths, ScopePaths, CommittedPaths, MergeBase
    <3> QED
      BY <3>1, <3>3, <3>4 DEF WholeInv, AbsentScopeIsWhole, ScopePaths, CommittedPaths, MergeBase
  <2>18. CASE UNCHANGED vars
    <3>1. ListedPaths' = ListedPaths
      BY <2>18 DEF vars, ListedPaths, ScopePaths, CommittedPaths, MergeBase
    <3> QED
      BY <2>18, <3>1 DEF vars, WholeInv, AbsentScopeIsWhole, ScopePaths, CommittedPaths, MergeBase
  <2> QED
    BY <2>5, <2>6, <2>7, <2>8, <2>9, <2>10, <2>11, <2>13, <2>14, <2>15, <2>16, <2>17, <2>18
       DEF Next, AttestorStep
<1> QED
  BY <1>1, <1>2, BaseHolds, OrderHolds, PTL DEF Spec

\* An answer that counts a file as deleted leaves no changed path out, and HEAD was
\* the commit the changes are relative to when the status was taken
\* (confirmStableAbsence): one state of the repository had all of it.
THEOREM AbsentScopesAreWhole == Spec => []AbsentScopeIsWhole
  BY WholeHolds, PTL DEF WholeInv

-----------------------------------------------------------------------------
(* A repository nobody touches *)

\* What parseChangedPaths makes of a path's codes.
IsSupported(codes) == codes = {} \/ \E code \in PresentCodes \cup AbsentCodes : codes = {code}

\* What the porcelain says of HEAD, the index and the worktree at a path: nothing if
\* and only if they agree, and, when the attestor accepts it, whether the file is there.
LEMMA CodesTell ==
    ASSUME NEW head, NEW index, NEW work
    PROVE  LET codes == StatusCodes(head, index, work)
           IN  /\ codes = {} <=> head = index /\ index = work
               /\ IsSupported(codes)
                    <=> (index # head => ((index = Missing) <=> (work = Missing)))
               /\ IsSupported(codes) /\ codes # {}
                    => (codes \subseteq AbsentCodes <=> work = Missing)
<1> DEFINE codes == StatusCodes(head, index, work)
<1>1. ASSUME NEW c \in PresentCodes, codes = {c}
      PROVE  IsSupported(codes) /\ codes # {} /\ ~(codes \subseteq AbsentCodes)
  BY <1>1 DEF IsSupported, PresentCodes, AbsentCodes
<1>2. ASSUME NEW c \in AbsentCodes, codes = {c}
      PROVE  IsSupported(codes) /\ codes # {} /\ codes \subseteq AbsentCodes
  BY <1>2 DEF IsSupported, PresentCodes, AbsentCodes
<1>3. ASSUME codes \in {{"AD"}, {"MD"}, {"D ", "??"}}
      PROVE  ~IsSupported(codes) /\ codes # {}
  <2>1. CASE codes = {"AD"}
    BY <2>1 DEF IsSupported, PresentCodes, AbsentCodes
  <2>2. CASE codes = {"MD"}
    BY <2>2 DEF IsSupported, PresentCodes, AbsentCodes
  <2>3. CASE codes = {"D ", "??"}
    <3>1. "D " \in codes /\ "??" \in codes
      BY <2>3
    <3> HIDE DEF codes
    <3>2. ASSUME NEW code, codes = {code}
          PROVE  FALSE
      <4>1. code = "D " /\ code = "??"
        BY <3>1, <3>2, Zenon
      <4> QED
        BY <4>1
    <3> QED
      BY <3>1, <3>2 DEF IsSupported
  <2> QED
    BY <1>3, <2>1, <2>2, <2>3
<1>4. ASSUME codes = {}
      PROVE  IsSupported(codes)
  BY <1>4 DEF IsSupported
<1>5. CASE index = Missing
  <2>1. CASE head # Missing /\ work # Missing
    <3>1. codes = {"D ", "??"}
      BY <1>5, <2>1 DEF StatusCodes
    <3> QED
      BY <1>3, <1>5, <2>1, <3>1
  <2>2. CASE head # Missing /\ work = Missing
    <3>1. codes = {"D "} /\ "D " \in AbsentCodes
      BY <1>5, <2>2 DEF StatusCodes, AbsentCodes
    <3> QED
      BY <1>2, <1>5, <2>2, <3>1
  <2>3. CASE head = Missing /\ work # Missing
    <3>1. codes = {"??"} /\ "??" \in PresentCodes
      BY <1>5, <2>3 DEF StatusCodes, PresentCodes
    <3> QED
      BY <1>1, <1>5, <2>3, <3>1
  <2>4. CASE head = Missing /\ work = Missing
    <3>1. codes = {}
      BY <1>5, <2>4 DEF StatusCodes
    <3> QED
      BY <1>4, <1>5, <2>4, <3>1
  <2> QED
    BY <2>1, <2>2, <2>3, <2>4
<1>6. CASE index # Missing
  <2>1. CASE head = Missing /\ work = Missing
    <3>1. codes = {"AD"}
      BY <1>6, <2>1 DEF StatusCodes
    <3> QED
      BY <1>3, <1>6, <2>1, <3>1
  <2>2. CASE head = Missing /\ work # Missing
    <3>1. codes \in {{"AM"}, {"A "}} /\ {"AM", "A "} \subseteq PresentCodes
      BY <1>6, <2>2 DEF StatusCodes, PresentCodes
    <3> QED
      BY <1>1, <1>6, <2>2, <3>1
  <2>3. CASE head # Missing /\ head # index /\ work = Missing
    <3>1. codes = {"MD"}
      BY <1>6, <2>3 DEF StatusCodes
    <3> QED
      BY <1>3, <1>6, <2>3, <3>1
  <2>4. CASE head # Missing /\ head # index /\ work # Missing
    <3>1. codes \in {{"MM"}, {"M "}} /\ {"MM", "M "} \subseteq PresentCodes
      BY <1>6, <2>4 DEF StatusCodes, PresentCodes
    <3> QED
      BY <1>1, <1>6, <2>4, <3>1
  <2>5. CASE head = index /\ work = Missing
    <3>1. codes = {" D"} /\ " D" \in AbsentCodes
      BY <1>6, <2>5 DEF StatusCodes, AbsentCodes
    <3> QED
      BY <1>2, <1>6, <2>5, <3>1
  <2>6. CASE head = index /\ work # Missing /\ work # index
    <3>1. codes = {" M"} /\ " M" \in PresentCodes
      BY <1>6, <2>6 DEF StatusCodes, PresentCodes
    <3> QED
      BY <1>1, <1>6, <2>6, <3>1
  <2>7. CASE head = index /\ work = index
    <3>1. codes = {}
      BY <1>6, <2>7 DEF StatusCodes
    <3> QED
      BY <1>4, <1>6, <2>7, <3>1
  <2> QED
    BY <1>6, <2>1, <2>2, <2>3, <2>4, <2>5, <2>6, <2>7
<1> QED
  BY <1>5, <1>6

\* The same of the whole repository.
LEMMA PorcelainTells ==
    /\ IsSupportedPorcelain(Porcelain) <=> IsUnambiguous
    /\ ScopePaths(repo.local, repo.head, Porcelain) = ChangedSinceBase
    /\ IsUnambiguous =>
         \A p \in Paths :
            (IF Porcelain[p] = {} THEN repo.head.files[p] = Missing
                                  ELSE Porcelain[p] \subseteq AbsentCodes)
            <=> repo.work[p] = Missing
<1> DEFINE codes(p) == StatusCodes(repo.head.files[p], repo.index[p], repo.work[p])
<1>1. \A p \in Paths : Porcelain[p] = IF IsRenamed(p) THEN {"R "} ELSE codes(p)
  BY DEF Porcelain
<1>2. \A p \in Paths :
        /\ codes(p) = {} <=> repo.head.files[p] = repo.index[p] /\ repo.index[p] = repo.work[p]
        /\ IsSupported(codes(p))
             <=> (repo.index[p] # repo.head.files[p]
                    => ((repo.index[p] = Missing) <=> (repo.work[p] = Missing)))
        /\ IsSupported(codes(p)) /\ codes(p) # {}
             => (codes(p) \subseteq AbsentCodes <=> repo.work[p] = Missing)
  BY CodesTell
<1>3. \A p \in Paths : IsRenamed(p) => repo.head.files[p] # repo.index[p]
  BY DEF IsRenamed, IsRename
<1>4. ~IsSupported({"R "}) /\ {"R "} # {}
  BY DEF IsSupported, PresentCodes, AbsentCodes
<1> HIDE DEF codes
<1>5. IsSupportedPorcelain(Porcelain) <=> \A p \in Paths : IsSupported(Porcelain[p])
  BY DEF IsSupportedPorcelain, IsSupported
<1>6. \A p \in Paths :
        IsSupported(Porcelain[p])
          <=> /\ ~IsRenamed(p)
              /\ repo.index[p] # repo.head.files[p]
                   => ((repo.index[p] = Missing) <=> (repo.work[p] = Missing))
  BY <1>1, <1>2, <1>4
<1>7. IsSupportedPorcelain(Porcelain) <=> IsUnambiguous
  BY <1>5, <1>6 DEF IsUnambiguous
<1>8. ScopePaths(repo.local, repo.head, Porcelain) = ChangedSinceBase
  <2> DEFINE old == BaseTrees[MergeBase(repo.local, repo.head)]
  <2>1. \A p \in Paths :
          Porcelain[p] = {} <=> repo.head.files[p] = repo.index[p] /\ repo.index[p] = repo.work[p]
    BY <1>1, <1>2, <1>3, <1>4
  <2>2. \A p \in Paths :
          {old[p]} # {repo.head.files[p], repo.index[p], repo.work[p]}
            <=> old[p] # repo.head.files[p] \/ Porcelain[p] # {}
    BY <2>1
  <2> QED
    BY <2>2 DEF ScopePaths, CommittedPaths, ChangedSinceBase
<1>9. ASSUME IsUnambiguous, NEW p \in Paths
      PROVE  (IF Porcelain[p] = {} THEN repo.head.files[p] = Missing
                                   ELSE Porcelain[p] \subseteq AbsentCodes)
             <=> repo.work[p] = Missing
  <2>1. ~IsRenamed(p) /\ IsSupported(Porcelain[p]) /\ Porcelain[p] = codes(p)
    BY <1>1, <1>6, <1>9 DEF IsUnambiguous
  <2> QED
    BY <1>2, <2>1
<1> QED
  BY <1>7, <1>8, <1>9

\* What an observation of a quiet repository lists.
LEMMA QuietScope ==
    ASSUME BaseInv, QuietInv, IsQuiet, pc \in HasScope
    PROVE  /\ ListedPaths = ChangedSinceBase /\ ListedPaths \subseteq Paths
           /\ repo.local = repo.remote /\ IsUnambiguous
           /\ obs.branch = repo.branch /\ obs.base = repo.local /\ obs.head = repo.head
           /\ obs.porcelain = Porcelain
           /\ \A p \in ListedPaths : p \in ListedAbsent <=> repo.work[p] = Missing
<1>1. /\ repo.local = repo.remote /\ IsUnambiguous
      /\ obs.branch = repo.branch /\ obs.base = repo.local /\ obs.head = repo.head
      /\ obs.porcelain = Porcelain
  BY DEF QuietInv, HasScope, HasHead, IsBased, HasBase
<1>2. ListedPaths = ChangedSinceBase
  BY <1>1, PorcelainTells DEF ListedPaths
<1>3. ListedPaths \subseteq Paths
  BY <1>2 DEF ChangedSinceBase
<1>4. \A p \in ListedPaths : p \in ListedAbsent <=> repo.work[p] = Missing
  BY <1>1, <1>3, PorcelainTells DEF ListedAbsent, IsListedAbsent
<1> QED
  BY <1>1, <1>2, <1>3, <1>4

\* Then the answer is the one-step answer, or has still to be confirmed.
LEMMA QuietAnswers ==
    ASSUME BaseInv, QuietInv, IsQuiet, pc \in HasScope, UNCHANGED repo,
           AnswerRequest([p \in ListedPaths |-> repo.work[p]])
    PROVE  \/ /\ pc' = "idle" /\ result' = AnswerNow'
              /\ result' = "review-checkpoint" => request'.checkpoint.reviewed = ReviewedNow'
           \/ pc' = "confirm" /\ AnswerNow' = "review-base-stale" /\ result' = "none"
<1> DEFINE files == [p \in ListedPaths |-> repo.work[p]]
<1>1. /\ repo.local = repo.remote /\ IsUnambiguous
      /\ obs.branch = repo.branch /\ obs.base = repo.local /\ obs.head = repo.head
  BY QuietScope
<1>2. ReviewedOf(files) = ReviewedNow
  BY QuietScope DEF ReviewedOf, Without, ReviewedNow
<1>3. ReviewedNow' = ReviewedNow /\ (IsUnambiguous <=> IsUnambiguous')
  BY DEF ReviewedNow, ChangedSinceBase, IsUnambiguous, IsRenamed, IsRename
<1>4. repo.local \in Nat /\ repo.head.base \in Nat
  <2>1. repo \in RepoType
    BY DEF BaseInv, TypeOK, RepoType, HeadType
  <2> QED
    BY <2>1, RepoFields
<1> HIDE DEF files
<1>5. CASE request.phase = "review"
  <2>1. /\ pc' = "idle" /\ result' = "review-checkpoint"
        /\ request' = [request EXCEPT !.checkpoint = ObservedCheckpoint(files)]
    BY <1>5 DEF AnswerRequest, Conclude, Await, files
  <2>2. request'.phase = "review" /\ request'.checkpoint = ObservedCheckpoint(files)
    BY <1>5, <2>1 DEF BaseInv, Shapes
  <2>3. request'.checkpoint.reviewed = ReviewedNow'
    BY <1>2, <1>3, <2>2 DEF ObservedCheckpoint
  <2>4. AnswerNow' = "review-checkpoint"
    BY <1>1, <1>3, <2>2 DEF AnswerNow
  <2> QED
    BY <2>1, <2>3, <2>4
<1>6. CASE request.phase # "review"
  <2> DEFINE c == IF request.checkpoint = NoCheckpoint
                  THEN ObservedCheckpoint(files) ELSE request.checkpoint
  <2>1. AnswerFinal(c, files) /\ UNCHANGED request
    BY <1>6 DEF AnswerRequest, files
  <2>2. pc \in Awaits /\ result = "none"
    BY DEF BaseInv, ReadsInv, HasScope, HasHead, IsBased, HasBase, Started
  <2>3. AnswerNow' = IF request.checkpoint = NoCheckpoint THEN "final-receipt"
                     ELSE IF request.checkpoint.branch # repo.branch THEN "rejected"
                     ELSE IF request.checkpoint.base = repo.local
                     THEN IF request.checkpoint.reviewed = ReviewedNow
                          THEN "final-receipt" ELSE "review-invalidated"
                     ELSE IF repo.head.base < repo.local THEN "rejected" ELSE "review-base-stale"
    BY <1>1, <1>3, <1>6, <2>1 DEF AnswerNow
  <2>4. MergeBase(obs.base, obs.head) # obs.base <=> repo.head.base < repo.local
    BY <1>1, <1>4 DEF MergeBase
  <2>5. CASE request.checkpoint = NoCheckpoint
    <3>1. c.branch = obs.branch /\ c.base = obs.base /\ c.reviewed = ReviewedOf(files)
      BY <2>5 DEF ObservedCheckpoint
    <3> HIDE DEF c
    <3>2. Conclude("final-receipt")
      BY <2>1, <3>1 DEF AnswerFinal
    <3> QED
      BY <2>3, <2>5, <3>2 DEF Conclude, Await
  <2>6. CASE request.checkpoint # NoCheckpoint
    <3>1. c = request.checkpoint
      BY <2>6
    <3> HIDE DEF c
    <3>2. CASE c.branch # obs.branch
      <4>1. Conclude("rejected") /\ AnswerNow' = "rejected"
        BY <1>1, <2>1, <2>3, <2>6, <3>1, <3>2 DEF AnswerFinal
      <4> QED
        BY <4>1 DEF Conclude, Await
    <3>3. CASE c.branch = obs.branch /\ c.base = obs.base
      <4>1. Conclude(IF c.reviewed = ReviewedOf(files)
                     THEN "final-receipt" ELSE "review-invalidated")
        BY <2>1, <3>3 DEF AnswerFinal
      <4>2. AnswerNow' = IF c.reviewed = ReviewedOf(files)
                         THEN "final-receipt" ELSE "review-invalidated"
        BY <1>1, <1>2, <2>3, <2>6, <3>1, <3>3
      <4> QED
        BY <4>1, <4>2 DEF Conclude, Await
    <3>4. CASE /\ c.branch = obs.branch /\ c.base # obs.base
               /\ MergeBase(obs.base, obs.head) # obs.base
      <4>1. Conclude("rejected") /\ AnswerNow' = "rejected"
        BY <1>1, <2>1, <2>3, <2>4, <2>6, <3>1, <3>4 DEF AnswerFinal
      <4> QED
        BY <4>1 DEF Conclude, Await
    <3>5. CASE /\ c.branch = obs.branch /\ c.base # obs.base
               /\ MergeBase(obs.base, obs.head) = obs.base
      <4>1. pc' = "confirm" /\ result' = "none"
        BY <2>1, <2>2, <3>5 DEF AnswerFinal, Await
      <4>2. AnswerNow' = "review-base-stale"
        BY <1>1, <2>3, <2>4, <2>6, <3>1, <3>5
      <4> QED
        BY <4>1, <4>2
    <3> QED
      BY <3>2, <3>3, <3>4, <3>5
  <2> QED
    BY <2>5, <2>6
<1> QED
  BY <1>5, <1>6

\* While nothing changes, every read returns what the repository is.
LEMMA QuietHolds == Spec => []QuietInv
<1> USE AttestorAssumption
<1>1. Init => QuietInv
  BY DEF Init, QuietInv, QuietAnswer, HasScope, HasHead, IsBased, HasBase, Started, Awaits
<1>2. BaseInv /\ QuietInv /\ [Next]_vars => QuietInv'
  <2> SUFFICES ASSUME BaseInv, QuietInv, [Next]_vars PROVE QuietInv'
    OBVIOUS
  <2>1. /\ HasScope = {"files", "absence", "confirm"}
        /\ HasHead = {"status"} \cup HasScope
        /\ HasBase = {"stable", "head"} \cup HasHead
        /\ Started = {"identity"} \cup HasBase
    BY DEF HasScope, HasHead, IsBased, HasBase, Started, Awaits
  <2>2. seen.since \in Nat /\ edits \in Nat /\ seen.since <= edits
    BY DEF QuietInv, BaseInv, TypeOK
  <2>3. CASE RequestAttestation
    <3>1. pc' = "branch" /\ got' = <<>> /\ result' = "none" /\ seen'.since = edits /\ edits' = edits
      BY <2>3 DEF RequestAttestation, Await
    <3> QED
      BY <2>1, <2>2, <3>1 DEF QuietInv, QuietAnswer
  <2>4. CASE RepositoryChanges
    <3>1. edits' = edits + 1 /\ seen'.since = seen.since
      BY <2>4, RepoMoves DEF BaseInv, Shapes
    <3>2. ~IsQuiet'
      BY <2>2, <3>1 DEF IsQuiet
    <3> QED
      BY <2>2, <3>1, <3>2 DEF QuietInv, QuietAnswer
  <2>5. CASE UNCHANGED vars
    <3>1. /\ \A x : Answer(x)' = Answer(x)
          /\ Porcelain' = Porcelain /\ (IsUnambiguous <=> IsUnambiguous')
          /\ ListedPaths' = ListedPaths /\ AnswerNow' = AnswerNow /\ ReviewedNow' = ReviewedNow
      BY <2>5 DEF vars, Answer, Porcelain, IsRenamed, IsRename, IsUnambiguous, ListedPaths,
                  ScopePaths, CommittedPaths, MergeBase, AnswerNow, ReviewedNow, ChangedSinceBase
    <3> QED
      BY <2>5, <3>1 DEF vars, QuietInv, QuietAnswer, IsQuiet
  <2>6. CASE AttestorStep
    <3>1. repo' = repo /\ edits' = edits /\ seen'.since = seen.since
      <4>1. ASSUME NEW files, AnswerRequest(files)
            PROVE  seen'.since = seen.since
        <5>1. \/ UNCHANGED seen
              \/ \E b : seen' = [seen EXCEPT !.settled = b]
          BY <4>1, AnswerFacts DEF BaseInv
        <5> QED
          BY <5>1 DEF BaseInv, Shapes
      <4>2. CASE FilesRead \/ ConfirmStableAbsence
        BY <4>1, <4>2 DEF FilesRead, ConfirmStableAbsence
      <4>3. CASE Read
        BY <4>3 DEF Read, BaseInv, Shapes
      <4> QED
        BY <2>6, <4>2, <4>3 DEF AttestorStep, ReadBranch, ReadIdentity, RequireStableIdentity,
             ObserveCommittedScope, ListScope, ConfirmIdentity, ConfirmStaleBase
    <3>2. IsQuiet' <=> IsQuiet
      BY <3>1 DEF IsQuiet
    <3>3. CASE ~IsQuiet
      BY <2>2, <3>1, <3>2, <3>3 DEF QuietInv, QuietAnswer
    <3>4. CASE IsQuiet
      <4>1. /\ \A x : Answer(x)' = Answer(x)
            /\ Porcelain' = Porcelain /\ (IsUnambiguous <=> IsUnambiguous')
        BY <3>1 DEF Answer, Porcelain, IsUnambiguous, IsRenamed, IsRename
      <4>2. /\ \A x \in DOMAIN got : got[x] = Answer(x)
            /\ pc \in Started => obs.branch = repo.branch
            /\ pc \in HasBase => obs.base = repo.local /\ repo.local = repo.remote
            /\ pc \in HasHead => obs.head = repo.head
            /\ pc \in HasScope => obs.porcelain = Porcelain /\ IsUnambiguous
            /\ pc = "absence" => obs.files = [p \in ListedPaths |-> repo.work[p]]
            /\ pc = "confirm" => AnswerNow = "review-base-stale"
        BY <3>4 DEF QuietInv
      <4>3. /\ Answer("branch") = repo.branch
            /\ Answer("local") = repo.local /\ Answer("remote") = repo.remote
            /\ Answer("local again") = repo.local /\ Answer("remote again") = repo.remote
            /\ Answer("head") = repo.head /\ Answer("status") = Porcelain
            /\ \A p \in Paths : Answer(p) = repo.work[p]
        BY DEF Answer, RefReads
      <4>4. /\ UNCHANGED request => AnswerNow' = AnswerNow
            /\ ReviewedNow' = ReviewedNow
        BY <3>1, <4>1 DEF AnswerNow, ReviewedNow, ChangedSinceBase
      <4>5. pc \in Awaits => result = "none"
        BY DEF BaseInv, ReadsInv
      <4>6. ASSUME Reject, UNCHANGED request, AnswerNow = "rejected"
            PROVE  QuietInv'
        BY <2>1, <2>2, <3>1, <4>4, <4>6 DEF QuietInv, QuietAnswer, Reject, Conclude, Await
      <4>7. CASE Read
        <5>1. PICK read \in todo :
             /\ DOMAIN got' = DOMAIN got \cup {read}
             /\ got'[read] = Answer(read)
             /\ \A x \in DOMAIN got : got'[x] = got[x]
          BY <4>7, ReadFacts
        <5>2. UNCHANGED <<repo, pc, request, obs, result>> /\ pc \in Awaits
          BY <4>7 DEF Read, BaseInv, ReadsInv, TypeOK
        <5>3. ListedPaths' = ListedPaths
          BY <5>2 DEF ListedPaths, ScopePaths, CommittedPaths, MergeBase
        <5>4. \A x \in DOMAIN got' : got'[x] = Answer(x)'
          BY <4>1, <4>2, <5>1
        <5> QED
          BY <2>2, <3>1, <4>1, <4>2, <4>4, <4>5, <5>2, <5>3, <5>4 DEF QuietInv, QuietAnswer
      <4>8. CASE ReadBranch
        <5>1. /\ obs' = [obs EXCEPT !.branch = got["branch"]] /\ "branch" \in DOMAIN got
              /\ pc = "branch" /\ pc' = "identity" /\ got' = <<>> /\ UNCHANGED result
          BY <4>8 DEF ReadBranch, Returned, Await, BaseInv, ReadsInv
        <5>2. obs'.branch = repo.branch /\ result' = "none"
          BY <4>2, <4>3, <4>5, <5>1 DEF BaseInv, Shapes, Awaits
        <5> QED
          BY <2>1, <2>2, <3>1, <5>1, <5>2 DEF QuietInv, QuietAnswer
      <4>9. CASE ReadIdentity
        <5>1. {"local", "remote"} \subseteq DOMAIN got /\ pc = "identity" /\ UNCHANGED request
          BY <4>9 DEF ReadIdentity, Returned, BaseInv, ReadsInv
        <5>2. got["local"] = repo.local /\ got["remote"] = repo.remote
          BY <4>2, <4>3, <5>1
        <5>3. CASE got["local"] = got["remote"]
          <6>1. /\ obs' = [obs EXCEPT !.base = got["local"]] /\ pc' = "stable" /\ got' = <<>>
                /\ UNCHANGED result
            BY <4>9, <5>3 DEF ReadIdentity, Await
          <6>2. /\ obs'.branch = repo.branch /\ obs'.base = repo.local /\ repo.local = repo.remote
                /\ result' = "none"
            BY <2>1, <4>2, <4>5, <5>1, <5>2, <5>3, <6>1 DEF BaseInv, Shapes, Awaits
          <6> QED
            BY <2>1, <2>2, <3>1, <6>1, <6>2 DEF QuietInv, QuietAnswer
        <5>4. CASE got["local"] # got["remote"]
          <6>1. AnswerNow = "rejected"
            BY <5>2, <5>4 DEF AnswerNow
          <6> QED
            BY <4>6, <4>9, <5>1, <5>4, <6>1 DEF ReadIdentity
        <5> QED
          BY <5>3, <5>4
      <4>10. CASE RequireStableIdentity
        <5>1. {"local", "remote"} \subseteq DOMAIN got /\ pc = "stable"
          BY <4>10 DEF RequireStableIdentity, Returned, BaseInv, ReadsInv
        <5>2. IsStableIdentity(got["local"], got["remote"], obs.base)
          BY <2>1, <4>2, <4>3, <5>1 DEF IsStableIdentity
        <5>3. pc' = "head" /\ got' = <<>> /\ UNCHANGED <<obs, result>>
          BY <4>10, <5>2 DEF RequireStableIdentity, Await
        <5>4. result' = "none"
          BY <4>5, <5>1, <5>3 DEF Awaits
        <5> QED
          BY <2>1, <2>2, <3>1, <4>2, <5>1, <5>3, <5>4 DEF QuietInv, QuietAnswer
      <4>11. CASE ObserveCommittedScope
        <5>1. /\ obs' = [obs EXCEPT !.head = got["head"]] /\ "head" \in DOMAIN got
              /\ pc = "head" /\ pc' = "status" /\ got' = <<>> /\ UNCHANGED result
          BY <4>11 DEF ObserveCommittedScope, Returned, Await, BaseInv, ReadsInv
        <5>2. /\ obs'.head = repo.head /\ obs'.base = obs.base /\ obs'.branch = obs.branch
              /\ result' = "none"
          BY <4>2, <4>3, <4>5, <5>1 DEF BaseInv, Shapes, Awaits
        <5> QED
          BY <2>1, <2>2, <3>1, <4>2, <5>1, <5>2 DEF QuietInv, QuietAnswer
      <4>12. CASE ListScope
        <5>1. "status" \in DOMAIN got /\ pc = "status" /\ UNCHANGED request
          BY <4>12 DEF ListScope, Returned, BaseInv, ReadsInv
        <5>2. got["status"] = Porcelain
          BY <4>2, <4>3, <5>1
        <5>3. CASE IsUnambiguous
          <6>1. IsSupportedPorcelain(got["status"])
            BY <5>2, <5>3, PorcelainTells
          <6>2. /\ obs' = [obs EXCEPT !.porcelain = got["status"]] /\ pc' = "files" /\ got' = <<>>
                /\ UNCHANGED result
            BY <4>12, <6>1 DEF ListScope, Await
          <6>3. /\ obs'.head = obs.head /\ obs'.base = obs.base /\ obs'.branch = obs.branch
                /\ obs'.porcelain = Porcelain /\ result' = "none"
            BY <4>5, <5>1, <5>2, <6>2 DEF BaseInv, Shapes, Awaits
          <6> QED
            BY <2>1, <2>2, <3>1, <4>1, <4>2, <5>1, <5>3, <6>2, <6>3 DEF QuietInv, QuietAnswer
        <5>4. CASE ~IsUnambiguous
          <6>1. AnswerNow = "rejected"
            BY <5>4 DEF AnswerNow
          <6>2. ~IsSupportedPorcelain(got["status"])
            BY <5>2, <5>4, PorcelainTells
          <6> QED
            BY <4>6, <4>12, <5>1, <6>1, <6>2 DEF ListScope
        <5> QED
          BY <5>3, <5>4
      <4>13. ASSUME AnswerRequest([p \in ListedPaths |-> repo.work[p]]), pc \in HasScope
             PROVE  QuietInv'
        <5>1. /\ obs' = obs /\ got' = <<>>
              /\ obs.branch = repo.branch /\ obs.base = repo.local /\ repo.local = repo.remote
              /\ obs.head = repo.head /\ obs.porcelain = Porcelain /\ IsUnambiguous
          BY <3>4, <4>13, Answered, QuietScope DEF BaseInv
        <5>2. \/ /\ pc' = "idle" /\ result' = AnswerNow'
                 /\ result' = "review-checkpoint" => request'.checkpoint.reviewed = ReviewedNow'
              \/ pc' = "confirm" /\ AnswerNow' = "review-base-stale" /\ result' = "none"
          BY <3>1, <3>4, <4>13, QuietAnswers
        <5> QED
          BY <2>1, <2>2, <3>1, <4>1, <5>1, <5>2 DEF QuietInv, QuietAnswer
      <4>14. CASE FilesRead
        <5>1. pc = "files" /\ todo = {} /\ pc \in HasScope
          BY <2>1, <4>14 DEF FilesRead, Returned
        <5>2. DOMAIN got = ListedPaths
          <6>1. todo \cup DOMAIN got = DOMAIN got
            BY <5>1
          <6> QED
            BY <5>1, <6>1 DEF BaseInv, ReadsInv
        <5>3. \A p \in ListedPaths : got[p] = repo.work[p]
          BY <3>4, <4>2, <4>3, <5>1, <5>2, QuietScope
        <5>4. got = [p \in ListedPaths |-> repo.work[p]]
          <6>1. got = [x \in DOMAIN got |-> got[x]]
            BY DEF BaseInv, Shapes
          <6> QED
            BY <5>2, <5>3, <6>1
        <5>5. ~ \E p \in ListedPaths : (got[p] = Missing) # (p \in ListedAbsent)
          BY <3>4, <5>1, <5>3, QuietScope
        <5>6. CASE ListedAbsent # {}
          <6>1. /\ obs' = [obs EXCEPT !.files = got] /\ pc' = "absence" /\ got' = <<>>
                /\ UNCHANGED <<request, result>>
            BY <4>14, <5>5, <5>6 DEF FilesRead, Await
          <6>2. /\ obs'.head = obs.head /\ obs'.base = obs.base /\ obs'.branch = obs.branch
                /\ obs'.porcelain = obs.porcelain /\ obs'.files = got /\ result' = "none"
            BY <4>5, <5>1, <6>1 DEF BaseInv, Shapes, Awaits
          <6>3. ListedPaths' = ListedPaths
            BY <6>2 DEF ListedPaths, ScopePaths, CommittedPaths, MergeBase
          <6>4. obs'.files = [p \in ListedPaths' |-> repo'.work[p]]
            BY <3>1, <5>4, <6>2, <6>3
          <6> QED
            BY <2>1, <2>2, <3>1, <4>1, <4>2, <5>1, <6>1, <6>2, <6>4 DEF QuietInv, QuietAnswer
        <5>7. CASE ListedAbsent = {}
          BY <4>13, <4>14, <5>1, <5>4, <5>5, <5>7 DEF FilesRead
        <5> QED
          BY <5>6, <5>7
      <4>15. CASE ConfirmStableAbsence
        <5>1. pc = "absence" /\ {"head", "status"} \subseteq DOMAIN got /\ pc \in HasScope
          BY <2>1, <4>15 DEF ConfirmStableAbsence, Returned, BaseInv, ReadsInv
        <5>2. IsStableAbsence(got["head"], got["status"])
          BY <2>1, <4>2, <4>3, <5>1 DEF IsStableAbsence
        <5>3. AnswerRequest(obs.files)
          BY <4>15, <5>2 DEF ConfirmStableAbsence
        <5> QED
          BY <4>2, <4>13, <5>1, <5>3
      <4>16. CASE ConfirmIdentity
        <5>1. pc = "confirm" /\ got["local"] = got["remote"]
          BY <2>1, <4>2, <4>3, <4>16 DEF ConfirmIdentity
        <5>2. UNCHANGED <<pc, got, obs, result, request>>
          BY <4>16, <5>1 DEF ConfirmIdentity
        <5>3. result = "none"
          BY <4>5, <5>1 DEF Awaits
        <5> QED
          BY <2>1, <2>2, <3>1, <4>1, <4>2, <4>4, <5>1, <5>2, <5>3 DEF QuietInv, QuietAnswer
      <4>17. CASE ConfirmStaleBase
        <5>1. /\ pc = "confirm" /\ todo = {} /\ "local again" \in DOMAIN got /\ UNCHANGED request
          BY <4>17 DEF ConfirmStaleBase, Returned, IdentityReadTwice
        <5>2. DOMAIN got = RefReads
          <6>1. todo \cup DOMAIN got = DOMAIN got
            BY <5>1
          <6> QED
            BY <5>1, <6>1 DEF BaseInv, ReadsInv
        <5>3. ~ObservationMoved
          BY <2>1, <4>2, <4>3, <5>1, <5>2 DEF ObservationMoved, IsStableIdentity, RefReads
        <5>4. Conclude("review-base-stale") /\ AnswerNow' = "review-base-stale"
          BY <4>2, <4>4, <4>17, <5>1, <5>3 DEF ConfirmStaleBase
        <5> QED
          BY <2>1, <2>2, <3>1, <5>4 DEF QuietInv, QuietAnswer, Conclude, Await
      <4> QED
        BY <2>6, <4>7, <4>8, <4>9, <4>10, <4>11, <4>12, <4>14, <4>15, <4>16, <4>17 DEF AttestorStep
    <3> QED
      BY <3>3, <3>4
  <2> QED
    BY <2>3, <2>4, <2>5, <2>6 DEF Next
<1> QED
  BY <1>1, <1>2, BaseHolds, PTL DEF Spec

\* In a repository nobody touches an attestation, for all its reads, answers what the
\* runner takes in one step: AnswerNow, the one-step attestor of PipelineRunner.
THEOREM QuietAnswersAreAtomic == Spec => []QuietAnswer
  BY QuietHolds, PTL DEF QuietInv
=============================================================================
