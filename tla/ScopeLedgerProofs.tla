------------------------- MODULE ScopeLedgerProofs -------------------------
(***************************************************************************)
(* What a reader of the state file may rely on, whatever approvals and     *)
(* seals are: the consistency of the ledger that the runner implements     *)
(* (RunnerProperties, ImplementsLedger).                                   *)
(***************************************************************************)
EXTENDS ScopeLedger, TLAPS

\* Approvals and seals carry the run that produced them, and a seal carries the
\* run of the approval it confirms.
ApprovalsAndSeals ==
    /\ NoApproval \in Approvals /\ NoSeal \in Seals
    /\ \A a \in Approvals : a.run \in Nat
    /\ \A s \in Seals : s.run \in Nat /\ ApprovalOf(s) \in Approvals /\ ApprovalOf(s).run = s.run

LedgerTypeOK ==
    /\ approval \in Approvals
    /\ seal \in Seals
    /\ done \in BOOLEAN
    /\ ledger \in Seq(Seals)

\* A seal confirms the standing approval; only a sealed pipeline is done; the
\* archive is ordered by run, without repetition; and what stands now is newer
\* than everything in it.
Consistent ==
    /\ seal # NoSeal => approval = ApprovalOf(seal)
    /\ done => seal # NoSeal
    /\ \A i, j \in DOMAIN ledger : i < j => ledger[i].run < ledger[j].run
    /\ approval # NoApproval \/ seal # NoSeal => IsFresh(approval)

LEMMA LedgerTypeStep ==
    ASSUME ApprovalsAndSeals
    PROVE  LedgerTypeOK /\ [Next]_ledgerVars => LedgerTypeOK'
<1> SUFFICES ASSUME LedgerTypeOK, [Next]_ledgerVars PROVE LedgerTypeOK'
  OBVIOUS
<1> USE DEF LedgerTypeOK
<1>1. CASE Approve
  BY <1>1 DEF Approve, ApprovalsAndSeals
<1>2. CASE Seal
  BY <1>2 DEF Seal, ApprovalsAndSeals
<1>3. CASE Complete \/ Reopen \/ UNCHANGED ledgerVars
  BY <1>3 DEF Complete, Reopen, ledgerVars
<1>4. CASE Revoke
  BY <1>4 DEF Revoke, ApprovalsAndSeals
<1>5. CASE Supersede
  <2>1. ledger' \in Seq(Seals)
    BY <1>5 DEF Supersede
  <2>2. done' \in BOOLEAN
    BY <1>5 DEF Supersede
  <2> QED
    BY <1>5, <2>1, <2>2 DEF Supersede, ApprovalsAndSeals
<1> QED
  BY <1>1, <1>2, <1>3, <1>4, <1>5 DEF Next

LEMMA ConsistentStep ==
    ASSUME ApprovalsAndSeals
    PROVE  LedgerTypeOK /\ Consistent /\ [Next]_ledgerVars => Consistent'
<1> SUFFICES ASSUME LedgerTypeOK, Consistent, [Next]_ledgerVars PROVE Consistent'
  OBVIOUS
<1> USE DEF Consistent, IsFresh
<1>1. CASE Approve
  BY <1>1 DEF Approve
<1>2. CASE Seal
  <2>1. seal' \in Seals /\ approval' = ApprovalOf(seal') /\ approval'.run = seal'.run
    BY <1>2 DEF Seal, ApprovalsAndSeals
  <2> QED
    BY <1>2, <2>1 DEF Seal
<1>3. CASE Complete \/ Reopen \/ Revoke \/ UNCHANGED ledgerVars
  BY <1>3 DEF Complete, Reopen, Revoke, ledgerVars
<1>4. CASE Supersede
  <2>1. ledger \in Seq(Seals) /\ seal \in Seals /\ ledger' = Append(ledger, seal)
    BY <1>4 DEF Supersede, LedgerTypeOK
  <2>2. approval.run = seal.run
    BY <1>4, <2>1 DEF Supersede, ApprovalsAndSeals
  <2>3. \A i \in DOMAIN ledger : ledger[i].run < seal.run
    <3>1. \A i \in DOMAIN ledger : ledger[i] \in Seals
      BY <2>1
    <3> QED
      BY <1>4, <2>1, <2>2, <3>1 DEF Supersede, ApprovalsAndSeals
  <2>4. ASSUME NEW i \in DOMAIN ledger', NEW j \in DOMAIN ledger', i < j
        PROVE  ledger'[i].run < ledger'[j].run
    <3>1. i \in DOMAIN ledger /\ ledger'[i] = ledger[i]
      BY <2>1, <2>4
    <3>2. CASE j \in DOMAIN ledger
      BY <2>1, <2>4, <3>1, <3>2
    <3>3. CASE j = Len(ledger) + 1
      BY <2>1, <2>3, <3>1, <3>3
    <3> QED
      BY <2>1, <2>4, <3>2, <3>3
  <2> QED
    BY <1>4, <2>4 DEF Supersede
<1> QED
  BY <1>1, <1>2, <1>3, <1>4 DEF Next

\* The ledger is consistent in every run: what the state file calls done is
\* sealed, its seal is its approval, and no superseded seal ever stands again.
THEOREM LedgerIsConsistent ==
    ASSUME ApprovalsAndSeals
    PROVE  Spec => [](LedgerTypeOK /\ Consistent)
<1>1. Init => LedgerTypeOK /\ Consistent
  <2> SUFFICES ASSUME Init PROVE LedgerTypeOK /\ Consistent
    OBVIOUS
  <2>1. done \in BOOLEAN
    BY DEF Init
  <2>2. ledger \in Seq(Seals) /\ DOMAIN ledger = {}
    BY DEF Init
  <2> QED
    BY <2>1, <2>2 DEF ApprovalsAndSeals, Init, LedgerTypeOK, Consistent, IsFresh
<1>2. LedgerTypeOK /\ Consistent /\ [Next]_ledgerVars => (LedgerTypeOK /\ Consistent)'
  BY LedgerTypeStep, ConsistentStep
<1> QED
  BY <1>1, <1>2, PTL DEF Spec
=============================================================================
