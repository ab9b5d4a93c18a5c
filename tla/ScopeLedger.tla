----------------------------- MODULE ScopeLedger -----------------------------
(***************************************************************************)
(* What the state file promises to a reader that does not know how stages  *)
(* run, such as a landing script (README.md, "Durable interfaces"): at     *)
(* most one approval of the code stands, a seal is an approval confirmed   *)
(* for the whole worktree, nothing is done without a seal, and a seal that *)
(* was superseded is kept and never comes back.                            *)
(***************************************************************************)
EXTENDS Integers, Sequences

CONSTANTS
    Approvals,       \* what a review may approve; each has a "run"
    Seals,           \* what a final comparison may confirm; each has a "run"
    NoApproval, NoSeal,
    ApprovalOf(_)    \* the approval a seal confirms

VARIABLES
    approval,    \* the standing approval
    seal,        \* the active seal
    done,        \* the file says the pipeline is done
    ledger       \* the superseded seals, oldest first

ledgerVars == <<approval, seal, done, ledger>>

Init == approval = NoApproval /\ seal = NoSeal /\ done = FALSE /\ ledger = <<>>

\* No approval from before a supersession is ever given again.
IsFresh(a) == \A i \in DOMAIN ledger : a.run > ledger[i].run

\* A review passed: what it approves replaces what stood.
Approve ==
    /\ approval' \in Approvals \ {NoApproval}
    /\ IsFresh(approval')
    /\ seal' = NoSeal
    /\ ~done /\ UNCHANGED <<done, ledger>>

\* The worktree matches the standing approval, or a pipeline without a review
\* is approved and sealed at once.
Seal ==
    /\ seal' \in Seals \ {NoSeal}
    /\ approval' = ApprovalOf(seal')
    /\ approval \in {NoApproval, approval'}
    /\ IsFresh(seal')
    /\ UNCHANGED <<done, ledger>>

\* The sealed pipeline is declared done; a later run that cannot confirm the
\* seal takes that back.
Complete == seal # NoSeal /\ ~done /\ done' = TRUE /\ UNCHANGED <<approval, seal, ledger>>
Reopen   == done /\ done' = FALSE /\ UNCHANGED <<approval, seal, ledger>>

\* Rejected work or a changed worktree revokes approval and seal together.
Revoke ==
    /\ approval # NoApproval
    /\ approval' = NoApproval /\ seal' = NoSeal /\ done' = FALSE
    /\ UNCHANGED ledger

\* A recovery archives the seal of a done pipeline and revokes it.
Supersede ==
    /\ done /\ seal # NoSeal
    /\ ledger' = Append(ledger, seal)
    /\ approval' = NoApproval /\ seal' = NoSeal /\ done' = FALSE

Next == Approve \/ Seal \/ Complete \/ Reopen \/ Revoke \/ Supersede

Spec == Init /\ [][Next]_ledgerVars
==============================================================================
