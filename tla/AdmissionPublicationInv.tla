----------------------- MODULE AdmissionPublicationInv -----------------------
(***************************************************************************)
(* The inductive invariant of AdmissionPublication: for every label an     *)
(* attempt may stand at, and every call of it that may still be applied,    *)
(* what the branch and the check run look like.  The model checker checks   *)
(* it on small instances, AdmissionPublicationProofs proves it.             *)
(***************************************************************************)
EXTENDS AdmissionPublication

\* The trees an attempt writes, in the order it writes them.
Reserved(a)  == [status |-> "RESERVED", by |-> a, receipt |-> None,
                 receiptCommit |-> 0]
Persisted(a) == [status |-> "RECEIPT_PERSISTED", by |-> a, receipt |-> a,
                 receiptCommit |-> 0]
Admitted(a, n) == [status |-> "ADMITTED", by |-> a, receipt |-> a,
                   receiptCommit |-> n]

NoLate(a) == \A call \in Calls : <<a, call>> \notin inflight

\* Labels of an attempt that never got to write.
Untouching == QuietLabels \cup {"reserve", "rejected", "conflict", "refused",
                                "already"}

\* Labels of an attempt none of whose calls has timed out.
Live == Untouching \cup ConfirmLabels \cup ReadLabels
          \cup {"persist", "admit", "create", "complete", "authenticated"}

\* Labels between the confirmed receipt and the success transition.
Completing == {"refresh", "recheck_pr_last", "recheck_main", "complete"}

\* What holds of the branch and of the check run when attempt a stands at
\* label l, or when its call l may still be applied.
Needs(a, l) ==
  /\ l \in Untouching => checks[a] = "absent" /\ Current.by # a
  /\ l = "reserve" => TreeAt(head[a]) = NoState
  /\ l = "confirm_reserve" => /\ head[a] < Len(ledger)
                              /\ ledger[head[a] + 1] = Reserved(a)
  /\ l \in {"recheck_pr", "create"} => TreeAt(head[a]) = Reserved(a)
  /\ l \in {"confirm_reserve", "recheck_pr", "create"} =>
       checks[a] = "absent" /\ Current.status = "RESERVED"
  /\ l = "persist" => TreeAt(head[a]) = Reserved(a)
  /\ l = "confirm_persist" => /\ head[a] < Len(ledger)
                              /\ ledger[head[a] + 1] = Persisted(a)
  /\ l \in Completing => TreeAt(head[a]) = Persisted(a)
  /\ l \in Completing \cup {"confirm_persist"} =>
       Current.status = "RECEIPT_PERSISTED"
  /\ l \in Completing \cup {"persist", "confirm_persist", "withdraw"} =>
       checks[a] # "absent"
  /\ l \in {"readback", "recheck_pr_after", "admit"} =>
       TreeAt(head[a]) = Persisted(a)
  /\ l = "admit" => checks[a] \in {"success", "cancelled"}
  /\ l = "confirm_admit" => /\ head[a] < Len(ledger)
                            /\ ledger[head[a] + 1] = Admitted(a, head[a])
  /\ l \in {"readback", "recheck_pr_after", "confirm_admit", "authenticated"} =>
       checks[a] = "success"
  /\ l = "authenticated" => Current.status = "ADMITTED" /\ Current.by = a
  /\ l \in {"revalidate_pr", "revalidate_check", "already"} =>
       Current.status = "ADMITTED" /\ SameIdentity(a, Current.by)

\* Every attempt, and every late call, finds what it needs.
StageInv ==
  \A a \in Attempts :
    /\ Needs(a, pc[a])
    /\ At(a, "admit") => checks[a] = "success"
    /\ \A call \in Calls : <<a, call>> \in inflight => Needs(a, call)

\* Late calls belong to attempts that have failed, and a completion and an
\* admission of one attempt are never both late.
LateInv ==
  \A a \in Attempts :
    /\ pc[a] \in Live => NoLate(a)
    /\ ~(<<a, "complete">> \in inflight /\ <<a, "admit">> \in inflight)
    /\ \/ pc[a] \in {"collect", "authorize", "rejected", "crashed"} /\ NoLate(a)
       \/ grant[a] \in Grants

\* One holder per scope; a commit without holder is the empty tree.
LedgerInv ==
  /\ \A i \in 1..Len(ledger) :
       /\ ledger[i].by \in {None, Current.by}
       /\ ledger[i].by = None => ledger[i] = NoState
       /\ ledger[i].by # None => ledger[i].status # "none"
  /\ \A a \in Attempts : head[a] <= Len(ledger)

\* ADMITTED is terminal, and names the commit that holds the receipt.
AdmittedInv ==
  \A i \in 1..Len(ledger) : ledger[i].status = "ADMITTED" =>
    /\ Current = ledger[i]
    /\ ledger[i].receiptCommit \in 1..Len(ledger)
    /\ ledger[ledger[i].receiptCommit] = Persisted(ledger[i].by)
    /\ checks[ledger[i].by] \in {"success", "cancelled"}

\* A check run belongs to the holder, and a success to a persisted receipt.
CheckInv ==
  \A a \in Attempts :
    /\ checks[a] # "absent" => Current.by = a /\ grant[a] \in Grants
    /\ checks[a] = "success" =>
         \E i \in 1..Len(ledger) : ledger[i] = Persisted(a)

IInv == /\ TypeOK /\ StageInv /\ LateInv /\ LedgerInv /\ AdmittedInv /\ CheckInv
=============================================================================
