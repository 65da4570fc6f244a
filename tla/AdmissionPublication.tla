------------------------- MODULE AdmissionPublication -------------------------
(***************************************************************************)
(* Publication of one external research admission, as performed by         *)
(* publish_admission() over an AuthorityLedger (research_admission_github). *)
(*                                                                         *)
(* An attempt is one execution of the admit phase.  It reserves the scope  *)
(* on a Git branch of the authority repository by a fast-forward-only      *)
(* reference update, opens a check run on the target repository, persists  *)
(* a signed receipt on the branch, re-reads everything the decision rested *)
(* on, completes the check and records ADMITTED.  Any exception after the  *)
(* reservation was tried withdraws the check (if its id is known) and is   *)
(* reported as CHECK_PUBLICATION_PARTIAL.                                  *)
(*                                                                         *)
(* Attempts run concurrently with one another, with other scopes that      *)
(* share the branch, and with people who move the pull request, the        *)
(* authority's main branch and the approval.  Every mutating call may be   *)
(* refused, or may outlive its caller: it is then applied later or never.  *)
(* An attempt may be killed between any two steps.                         *)
(***************************************************************************)
EXTENDS Naturals, Sequences, FiniteSets

CONSTANTS
  Attempts,      \* executions of the admit phase
  Requests,      \* request digests (they bind the workflow run)
  RequestOf,     \* the request each attempt builds from its evidence
  Grants,        \* digests of approvals that verify for a request
  NoGrant,       \* no approval, an expired one, or one that does not verify
  None,          \* no attempt: an absent receipt or an unreserved scope
  MaxLedger      \* bound: other scopes commit only below this length

ASSUME AttemptsAssumption == None \notin Attempts
ASSUME RequestsAssumption == RequestOf \in [Attempts -> Requests]
ASSUME GrantsAssumption   == NoGrant \notin Grants
ASSUME BoundAssumption    == MaxLedger \in Nat

VARIABLES
  ledger,     \* commits of the branch, oldest first; <<>>: it does not exist
  checks,     \* conclusion of the check run an attempt created
  prAtHead,   \* the pull request is open at the candidate's head and base
  mainFixed,  \* the authority's main is still the commit that was ratified
  approval,   \* what the approval of a request's run verifies to
  pc,         \* where each attempt stands
  grant,      \* the authorization evidence an attempt decided on
  head,       \* AuthorityLedger.head: the commit an attempt builds on
  inflight    \* calls whose caller gave up but the server may still apply

vars == <<ledger, checks, prAtHead, mainFixed, approval, pc, grant, head,
          inflight>>
world == <<prAtHead, mainFixed, approval>>

-----------------------------------------------------------------------------
(* Ledger commits.  A commit is the tree as this scope sees it: state.json  *)
(* and receipt.json.  "by" stands for the digests in the state file: the    *)
(* request and evidence digests are those of the attempt that wrote it.     *)

Statuses == {"none", "RESERVED", "RECEIPT_PERSISTED", "ADMITTED"}

Commit == [status : Statuses, by : Attempts \cup {None},
           receipt : Attempts \cup {None}, receiptCommit : Nat]

NoState == [status |-> "none", by |-> None, receipt |-> None,
            receiptCommit |-> 0]

TreeAt(n) == IF n = 0 THEN NoState ELSE ledger[n]
Current == TreeAt(Len(ledger))

\* The evidence identity two attempts must share to be the same admission.
SameIdentity(a, b) == RequestOf[a] = RequestOf[b] /\ grant[a] = grant[b]

-----------------------------------------------------------------------------
(* Program labels of publish_admission, in the order of the code.           *)

WriteLabels   == {"reserve", "persist", "admit"}
ConfirmLabels == {"confirm_reserve", "confirm_persist", "confirm_admit"}
ReadLabels    == {"recheck_pr", "refresh", "recheck_pr_last", "recheck_main",
                  "readback", "recheck_pr_after"}
QuietLabels   == {"collect", "authorize", "read_ledger", "revalidate_pr",
                  "revalidate_check"}
CheckLabels   == {"create", "complete", "withdraw"}

\* Outcomes.  "refused" is a rejection of a completed request that no longer
\* revalidates, "unconfirmed" a partial one whose withdrawal got no answer.
Outcomes == {"rejected", "conflict", "refused", "partial", "unconfirmed",
             "authenticated", "already", "crashed"}

Labels == WriteLabels \cup ConfirmLabels \cup ReadLabels \cup QuietLabels
            \cup CheckLabels \cup Outcomes

\* Labels at which check_id is set, so that an exception withdraws the check.
KnowsCheck == {"persist", "confirm_persist", "refresh", "recheck_pr_last",
               "recheck_main", "complete", "readback", "recheck_pr_after",
               "admit", "confirm_admit"}

\* Labels inside the try block, where an exception means a partial result.
TryLabels == KnowsCheck \cup {"reserve", "confirm_reserve", "recheck_pr", "create"}

Calls == {"reserve", "persist", "admit", "create", "complete", "withdraw"}

ConfirmOf == [reserve |-> "confirm_reserve", persist |-> "confirm_persist",
              admit |-> "confirm_admit"]
AfterConfirm == [confirm_reserve |-> "recheck_pr", confirm_persist |-> "refresh",
                 confirm_admit |-> "authenticated"]

At(a, l) == pc[a] = l
Goto(a, l) == pc' = [pc EXCEPT ![a] = l]

\* Mutant: the reservation is written before the try block.
OnErrorQuietReserve(l) ==
  IF l \in KnowsCheck THEN "withdraw" ELSE IF l = "reserve" THEN "rejected" ELSE "partial"

\* Mutant: a failure without a check to withdraw starts over.
OnErrorStartOver(l) == IF l \in KnowsCheck THEN "withdraw" ELSE "read_ledger"

\* The except clause: withdraw the check if its id is known, else report.
OnError(l) == IF l \in KnowsCheck THEN "withdraw" ELSE "partial"
Raise(a) == Goto(a, OnError(pc[a]))

\* A GET whose answer must satisfy ok: continue, or raise.
Require(a, ok, next) == IF ok THEN Goto(a, next) ELSE Raise(a)

-----------------------------------------------------------------------------
(* The server's side of a mutating call, applied now or late.               *)

StatusOf(call) == CASE call = "reserve" -> "RESERVED"
                    [] call = "persist" -> "RECEIPT_PERSISTED"
                    [] call = "admit"   -> "ADMITTED"

\* Mutant: the tree of a write is not based on that of the head.
TreeFromScratch(a, call) ==
  [status |-> StatusOf(call), by |-> a, receipt |-> IF call = "persist" THEN a ELSE None,
   receiptCommit |-> IF call = "admit" THEN head[a] ELSE 0]

\* Mutant: the receipt commit is taken before the receipt is written.
TreeEarlierCommit(a, call) ==
  [status        |-> StatusOf(call),
   by            |-> a,
   receipt       |-> IF call = "persist" THEN a ELSE TreeAt(head[a]).receipt,
   receiptCommit |-> IF call = "admit" THEN head[a] - 1 ELSE 0]

\* The tree a ledger write commits: a new state file, over the tree of the
\* attempt's head, with a receipt file only when one is handed to write().
Tree(a, call) ==
  [status        |-> StatusOf(call),
   by            |-> a,
   receipt       |-> IF call = "persist" THEN a ELSE TreeAt(head[a]).receipt,
   receiptCommit |-> IF call = "admit" THEN head[a] ELSE 0]

\* Mutant: the reference is updated by force.
FastForwardForced(a) == Len(ledger) >= head[a]

\* A reference is created only if absent and updated only by fast-forward.
FastForward(a) == Len(ledger) = head[a]

ApplyWrite(a, call) == /\ FastForward(a)
                       /\ ledger' = Append(ledger, Tree(a, call))
                       /\ UNCHANGED checks

Conclusion == [create |-> "in_progress", complete |-> "success",
               withdraw |-> "cancelled"]

ApplyCheck(a, call) == /\ checks' = [checks EXCEPT ![a] = Conclusion[call]]
                       /\ UNCHANGED ledger

Apply(a, call) == \/ call \in WriteLabels /\ ApplyWrite(a, call)
                  \/ call \in CheckLabels /\ ApplyCheck(a, call)

-----------------------------------------------------------------------------
Init ==
  /\ ledger \in {<<>>, <<NoState>>}
  /\ checks = [a \in Attempts |-> "absent"]
  /\ prAtHead \in BOOLEAN
  /\ mainFixed = TRUE
  /\ approval \in [Requests -> Grants \cup {NoGrant}]
  /\ pc = [a \in Attempts |-> "collect"]
  /\ grant = [a \in Attempts |-> NoGrant]
  /\ head = [a \in Attempts |-> 0]
  /\ inflight = {}

-----------------------------------------------------------------------------
(* Evidence collection and decision.                                        *)

\* collect_facts: authority main is the checked-out head, then verify_pr.
CollectFacts(a) ==
  /\ At(a, "collect")
  /\ Goto(a, IF mainFixed /\ prAtHead THEN "authorize" ELSE "rejected")
  /\ UNCHANGED <<ledger, checks, world, grant, head, inflight>>

\* The approval is read last; decide() then works on the collected facts.
Decide(a) ==
  /\ At(a, "authorize")
  /\ LET found == approval[RequestOf[a]]
     IN \/ /\ found \in Grants
           /\ grant' = [grant EXCEPT ![a] = found]
           /\ Goto(a, "read_ledger")
        \/ /\ found \notin Grants
           /\ Goto(a, "rejected")
           /\ UNCHANGED grant
  /\ UNCHANGED <<ledger, checks, world, head, inflight>>

\* A read that fails before the try block rejects without side effect.
QuietReadFails(a) ==
  /\ pc[a] \in QuietLabels
  /\ Goto(a, "rejected")
  /\ UNCHANGED <<ledger, checks, world, grant, head, inflight>>

-----------------------------------------------------------------------------
(* The ledger is read once; what it says selects the path.                  *)

ReadLedger(a, next) ==
  /\ At(a, "read_ledger")
  /\ head' = [head EXCEPT ![a] = Len(ledger)]
  /\ Goto(a, next)
  /\ UNCHANGED <<ledger, checks, world, grant, inflight>>

\* Mutant: only a terminal state counts as a reservation.
ScopeIsNotAdmitted(a) ==
  /\ Current.status # "ADMITTED"
  /\ ReadLedger(a, "reserve")

ScopeIsFree(a) ==
  /\ Current.status = "none"
  /\ ReadLedger(a, "reserve")

ScopeIsTaken(a) ==
  /\ Current.status # "none"
  /\ ~SameIdentity(a, Current.by)
  /\ ReadLedger(a, "conflict")

\* An identical request that has not reached ADMITTED is never resumed.
ScopeIsPending(a) ==
  /\ Current.status \in {"RESERVED", "RECEIPT_PERSISTED"}
  /\ SameIdentity(a, Current.by)
  /\ ReadLedger(a, "partial")

\* The receipt is read at the commit the state names, and must be the one
\* the state and the request bind.
ReceiptAt(state) == TreeAt(state.receiptCommit).receipt

\* Mutant: the recorded identity is not compared.
ScopeIsAdmittedToAnyone(a) ==
  /\ Current.status = "ADMITTED"
  /\ ReadLedger(a, IF ReceiptAt(Current) = Current.by THEN "revalidate_pr"
                                                      ELSE "conflict")

ScopeIsAdmitted(a) ==
  /\ Current.status = "ADMITTED"
  /\ SameIdentity(a, Current.by)
  /\ ReadLedger(a, IF ReceiptAt(Current) = Current.by THEN "revalidate_pr"
                                                      ELSE "conflict")

RevalidatePr(a) ==
  /\ At(a, "revalidate_pr")
  /\ Goto(a, IF prAtHead THEN "revalidate_check" ELSE "refused")
  /\ UNCHANGED <<ledger, checks, world, grant, head, inflight>>

\* check_matches on the check run the receipt names.
RevalidateCheck(a) ==
  /\ At(a, "revalidate_check")
  /\ Goto(a, IF checks[TreeAt(head[a]).by] = "success" THEN "already"
                                                       ELSE "refused")
  /\ UNCHANGED <<ledger, checks, world, grant, head, inflight>>

-----------------------------------------------------------------------------
(* AuthorityLedger.write: build a commit on head, move the reference, read  *)
(* the reference back.                                                      *)

UpdateRef(a) ==
  /\ pc[a] \in WriteLabels
  /\ ApplyWrite(a, pc[a])
  /\ Goto(a, ConfirmOf[pc[a]])
  /\ UNCHANGED <<world, grant, head, inflight>>

\* Another commit may have followed ours: the write is then reported as a
\* conflict although it took effect.
ConfirmRef(a) ==
  /\ pc[a] \in ConfirmLabels
  /\ \/ /\ Len(ledger) = head[a] + 1
        /\ head' = [head EXCEPT ![a] = @ + 1]
        /\ Goto(a, AfterConfirm[pc[a]])
     \/ /\ Len(ledger) # head[a] + 1
        /\ Raise(a)
        /\ UNCHANGED head
  /\ UNCHANGED <<ledger, checks, world, grant, inflight>>

-----------------------------------------------------------------------------
(* The check run.                                                           *)

\* Mutant: the check is completed before the receipt is written.
AfterCheckUncustodied == [create |-> "complete", complete |-> "readback",
                          withdraw |-> "partial"]

AfterCheck == [create |-> "persist", complete |-> "readback",
               withdraw |-> "partial"]

\* POST in_progress, PATCH success, and the withdrawal in the except clause.
WriteCheck(a) ==
  /\ pc[a] \in CheckLabels
  /\ ApplyCheck(a, pc[a])
  /\ Goto(a, AfterCheck[pc[a]])
  /\ UNCHANGED <<world, grant, head, inflight>>

-----------------------------------------------------------------------------
(* The re-reads around the success transition.                              *)

Reread(a, label, ok, next) ==
  /\ At(a, label)
  /\ Require(a, ok, next)
  /\ UNCHANGED <<ledger, checks, world, grant, head, inflight>>

\* verify_pr right after the reservation.
RecheckPr(a) == Reread(a, "recheck_pr", prAtHead, "create")

\* Mutant: the approval is not read again.
RefreshNothing(a) == Reread(a, "refresh", TRUE, "recheck_pr_last")

\* verify_ratification and verify_authorization on fresh reads; the evidence
\* must be the one the receipt was issued for.
RefreshApproval(a) ==
  Reread(a, "refresh", approval[RequestOf[a]] = grant[a], "recheck_pr_last")

RecheckPrLast(a) == Reread(a, "recheck_pr_last", prAtHead, "recheck_main")
RecheckMain(a) == Reread(a, "recheck_main", mainFixed, "complete")

\* check_matches on the check read back.
ReadBack(a) ==
  Reread(a, "readback", checks[a] = "success", "recheck_pr_after")
RecheckPrAfter(a) == Reread(a, "recheck_pr_after", prAtHead, "admit")

-----------------------------------------------------------------------------
(* Failures of calls and of the runner.                                     *)

\* A read or a write that fails without effect.
CallFails(a) ==
  /\ \/ pc[a] \in TryLabels /\ Raise(a)
     \/ At(a, "withdraw") /\ Goto(a, "unconfirmed")
  /\ UNCHANGED <<ledger, checks, world, grant, head, inflight>>

\* Mutant: a ledger write that is not answered counts as done.
CallTimesOutTrusted(a) ==
  /\ pc[a] \in Calls
  /\ inflight' = inflight \cup {<<a, pc[a]>>}
  /\ Goto(a, IF At(a, "withdraw") THEN "unconfirmed"
             ELSE IF pc[a] \in WriteLabels THEN AfterConfirm[ConfirmOf[pc[a]]]
             ELSE OnError(pc[a]))
  /\ UNCHANGED <<ledger, checks, world, grant, head>>

\* A mutating call whose answer never came: the server may yet apply it.
CallTimesOut(a) ==
  /\ pc[a] \in Calls
  /\ inflight' = inflight \cup {<<a, pc[a]>>}
  /\ Goto(a, IF At(a, "withdraw") THEN "unconfirmed" ELSE OnError(pc[a]))
  /\ UNCHANGED <<ledger, checks, world, grant, head>>

LateCall(a, call) ==
  /\ <<a, call>> \in inflight
  /\ inflight' = inflight \ {<<a, call>>}
  /\ Apply(a, call)
  /\ UNCHANGED <<world, pc, grant, head>>

\* The runner is lost or cancelled: no except clause runs.
Crash(a) ==
  /\ pc[a] \notin Outcomes
  /\ Goto(a, "crashed")
  /\ UNCHANGED <<ledger, checks, world, grant, head, inflight>>

-----------------------------------------------------------------------------
(* The world around the attempts.                                           *)

\* The pull request's head moves, or is moved back; it is closed or reopened.
MovePr ==
  /\ prAtHead' = ~prAtHead
  /\ UNCHANGED <<ledger, checks, mainFixed, approval, pc, grant, head, inflight>>

AdvanceMain ==
  /\ mainFixed
  /\ mainFixed' = FALSE
  /\ UNCHANGED <<ledger, checks, prAtHead, approval, pc, grant, head, inflight>>

\* Approval, environment rule or ratification changes, or the time passes
\* the expiry.
ChangeApproval(r) ==
  /\ \E g \in (Grants \cup {NoGrant}) \ {approval[r]} :
        approval' = [approval EXCEPT ![r] = g]
  /\ UNCHANGED <<ledger, checks, prAtHead, mainFixed, pc, grant, head, inflight>>

\* Another scope commits to the same branch; our files stay in the tree.
OtherScope ==
  /\ Len(ledger) < MaxLedger
  /\ ledger' = Append(ledger, Current)
  /\ UNCHANGED <<checks, world, pc, grant, head, inflight>>

-----------------------------------------------------------------------------
Work(a) ==
  \/ CollectFacts(a) \/ Decide(a)
  \/ ScopeIsFree(a) \/ ScopeIsTaken(a) \/ ScopeIsPending(a) \/ ScopeIsAdmitted(a)
  \/ RevalidatePr(a) \/ RevalidateCheck(a)
  \/ UpdateRef(a) \/ ConfirmRef(a) \/ WriteCheck(a)
  \/ RecheckPr(a) \/ RefreshApproval(a) \/ RecheckPrLast(a) \/ RecheckMain(a)
  \/ ReadBack(a) \/ RecheckPrAfter(a)

Fault(a) == QuietReadFails(a) \/ CallFails(a) \/ CallTimesOut(a)

Environment == MovePr \/ AdvanceMain \/ OtherScope
                 \/ \E r \in Requests : ChangeApproval(r)

Next == \/ \E a \in Attempts : Work(a) \/ Fault(a) \/ Crash(a)
        \/ \E a \in Attempts, call \in Calls : LateCall(a, call)
        \/ Environment

Spec == Init /\ [][Next]_vars

\* Every call answers, fails or times out (30 s), so an attempt that is not
\* killed keeps stepping.  Nothing is assumed of late calls, nor of the world.
Fairness == \A a \in Attempts : WF_vars(Work(a) \/ Fault(a))
FairSpec == Spec /\ Fairness

-----------------------------------------------------------------------------
(* Properties.                                                              *)

TypeOK ==
  /\ ledger \in Seq(Commit)
  /\ checks \in [Attempts -> {"absent", "in_progress", "success", "cancelled"}]
  /\ prAtHead \in BOOLEAN
  /\ mainFixed \in BOOLEAN
  /\ approval \in [Requests -> Grants \cup {NoGrant}]
  /\ pc \in [Attempts -> Labels]
  /\ grant \in [Attempts -> Grants \cup {NoGrant}]
  /\ head \in [Attempts -> Nat]
  /\ inflight \subseteq Attempts \X Calls

\* However attempts race, retry, die or are answered late, at most one of
\* them ever creates a check run for the scope: "a durable reservation
\* prevents an ambiguous retry from creating another check".
AtMostOneCheck ==
  \A a, b \in Attempts :
    checks[a] # "absent" /\ checks[b] # "absent" => a = b

\* A check is completed with success only when the receipt it names is on the
\* branch: custody comes before the success transition.
SuccessIsCustodied ==
  \A a \in Attempts : checks[a] = "success" =>
    \E i \in 1..Len(ledger) :
       ledger[i].status = "RECEIPT_PERSISTED" /\ ledger[i].by = a
         /\ ledger[i].receipt = a

\* A terminal ADMITTED state names a commit that holds the receipt of the
\* attempt it binds, and that attempt's check has been completed: it is still
\* a success, or was withdrawn because the last write was not confirmed.
AdmittedIsBacked ==
  Current.status = "ADMITTED" =>
    /\ ReceiptAt(Current) = Current.by
    /\ grant[Current.by] \in Grants
    /\ checks[Current.by] \in {"success", "cancelled"}

\* ADMISSION_AUTHENTICATED is only returned for the admission the branch
\* records, and nothing that is still on its way can take it back.
AuthenticatedIsFinal ==
  \A a \in Attempts : At(a, "authenticated") =>
    /\ Current.status = "ADMITTED" /\ Current.by = a
    /\ checks[a] = "success"
    /\ \A call \in Calls : <<a, call>> \notin inflight

\* ALREADY_ADMITTED_IDENTICAL_REQUEST speaks of the recorded admission: same
\* request, same evidence, a receipt in custody.
RepeatIsIdentical ==
  \A a \in Attempts : At(a, "already") =>
    /\ Current.status = "ADMITTED"
    /\ SameIdentity(a, Current.by)
    /\ ReceiptAt(Current) = Current.by

\* "No rejected control creates a new success check": an attempt that reports
\* no side effect has written nothing, and nothing of it is on its way.
RejectionLeavesNoTrace ==
  \A a \in Attempts :
    pc[a] \in {"rejected", "conflict", "refused", "already"} =>
      /\ checks[a] = "absent"
      /\ \A i \in 1..Len(ledger) : ledger[i].by # a
      /\ \A call \in Calls : <<a, call>> \notin inflight

Rank(s) == CASE s = "none" -> 0 [] s = "RESERVED" -> 1
             [] s = "RECEIPT_PERSISTED" -> 2 [] s = "ADMITTED" -> 3

\* Custody only advances: a reservation never changes hands, a receipt is
\* never replaced, the status never falls back.
CustodyAdvances ==
  [][/\ Rank(Current.status) <= Rank(Current'.status)
     /\ Current.by # None => Current'.by = Current.by
     /\ Current.receipt # None => Current'.receipt = Current.receipt]_ledger

\* What an attempt has yet to re-read before it completes its check.
Unrefreshed == {"collect", "authorize", "read_ledger", "reserve",
                "confirm_reserve", "recheck_pr", "create", "persist",
                "confirm_persist", "refresh"}

\* A condition the decision rested on is gone and does not come back.
LostForGood(a) == \/ []~prAtHead
                  \/ []~mainFixed
                  \/ [](approval[RequestOf[a]] # grant[a])

\* A head, main branch or approval lost for good before the refresh keeps the
\* check from ever being completed with success.
StaleNeverSucceeds ==
  \A a \in Attempts :
    [](pc[a] \in Unrefreshed /\ LostForGood(a) => [](checks[a] # "success"))

\* "Partial publication never becomes false success" (the contract document).
PartialNeverSuccess ==
  \A a \in Attempts :
    pc[a] \in {"partial", "unconfirmed"} => checks[a] # "success"

\* The scope as the branch and the target repository show it.
Custody == INSTANCE AdmissionCustody
             WITH stage <- Current.status, holder <- Current.by

\* Publication implements the custody it promises.
ImplementsCustody == Custody!CustodySpec

\* Every attempt ends, whatever the world does.
EveryAttemptEnds == \A a \in Attempts : <>(pc[a] \in Outcomes)
=============================================================================
