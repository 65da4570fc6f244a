---------------------------- MODULE ExecutionLedger ----------------------------
(***************************************************************************)
(* verify_execution_evidence_attestation: the ledger of an execution is     *)
(* read line by line, the result derived from it is derived once more, and  *)
(* an attestation is signed if nothing contradicts it.                      *)
(*                                                                         *)
(* The file is met as it is read: any line may come next.  Of the result,   *)
(* its identity is looked at first and its fields last, so the fields are   *)
(* chosen when they are looked at.  Every exception is a rejection.  The     *)
(* code reads ledger and result twice each, for the digest and for the      *)
(* contents; here nobody writes them in between.                            *)
(***************************************************************************)
EXTENDS Naturals, Sequences, FiniteSets, FiniteSetsExt

CONSTANTS
  Calls,     \* what the caller passes, and the files beside the ledger
  Policies,  \* the authority's own policy/trusted-signers.json
  Lines,     \* lines the ledger may hold
  Fields,    \* fields of the result
  None,      \* an argument, field or file that is not there
  MaxLines   \* bound on the lines of the ledger

\* A line has these fields and no other, and the file of the decision that a
\* receipt names is a file that is there or is not.
ASSUME LinesAssumption ==
  \A l \in Lines :
    /\ l = [kind |-> l.kind, number |-> l.number, own |-> l.own, run |-> l.run,
            test |-> l.test, head |-> l.head, receipt |-> l.receipt]
    /\ l.number \in Nat /\ l.own \in Nat
    /\ l.receipt # None =>
         \A c \in Calls : {l.receipt.names, "authorization_decision"} \subseteq DOMAIN c.files

VARIABLES
  call, policy,
  read,        \* lines read so far, blank ones too
  events,      \* lines taken, each with the number it counts under
  outcome,
  attestation

vars == <<call, policy, read, events, outcome, attestation>>

Init ==
  /\ call \in Calls
  /\ policy \in Policies
  /\ read = <<>>
  /\ events = <<>>
  /\ outcome = "called"
  /\ attestation = None

Reject ==
  /\ outcome' = "rejected"
  /\ UNCHANGED <<call, policy, read, events, attestation>>

-----------------------------------------------------------------------------
(* Before the ledger is read.                                               *)

\* The files are there; the result is of the work order, run and attempt asked
\* for, and of these bytes.
Bound == call.result = "this"

\* The policy is concrete, in force and matches its public key; the key is the
\* one it names, and so is the reviewer if the caller names one.
Trusted ==
  /\ ~call.injected
  /\ policy.usable
  /\ call.key = policy.key
  /\ call.reviewer \in {None, policy.reviewer}

Separate == call.executor = None \/ call.executor # call.reviewer

Begin ==
  /\ outcome = "called"
  /\ Trusted /\ Separate /\ Bound
  /\ outcome' = "reading"
  /\ UNCHANGED <<call, policy, read, events, attestation>>

Refuse == outcome = "called" /\ ~(Trusted /\ Separate /\ Bound) /\ Reject

-----------------------------------------------------------------------------
(* The lines.                                                               *)

\* The decision in the receipt or its wrapper, else the caller's, else a file.
DecisionFor(rec) ==
  LET offer == <<rec.decision, call.decision, call.files[rec.names],
                 call.files["authorization_decision"]>>
      found == {i \in 1..4 : offer[i] # None}
  IN  IF found = {} THEN None ELSE offer[Min(found)]

\* sound: schema and digest; names and id: identifier and digest of a decision;
\* does and permits: capability, phase and requested effect.
Permits(d, rec) ==
  /\ d # None
  /\ d.sound /\ d.allowed
  /\ d.id = rec.names
  /\ d.run = "this"
  /\ d.permits = rec.does

\* Mutant: the reviewer is the one the caller names, if any.
AuthenticatedAgainstCaller(rec, run) ==
  /\ rec # None
  /\ run = "this" /\ rec.run = "this"
  /\ rec.intact
  /\ rec.producer # None /\ call.executor \in {None, rec.producer}
  /\ rec.producer # call.reviewer
  /\ Permits(DecisionFor(rec), rec)

\* What is asked of an EXECUTION_RECEIPT in a wrapper of this run.
Authenticated(rec, run) ==
  /\ rec # None
  /\ run = "this" /\ rec.run = "this"
  /\ rec.intact
  /\ rec.producer # None /\ call.executor \in {None, rec.producer}
  /\ rec.producer # policy.reviewer
  /\ Permits(DecisionFor(rec), rec)

\* Mutant: a line without a number takes the next one.
NumberByCount(l) == IF l.number = 0 THEN Len(events) + 1 ELSE l.number

\* A line without a number counts as the line of the file that it is.
NumberOf(l) == IF l.number = 0 THEN Len(read) + 1 ELSE l.number

\* Other kinds of event than a receipt are taken as they are.
Accepts(l) ==
  /\ l.kind \in {"EXECUTION_RECEIPT", "CONTROL_EVENT"}
  /\ l.kind = "EXECUTION_RECEIPT" => Authenticated(l.receipt, l.run)
  /\ NumberOf(l) = Len(events) + 1

MayRead == outcome = "reading" /\ Len(read) < MaxLines

SkipBlank(l) ==
  /\ MayRead /\ l.kind = "blank"
  /\ read' = Append(read, l)
  /\ UNCHANGED <<call, policy, events, outcome, attestation>>

TakeLine(l) ==
  /\ MayRead /\ Accepts(l)
  /\ read' = Append(read, l)
  /\ events' = Append(events, [l EXCEPT !.number = NumberOf(l)])
  /\ UNCHANGED <<call, policy, outcome, attestation>>

RejectLine(l) == MayRead /\ l.kind # "blank" /\ ~Accepts(l) /\ Reject

-----------------------------------------------------------------------------
(* The result, derived once more.                                           *)

Receipts == {i \in DOMAIN events : events[i].kind = "EXECUTION_RECEIPT"}
Tests == {i \in DOMAIN events : events[i].test # "none"}
Seen == {i \in DOMAIN events : events[i].head # None}

\* Mutant: the first head that was seen.
FirstHead == IF Seen = {} THEN None ELSE events[Min(Seen)].head

LastHead == IF Seen = {} THEN None ELSE events[Max(Seen)].head

Candidate(f) == IF f.candidate # None THEN f.candidate ELSE LastHead

\* Mutant: the number of the receipt goes before that of the ledger.
MatchingOwn(n) ==
  LET own == {i \in DOMAIN events : events[i].own = n}
  IN  events[IF own = {} THEN n ELSE CHOOSE i \in own : TRUE]

\* The first event with that number, in the ledger or of its own.
Matching(n) ==
  events[Min({i \in DOMAIN events : n \in {events[i].number, events[i].own}})]

Referenced(f) ==
  /\ f.pytest \cup f.others \subseteq DOMAIN events
  /\ \A n \in f.pytest : Matching(n).test # "none"

\* Mutant: a pass is a pass, whatever came after it.
AnyPass ==
  CASE Tests = {} -> "NOT_RUN"
    [] \A i \in Tests : events[i].test # "pass" -> "FAIL"
    [] \E i \in Tests : events[i].test = "fail" -> "PASS_AFTER_RETRY"
    [] OTHER -> "PASS"

\* fail: another exit code than 0, or FAIL; pass: 0 and a PASS.  A run may be
\* neither.
Derived ==
  IF Tests = {} THEN "NOT_RUN"
  ELSE IF events[Max(Tests)].test # "pass" THEN "FAIL"
  ELSE IF \E i \in Tests : events[i].test = "fail" THEN "PASS_AFTER_RETRY"
  ELSE "PASS"

Derivable(f) ==
  /\ Receipts # {}
  /\ Candidate(f) # None /\ Candidate(f) = call.candidate
  /\ Referenced(f)
  /\ f.status = Derived

Attest(f) ==
  /\ outcome = "reading" /\ Derivable(f)
  /\ outcome' = "attested"
  /\ attestation' =
       [fields |-> f, candidate |-> Candidate(f),
        producer |-> events[Max(Receipts)].receipt.producer,
        decision |-> DecisionFor(events[Max(Receipts)].receipt).id]
  /\ UNCHANGED <<call, policy, read, events>>

RejectResult(f) == outcome = "reading" /\ ~Derivable(f) /\ Reject

Next ==
  \/ Begin \/ Refuse
  \/ \E l \in Lines : SkipBlank(l) \/ TakeLine(l) \/ RejectLine(l)
  \/ \E f \in Fields : Attest(f) \/ RejectResult(f)

Spec == Init /\ [][Next]_vars

-----------------------------------------------------------------------------
(* Properties.                                                              *)

Attested == outcome = "attested"

\* The lines of the file that are not blank, and which of them a line is.
Content == {i \in DOMAIN read : read[i].kind # "blank"}
Ordinal(i) == Cardinality({j \in Content : j <= i})

\* Whatever the caller leaves unsaid, no receipt of an attested ledger is by
\* the reviewer, and each rests on a decision, among those on offer, that
\* allows this run what the receipt did.
ReceiptsAreAuthorized ==
  Attested =>
    \A i \in Content : read[i].kind = "EXECUTION_RECEIPT" =>
      LET rec == read[i].receipt
      IN  /\ rec.producer # policy.reviewer
          /\ \E d \in {rec.decision, call.decision}
                        \cup {call.files[x] : x \in DOMAIN call.files} :
               /\ d # None
               /\ d.allowed /\ d.run = "this"
               /\ <<d.id, d.permits>> = <<rec.names, rec.does>>

\* No gap before a numbered line: as many lines are before it as its number
\* says, so one taken out, put in or moved before it is noticed; before a line
\* without a number, at least one that was blanked is.  Lines that were cut off
\* at the end are not noticed, a failed test run among them or not.
NoGapBeforeALine ==
  Attested =>
    \A i \in Content :
      IF read[i].number # 0 THEN read[i].number = Ordinal(i)
      ELSE \A j \in 1..i : read[j].kind # "blank"

\* The status that is attested is what the test runs of the ledger amount to.
StatusIsEarned ==
  Attested =>
    LET ran == {i \in Content : read[i].test # "none"}
        passed == \E i \in ran : read[i].test = "pass" /\ \A j \in ran : j <= i
        failed == \E i \in ran : read[i].test = "fail"
        status == attestation.fields.status
    IN  /\ status \in {"PASS", "PASS_AFTER_RETRY"} <=> passed
        /\ passed => (status = "PASS_AFTER_RETRY" <=> failed)
        /\ status = "NOT_RUN" <=> ran = {}

\* Unless an event's own number runs ahead of the ledger's, the lines a test
\* result refers to are runs of the tests.
EvidenceIsRelevant ==
  Attested /\ (\A i \in DOMAIN events : events[i].own <= i) =>
    \A n \in attestation.fields.pytest :
      \E i \in Content : Ordinal(i) = n /\ read[i].test # "none"

\* A result that does not say which commit was tested is attested for the one
\* the execution saw last: no later line saw another.
CandidateWasSeenLast ==
  Attested /\ attestation.fields.candidate = None =>
    \E i \in Content :
      /\ read[i].head = call.candidate
      /\ \A j \in Content : j > i => read[j].head \in {None, read[i].head}

\* "Fails closed if: ... run_id / attempt_id / work_order_id mismatch ...
\* custody wrapper identity ... mismatch" (the docstring).
ForeignLinesAreRejected ==
  Attested => \A i \in Content : read[i].run = "this"
=============================================================================
