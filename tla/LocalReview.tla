------------------------------ MODULE LocalReview ------------------------------
(***************************************************************************)
(* From a candidate to a published local review: the isolated reviewer      *)
(* (run_local_independent_review over LocalLlamaCppBackend.review) asks a   *)
(* model about every slice of the diff, lets it synthesize a verdict,       *)
(* enforces the fail-closed rules and signs a receipt; the admission gate   *)
(* (workflow admit-local-review, verify_and_admit_local_review_receipt)     *)
(* checks a receipt against the repository and publishes a check run.       *)
(*                                                                         *)
(* The two run on different hosts at different times, and meanwhile the     *)
(* pull request may move among its heads.  The model answers anything its   *)
(* schema admits.  Any step may fail: keys, policies, isolation, signatures *)
(* and prior verification are such failures here.                           *)
(***************************************************************************)
EXTENDS DiffSlicing, FiniteSets

CONSTANTS
  Heads,         \* commits the pull request's head may be at
  Diffs,         \* changed files of a head against the base, in git's order
  SliceAnswers,  \* answers of the model about a slice
  FinalAnswers,  \* answers of the model as a verdict
  PacketLimit,   \* max_packet_characters, as characters of the diff
  MaxReceipts    \* bound: no new review once this many are signed

Severities == {"P0", "P1", "P2", "P3", "INFO"}
Statuses   == {"PASS", "CONCERN", "FAIL"}
Verdicts   == {"APPROVE", "REQUEST_CHANGES", "REJECT"}

ASSUME AnswersAssumption ==
  /\ \A a \in SliceAnswers :
       a.status \in Statuses /\ a.abstained \in BOOLEAN
         /\ \A f \in a.findings : f.severity \in Severities
  /\ \A a \in FinalAnswers :
       a.verdict \in Verdicts /\ a.abstained \in BOOLEAN
         /\ \A f \in a.findings : f.severity \in Severities

\* Git lists a path once and begins every file's section with a diff header.
IsLine(l) ==
  /\ l = [mark |-> l.mark, chars |-> l.chars, bytes |-> l.bytes, valid |-> l.valid]
  /\ l.chars \in Nat /\ l.bytes \in Nat /\ l.valid \in BOOLEAN
IsText(text) ==
  /\ text \in Seq({text[n] : n \in DOMAIN text})
  /\ \A n \in DOMAIN text : IsLine(text[n])

ASSUME DiffsAssumption ==
  \A d \in Diffs :
    /\ d \in Seq({d[i] : i \in DOMAIN d})
    /\ \A i, j \in DOMAIN d : d[i].path = d[j].path => i = j
    /\ \A i \in DOMAIN d :
         /\ IsText(d[i].lines) /\ d[i].lines # <<>>
         /\ d[i].lines[1].mark # NoMark

VARIABLES
  diff,      \* the changed files of each head
  prHead,    \* where the pull request's head is
  review,    \* the reviewer's run
  receipts,  \* receipts the reviewer has signed
  dispatch,  \* the run of the admission workflow
  checks,    \* successful check runs on the target repository
  late       \* check runs posted without an answer

vars == <<diff, prHead, review, receipts, dispatch, checks, late>>
reviewer == <<review, receipts>>
workflow == <<dispatch, checks, late>>

ReviewSteps   == {"idle", "packed", "asking", "verdict", "signed", "failed"}
DispatchSteps == {"idle", "verify_head", "admit", "publish", "published", "denied"}

NoReceipt == [verdict |-> "none"]

Init ==
  /\ diff \in [Heads -> Diffs]
  /\ prHead \in Heads
  /\ review = [step |-> "idle", head |-> prHead, slices |-> <<>>,
               answers |-> <<>>, final |-> NoReceipt]
  /\ receipts = {}
  /\ dispatch = [step |-> "idle", receipt |-> NoReceipt, head |-> prHead]
  /\ checks = {}
  /\ late = {}

-----------------------------------------------------------------------------
(* The reviewer.                                                            *)

Packet(h) == SourceDiff(diff[h])

\* build_review_packet: a candidate with changes, within the packet's budget.
Packable(h) ==
  /\ diff[h] # <<>>
  /\ Chars(Packet(h), Whole(Packet(h))) <= PacketLimit

BuildPacket(h) ==
  /\ review.step \in {"idle", "signed", "failed"}
  /\ Cardinality(receipts) < MaxReceipts
  /\ Packable(h)
  /\ review' = [step |-> "packed", head |-> h, slices |-> <<>>,
                answers |-> <<>>, final |-> NoReceipt]
  /\ UNCHANGED <<diff, prHead, receipts, workflow>>

\* Cut the diff, and make sure that the slices are the diff.
CutSlices ==
  /\ review.step = "packed"
  /\ LET files  == diff[review.head]
         text   == Packet(review.head)
         slices == Slices(text, files)
     IN IF HasAllSections(text, files) /\ Reconstructs(text, slices)
          THEN review' = [review EXCEPT !.step = "asking", !.slices = slices]
          ELSE review' = [review EXCEPT !.step = "failed"]
  /\ UNCHANGED <<diff, prHead, receipts, workflow>>

\* Mutant: a slice that fails sends the reviewer back to the first one.
AskAgain ==
  /\ review.step = "asking"
  /\ Len(review.answers) < Len(review.slices)
  /\ \E a \in SliceAnswers :
       review' = [review EXCEPT !.answers = IF a.status = "FAIL" THEN <<>>
                                           ELSE Append(@, a)]
  /\ UNCHANGED <<diff, prHead, receipts, workflow>>

\* One request per slice, in order; a slice without a valid answer fails the
\* review (FailReview).
AskSlice ==
  /\ review.step = "asking"
  /\ Len(review.answers) < Len(review.slices)
  /\ \E a \in SliceAnswers :
       review' = [review EXCEPT !.answers = Append(@, a)]
  /\ UNCHANGED <<diff, prHead, receipts, workflow>>

High(findings) == {f \in findings : f.severity \in {"P0", "P1"}}
Answered(answers) == {answers[i] : i \in DOMAIN answers}

\* Mutant: the list is begun anew with every slice.
FindingsOfLast(answers) == UNION {answers[i].findings : i \in {Len(answers)} \ {0}}

SliceFindings(answers) == UNION {a.findings : a \in Answered(answers)}

\* What no approval may stand against.
Blocked(answers, final) ==
  \/ final.abstained \/ High(final.findings) # {}
  \/ High(SliceFindings(answers)) # {}
  \/ \E a \in Answered(answers) : a.abstained \/ a.status = "FAIL"

\* HIGH_SEVERITY_FINDING_SUPPRESSED: matched by path and severity.
Conserves(answers, final) ==
  \A f \in High(SliceFindings(answers)) :
    \E g \in final.findings : g.path = f.path /\ g.severity = f.severity

Synthesize ==
  /\ review.step = "asking"
  /\ Len(review.answers) = Len(review.slices)
  /\ \E final \in FinalAnswers :
       IF /\ final.verdict = "APPROVE" => ~Blocked(review.answers, final)
          /\ Conserves(review.answers, final)
       THEN review' = [review EXCEPT !.step = "verdict", !.final = final]
       ELSE review' = [review EXCEPT !.step = "failed"]
  /\ UNCHANGED <<diff, prHead, receipts, workflow>>

BytesBefore(text, slices, i) ==
  Bytes(text, Joins(slices)[i - 1])

\* Mutant: offsets count characters.
RecordsInChars(text, files, slices, answers) ==
  [i \in DOMAIN slices |->
    [paths  |-> SlicePaths(text, files, slices[i]),
     start  |-> Chars(text, Joins(slices)[i - 1]),
     bytes  |-> Bytes(text, slices[i]),
     status |-> answers[i].status, abstained |-> answers[i].abstained,
     lines  |-> slices[i], response |-> answers[i]]]

\* The coverage manifest's slice records.  "lines" stands for diff_sha256 and
\* "response" for response_sha256: what is in an answer is not in its record.
Records(text, files, slices, answers) ==
  [i \in DOMAIN slices |->
    [paths  |-> SlicePaths(text, files, slices[i]),
     start  |-> BytesBefore(text, slices, i),
     bytes  |-> Bytes(text, slices[i]),
     status |-> answers[i].status, abstained |-> answers[i].abstained,
     lines  |-> slices[i], response |-> answers[i]]]

\* The receipt, whatever the verdict; "aggregate" stands for the digest of
\* the packet's diff.
Receipt ==
  LET text == Packet(review.head)
  IN [head      |-> review.head,
      verdict   |-> review.final.verdict,
      abstained |-> review.final.abstained,
      findings  |-> review.final.findings,
      aggregate |-> text,
      total     |-> Bytes(text, Whole(text)),
      slices    |-> Records(text, diff[review.head], review.slices, review.answers)]

SignReceipt ==
  /\ review.step = "verdict"
  /\ receipts' = receipts \cup {Receipt}
  /\ review' = [review EXCEPT !.step = "signed"]
  /\ UNCHANGED <<diff, prHead, workflow>>

\* Isolation, model identity, a request that fails, an answer out of schema.
FailReview ==
  /\ review.step \in {"packed", "asking", "verdict"}
  /\ review' = [review EXCEPT !.step = "failed"]
  /\ UNCHANGED <<diff, prHead, receipts, workflow>>

-----------------------------------------------------------------------------
(* The admission workflow.                                                  *)

\* Somebody dispatches the workflow with a receipt and the head to admit.
Dispatch(r, h) ==
  /\ dispatch.step \in {"idle", "published", "denied"}
  /\ r \in receipts
  /\ dispatch' = [step |-> "verify_head", receipt |-> r, head |-> h]
  /\ UNCHANGED <<diff, prHead, reviewer, checks, late>>

VerifyHead ==
  /\ dispatch.step = "verify_head"
  /\ dispatch' = [dispatch EXCEPT !.step =
                    IF prHead = dispatch.head THEN "admit" ELSE "denied"]
  /\ UNCHANGED <<diff, prHead, reviewer, checks, late>>

\* Slices follow one another without gap or overlap and add up to the diff.
Contiguous(r) ==
  /\ r.slices # <<>>
  /\ r.slices[1].start = 0
  /\ \A i \in 1..(Len(r.slices) - 1) :
       r.slices[i + 1].start = r.slices[i].start + r.slices[i].bytes
  /\ Total([i \in DOMAIN r.slices |-> r.slices[i].bytes]) = r.total

\* The repository's diff of the paths the receipt names; of everything when
\* it names none.
ClaimedDiff(r, h) ==
  LET named == UNION {r.slices[i].paths : i \in DOMAIN r.slices}
  IN GitDiff(diff[h], IF named = {} THEN PathsOf(diff[h]) ELSE named)

\* A verdict that may be admitted, from slices that do not contradict it.
Admissible(r) ==
  /\ r.verdict = "APPROVE" /\ ~r.abstained
  /\ High(r.findings) = {}
  /\ \A i \in DOMAIN r.slices :
       r.slices[i].status # "FAIL" /\ ~r.slices[i].abstained

\* Mutant: the receipt's head is not compared with the head to admit.
AcceptsAnyHead(r, h) ==
  /\ Contiguous(r)
  /\ r.aggregate = ClaimedDiff(r, h)
  /\ Admissible(r)

Accepts(r, h) ==
  /\ r.head = h
  /\ Contiguous(r)
  /\ r.aggregate = ClaimedDiff(r, h)
  /\ Admissible(r)

\* Mutant: a receipt that is not accepted is tried again.
AdmitAgain ==
  /\ dispatch.step = "admit"
  /\ dispatch' = [dispatch EXCEPT !.step =
                    IF Accepts(dispatch.receipt, dispatch.head) THEN "publish"
                                                                ELSE "verify_head"]
  /\ UNCHANGED <<diff, prHead, reviewer, checks, late>>

Admit ==
  /\ dispatch.step = "admit"
  /\ dispatch' = [dispatch EXCEPT !.step =
                    IF Accepts(dispatch.receipt, dispatch.head) THEN "publish"
                                                                ELSE "denied"]
  /\ UNCHANGED <<diff, prHead, reviewer, checks, late>>

Check == [head |-> dispatch.head, receipt |-> dispatch.receipt]

\* publish_check: the POST is answered, or its answer is lost.
Publish ==
  /\ dispatch.step = "publish"
  /\ checks' = checks \cup {Check}
  /\ dispatch' = [dispatch EXCEPT !.step = "published"]
  /\ UNCHANGED <<diff, prHead, reviewer, late>>

PublishTimesOut ==
  /\ dispatch.step = "publish"
  /\ late' = late \cup {Check}
  /\ dispatch' = [dispatch EXCEPT !.step = "denied"]
  /\ UNCHANGED <<diff, prHead, reviewer, checks>>

LatePublish(c) ==
  /\ c \in late
  /\ late' = late \ {c}
  /\ checks' = checks \cup {c}
  /\ UNCHANGED <<diff, prHead, reviewer, dispatch>>

\* API errors, signatures, policies, path scope, prior verification.
DenyDispatch ==
  /\ dispatch.step \in {"verify_head", "admit", "publish"}
  /\ dispatch' = [dispatch EXCEPT !.step = "denied"]
  /\ UNCHANGED <<diff, prHead, reviewer, checks, late>>

MovePr(h) ==
  /\ prHead' = h
  /\ UNCHANGED <<diff, reviewer, workflow>>

-----------------------------------------------------------------------------
ReviewStep == CutSlices \/ AskSlice \/ Synthesize \/ SignReceipt \/ FailReview
AdmissionStep == VerifyHead \/ Admit \/ Publish \/ PublishTimesOut \/ DenyDispatch

Next ==
  \/ ReviewStep
  \/ AdmissionStep
  \/ \E h \in Heads : BuildPacket(h) \/ MovePr(h) \/ \E r \in receipts : Dispatch(r, h)
  \/ \E c \in late : LatePublish(c)

Spec == Init /\ [][Next]_vars

\* A request to the model ends within 600 s and one to GitHub within 30 s,
\* with an answer or with a failure.  (The first conjunct is weak fairness of
\* ReviewStep, written out: a step is enabled just when Reviewing.)
Reviewing == review.step \in {"packed", "asking", "verdict"}
Fairness == /\ []<>~Reviewing \/ []<><<ReviewStep>>_vars
            /\ WF_vars(AdmissionStep)
FairSpec == Spec /\ Fairness

-----------------------------------------------------------------------------
TypeOK ==
  /\ prHead \in Heads
  /\ review.step \in ReviewSteps /\ review.head \in Heads
  /\ Len(review.answers) <= Len(review.slices)
  /\ review.final = NoReceipt \/ review.final \in FinalAnswers
  /\ dispatch.step \in DispatchSteps /\ dispatch.head \in Heads
  /\ dispatch.receipt = NoReceipt \/ dispatch.receipt \in receipts
  /\ \A c \in checks \cup late : c.head \in Heads /\ c.receipt \in receipts

\* "Complete review coverage across 100% of full-diff files and bytes": every
\* line of every file that is to be reviewed in full was in exactly one slice
\* the model was shown, and that slice is recorded under the file's path.
\* Quoted headers inside a diff must not attribute lines to the wrong file.
CoverageIsTruthful ==
  \A r \in receipts : \A i \in DOMAIN FullDiff(diff[r.head]) :
    LET full   == FullDiff(diff[r.head])
        before == Len(Joins([j \in DOMAIN full |-> full[j].lines])[i - 1])
    IN \A n \in DOMAIN full[i].lines :
         \E s \in DOMAIN r.slices :
           /\ Holds(r.slices[s].lines, before + n)
           /\ full[i].path \in r.slices[s].paths
           /\ \A t \in DOMAIN r.slices \ {s} : ~Holds(r.slices[t].lines, before + n)

\* "Group atomic chunks into slices <= max_slice_chars" (review_backends): a
\* slice exceeds the budget only when it is a single line that does.
OverflowIsOneLine ==
  \A r \in receipts : \A s \in DOMAIN r.slices :
    Chars(r.aggregate, r.slices[s].lines) > Budget => Len(r.slices[s].lines) = 1

\* The reviewer and the gate agree: an approval that is signed for a diff
\* with something to review in it, all of it text, passes the gate's
\* independent accounting of coverage, bytes, digest and verdict.  (One with
\* nothing to review does not: the gate takes no path to mean every path.)
ApprovalIsAdmittable ==
  \A r \in receipts :
    /\ r.verdict = "APPROVE"
    /\ FullDiff(diff[r.head]) # <<>>
    /\ \A f \in DOMAIN diff[r.head] : \A n \in DOMAIN diff[r.head][f].lines :
         diff[r.head][f].lines[n].valid
    => Accepts(r, r.head)

\* What a reader of the model's own words would call an objection.
Objects(answer) ==
  \/ answer.status = "FAIL" \/ answer.abstained
  \/ \E f \in answer.findings : f.severity \in {"P0", "P1"}

\* "Complete review coverage" and "HIGH_SEVERITY_FINDING_SUPPRESSED", from end
\* to end: under a successful check every line to be reviewed in full, as the
\* head has it, was put to the model in the review the check rests on, and no
\* answer of that review objected, in whichever slice.  The gate cannot see
\* this: of an answer it has a digest, of a verdict what the model last said.
NoObjectionIsLost ==
  \A c \in checks :
    LET r    == c.receipt
        full == FullDiff(diff[c.head])
    IN /\ \A s \in DOMAIN r.slices : ~Objects(r.slices[s].response)
       /\ \A i \in DOMAIN full : \A n \in DOMAIN full[i].lines :
            LET before == Len(Joins([j \in DOMAIN full |-> full[j].lines])[i - 1])
            IN \E s \in DOMAIN r.slices : Holds(r.slices[s].lines, before + n)

\* A successful check sits on a head whose own diff was reviewed and approved,
\* however the pull request moved meanwhile and whichever receipt, whichever
\* head the workflow was dispatched with.
SuccessWasReviewed ==
  \A c \in checks :
    /\ c.receipt \in receipts /\ c.receipt.head = c.head
    /\ Admissible(c.receipt)
    /\ c.receipt.aggregate = SourceDiff(diff[c.head])

\* Every review that starts comes to an end.
ReviewEnds == review.step = "packed" ~> review.step \in {"signed", "failed"}

\* Every dispatched admission comes to an end.
AdmissionEnds ==
  dispatch.step = "verify_head" ~> dispatch.step \in {"published", "denied"}

=============================================================================
