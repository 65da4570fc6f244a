------------------------------ MODULE CloudReview ------------------------------
(***************************************************************************)
(* Runs of the workflow independent-cloud-review: a job whose steps verify  *)
(* the pull request's head, reproduce the evidence, ask the cloud reviewer  *)
(* (run_review), verify the head again and publish a check run.             *)
(*                                                                         *)
(* What a step does depends on how the job stands: a step without an "if"   *)
(* is skipped once a step has failed or the run was cancelled, a step with  *)
(* "if: always()" is not.  Runs are independent of one another except for   *)
(* the pull request, which moves under them, and the target's check runs.   *)
(***************************************************************************)

CONSTANTS
  Runs,    \* dispatched runs of the workflow
  Heads    \* commits the pull request's head may be at

VARIABLES
  prHead,  \* where the pull request's head is
  run,     \* the job of each run
  checks,  \* check runs on the target repository, [run, head, conclusion]
  late     \* check runs posted without an answer

vars == <<prHead, run, checks, late>>

\* The steps that matter, each with the one that follows it in the file.
Following ==
  [prepare |-> "verify_first", verify_first |-> "reproduce", reproduce |-> "identity",
   identity |-> "review", review |-> "verify_last", verify_last |-> "publish",
   publish |-> "fail_unless", fail_unless |-> "enforce", enforce |-> "done"]
Steps == DOMAIN Following
Ends == {"done", "lost"}

\* Mutant: the check is only published by a job that has not failed.
AlwaysVerify == {"verify_last"}

AlwaysSteps == {"verify_last", "publish"}

Verdicts == {"APPROVE", "REQUEST_CHANGES", "REJECT"}
NoAttestation == [verdict |-> "none", authorized |-> "none"]

\* What _validate_review lets pass: release_authorized need not be a Boolean,
\* it has to be as true as the verdict is an approval.  It may be a text that
\* says "True", or something else that counts as true.
Attestations ==
  {a \in [verdict : Verdicts, authorized : {"True", "False", "text True", "truthy"}] :
     a.verdict = "APPROVE" <=> a.authorized # "False"}

Init ==
  /\ prHead \in Heads
  /\ run \in [Runs -> {[step |-> "prepare", job |-> "success", head |-> h,
                        token |-> FALSE, verified |-> {}, exit |-> "",
                        attestation |-> NoAttestation, post |-> "none"] : h \in Heads}]
  /\ checks = {}
  /\ late = {}

-----------------------------------------------------------------------------
(* The job.                                                                 *)

\* The step's "if": always(), or success() and what is written there.
Wanted(r) ==
  \/ run[r].step \in AlwaysSteps
  \/ /\ run[r].job = "success"
     /\ run[r].step = "fail_unless" => run[r].exit # "0"
     /\ run[r].step = "enforce" => run[r].exit = "0"

At(r, step) == run[r].step = step /\ Wanted(r)

\* The run goes on to its next step with these changes of its job.
Passing(job) == [job EXCEPT !.step = Following[@]]

Failing(job) ==
  [Passing(job) EXCEPT !.job = IF @ = "success" THEN "failure" ELSE @]

Becomes(r, job) == run' = [run EXCEPT ![r] = job]

Skip(r) ==
  /\ run[r].step \notin Ends /\ ~Wanted(r)
  /\ Becomes(r, Passing(run[r]))
  /\ UNCHANGED <<prHead, checks, late>>

\* Authority main, App token, candidate; the token may outlive a later failure.
Prepare(r) ==
  /\ At(r, "prepare")
  /\ \/ Becomes(r, [Passing(run[r]) EXCEPT !.token = TRUE])
     \/ \E issued \in BOOLEAN : Becomes(r, [Failing(run[r]) EXCEPT !.token = issued])
  /\ UNCHANGED <<prHead, checks, late>>

\* verify_pr_head, before the review and before the publication.
VerifyHead(r, step) ==
  /\ At(r, step)
  /\ run[r].token /\ prHead = run[r].head
  /\ Becomes(r, [Passing(run[r]) EXCEPT !.verified = @ \cup {step}])
  /\ UNCHANGED <<prHead, checks, late>>

\* The prior verification and the packet; the signing identity.
Reproduce(r) ==
  /\ At(r, "reproduce") \/ At(r, "identity")
  /\ Becomes(r, Passing(run[r]))
  /\ UNCHANGED <<prHead, checks, late>>

\* A stale head, a rejection, an API error, a command that fails.
StepFails(r) ==
  /\ \E s \in {"verify_first", "reproduce", "identity", "verify_last"} : At(r, s)
  /\ Becomes(r, Failing(run[r]))
  /\ UNCHANGED <<prHead, checks, late>>

\* The step keeps the exit code and never fails.  A review that fails may
\* still leave an attestation behind.
Review(r) ==
  /\ At(r, "review")
  /\ \/ \E a \in Attestations :
          Becomes(r, [Passing(run[r]) EXCEPT !.exit = "0", !.attestation = a])
     \/ \E a \in Attestations \cup {NoAttestation} :
          Becomes(r, [Passing(run[r]) EXCEPT !.exit = "1", !.attestation = a])
  /\ UNCHANGED <<prHead, checks, late>>

\* The last step wants the value True; the shell compares what is printed.
Approves(a) == a.verdict = "APPROVE" /\ a.authorized = "True"
PrintsApproval(a) == a.verdict = "APPROVE" /\ a.authorized \in {"True", "text True"}

\* Mutant: the exit code of the review is not looked at.
ConclusionByFile(job) ==
  IF PrintsApproval(job.attestation) THEN "success" ELSE "failure"

Conclusion(job) ==
  IF job.exit = "0" /\ PrintsApproval(job.attestation) THEN "success" ELSE "failure"

\* Mutant: the check is put on whatever the pull request's head is now.
CheckOfCurrent(r) == [run |-> r, head |-> prHead, conclusion |-> Conclusion(run[r])]

CheckOf(r) == [run |-> r, head |-> run[r].head, conclusion |-> Conclusion(run[r])]

Publish(r) ==
  /\ At(r, "publish")
  /\ run[r].token
  /\ checks' = checks \cup {CheckOf(r)}
  /\ Becomes(r, [Passing(run[r]) EXCEPT !.post = "answered"])
  /\ UNCHANGED <<prHead, late>>

\* Without a token, or refused by the API.
PublishFails(r) ==
  /\ At(r, "publish")
  /\ Becomes(r, [Failing(run[r]) EXCEPT !.post = "refused"])
  /\ UNCHANGED <<prHead, checks, late>>

\* Mutant: a time-out of the publication does not fail the step.
PublishTimesOutQuietly(r) ==
  /\ At(r, "publish")
  /\ run[r].token
  /\ late' = late \cup {CheckOf(r)}
  /\ Becomes(r, [Passing(run[r]) EXCEPT !.post = "unanswered"])
  /\ UNCHANGED <<prHead, checks>>

PublishTimesOut(r) ==
  /\ At(r, "publish")
  /\ run[r].token
  /\ late' = late \cup {CheckOf(r)}
  /\ Becomes(r, [Failing(run[r]) EXCEPT !.post = "unanswered"])
  /\ UNCHANGED <<prHead, checks>>

\* exit 1, whenever the step is reached.
FailUnlessReviewed(r) ==
  /\ At(r, "fail_unless")
  /\ Becomes(r, Failing(run[r]))
  /\ UNCHANGED <<prHead, checks, late>>

EnforceVerdict(r) ==
  /\ At(r, "enforce")
  /\ Becomes(r, IF Approves(run[r].attestation) THEN Passing(run[r])
                                                ELSE Failing(run[r]))
  /\ UNCHANGED <<prHead, checks, late>>

-----------------------------------------------------------------------------
\* A step whose "if" does not survive the cancellation is killed (Skip).
Cancel(r) ==
  /\ run[r].step \notin Ends /\ run[r].job # "cancelled"
  /\ Becomes(r, [run[r] EXCEPT !.job = "cancelled"])
  /\ UNCHANGED <<prHead, checks, late>>

\* The runner is lost.
Lose(r) ==
  /\ run[r].step \notin Ends
  /\ Becomes(r, [run[r] EXCEPT !.step = "lost", !.job = "failure"])
  /\ UNCHANGED <<prHead, checks, late>>

LatePublish(c) ==
  /\ c \in late
  /\ late' = late \ {c}
  /\ checks' = checks \cup {c}
  /\ UNCHANGED <<prHead, run>>

MovePr(h) ==
  /\ prHead' = h
  /\ UNCHANGED <<run, checks, late>>

-----------------------------------------------------------------------------
Step(r) == \/ Skip(r) \/ Prepare(r)
           \/ VerifyHead(r, "verify_first") \/ VerifyHead(r, "verify_last")
           \/ Reproduce(r) \/ StepFails(r) \/ Review(r)
           \/ Publish(r) \/ PublishFails(r) \/ PublishTimesOut(r)
           \/ FailUnlessReviewed(r) \/ EnforceVerdict(r)

Next == \/ \E r \in Runs : Step(r) \/ Cancel(r) \/ Lose(r)
        \/ \E c \in late : LatePublish(c)
        \/ \E h \in Heads : MovePr(h)

Spec == Init /\ [][Next]_vars

\* Commands end, by themselves or by the time-out of a request.
FairSpec == Spec /\ \A r \in Runs : WF_vars(Step(r))

-----------------------------------------------------------------------------
TypeOK ==
  /\ prHead \in Heads
  /\ \A r \in Runs :
       /\ run[r].step \in Steps \cup Ends
       /\ run[r].job \in {"success", "failure", "cancelled"}
       /\ run[r].verified \subseteq {"verify_first", "verify_last"}
       /\ run[r].exit \in {"", "0", "1"}
       /\ run[r].attestation \in Attestations \cup {NoAttestation}
  /\ \A c \in checks \cup late : c.run \in Runs /\ c.head = run[c.run].head

\* A success is published only by a run whose review ended well with an
\* authorizing approval, of a head that was the pull request's after the run
\* had been dispatched, whatever failed, was skipped or was cancelled between.
SuccessRestsOnReview ==
  \A c \in checks \cup late : c.conclusion = "success" =>
    /\ run[c.run].exit = "0" /\ PrintsApproval(run[c.run].attestation)
    /\ "verify_first" \in run[c.run].verified

\* A green run means what it shows: its success check is on the head it was
\* dispatched for, and both head verifications passed.
GreenRunHasSuccess ==
  \A r \in Runs : run[r].step = "done" /\ run[r].job = "success" =>
    /\ [run |-> r, head |-> run[r].head, conclusion |-> "success"] \in checks
    /\ run[r].verified = {"verify_first", "verify_last"}

\* "Missing or failed provider configuration publishes a failing review
\* check" (operations guide), as does every other failure: a run that is not
\* lost ends, and has posted its one conclusion unless it never had a token
\* or the API refused.
RunConcludes ==
  \A r \in Runs :
    <>(\/ run[r].step = "lost"
       \/ run[r].step = "done" /\ run[r].post # "none")

\* "Missing credentials, ambiguous provenance, stale heads, model failures,
\* and malformed evidence fail closed" (README), and the step before the
\* publication is named "Stale-head protection": a success is published only
\* if that step found the pull request at the reviewed head.
StaleHeadFailsClosed ==
  \A c \in checks : c.conclusion = "success" => "verify_last" \in run[c.run].verified
=============================================================================
