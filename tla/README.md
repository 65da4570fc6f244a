# Verification of the Miskatonic Review Authority

TLA+ models of the review authority, the TLC runs that check them on small
instances, and TLAPS proofs of what matters most. Paths are relative to the
repository; `pkg/` stands for `src/miskatonic_review_authority/`.

The authority decides whether a candidate commit of another repository may be
released and says so with a GitHub check run. It does this along three routes:
an external research admission, a local model's review, and a cloud model's
review. On each of them the same question is hard: *does a successful check mean
what it says, although several executions, people and an unreliable API act on
the same pull request, branch and check at the same time?*

## 1. Inventory

| Component | State it keeps | Operations | Talks to |
|---|---|---|---|
| **Research admission publication** `pkg/research_admission_github.py` | `state.json` and `receipt.json` on a Git branch of the authority repository; a check run on the target | `publish_admission`, `AuthorityLedger.read/write`, `check_matches`, `GitHub.api` | GitHub's Git-data and check-run API; other executions and other scopes through the branch |
| **Credential session** `pkg/research_admission_github.py`, `github_app.py` | an installation token at GitHub; the `effects` flags | `target_token`, `_run_actions_phase`, `run_actions_phase` | GitHub App API; calls the publication |
| **Research admission workflow and decision** `.github/workflows/admit-research-evidence.yml`, `pkg/research_admission.py`, the phases in `research_admission_github.py` | runs and their executions, the approval history of a run, the summary of the planning job; the rules themselves keep nothing | `run_actions_phase` (plan, admit), `collect_facts`, `select_route`, `assess_ci`, `build_request`, `verify_compensating`, `verify_packet`, `reconcile_candidate`, `verify_ratification`, `verify_authorization`, `decide` | people, through a protected environment and comments; GitHub's runs, approvals, environments; calls the publication |
| **Local reviewer** `pkg/review_packet.py`, `review_backends.py`, `local_review.py` | packet, slices, the answers so far, the signed receipt | `build_review_packet`, `LocalLlamaCppBackend.review`, `run_local_independent_review` | git, a local llama.cpp server |
| **Local admission gate** `pkg/local_review.py`, `cli.py`, `check_publisher.py`, `github_api.py` | none; creates a check run | `verify_and_admit_local_review_receipt`, `_admit_local_review`, `publish_check` | git, GitHub |
| **Cloud review workflow** `.github/workflows/independent-cloud-review.yml`, `pkg/review_runner.py` | job status, step outputs, `evidence/` files | the steps of the job, `run_review` | OpenAI, GitHub |
| **Prior-release workflow** `.github/workflows/prior-release-verify.yml` | as above | the steps of the job | GitHub, the prior verification |
| **Prior and scientific verification** `pkg/prior_verifier.py`, `scientific_verifier.py`, `root.py`, `canonical_digest.py` | none of its own; reads git objects and, file by file, a checkout | `run_prior_verification`, `run_scientific_prior_verification` with its six profiles, `verify_root_record`, `candidate_digest` | git, the checkout, the code of the previous release |
| **Execution-ledger verifier** `pkg/attestation_ledger_verifier.py` | a fold over the lines of a ledger file | `verify_execution_evidence_attestation` | files, openssl |
| **RSI observation export** `observation/rsi/` | none | projection of records, schema checks | files |
| **CLI, workflow audit, signing (`pkg/attestation.py`), utilities, root builder** | none | argument passing, text search, signatures, hashing | files |

What makes them hard, and the property that would be violated if it went wrong:

* **Publication.** Two executions of one dispatch, of two dispatches, or of
  another scope race on one branch; the compare-and-swap is Git's fast-forward
  rule. A request that timed out after 30 s may be applied all the same, at once
  or later. The runner may die between the success of the check and the record of
  it. The pull request, the authority's main and the approval may change between
  any two reads. *One check at most; custody before success; a rejection leaves
  no trace; the reservation never changes hands; nothing stale succeeds.*
* **Credential session.** Exchange and revocation may take effect unheard. *What
  a rejection reports about side effects and the session is true.*
* **Local review.** A diff is cut at character counts, accounted for in bytes, and
  looked up by textual headers that content may quote. What blocks an approval may
  have been said many requests before. Receipt and head meet again on another
  machine, later. *All of the diff was shown, once, under its own path; nothing the
  model objected to is lost; success sits on the head that was reviewed.*
* **Cloud review.** Which step runs depends on the job's status, on `always()`, on
  `continue-on-error` and on cancellation. *Check, run colour and review agree.*
* **Admission workflow.** A person answers a proposal minutes or hours after it was
  made, and the answer is read back later still. Meanwhile main moves and is reverted,
  comments are edited, the CI is repeated, time passes, and the run is executed again,
  from the start or from its second job, with the same approval history. Success and
  admission may be applied after their run has failed. *Both follow only from one clear
  consent that held at the last reads; what was void before them stays void; a refusal
  has a reason the person can know.*
* **Prior verification.** What changed is read from git objects, the evidence from a
  checkout, some files twice, and large files are pointers in one and payloads in the
  other. *What passed rests on what the policy pins, and is what the head holds.*
* **Execution ledger.** Sequential code with many rules; hard are their combinations
  (sequence numbers and fallbacks), not interleavings.

`PROJECT.json` lists each hazard at its line.

## 2. Modules

| Module | Models | State and actions |
|---|---|---|
| `AdmissionPublication` | one scope's publication by any number of concurrent attempts | `ledger` is the branch, each commit the tree as the scope sees it; `pc` follows `publish_admission` call by call; `head` is `AuthorityLedger.head`; `inflight` holds calls whose caller gave up |
| `AdmissionCustody` | the abstract promise: reserve once, open, persist, complete, admit, withdraw | `stage`, `holder`, `checks` |
| `AdmissionPublicationInv` | the inductive invariant | - |
| `AdmissionPublicationProofs` | theorems and proofs | - |
| `ResearchDecision` | dispatches of the admission workflow, with their re-runs, and the phases plan and admit | `run` (step, job, commit of the dispatch, CI that was read), `history` the approval history of a run, `proposal` the summary of its planning job; `custody` the reservation and the admission, `check` the check of the run that holds it, `late` writes whose run has given up; beside it `clock`, `main`, `unedited`, `ci`, `rule` |
| `ResearchConsent` | the abstract promise to the person who authorizes | `fate` of each run: open, consented, passed, void, admitted |
| `ResearchDecisionProofs` | theorems and proofs | - |
| `CredentialSession` | the token of one phase | `session` at GitHub, `effects` as in the code, `late` requests, `report` the fields of the rejection |
| `SeqFunctions` | sums, joins and filters, as the functions a loop computes | - |
| `DiffSlicing` | slicing and accounting, as functions of the lines and pieces passed so far | - |
| `LocalReview` | reviewer and admission workflow, on separate machines | `review`, `receipts`, `dispatch`, `checks`, `late`, `prHead` |
| `LocalReviewProofs`, `CloudReviewProofs`, `CredentialSessionProofs`, `PriorVerificationProofs`, `ExecutionLedgerProofs` | inductive invariants, theorems and proofs | - |
| `SequenceLemmas` | induction from the least number; what the functions of `SeqFunctions` compute | - |
| `PriorVerification` | the prior verification, a check per step, and the workflow of the previous release | `work` the checkout, `todo` the checks left, `used` the bytes each check went by, `verdict`, `job`, `checks`; `blob` and `declared` are what git and the policy say of a large file |
| `ExecutionLedger` | the execution-ledger verifier, a ledger line per step | `read` the file so far, `events` the lines taken, `outcome`, `attestation` |
| `CloudReview` | the job of the cloud-review workflow | `run` (step, job status, exit code, attestation), `checks`, `late`, `prHead` |
| `MCAdmissionPublication`, `MCLocalReview`, `MCExecutionLedger`, `MCPriorVerification` | instances for TLC | - |

How they compose. `CredentialSession!Publish` has the three outcomes that
`AdmissionPublication` gives an attempt: done, rejected without side effect,
rejected with one. `ResearchDecision` takes the publication as its reservation
(`Decide`), last reads (`Refresh`, `Confirm`), success (`Complete`), admission (`Admit`)
and read-back, each of which may fail, its writes without an answer (`TimesOut`,
`LateWrite`); its `custody` is the reservation and the admission of `AdmissionCustody`. `ResearchDecision` implements `ResearchConsent` under `fate <- Fate`
(property `ImplementsConsent`), and `AdmissionPublication` implements `AdmissionCustody` under
`stage <- Current.status, holder <- Current.by` (property `ImplementsCustody`).
`LocalReview` extends `DiffSlicing`, which extends `SeqFunctions`.

### Correspondence worth knowing

* A ledger write is two actions, as in the code: `UpdateRef` moves the reference
  (POST or PATCH with `force: false`), `ConfirmRef` reads it back. A commit of
  another scope in between makes the code report a conflict for a write that took
  effect; the model does so too. Blobs, trees and commits that no reference names
  are not visible to anybody and are part of `UpdateRef`.
* `by` in a commit stands for the request and evidence digests in `state.json`. Two
  attempts are the same admission iff they share both (`SameIdentity`).
* `approval[r]` is what `verify_ratification` and `verify_authorization` would make
  of the approval, comments, environment rule and clock at this moment: a digest
  in `Grants`, or `NoGrant`. It changes freely, expiry included.
* Every raise inside the `try` of `publish_admission` leads through `OnError`, which
  is the `except` clause: it withdraws the check iff its id is known.
* `CallFails` is a call refused without effect; `CallTimesOut` one whose effect, if
  any, comes later (`LateCall`). An effect that came at once without an answer is
  the same with `LateCall` as the next step.
* In `LocalReview` a diff is a sequence of lines with a length in characters, one in
  bytes, and the path whose header begins in it. A digest is the text it digests.
  The model's answers are all those the schema admits.
* A loop of the slicer is a function of how many elements it has passed: `Bins(text, ps)[n]`
  is what the packing loop holds after `n` pieces, one `Add` per round. Lines and files
  the code filters are sets of positions, and `At` the sequence of what stands there.
* In `ExecutionLedger` the next line is chosen when it is read, and the fields of the
  result when they are looked at: the code looks at neither before. "The last", "the
  first" event with a property is the largest, the smallest of a set of positions. `expected_seq`
  and `seq_set` are the length and the domain of `events`. A decision's identifier
  and digest are one value, as are capability, phase and requested effect.
* In `ResearchDecision` time counts in units of the span a planned authorization lasts
  (12 hours). Reads that follow one another with nothing in between that could
  contradict them are one action: `Gate` includes the second reading of main and
  ratification in `collect_facts`, `Decide` the reservation, whose race is
  `AdmissionPublication`'s. The check's creation and the receipt are part of it, and the
  reads of check and pull request after the success part of `Complete`: that they fail is
  `Fail`. `Fail` stands for a pull request or evidence that does not
  agree, for every refused or lost call, a lost runner and a cancellation. Of the
  approval history the code looks at its length and its one entry; the model keeps
  the first review and the count.
* A run of `ResearchDecision` that fails while it publishes withdraws its check, or the
  withdrawal is refused, or it is not answered (`Abandons`). The success and the ADMITTED
  state of a failed run may be applied later (`LateWrite`), and an ADMITTED state may be
  applied and then refused when it is read back (`Fail` at `readback`).
* A repetition is answered from the receipt only while its check says success
  (`Repeats`): one whose check was withdrawn is refused, as is one whose pull request has
  moved. The latter is a `Fail`.
* The commit of a run is that of its dispatch, also when it is re-run. The request
  binds the run's id and not its execution, so two executions with the same review
  submit the identical request.
* The authorization a planning job proposes expires `now + 12h` and is not held
  against the expiry of the policy, while the admitting job does so. In the policy's
  last 12 hours an answer that repeats the proposal is refused; the expiry has to be
  brought forward by hand. (`Clear` asks for an expiry within the policy's, so such a
  refusal `HasReason`; `RefusalHasReason` needs no other exception.)
* A re-run that is approved again has two entries in its history and is refused for
  that alone. The retry that `activation-and-custody.md:39` describes is reached only
  by a re-run whose job starts without another review.
* In `PriorVerification` a file is known by its bytes, and a digest is the bytes it
  digests. Documents with a digest of their own are read once; the ledger is read
  for its pin and once more for the order of its attempts. What the evidence states
  (counts, classifications, dispositions) may or may not satisfy the code: `Reject`.
  The lookup of a payload under path, name and map is one lookup per document.
* At a desk anybody may edit between two checks (`Edit`); on a runner the evidence may
  differ from what it should be, but nothing changes once the verification has begun.
* The profiles for `causalis_b1_01a`, `atlas_01a` and `cdl_00a` pin no document: they
  rest on the expected head and on their listing. The prior-release workflow takes
  base and head from whoever dispatches it, and its policy pins neither.
* `ExecutionLedger` reads each file once. The code reads ledger and result twice, for a
  digest and for the contents, and nothing ties the two; the model assumes that nobody
  writes them in between.
* In `CloudReview` two steps look at `release_authorized`: the one that publishes compares
  what Python prints with the text `True` (`PrintsApproval`), the last one wants the value
  `True` (`Approves`). A text that says "True" passes the first only: a success is
  published and the run turns red.
* In `CloudReview` a cancelled step is one whose condition no longer holds, so it is
  `Skip` that ends it; steps with `always()` go on.

## 3. Runs

All with 2 workers; times on a small machine.

| Run | Instance | Shows | States |
|---|---|---|---|
| `publication_race` | two attempts of two dispatches, one approval digest each, other scopes commit while the branch is shorter than 3 | `AtMostOneCheck`, `RejectionLeavesNoTrace`, `CustodyAdvances`, `ImplementsCustody`, `StaleNeverSucceeds`, `EveryAttemptEnds` | 214,496, 2 min |
| `publication_retry` | two attempts of one dispatch (a re-run), two approval digests, branch bound 4 | `IInv`, `SuccessIsCustodied`, `AdmittedIsBacked`, `AuthenticatedIsFinal`, `RepeatIsIdentical` | 967,872, 35 s |
| `publication_partial` | one attempt | violation of `PartialNeverSuccess`, see section 6 | |
| `research_decision` | two dispatches in the order of their ids, one re-run between them, a principal and a colleague, one commit after the dispatch, one repetition of the CI, two spans of time | `IInv`, `GreenRunIsOnRecord`, `ImplementsConsent`, `RefusalHasReason`, `EveryRunEnds` | 584,604, 2 min |
| `credential_session` | either phase | report and session properties, `PhaseEnds` | 321 |
| `review_slicing` | diffs of up to three files and five lines, short, wide and over-long, quoted headers, invalid UTF-8; answers that approve, find something minor or major, object or leave something undone | `CoverageIsTruthful`, `OverflowIsOneLine`, `ApprovalIsAdmittable`, `NoObjectionIsLost`, `ReviewEnds`, `AdmissionEnds` | 107,303, 25 s |
| `review_stale` | two heads, two candidates, up to three receipts, dispatched in any combination | `SuccessWasReviewed` | 265,904, 20 s |
| `cloud_run` | one run of the job, two heads | `SuccessRestsOnReview`, `GreenRunHasSuccess`, `RunConcludes` | 3,484 |
| `cloud_stale` | the same | violation of `StaleHeadFailsClosed` | |
| `prior_verification` | all profiles on a runner and at a desk, up to two edits, four sets of documents, large files in git as payload, as pointer or deleted; the workflow with cancellation | `PassRestsOnPins`, `LargeEvidenceIsOfHead`, `SuccessIsOfPinnedRelease` | 1,626,513, 35 s |
| `ledger_verified` | ledgers of up to three lines out of 34, callers and results that differ in what a rule looks at | `ReceiptsAreAuthorized`, `NoGapBeforeALine`, `StatusIsEarned`, `EvidenceIsRelevant`, `CandidateWasSeenLast` | 104,483, 20 s |
| `ledger_foreign` | two lines, one of another run | violation of `ForeignLinesAreRejected` | |

### Bounds, and why they are enough

* *Attempts.* A conflict needs two. The proofs of section 5 hold for any number.
* *`MaxLedger`.* Only other scopes' commits are bounded; ours are at most three.
  With 4 another scope can commit before, between and after each of them, also
  between the last write and its read-back.
* *Grants.* Two digests suffice for "changed and changed back".
* *Slicing.* The budget is 5 characters and lines have 1, 2 or 6, so that lines,
  sections and groups fall below, on and above it. `PacketLimit` cuts off diffs over
  15 characters, as the packet builder does at its own limit.
* *`MaxReceipts`.* Three receipts over two heads give every mix-up of receipt and
  head that a dispatch can contain. The proof holds for any number.
* *Admission workflow.* A proposal lasts one unit of time, which is also the furthest
  an authorization may reach, and the policy ends after two: every order of planning,
  answering, reading back, expiry and end of policy occurs. One later commit tells a
  revert from the commit itself (`Accepted` is the first). Two executions among two
  runs give both a re-run with the history of the first and a rival that queues,
  overtakes or finds the scope taken. Late writes need no bound: a run that has failed
  sends nothing more. The proofs hold for any numbers.
* *Prior verification.* Two edits put a file back, or change two files between their
  readings. The four sets of documents agree, contradict one another in each lookup,
  leave the artifact out, or list the digest of the pointer's text.
* *Ledgers.* Three lines are what a retry with something in between, or a line that
  was moved, needs; each line differs from a plain one in one respect.
* *Runs of the cloud workflow.* They share nothing but the pull request, and no
  property relates two of them.

`CHECK_DEADLOCK FALSE` appears where everything really may end: all attempts have
reported, the phase is done, the job is over.

### Fairness

Every request has a time-out (30 s for GitHub, 600 s for models) and the code never
retries, so each step of an attempt, phase or review ends; that is weak fairness of
its steps, failures included. In `ResearchDecision` GitHub also starts what is pending
in a free concurrency group and gives a waiting job up after 30 days (`Start`,
`WaitEnds`). Nothing is assumed of people, of what the world does, of late calls
(`LateCall`, `LateWrite`) or of crashes. `EveryRunEnds` holds although a newcomer cancels a pending run: that ends it.

## 4. What the runs say about the code

* However attempts interleave, fail, die or are answered late, one check run at most
  is ever created for a scope, because the check is created only after the
  reservation has been read back from a branch only fast-forwards can change.
* A second attempt never resumes a pending reservation: after a crash the scope stays
  pending until a person reconciles it. This is what the failure table documents, and
  is the price of the property above; `EveryAttemptEnds` is all the liveness there is.
* The admission workflow keeps what it promises the person who authorizes: no order of
  re-runs, second answers, reverts, edits, expiry and late writes turns an answer that was
  void before the last reads into a success or an admission. It rests on three readings of the same facts, before the proposal, before
  the reservation and before the success.
* After the last reads the promise ends. A run that has failed, even one whose consent has
  lapsed meanwhile, may still become the admitted one, when its ADMITTED write is applied
  late or is refused at its read-back; its check may be `cancelled` by then. `passed` is
  the fate of such a run, and the only one an admission can come from.
* Of those facts the CI alone is not read again before the success. An execution of
  the CI that starts after the assessment is not noticed, and need not be: the receipt
  names the execution that was assessed.
* An edit of the checkout during a prior verification is harmless for the documents
  that carry their own digest, because they are read once. The order of the attempts
  is read from the ledger again, and at a desk it may be that of another ledger.
* The check may stay `cancelled` under an `ADMITTED` state, when the last write took
  effect but was not confirmed. `AdmittedIsBacked` therefore allows it, and
  `RevalidateCheck` refuses such a repetition.
* Textual header lookup in the slicer can go wrong on quoted headers, but then the
  slices do not concatenate to the diff and the review fails: coverage is truthful
  because of the reconstruction check, and not without it.
* The ledger verifier leaves no gap before a numbered line: one that was taken out, put in
  or moved before it is noticed. Lines that were cut off at the end are not, a last test
  run that failed among them: nothing says how many there should be. A line without a
  number counts as its line in the file, so of an unnumbered ledger no missing line is
  noticed, while a blank line makes it fail.
* A reference of the result is looked up in two numberings at once.
  `EvidenceIsRelevant` therefore assumes that an event's own number never runs ahead
  of the ledger's; without that the line a test result refers to need not be a test.

## 5. Proofs

Every component that is modelled has proofs, for all values of its constants. Each
safety property a passing run checks is the statement of a theorem; liveness alone is
left to the runs. TLC checked every inductive invariant on the instances of section 3
before it was proved.

### Publication

`AdmissionPublicationProofs` proves, for all values of the constants that satisfy
the four named assumptions of `AdmissionPublication` (`None` is not an attempt,
`RequestOf` maps attempts to requests, `NoGrant` is not a grant, the bound is a
natural number):

| Theorem | Statement |
|---|---|
| `Inductive` | `Spec => []IInv` |
| `TypeCorrect` | `Spec => []TypeOK` |
| `OneCheck` | `Spec => []AtMostOneCheck` |
| `CustodyBeforeSuccess` | `Spec => []SuccessIsCustodied` |
| `AdmissionBacked` | `Spec => []AdmittedIsBacked` |
| `Finality` | `Spec => []AuthenticatedIsFinal` |
| `Repetition` | `Spec => []RepeatIsIdentical` |
| `NoSideEffect` | `Spec => []RejectionLeavesNoTrace` |
| `CustodyOnlyAdvances` | `Spec => CustodyAdvances` |
| `StaleIsNeverSuccess` | `Spec => StaleNeverSucceeds` |
| `Refinement` | `Spec => ImplementsCustody` |

**The argument.** None of the safety properties is inductive: each speaks of a
branch and a check, and says nothing of the call that is about to change them.
`IInv` adds what every label *needs*: `Needs(a, l)` says what the branch and the
check look like when attempt `a` stands at `l`, and the same predicate is required
for every call `l` of `a` that is still in flight, because a late call meets the
world its attempt left behind (`StageInv`). A late write can only land if its base
is still the tip of the branch (`FastForward`), so it can only continue its own
attempt's history. `LateInv` says which calls can be late at all: only those of
attempts that have failed, and never a completion together with an admission.
`LedgerInv` (one holder per scope), `AdmittedInv` (terminal, and it names the commit
of the receipt) and `CheckInv` (a check belongs to the holder) close the induction.

The proof splits a step by what it changes. Ledger writes, on time or late, share
`WriteKeeps`; check updates share `CheckKeeps`; steps that only move one attempt
share `Local`; then there is one lemma per action, and `StepIInv` collects them.
The refinement maps `UpdateRef` and late writes to `Reserve`, `Persist` or `Admit`,
check updates to `OpenCheck`, `Complete` or `Withdraw`, and all else to stuttering.

`StaleNeverSucceeds` is a nested temporal formula, but one of safety. Three reads stand
between the receipt and the completion (`Gates`). An attempt before the refresh is `Held`
before each of them: it is not beyond the gate, no completion of it is on its way, and its
check is not a success (`Unspent`, which `IInv` does not say and is inductive with it).
`HeldStays` says that nobody comes through a gate while it is `Closed`; one that stays
closed for ever holds the attempt for ever.

### Admission workflow

`ResearchDecisionProofs`, under the assumptions `Parties`, `Spans`, `Bounds` and
`NoneIsNothing`, for any number of runs, executions, commits, reviewers and moments:

| Theorem | Statement |
|---|---|
| `Inductive` | `Spec => []IInv` |
| `GreenIsOnRecord` | `Spec => []GreenRunIsOnRecord` |
| `Refinement` | `Spec => ImplementsConsent` |
| `RefusalsHaveReasons` | `Spec => RefusalHasReason` |

`IInv` says what an execution has behind it: one past the gate stands on the accepted
tree, and one that publishes is `Committed`: it holds the reservation under the one
clear review of its run, and nothing late but reservations is on its way, which the taken
scope does not let in (`Holder`). Who is late with anything else has failed, and the scope
is his. The refinement needs that voidness is for good. `SpoiltStays` shows it of the
causes (a second review, the clock, an edit, another CI, another commit), `TakenStays` of
the reservation; `NewlyPassed` shows that a run passes only in `Confirm`, with everything
behind it. `Moves` and `Settles` list what a step may change at all, of the run and of the
scope: only who has passed is admitted, and who loses it without that is `Taken`.

### Cloud review

`CloudReviewProofs`: `Types` (`TypeOK`), `SuccessIsReviewed` (`SuccessRestsOnReview`),
`GreenIsSuccess` (`GreenRunHasSuccess`), for any number of runs and commits, with no
assumption. `Progress` says what a job that has come to a step must have behind it, with
weaker claims for one that has failed, since steps with `always()` go on; `Stands` says
that a check is that of its run and that the run is past the step that could change it.

### Credential session

`CredentialSessionProofs`: `TypeCorrect`, `NoHiddenSideEffect`
(`SideEffectsAreReported`), `HonestReport` (`SessionIsReportedHonestly`), `OpenIsKnown`
(`OpenSessionIsKnown`), under `PhasesAssumption`. The invariant has three ideas: a
request is announced in the flags before it is made, so that it may take effect late; a
token the phase knows excludes an exchange on its way, so that a confirmed revocation is
final; after the rejection the flags change by a revocation only.

### Local review

`LocalReviewProofs`, under the assumptions `BudgetAssumption`, `AnswersAssumption` and
`DiffsAssumption`, for any number of heads, files, lines, answers and receipts:

| Theorem | Statement |
|---|---|
| `Inductive` | `Spec => []IInv` |
| `CutInductive` | `Spec => []CutInv` |
| `TypeCorrect` | `Spec => []TypeOK` |
| `NothingObjected` | `Spec => []NoObjectionIsLost` |
| `SuccessReviewed` | `Spec => []SuccessWasReviewed` |
| `CoverageTruthful` | `Spec => []CoverageIsTruthful` |
| `OversizedIsOneLine` | `Spec => []OverflowIsOneLine` |
| `ApprovalAdmittable` | `Spec => []ApprovalIsAdmittable` |

`DiffsAssumption` says what git prints under the options of `review_packet.py`: a path is
listed once (`--find-renames=0`), a file's section is not empty and begins with a diff
header, and lengths are numbers. It does *not* say that the header names the file's own
path, nor that content quotes no header: that is what the code has to cope with.

*Who reaches a publication* (`IInv`). A receipt is about the diff of its own head, which
never changes, and only the gate leads to the publication. The records of a receipt are
the answers to its own slices, in order, and no finding of theirs is grave when the
synthesis may approve (`AnswersBehind`); with the coverage below that is
`NothingObjected`.

*How a diff is sliced* (`CutInv`). Every receipt carries the records of a cut of its head's
diff that has all sections and concatenates to the diff. What a cut is worth is then a
matter of the operators alone:

* Packing keeps its pieces and their order (`PackFacts`), and a bin is over the budget
  only if it is a single piece; of packing twice, lines into parts and parts into slices,
  remains that a slice over the budget is one line (`SlicesFacts`). Hence
  `OversizedIsOneLine`.
* Slices concatenate to the diff, so the sections the slicer found by textual search do
  too (`CutFacts`). A section holds no header but in its first line, and every file's
  block begins with one: as many headers as sections, as many sections as files, so
  blocks and sections begin at the same lines and each section *is* its file's block
  (`SectionsAreBlocks`), whatever the headers say. Hence `CoverageTruthful`.
* Offsets are running sums, their last is the total, and the paths recorded are all paths
  (`CutIsContiguous`); a diff that is all text is decoded to itself (`DecodedToItself`),
  so the gate's digest is the reviewer's. Hence `ApprovalAdmittable`.

`SequenceLemmas` has the facts about sums, joins and weights this needs.

### Execution ledger

`ExecutionLedgerProofs`, under `LinesAssumption` (a line has the fields the code reads,
its numbers are natural, and a decision's file is there or is not), for ledgers of any
length and any callers, policies and results:

| Theorem | Statement |
|---|---|
| `LedgerInductive` | `Spec => []LedgerInv` |
| `AttestedReceiptsAreAuthorized` | `Spec => []ReceiptsAreAuthorized` |
| `AttestedLedgerHasNoGap` | `Spec => []NoGapBeforeALine` |
| `AttestedStatusIsEarned` | `Spec => []StatusIsEarned` |
| `AttestedEvidenceIsRelevant` | `Spec => []EvidenceIsRelevant` |
| `AttestedCandidateWasSeenLast` | `Spec => []CandidateWasSeenLast` |

The properties speak of the file, the verifier decides on `events`; neither mentions the
other. `LedgerInv` ties them: the n-th event is the n-th line that is not blank, under the
number n (`EventsAreLines`), each line passed what is asked of it (`LinesWereAccepted`), and
what is attested was derivable (`AttestedIsDerived`). That needs the rank of a line among
those that are not blank, by cardinalities (`RanksRise`), and that a line without a number
can only be taken while no blank line was skipped.

### Prior verification

`PriorVerificationProofs`: `PassRestsOnPinsHolds`, `LargeEvidenceIsOfHeadHolds`,
`SuccessIsOfPinnedReleaseHolds`, each the property of its name, for any documents and
any number of edits, with no assumption. A check that was passed leaves a fact (`Done`)
about the bytes it went by. The lists of checks of all profiles agree with one order
(`Rank`, `ListsFit`): so a check finds the facts of those before it (`HeadFirst`), and
no later one writes over what an earlier one used (`NotRead`). Facts about the
checkout itself are claimed on a runner only, where it stands still (`EditStep`).

### Induction

The library states induction with an operator as parameter, which the provers cannot
instantiate. `SequenceLemmas` does without: the least number of a set follows from `WFMin`
of the well-founded `<`, and `Induction` is about a *set* of numbers, to be given as
`{n \in Nat : ...}`. `Recursion` says that a loop has a result, so that `Sums`, `Joins`,
`Picks` and `Bins` satisfy the equations that define them.

### Only model-checked

* Liveness: `EveryAttemptEnds`, `EveryRunEnds`, `PhaseEnds`, `ReviewEnds`,
  `AdmissionEnds`, `RunConcludes`. It rests on fairness, and so on `ENABLED`, which is
  out of the prover's reach.

## 6. Disagreements between the code and its documents

1. *"Partial publication never becomes false success"*
   (`docs/research-admission-v1/external-evidence-admission-contract.md:15`). After
   the check has been completed an attempt may still fail. The one request that
   withdraws the check may then fail, or a completion that timed out may be applied
   after it. The check remains a success and the attempt reports a partial
   publication. `publication_partial` finds it.
2. *"... stale heads, model failures, and malformed evidence fail closed"*
   (`README.md:23`) and the step *"Verify PR head before publishing check (Stale-head
   protection)"* (`.github/workflows/independent-cloud-review.yml:181`). The step that
   publishes has `if: always()`, so a stale head turns the run red and yet a success is
   published for it. `cloud_stale` finds it.
3. The execution-ledger verifier *"fails closed if: ... run_id / attempt_id /
   work_order_id mismatch ... custody wrapper identity or receipt digest mismatch"*
   (`pkg/attestation_ledger_verifier.py:40` and `:45`). Only the wrappers of receipts
   are compared; a control event of another run is taken and counts as a test run, a
   head or a line of evidence. `ledger_foreign` finds it.

Three smaller ones are noted, not run: *"High-severity finding conservation: synthesis
may not omit slice P0/P1"* (`pkg/review_backends.py:607`), although findings are matched
by path and severity and of two P0 findings on one path the synthesis may drop one (an
approval is impossible with either, see `NoObjectionIsLost`; it is the record that
loses a finding); a line longer than the slice budget makes a
slice over it although a comment promises `<= max_slice_chars`
(`pkg/review_backends.py:410`; `OverflowIsOneLine` is what does hold), and a candidate
with no file to review in full can be approved but not admitted, since the gate takes
no path to mean every path (`pkg/local_review.py:618`; `ApprovalIsAdmittable` excludes
it by its premise).

## 7. What is not modelled

* *The contents of the evidence.* `verify_packet`, `verify_compensating`,
  `reconcile_candidate` and `load_contract` compare files of one commit with pinned
  digests: they fail or they do not (`Fail`). The same holds of the counts,
  classifications and dispositions the scientific verifier reads (`Reject`) and of the
  patterns that forbid a path.
* *The gate's signature and policy checks, isolation and model identity*: each appears
  as a failure that may happen at any time at its place.
* *The base and head a prior-release run is dispatched with*: they come from a person,
  and the control-plane policy pins neither; the check is posted on that head.
* *Commit SHAs are distinct.* Two attempts that write byte-identical commits in the
  same second would share a SHA. A state file binds the run and its evidence, so this
  takes two executions of the same run, with the same approval, at the same moment.
* *Pagination* (`GitHub.pages` gives up after 100 pages), *clock skew* and *rate
  limits* are failures of a read.
* *Signing keys, policy files and digests* of the ledger verifier are conditions that
  hold or do not.
* *RSI export, workflow audit, CLI parsing, data files*: no state of their own and no
  interaction. See `PROJECT.json`.

## 8. Plan

Done, in this order: the publication and its proofs, since it is the part with a
durable, contended state; the parts whose results end in a check run; the workflow in
which a person decides, with the abstract consent it implements; the prior verification
and its workflow; proofs for every component, of every safety property that is checked.

What could follow:

1. Both required checks of a pull request that moves, as a composition of `CloudReview`
   and the workflow of `PriorVerification`.
2. The gate's signature, policy and scope checks as operators in `LocalReview`, and the
   path rules of the scientific verifier against a reference definition.
3. A composition in which the publishing steps of `ResearchDecision` are the calls of
   `AdmissionPublication`, so that the two refinements become one chain.
