--------------------------- MODULE ResearchDecision ---------------------------
(***************************************************************************)
(* Runs of the workflow admit-research-evidence: a job that reconciles the  *)
(* evidence and shows a person what there is to authorize (phase plan), a   *)
(* job behind a protected environment that reads the person's answer back,  *)
(* decides and publishes (phase admit).                                     *)
(*                                                                         *)
(* Under the runs move the authority's main, the ratification comments, the *)
(* target's hosted CI, the environment's rule and the clock; runs are       *)
(* re-run, whole or from the second job, and share a concurrency group.     *)
(* Of the publication it has the steps that decide what a consent comes to, *)
(* its writes among them, which may time out and be applied after their run *)
(* has failed; call by call it is AdmissionPublication, and the token is    *)
(* CredentialSession.  A pull request that is not at the candidate,         *)
(* evidence that does not reconcile and a call that fails end the run       *)
(* (Fail).                                                                  *)
(***************************************************************************)
EXTENDS Naturals

CONSTANTS
  Runs,          \* dispatches of the workflow, by their ids
  None,          \* no commit, no reservation, a comment that is no authorization
  Principal,     \* who the policy lets authorize
  Others,        \* further people an environment may list as reviewers
  TemplateSpan,  \* how long a planned authorization lasts, 12 hours in the code
  MaxSpan,       \* how far ahead one may reach, 24 hours in the code
  PolicyExpiry,  \* when the policy ends
  Horizon,       \* bound: the last moment
  Accepted,      \* commits of main with the tree that was reviewed and accepted
  MaxCommits,    \* bound: commits of main
  MaxCiRuns,     \* bound: executions of the hosted CI
  MaxStarts,     \* bound: executions of all runs together
  CiOutcomes,    \* sets of ways the jobs of a repeated CI may end
  Extensions     \* what people add to a proposed expiry

ASSUME Ids == Runs \subseteq Nat
ASSUME Parties == Principal \notin Others
ASSUME Spans == /\ TemplateSpan \in Nat /\ MaxSpan \in Nat /\ TemplateSpan <= MaxSpan
                /\ PolicyExpiry \in Nat \ {0} /\ Accepted \subseteq Nat
ASSUME Bounds == /\ Horizon \in Nat /\ MaxCommits \in Nat /\ MaxCiRuns \in Nat
                 /\ MaxStarts \in Nat /\ Extensions \subseteq Nat

VARIABLES
  clock,     \* the time
  main,      \* the authority's main: its latest commit
  unedited,  \* the ratification and its security review are as they were created
  ci,        \* the target's hosted CI: its execution, how its jobs ended
  rule,      \* whether the environment requires the principal and nobody else
  run,       \* how far each run is, and the CI execution its current job has read
  starts,    \* executions so far
  history,   \* each run's approval history: its first review, how many there are
  proposal,  \* the authorization the summary of its planning job proposes
  custody,   \* the scope's reservation and admission
  check,     \* the check of the run that holds the reservation
  late       \* writes that timed out and may still be applied

world == <<clock, main, unedited, ci, rule>>
scope == <<custody, check, late>>
vars == <<world, run, starts, history, proposal, scope>>

Ended == {"succeeded", "failed", "cancelled"}
Idle == Ended \cup {"absent", "queued"}
Publishing == {"refresh", "confirm", "complete", "record", "readback"}
Steps == Idle \cup Publishing \cup
         {"gate", "assess", "plan", "waiting", "decide"}

Commits == 0 .. MaxCommits
CiFacts == [execution : 0 .. MaxCiRuns, jobs : CiOutcomes \cup {{"startup"}}]

\* What an authorization binds: the request (which names run and commit), the
\* CI assessment in it, and an expiry.
Bodies == [run : Runs, ci : 0 .. MaxCiRuns, expires : Nat]
Reviews == [by : {Principal} \cup Others, state : {"approved", "rejected"},
            body : Bodies \cup {None}]

Submissions == [id : Runs, ci : 0 .. MaxCiRuns, review : Reviews]

ASSUME NoneIsNothing == None \notin Reviews /\ None \notin Bodies /\ None \notin Submissions

\* A check that is "open" is not posted yet, or in progress.
CheckStates == {"open", "success", "cancelled"}
Calls == [call : {"reserve", "success", "cancel", "admit"}, for : Submissions]

Unreserved == [run |-> None, admitted |-> FALSE]

Init ==
  /\ clock = 0
  /\ main = 0
  /\ unedited = TRUE
  /\ ci = [execution |-> 0, jobs |-> {"startup"}]
  /\ rule \in BOOLEAN
  /\ run = [r \in Runs |-> [step |-> "absent", job |-> "prepare", head |-> main,
                            ci |-> 0]]
  /\ starts = 0
  /\ history = [r \in Runs |-> [first |-> None, count |-> 0]]
  /\ proposal = [r \in Runs |-> None]
  /\ custody = Unreserved
  /\ check = "open"
  /\ late = {}

-----------------------------------------------------------------------------
(* The runs and their concurrency group.                                    *)

At(r, step) == run[r].step = step

\* What a job has read ends with it.
Goes(r, step) == [run[r] EXCEPT !.step = step, !.ci = IF step \in Ended THEN 0 ELSE @]
Becomes(r, entry) == run' = [run EXCEPT ![r] = entry]

\* Mutant: a pending run holds the group too.
GroupIsEmpty == \A r \in Runs : run[r].step \in Ended \cup {"absent"}

GroupIsFree == \A r \in Runs : run[r].step \in Idle

\* The group keeps one pending run: a newcomer cancels it.
Enqueue(r, entry) ==
  run' = [s \in Runs |->
            IF s = r THEN entry
            ELSE IF run[s].step = "queued" THEN [run[s] EXCEPT !.step = "cancelled"]
            ELSE run[s]]

\* Ids are given in the order of the dispatches.
Dispatch(r) ==
  /\ At(r, "absent") /\ \A s \in Runs : s < r => ~At(s, "absent")
  /\ starts < MaxStarts
  /\ Enqueue(r, [run[r] EXCEPT !.step = "queued", !.head = main])
  /\ starts' = starts + 1
  /\ UNCHANGED <<world, history, proposal, scope>>

\* All jobs, or the second alone once the first has passed.  The commit stays
\* the one of the dispatch.
Rerun(r) ==
  /\ run[r].step \in Ended
  /\ starts < MaxStarts
  /\ \E job \in {"prepare", run[r].job} :
       Enqueue(r, [run[r] EXCEPT !.step = "queued", !.job = job])
  /\ starts' = starts + 1
  /\ UNCHANGED <<world, history, proposal, scope>>

Start(r) ==
  /\ At(r, "queued")
  /\ GroupIsFree
  /\ Becomes(r, Goes(r, IF run[r].job = "prepare" THEN "gate" ELSE "waiting"))
  /\ UNCHANGED <<world, starts, history, proposal, scope>>

-----------------------------------------------------------------------------
(* The protected environment, and what GitHub lets people do there.         *)

Reviewers == {Principal} \cup (IF rule THEN {} ELSE Others)

\* What may be in the comment: a proposal of any run, perhaps with another
\* expiry, or something else.
Comments ==
  {None} \cup {[proposal[s] EXCEPT !.expires = @ + e] :
                 s \in {s \in Runs : proposal[s] # None}, e \in Extensions}

\* A review joins what earlier executions of the run left in its history.
Says(r, review) ==
  history' = [history EXCEPT ![r] =
                [first |-> IF @.first = None THEN review ELSE @.first, count |-> @.count + 1]]

Answer(by, state, body) == [by |-> by, state |-> state, body |-> body]

Approve(r) ==
  /\ At(r, "waiting")
  /\ \E by \in Reviewers, body \in Comments :
       /\ by # Principal => body = proposal[r]
       /\ Says(r, Answer(by, "approved", body))
  /\ Becomes(r, Goes(r, "gate"))
  /\ UNCHANGED <<world, starts, proposal, scope>>

\* Nobody reads the comment of a rejection.
Reject(r) ==
  /\ At(r, "waiting")
  /\ \E by \in Reviewers : Says(r, Answer(by, "rejected", None))
  /\ Becomes(r, Goes(r, "failed"))
  /\ UNCHANGED <<world, starts, proposal, scope>>

\* An environment without the rule, or an administrator, lets the job start
\* with nothing in the history.
Bypass(r) ==
  /\ At(r, "waiting")
  /\ Becomes(r, Goes(r, "gate"))
  /\ UNCHANGED <<world, starts, history, proposal, scope>>

\* GitHub gives a waiting job up after 30 days.
WaitEnds(r) ==
  /\ At(r, "waiting")
  /\ Becomes(r, Goes(r, "failed"))
  /\ UNCHANGED <<world, starts, history, proposal, scope>>

-----------------------------------------------------------------------------
(* The phases plan and admit: the steps they share.                         *)

MainIsHead(r) == main = run[r].head

\* The commit's tree is the accepted one and nobody edited what says so.
Ratified(r) == run[r].head \in Accepted /\ unedited

\* A step that reads, and goes on or is refused.
Check(r, step, holds, next) ==
  /\ At(r, step)
  /\ Becomes(r, Goes(r, IF holds THEN next ELSE "failed"))
  /\ UNCHANGED <<world, starts, history, proposal, scope>>

\* load_contract, canonical main, the workflow's identity and the preliminary
\* ratification, before the App key is used; collect_facts reads main and the
\* ratification again, once the evidence is reconciled.
Gate(r) == Check(r, "gate", MainIsHead(r) /\ Ratified(r), "assess")

\* assess_ci: every job failed to start, and there is one.
ExceptionEligible(jobs) == jobs # {} /\ jobs \subseteq {"startup"}

\* The end of collect_facts, assess_ci and build_request.
Assess(r) ==
  /\ At(r, "assess")
  /\ Becomes(r, IF ExceptionEligible(ci.jobs)
                THEN [Goes(r, IF run[r].job = "prepare" THEN "plan" ELSE "decide")
                        EXCEPT !.ci = ci.execution]
                ELSE Goes(r, "failed"))
  /\ UNCHANGED <<world, starts, history, proposal, scope>>

\* Mutant: the proposed authorization names the longest expiry there is.
ProposalOpenEnded(r) == [run |-> r, ci |-> run[r].ci, expires |-> clock + MaxSpan + 1]

\* The expiry is not held against the policy's.
Proposal(r) == [run |-> r, ci |-> run[r].ci, expires |-> clock + TemplateSpan]

Plan(r) ==
  /\ At(r, "plan")
  /\ proposal' = [proposal EXCEPT ![r] = Proposal(r)]
  /\ Becomes(r, [Goes(r, "waiting") EXCEPT !.job = "admit", !.ci = 0])
  /\ UNCHANGED <<world, starts, history, scope>>

-----------------------------------------------------------------------------
(* Phase admit.                                                             *)

Binds(body, r, assessed) == body # None /\ body.run = r /\ body.ci = assessed

Timely(body, now) ==
  /\ now < PolicyExpiry
  /\ now < body.expires /\ body.expires <= now + MaxSpan
  /\ body.expires <= PolicyExpiry

\* Mutant: one approval by the principal in the history is enough.
SpokenAtLeastOnce(h) ==
  h.count > 0 /\ h.first.state = "approved" /\ h.first.by = Principal

\* Exactly one review, whatever earlier executions of the run were told.
SpokenOnce(h) == h.count = 1 /\ h.first.state = "approved" /\ h.first.by = Principal

\* verify_authorization.
Authorized(r) ==
  /\ rule
  /\ SpokenOnce(history[r])
  /\ Binds(history[r].first.body, r, run[r].ci)
  /\ Timely(history[r].first.body, clock)

\* The request and its evidence: a run, a CI execution and a review.
Submission(r) == [id |-> r, ci |-> run[r].ci, review |-> history[r].first]

\* Mutant: whatever is admitted is taken for this request's admission.
RecordedAnything(r) == custody.admitted

Recorded(r) == custody = [run |-> Submission(r), admitted |-> TRUE]

\* The receipt of an identical request, as long as its check still says so.
Repeats(r) == Recorded(r) /\ check = "success"

\* The environment and the history are read, decide is called, and the scope
\* is free.
Reserves(r) == At(r, "decide") /\ Authorized(r) /\ custody.run = None

Decide(r) ==
  /\ Reserves(r)
  /\ custody' = [run |-> Submission(r), admitted |-> FALSE]
  /\ Becomes(r, Goes(r, "refresh"))
  /\ UNCHANGED <<world, starts, history, proposal, check, late>>

\* The authorization fails, or custody does: ADMISSION_LEDGER_CONFLICT,
\* CHECK_PUBLICATION_PARTIAL, or what the recorded receipt says.
DecideOtherwise(r) ==
  /\ ~Authorized(r) \/ custody.run # None
  /\ Check(r, "decide", Authorized(r) /\ Repeats(r), "succeeded")

\* A write for the request that holds the reservation.
Write(call) == [call |-> call, for |-> custody.run]

\* The run fails with these writes unanswered: the except branch withdraws the
\* check or fails to, perhaps without an answer either; or there is no runner
\* any more to do it.
Abandons(r, writes) ==
  /\ Becomes(r, Goes(r, "failed"))
  /\ \/ check' = "cancelled" /\ late' = late \cup writes
     \/ /\ check' = check
        /\ late' \in {late \cup writes, late \cup writes \cup {Write("cancel")}}

\* A step of the publication that reads again, and goes on or is refused.
Reread(r, step, holds, next) ==
  /\ At(r, step)
  /\ \/ holds /\ Becomes(r, Goes(r, next)) /\ UNCHANGED <<check, late>>
     \/ ~holds /\ Abandons(r, {})
  /\ UNCHANGED <<world, starts, history, proposal, custody>>

\* Mutant: only the ratification is read again.
RefreshRatification(r) == Reread(r, "refresh", Ratified(r), "confirm")

\* Approval, environment and ratification are read again; the CI is not.
Refresh(r) == Reread(r, "refresh", Authorized(r) /\ Ratified(r), "confirm")

Confirm(r) == Reread(r, "confirm", MainIsHead(r), "complete")

\* "The only success transition", and the reads after it.
Complete(r) ==
  /\ At(r, "complete")
  /\ check' = "success"
  /\ Becomes(r, Goes(r, "record"))
  /\ UNCHANGED <<world, starts, history, proposal, custody, late>>

\* The ledger says ADMITTED; that it is read back is a step of its own, which
\* may be refused after the fact.
Admit(r) ==
  /\ At(r, "record")
  /\ custody' = [custody EXCEPT !.admitted = TRUE]
  /\ Becomes(r, Goes(r, "readback"))
  /\ UNCHANGED <<world, starts, history, proposal, check, late>>

\* What is read back differs only by the work of other scopes (Fail).
ReadBack(r) == Check(r, "readback", TRUE, "succeeded")

\* A refusal not modelled here, a failed call, a lost runner, a cancellation.
\* What is reserved stays reserved, and what is admitted admitted.
Fail(r) ==
  /\ run[r].step \notin Idle
  /\ IF run[r].step \in Publishing THEN Abandons(r, {})
     ELSE Becomes(r, Goes(r, "failed")) /\ UNCHANGED <<check, late>>
  /\ UNCHANGED <<world, starts, history, proposal, custody>>

\* A write that is not answered fails the run and may be applied all the same.
TimesOut(r) ==
  /\ \/ /\ Reserves(r)
        /\ Becomes(r, Goes(r, "failed"))
        /\ late' = late \cup {[call |-> "reserve", for |-> Submission(r)]}
        /\ UNCHANGED check
     \/ At(r, "complete") /\ Abandons(r, {Write("success")})
     \/ At(r, "record") /\ Abandons(r, {Write("admit")})
  /\ UNCHANGED <<world, starts, history, proposal, custody>>

\* The ledger takes a write only on the state its run had read.
LateWrite(w) ==
  /\ w \in late
  /\ late' = late \ {w}
  /\ custody' = IF w.call = "reserve" /\ custody.run = None
                THEN [run |-> w.for, admitted |-> FALSE]
                ELSE IF w.call = "admit" THEN [custody EXCEPT !.admitted = TRUE]
                ELSE custody
  /\ check' = CASE w.call = "success" -> "success"
                [] w.call = "cancel" -> "cancelled"
                [] OTHER -> check
  /\ UNCHANGED <<world, run, starts, history, proposal>>

-----------------------------------------------------------------------------
(* The world.                                                               *)

Unmoved == UNCHANGED <<run, starts, history, proposal, scope>>

Tick ==
  /\ clock < Horizon
  /\ clock' = clock + 1
  /\ UNCHANGED <<main, unedited, ci, rule>> /\ Unmoved

\* Another commit; a revert may bring the accepted tree back, not the commit.
MoveMain ==
  /\ main < MaxCommits
  /\ main' = main + 1
  /\ UNCHANGED <<clock, unedited, ci, rule>> /\ Unmoved

\* Shows in updated_at for good.
EditComment ==
  /\ unedited
  /\ unedited' = FALSE
  /\ UNCHANGED <<clock, main, ci, rule>> /\ Unmoved

\* The run keeps its id; its jobs are new ones.
RerunCi ==
  /\ ci.execution < MaxCiRuns
  /\ \E jobs \in CiOutcomes : ci' = [execution |-> ci.execution + 1, jobs |-> jobs]
  /\ UNCHANGED <<clock, main, unedited, rule>> /\ Unmoved

ChangeRule ==
  /\ rule' = ~rule
  /\ UNCHANGED <<clock, main, unedited, ci>> /\ Unmoved

-----------------------------------------------------------------------------
\* What the workflow does without anybody asking.
Work(r) ==
  \/ Start(r) \/ WaitEnds(r)
  \/ Gate(r) \/ Assess(r) \/ Plan(r) \/ Decide(r) \/ DecideOtherwise(r)
  \/ Refresh(r) \/ Confirm(r) \/ Complete(r) \/ Admit(r) \/ ReadBack(r)

Next ==
  \/ \E r \in Runs : \/ Work(r) \/ Fail(r) \/ TimesOut(r)
                     \/ Dispatch(r) \/ Rerun(r) \/ Approve(r) \/ Reject(r) \/ Bypass(r)
  \/ \E w \in late : LateWrite(w)
  \/ Tick \/ MoveMain \/ EditComment \/ RerunCi \/ ChangeRule

Spec == Init /\ [][Next]_vars

\* Commands end, by themselves or by the time-out of a request, and GitHub
\* starts what is pending; nothing is assumed of people, nor of late writes.
FairSpec == Spec /\ \A r \in Runs : WF_vars(Work(r))

-----------------------------------------------------------------------------
(* What may still become of a run.                                          *)

\* One review, which approves in the policy's bounds what this run proposed.
Clear(r) ==
  /\ history[r].count = 1
  /\ history[r].first.by = Principal /\ history[r].first.state = "approved"
  /\ history[r].first.body # None
  /\ history[r].first.body.run = r
  /\ history[r].first.body.expires <= PolicyExpiry

Spoken(r) == history[r].count > 0

\* What is over by the clock or by an edit, and does not come back.
Lapsed(r) ==
  \/ ~unedited
  \/ clock >= PolicyExpiry
  \/ Spoken(r) /\ Clear(r) /\ clock >= history[r].first.body.expires

\* The CI that was accepted is not the CI any more, and this execution has not
\* read it before that.
CiOvertaken(r) ==
  /\ Spoken(r) /\ Clear(r)
  /\ history[r].first.body.ci < ci.execution
  /\ ~(/\ run[r].step \in {"decide"} \cup Publishing
       /\ run[r].ci = history[r].first.body.ci)

\* The commit of the dispatch is not the ratified one or not main's any more.
Unfounded(r) ==
  /\ ~At(r, "absent")
  /\ run[r].head \notin Accepted \/ run[r].head # main

\* Reserved for another run, or for an execution of this one that is over.
Taken(r) ==
  custody.run # None /\ ~(run[r].step \in Publishing /\ custody.run.id = r)

Spoilt(r) ==
  \/ Spoken(r) /\ ~Clear(r)
  \/ Lapsed(r) /\ ~At(r, "confirm")
  \/ CiOvertaken(r)
  \/ Unfounded(r)

AdmittedAs(r) == custody.admitted /\ custody.run.id = r

\* The last reads held: success and admission are due, or on their way although
\* the run has failed, or the check shows the success.
Passed(r) ==
  /\ custody.run # None /\ custody.run.id = r
  /\ \/ run[r].step \in {"complete", "record"}
     \/ \E w \in late : w.call \in {"success", "admit"}
     \/ check = "success"

Fate(r) ==
  IF AdmittedAs(r) THEN "admitted"
  ELSE IF Passed(r) THEN "passed"
  ELSE IF Spoilt(r) \/ Taken(r) THEN "void"
  ELSE IF Spoken(r) THEN "consented"
  ELSE "open"

Consent == INSTANCE ResearchConsent WITH fate <- [r \in Runs |-> Fate(r)]

-----------------------------------------------------------------------------
TypeOK ==
  /\ clock \in 0 .. Horizon /\ main \in Commits /\ unedited \in BOOLEAN
  /\ ci \in CiFacts /\ rule \in BOOLEAN /\ starts \in 0 .. MaxStarts
  /\ run \in [Runs -> [step : Steps, job : {"prepare", "admit"}, head : Commits,
                       ci : 0 .. MaxCiRuns]]
  /\ history \in [Runs -> [first : Reviews \cup {None}, count : Nat]]
  /\ proposal \in [Runs -> Bodies \cup {None}]
  /\ custody \in [run : {None} \cup Submissions,
                  admitted : BOOLEAN]
  /\ check \in CheckStates /\ late \subseteq Calls

\* What an execution that publishes has behind it, and nobody can take from it.
Committed(r) ==
  /\ run[r].job = "admit"
  /\ run[r].head \in Accepted
  /\ Clear(r) /\ history[r].first.body.ci = run[r].ci
  /\ custody.run = Submission(r) /\ (custody.admitted <=> At(r, "readback"))
  /\ \A w \in late : w.call = "reserve"

\* The inductive invariant.  A run is of a commit main has had; past the gate
\* it stands on the accepted tree; one that publishes holds the reservation
\* under the one review of its history, and no write but its own can touch it; a
\* proposal names its run and a span the admitting phase accepts; and a green
\* run is the one on record.
IInv ==
  /\ TypeOK
  /\ custody.admitted \/ check # "open" => custody.run # None
  /\ \A w \in late : w.call # "reserve" => w.for = custody.run
  /\ \A r \in Runs :
       /\ history[r].count = 0 <=> history[r].first = None
       /\ run[r].head <= main
       /\ run[r].step \in {"assess", "plan", "decide"} => run[r].head \in Accepted
       /\ At(r, "decide") => run[r].job = "admit"
       /\ run[r].step \in Publishing => Committed(r)
       /\ proposal[r] # None => /\ proposal[r].run = r
                               /\ proposal[r].expires <= clock + TemplateSpan
       /\ At(r, "succeeded") => AdmittedAs(r)

\* "Administrator bypass without an actual matching human review also fails"
\* (activation and custody), and so does everything else that is not one
\* consent that still holds: a success passes through a single clear review of
\* the run, in force when it was read for the last time; an admission follows
\* only from there, if need be after the run has failed; and what expired, was
\* edited, overtaken by main or by the CI, answered twice or taken by another
\* execution before that never shows a success and is never admitted, by no
\* late write, no re-run and no revert.
ImplementsConsent == Consent!ConsentSpec

\* A run is green only if it is the one on record, in its first execution or
\* in one that found the identical request admitted.
GreenRunIsOnRecord == \A r \in Runs : At(r, "succeeded") => AdmittedAs(r)

\* The two phases agree: an admitting job ends in a refusal of its own making
\* only for one of these reasons, above all not when the principal answered
\* with the proposal of the run as it was shown, in its time.  A refusal for
\* the pull request's sake is a Fail and not covered, a repetition's included.
HasReason(r) ==
  \/ ~Spoken(r) \/ Spoilt(r)
  \/ At(r, "decide") /\ custody.run # None /\ ~Repeats(r)
  \/ ~rule
  \/ history[r].first.body # proposal[r]
  \/ history[r].first.body.ci # (IF At(r, "assess") THEN ci.execution ELSE run[r].ci)
  \/ At(r, "assess") /\ ci.jobs # {"startup"}
  \/ At(r, "waiting")

RefusalHasReason ==
  [][\A r \in Runs :
       run[r].job = "admit" /\ run'[r].step = "failed" /\ Work(r) => HasReason(r)]_vars

\* A run that is dispatched or re-run comes to an end, whoever does not answer
\* and whoever else is in the concurrency group.
EveryRunEnds == \A r \in Runs : []<>(run[r].step \in Ended \cup {"absent"})
=============================================================================
