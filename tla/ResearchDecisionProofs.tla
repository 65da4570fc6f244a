------------------------ MODULE ResearchDecisionProofs ------------------------
(***************************************************************************)
(* Proofs about ResearchDecision, for any number of runs, executions,       *)
(* commits and moments: the invariant is inductive, a green run is the one  *)
(* on record, a refusal has a reason, and the workflow implements the       *)
(* consent it promises.                                                     *)
(***************************************************************************)
EXTENDS ResearchDecision, TLAPS

Entries == [step : Steps, job : {"prepare", "admit"}, head : Commits,
            ci : 0 .. MaxCiRuns]

\* A job that goes on, or ends, keeps everything but its step and what it read.
LEMMA GoesOn ==
  ASSUME TypeOK, NEW r \in Runs, NEW step \in Steps
  PROVE  /\ Goes(r, step) \in Entries
         /\ Goes(r, step).step = step
         /\ Goes(r, step).job = run[r].job
         /\ Goes(r, step).head = run[r].head
         /\ step \notin Ended => Goes(r, step).ci = run[r].ci
<1> DEFINE keeps == IF step \in Ended THEN 0 ELSE run[r].ci
<1>1. run[r] \in Entries
  BY DEF TypeOK, Entries
<1>2. keeps \in 0 .. MaxCiRuns
  BY <1>1, Bounds DEF Entries
<1>3. Goes(r, step) = [run[r] EXCEPT !.step = step, !.ci = keeps]
  BY DEF Goes
<1> HIDE DEF keeps
<1>4. /\ Goes(r, step) \in Entries
      /\ Goes(r, step).step = step
      /\ Goes(r, step).job = run[r].job
      /\ Goes(r, step).head = run[r].head
      /\ Goes(r, step).ci = keeps
  BY <1>1, <1>2, <1>3 DEF Entries
<1>5. QED
  BY <1>4 DEF keeps

\* The part of the invariant that speaks of one run.
RunInv(r) ==
  /\ history[r].count = 0 <=> history[r].first = None
  /\ run[r].head <= main
  /\ run[r].step \in {"assess", "plan", "decide"} => run[r].head \in Accepted
  /\ At(r, "decide") => run[r].job = "admit"
  /\ run[r].step \in Publishing => Committed(r)
  /\ proposal[r] # None => /\ proposal[r].run = r
                          /\ proposal[r].expires <= clock + TemplateSpan
  /\ At(r, "succeeded") => AdmittedAs(r)

\* The part of the invariant that speaks of the scope.
ScopeInv ==
  /\ custody.admitted \/ check # "open" => custody.run # None
  /\ \A w \in late : w.call # "reserve" => w.for = custody.run

LEMMA Parts ==
  /\ IInv => TypeOK /\ ScopeInv /\ \A r \in Runs : RunInv(r)
  /\ TypeOK' /\ ScopeInv' /\ (\A r \in Runs : RunInv(r)') => IInv'
BY DEF IInv, ScopeInv, RunInv

\* What an execution changes of its own run leaves the others as they are.
LEMMA OthersStay ==
  ASSUME IInv, NEW r \in Runs, NEW e \in Entries,
         run' = [run EXCEPT ![r] = e],
         UNCHANGED <<world, starts, history, proposal, scope>>,
         RunInv(r)'
  PROVE  IInv'
<1>1. TypeOK'
  BY DEF IInv, TypeOK, Entries, world, scope
<1>2. ASSUME NEW s \in Runs, s # r
      PROVE  RunInv(s)'
  BY <1>2 DEF IInv, TypeOK, RunInv, world, scope, At, Committed, Clear, Submission, AdmittedAs
<1>3. ScopeInv'
  BY DEF IInv, ScopeInv, scope
<1>4. QED
  BY <1>1, <1>2, <1>3, Parts

\* A run goes on or ends, and nothing else happens.
LEMMA OnwardKeeps ==
  ASSUME IInv, NEW r \in Runs, NEW to \in Steps,
         run' = [run EXCEPT ![r] = Goes(r, to)],
         UNCHANGED <<world, starts, history, proposal, scope>>,
         to \in {"assess", "plan"} => run[r].head \in Accepted,
         to # "decide",
         to \in Publishing => /\ Committed(r)
                              /\ to # "readback" /\ ~At(r, "readback"),
         to = "succeeded" => AdmittedAs(r)
  PROVE  IInv'
<1>2. /\ Goes(r, to) \in Entries
      /\ Goes(r, to).step = to
      /\ Goes(r, to).job = run[r].job
      /\ Goes(r, to).head = run[r].head
      /\ to \notin Ended => Goes(r, to).ci = run[r].ci
  BY GoesOn DEF IInv
<1>4. run'[r] = Goes(r, to)
  BY DEF IInv, TypeOK
<1>5. RunInv(r)'
  <2>1. to \in Publishing => Committed(r) /\ to \notin Ended
    BY DEF Publishing, Ended
  <2>2. ASSUME to \in Publishing PROVE Committed(r)'
    <3>1. Clear(r)' /\ Submission(r)' = Submission(r)
      BY <1>2, <1>4, <2>1, <2>2 DEF Committed, Clear, Submission
    <3>2. At(r, "readback")' = At(r, "readback")
      BY <1>2, <1>4, <2>2 DEF At
    <3>3. custody' = custody /\ late' = late
      BY DEF scope
    <3>4. QED
      BY <1>2, <1>4, <2>1, <2>2, <3>1, <3>2, <3>3 DEF Committed
  <2>3. QED
    BY <1>2, <1>4, <2>2 DEF IInv, RunInv, At, AdmittedAs, world, scope
<1>6. QED
  BY <1>2, <1>5, OthersStay

\* A step that reads, and goes on to anything but a publication.
LEMMA CheckKeeps ==
  ASSUME IInv, NEW r \in Runs, NEW from, NEW holds \in BOOLEAN, NEW next \in Steps,
         Check(r, from, holds, next),
         next \notin Publishing, next # "decide",
         holds => (/\ next \in {"assess", "plan"} => run[r].head \in Accepted
                   /\ next = "succeeded" => AdmittedAs(r))
  PROVE  IInv'
<1> DEFINE to == IF holds THEN next ELSE "failed"
<1>1. to \in Steps /\ to \notin Publishing /\ to # "decide"
  BY DEF Steps, Idle, Ended, Publishing
<1>2. /\ run' = [run EXCEPT ![r] = Goes(r, to)]
      /\ UNCHANGED <<world, starts, history, proposal, scope>>
  BY DEF Check, Becomes
<1>3. /\ to \in {"assess", "plan"} => run[r].head \in Accepted
      /\ to = "succeeded" => AdmittedAs(r)
  OBVIOUS
<1> HIDE DEF to
<1>4. QED
  BY <1>1, <1>2, <1>3, OnwardKeeps

-----------------------------------------------------------------------------
(* The invariant is inductive.                                              *)

\* Nothing is reserved and nobody has said anything.
LEMMA InitIInv == Init => IInv
BY Bounds
   DEF Init, IInv, TypeOK, CheckStates, Commits, CiFacts, Steps, Idle, Ended, Publishing,
       Unreserved, At, AdmittedAs

\* A run in the queue or in the group reads nothing.
LEMMA QueueKeeps ==
  ASSUME IInv, NEW r \in Runs, Dispatch(r) \/ Rerun(r)
  PROVE  IInv'
<1>1. PICK e \in Entries : /\ Enqueue(r, e) /\ e.step = "queued"
                           /\ e.head \in {run[r].head, main}
  <2>0. run[r] \in Entries
    BY DEF IInv, TypeOK, Entries
  <2>1. CASE Dispatch(r)
    <3> DEFINE e == [run[r] EXCEPT !.step = "queued", !.head = main]
    <3>1. e \in Entries /\ e.step = "queued" /\ e.head = main
      BY <2>0 DEF IInv, TypeOK, Entries, Steps, Idle
    <3>2. Enqueue(r, e)
      BY <2>1 DEF Dispatch
    <3>3. QED
      BY <3>1, <3>2
  <2>2. CASE Rerun(r)
    <3>1. PICK job \in {"prepare", run[r].job} :
            Enqueue(r, [run[r] EXCEPT !.step = "queued", !.job = job])
      BY <2>2 DEF Rerun
    <3> DEFINE e == [run[r] EXCEPT !.step = "queued", !.job = job]
    <3>2. e \in Entries /\ e.step = "queued" /\ e.head = run[r].head
      BY <2>0 DEF IInv, TypeOK, Entries, Steps, Idle
    <3>3. QED
      BY <3>1, <3>2
  <2>3. QED
    BY <2>1, <2>2
<1>2. UNCHANGED <<world, history, proposal, scope>> /\ starts' \in 0 .. MaxStarts
  BY Bounds DEF Dispatch, Rerun, IInv, TypeOK
<1>3. \A s \in Runs : /\ run'[s] \in Entries
                      /\ run'[s].step \in {"queued", "cancelled"} \/ run'[s] = run[s]
                      /\ run'[s].head \in {run[s].head, main}
  BY <1>1 DEF Enqueue, IInv, TypeOK, Entries, Steps, Idle, Ended
<1>4. TypeOK'
  BY <1>1, <1>2, <1>3 DEF Enqueue, IInv, TypeOK, Entries, world, scope
<1>5. ASSUME NEW s \in Runs
      PROVE  RunInv(s)'
  <2>1. CASE run'[s] = run[s]
    BY <1>2, <2>1
       DEF IInv, RunInv, world, scope, At, Committed, Clear, Submission, AdmittedAs
  <2>2. CASE run'[s].step \in {"queued", "cancelled"}
    <3>1. run'[s].head <= main
      BY <1>3, Bounds DEF IInv, TypeOK, Commits
    <3>2. QED
      BY <1>2, <2>2, <3>1 DEF IInv, RunInv, world, scope, At, Publishing
  <2>3. QED
    BY <1>3, <2>1, <2>2
<1>6. ScopeInv'
  BY <1>2 DEF IInv, ScopeInv, scope
<1>7. QED
  BY <1>4, <1>5, <1>6, Parts

\* Neither does one that waits, is let through, or ends before it publishes.
LEMMA QuietKeeps ==
  ASSUME IInv, NEW r \in Runs,
         \/ Start(r) \/ Bypass(r) \/ WaitEnds(r)
         \/ Fail(r) /\ run[r].step \notin Publishing
  PROVE  IInv'
<1>1. PICK step \in {"gate", "waiting", "failed"} :
        /\ run' = [run EXCEPT ![r] = Goes(r, step)]
        /\ UNCHANGED <<world, starts, history, proposal, scope>>
  BY DEF Start, Bypass, WaitEnds, Fail, Becomes, scope
<1>2. /\ Goes(r, step) \in Entries /\ Goes(r, step).step = step
      /\ Goes(r, step).head = run[r].head
  BY <1>1, GoesOn DEF IInv, Steps, Idle, Ended
<1>3. RunInv(r)'
  BY <1>1, <1>2 DEF IInv, TypeOK, RunInv, At, Publishing, world, scope
<1>4. QED
  BY <1>1, <1>2, <1>3, OthersStay

\* A review joins the history of a run that publishes nothing.
LEMMA ReviewKeeps ==
  ASSUME IInv, NEW r \in Runs, Approve(r) \/ Reject(r)
  PROVE  IInv'
<1>1. PICK review \in Reviews, step \in {"gate", "failed"} :
        /\ Says(r, review)
        /\ run' = [run EXCEPT ![r] = Goes(r, step)]
        /\ UNCHANGED <<world, starts, proposal, scope>>
  <2>1. Reviewers \subseteq {Principal} \cup Others
    BY DEF Reviewers
  <2>2. CASE Reject(r)
    BY <2>1, <2>2 DEF Reject, Becomes, Answer, Reviews
  <2>3. CASE Approve(r)
    <3>1. PICK by \in Reviewers, body \in Comments : Says(r, Answer(by, "approved", body))
      BY <2>3 DEF Approve
    <3>2. body \in Bodies \cup {None}
      <4>1. ASSUME NEW s \in Runs, proposal[s] # None, NEW e \in Extensions
            PROVE  [proposal[s] EXCEPT !.expires = @ + e] \in Bodies
        BY <4>1, Bounds DEF IInv, TypeOK, Bodies
      <4>2. QED
        BY <3>1, <4>1 DEF Comments
    <3>3. Answer(by, "approved", body) \in Reviews
      BY <2>1, <3>1, <3>2 DEF Answer, Reviews
    <3>4. QED
      BY <2>3, <3>1, <3>3 DEF Approve, Becomes
  <2>4. QED
    BY <2>2, <2>3
<1>2. /\ Goes(r, step) \in Entries /\ Goes(r, step).step = step
      /\ Goes(r, step).head = run[r].head
  BY <1>1, GoesOn DEF IInv, Steps, Idle, Ended
<1>3. review # None
  BY <1>1, NoneIsNothing
<1>4. TypeOK'
  BY <1>1, <1>2 DEF IInv, TypeOK, Entries, Says, world, scope
<1>5. ASSUME NEW s \in Runs, s # r
      PROVE  RunInv(s)'
  BY <1>1, <1>5
     DEF IInv, TypeOK, RunInv, Says, world, scope, At, Committed, Clear, Submission,
         AdmittedAs
<1>6. RunInv(r)'
  BY <1>1, <1>2, <1>3 DEF IInv, TypeOK, RunInv, Says, At, Publishing, world, scope
<1>7. ScopeInv'
  BY <1>1 DEF IInv, ScopeInv, scope
<1>8. QED
  BY <1>4, <1>5, <1>6, <1>7, Parts

LEMMA GateKeeps ==
  ASSUME IInv, NEW r \in Runs, Gate(r)
  PROVE  IInv'
<1> DEFINE holds == MainIsHead(r) /\ Ratified(r)
<1>1. holds \in BOOLEAN /\ Check(r, "gate", holds, "assess")
  BY DEF Gate
<1>2. holds => run[r].head \in Accepted
  BY DEF Ratified
<1>3. "assess" \in Steps /\ "assess" \notin Publishing
  BY DEF Steps, Publishing
<1> HIDE DEF holds
<1>4. QED
  BY <1>1, <1>2, <1>3, CheckKeeps

LEMMA AssessKeeps ==
  ASSUME IInv, NEW r \in Runs, Assess(r)
  PROVE  IInv'
<1>1. CASE ExceptionEligible(ci.jobs)
  <2> DEFINE next == IF run[r].job = "prepare" THEN "plan" ELSE "decide"
             e == [Goes(r, next) EXCEPT !.ci = ci.execution]
  <2>1. /\ Goes(r, next) \in Entries
        /\ Goes(r, next).step = next
        /\ Goes(r, next).job = run[r].job
        /\ Goes(r, next).head = run[r].head
    BY GoesOn DEF IInv, Steps
  <2>2. /\ e \in Entries /\ e.step = next
        /\ e.job = run[r].job /\ e.head = run[r].head
    BY <2>1 DEF IInv, TypeOK, CiFacts, Entries
  <2>3. /\ run' = [run EXCEPT ![r] = e]
        /\ UNCHANGED <<world, starts, history, proposal, scope>>
        /\ run[r].step = "assess"
    BY <1>1 DEF Assess, Becomes, At
  <2> HIDE DEF e
  <2>4. RunInv(r)'
    BY <2>2, <2>3 DEF IInv, TypeOK, RunInv, At, Publishing, world, scope
  <2>5. QED
    BY <2>2, <2>3, <2>4, OthersStay
<1>2. CASE ~ExceptionEligible(ci.jobs)
  <2>1. Check(r, "assess", FALSE, "plan")
    BY <1>2 DEF Assess, Check
  <2>2. "plan" \in Steps /\ "plan" \notin Publishing
    BY DEF Steps, Publishing
  <2>3. QED
    BY <2>1, <2>2, CheckKeeps
<1>3. QED
  BY <1>1, <1>2

LEMMA PlanKeeps ==
  ASSUME IInv, NEW r \in Runs, Plan(r)
  PROVE  IInv'
<1> DEFINE e == [Goes(r, "waiting") EXCEPT !.job = "admit", !.ci = 0]
<1>1. e \in Entries /\ e.step = "waiting" /\ e.head = run[r].head
  <2> DEFINE g == Goes(r, "waiting")
  <2>1. g \in Entries /\ g.step = "waiting" /\ g.head = run[r].head
    BY GoesOn DEF IInv, Steps
  <2> HIDE DEF g
  <2>2. 0 \in 0 .. MaxCiRuns
    BY Bounds
  <2>3. e = [g EXCEPT !.job = "admit", !.ci = 0]
    BY DEF g
  <2>4. QED
    BY <2>1, <2>2, <2>3 DEF Entries
<1>2. /\ run' = [run EXCEPT ![r] = e]
      /\ proposal' = [proposal EXCEPT ![r] = Proposal(r)]
      /\ UNCHANGED <<world, starts, history, scope>>
  BY DEF Plan, Becomes
<1> HIDE DEF e
<1>3. /\ Proposal(r) \in Bodies /\ Proposal(r).run = r
      /\ Proposal(r).expires <= clock + TemplateSpan
  BY Spans, Bounds DEF IInv, TypeOK, Proposal, Bodies
<1>4. TypeOK'
  BY <1>1, <1>2, <1>3 DEF IInv, TypeOK, Entries, world, scope
<1>5. ASSUME NEW s \in Runs, s # r
      PROVE  RunInv(s)'
  BY <1>2, <1>5
     DEF IInv, TypeOK, RunInv, world, scope, At, Committed, Clear, Submission, AdmittedAs
<1>6. RunInv(r)'
  BY <1>1, <1>2, <1>3 DEF IInv, TypeOK, RunInv, At, Publishing, world, scope
<1>7. ScopeInv'
  BY <1>2 DEF IInv, ScopeInv, scope
<1>8. QED
  BY <1>4, <1>5, <1>6, <1>7, Parts

\* What the authorization says when the scope is reserved.
LEMMA AuthorizedIsClear ==
  ASSUME IInv, NEW r \in Runs, Authorized(r)
  PROVE  Clear(r) /\ history[r].first.body.ci = run[r].ci /\ Spoken(r)
BY DEF Authorized, SpokenOnce, Binds, Timely, Clear, Spoken, IInv, TypeOK

LEMMA SubmissionType ==
  ASSUME IInv, NEW r \in Runs, Clear(r)
  PROVE  Submission(r) \in Submissions /\ Submission(r) # None
<1>1. history[r].first \in Reviews
  BY DEF IInv, TypeOK, Clear
<1>2. Submission(r) \in Submissions
  BY <1>1 DEF IInv, TypeOK, Submission, Submissions
<1>3. QED
  BY <1>2, NoneIsNothing

\* While nothing is reserved, nothing but reservations is late.
LEMMA FreeScope ==
  ASSUME IInv, custody.run = None
  PROVE  /\ check = "open" /\ ~custody.admitted
         /\ \A w \in late : w.call = "reserve"
         /\ \A s \in Runs : run[s].step \notin Publishing /\ ~At(s, "succeeded")
<1>1. check = "open" /\ ~custody.admitted
  BY DEF IInv
<1>2. \A w \in late : w.call = "reserve"
  <2>1. \A w \in late : w.for \in Submissions
    BY DEF IInv, TypeOK, Calls
  <2>2. QED
    BY <2>1, NoneIsNothing DEF IInv
<1>3. \A s \in Runs : run[s].step \notin Publishing
  BY SubmissionType DEF IInv, Committed
<1>4. \A s \in Runs : ~At(s, "succeeded")
  BY <1>1 DEF IInv, AdmittedAs
<1>5. QED
  BY <1>1, <1>2, <1>3, <1>4

\* A reservation of a free scope leaves the runs that do not make it alone.
LEMMA ReservedKeeps ==
  ASSUME IInv, custody.run = None, NEW new \in Submissions,
         custody' = [run |-> new, admitted |-> FALSE], check' = check,
         late' \subseteq late, UNCHANGED <<world, history, proposal>>,
         NEW s \in Runs, run'[s] = run[s]
  PROVE  ScopeInv' /\ RunInv(s)'
<1>1. ScopeInv'
  BY FreeScope DEF ScopeInv
<1>2. run[s].step \notin Publishing /\ ~At(s, "succeeded")
  BY FreeScope
<1>3. RunInv(s)'
  BY <1>2 DEF IInv, RunInv, world, At
<1>4. QED
  BY <1>1, <1>3

LEMMA DecideKeeps ==
  ASSUME IInv, NEW r \in Runs, Decide(r)
  PROVE  IInv'
<1>1. /\ Goes(r, "refresh") \in Entries
      /\ Goes(r, "refresh").step = "refresh"
      /\ Goes(r, "refresh").job = run[r].job
      /\ Goes(r, "refresh").head = run[r].head
      /\ Goes(r, "refresh").ci = run[r].ci
  BY GoesOn DEF IInv, Steps, Publishing, Ended
<1>2. /\ run' = [run EXCEPT ![r] = Goes(r, "refresh")]
      /\ custody' = [run |-> Submission(r), admitted |-> FALSE]
      /\ UNCHANGED <<world, starts, history, proposal, check, late>>
      /\ run[r].step = "decide" /\ custody.run = None /\ Authorized(r)
  BY DEF Decide, Reserves, Becomes, At
<1>3. Clear(r) /\ history[r].first.body.ci = run[r].ci /\ history[r].count = 1
  BY <1>2, AuthorizedIsClear DEF Clear
<1>4. Submission(r) \in Submissions
  BY <1>3, SubmissionType
<1>5. TypeOK'
  BY <1>1, <1>2, <1>4 DEF IInv, TypeOK, Entries, world
<1>6. ASSUME NEW s \in Runs, s # r
      PROVE  RunInv(s)'
  <2>1. run'[s] = run[s]
    BY <1>2, <1>6 DEF IInv, TypeOK
  <2>2. QED
    BY <1>2, <1>4, <2>1, ReservedKeeps
<1>7. RunInv(r)'
  <2>1. run'[r] = Goes(r, "refresh")
    BY <1>2 DEF IInv, TypeOK
  <2>2. run[r].job = "admit" /\ run[r].head \in Accepted
    BY <1>2 DEF IInv, At
  <2>3. Clear(r)' /\ Submission(r)' = Submission(r) /\ At(r, "readback")' = FALSE
    BY <1>1, <1>2, <1>3, <2>1 DEF Clear, Submission, At
  <2>4. Committed(r)'
    BY <1>1, <1>2, <1>3, <2>1, <2>2, <2>3, FreeScope DEF Committed
  <2>5. QED
    BY <1>1, <1>2, <2>1, <2>4 DEF IInv, RunInv, At, world
<1>8. ScopeInv'
  BY <1>2, FreeScope DEF ScopeInv
<1>9. QED
  BY <1>5, <1>6, <1>7, <1>8, Parts

LEMMA DecideOtherwiseKeeps ==
  ASSUME IInv, NEW r \in Runs, DecideOtherwise(r)
  PROVE  IInv'
<1> DEFINE holds == Authorized(r) /\ Repeats(r)
<1>1. holds \in BOOLEAN /\ Check(r, "decide", holds, "succeeded")
  BY DEF DecideOtherwise
<1>2. holds => AdmittedAs(r)
  BY DEF Repeats, Recorded, Submission, AdmittedAs
<1>3. "succeeded" \in Steps /\ "succeeded" \notin Publishing
  BY DEF Steps, Idle, Ended, Publishing
<1> HIDE DEF holds
<1>4. QED
  BY <1>1, <1>2, <1>3, CheckKeeps

\* Who publishes holds the reservation, alone.
LEMMA Holder ==
  ASSUME IInv, NEW r \in Runs, run[r].step \in Publishing
  PROVE  /\ Committed(r)
         /\ custody.run = Submission(r) /\ custody.run \in Submissions
         /\ custody.run # None /\ custody.run.id = r
         /\ custody.admitted <=> At(r, "readback")
         /\ \A s \in Runs : s # r => run[s].step \notin Publishing
<1>1. Committed(r) /\ Clear(r)
  BY DEF IInv, Committed
<1>2. Submission(r) \in Submissions /\ Submission(r) # None
  BY <1>1, SubmissionType
<1>3. \A s \in Runs : run[s].step \in Publishing => custody.run = Submission(s)
  BY DEF IInv, Committed
<1>4. /\ custody.run = Submission(r) /\ Submission(r).id = r
      /\ custody.admitted <=> At(r, "readback")
  BY <1>1 DEF Committed, Submission
<1>5. ASSUME NEW s \in Runs, s # r PROVE run[s].step \notin Publishing
  <2>1. Submission(s).id = s
    BY DEF Submission
  <2>2. QED
    BY <1>3, <1>4, <1>5, <2>1
<1>6. QED
  BY <1>1, <1>2, <1>4, <1>5

\* A run that publishes fails, whatever it leaves unanswered.
LEMMA AbandonsKeeps ==
  ASSUME IInv, NEW r \in Runs, run[r].step \in Publishing,
         NEW writes, writes \subseteq {Write("success"), Write("admit")},
         Abandons(r, writes),
         UNCHANGED <<world, starts, history, proposal, custody>>
  PROVE  IInv'
<1>1. /\ Goes(r, "failed") \in Entries /\ Goes(r, "failed").step = "failed"
      /\ Goes(r, "failed").head = run[r].head
  BY GoesOn DEF IInv, Steps, Idle, Ended
<1>2. /\ run' = [run EXCEPT ![r] = Goes(r, "failed")]
      /\ check' \in {check, "cancelled"}
      /\ \A w \in late' : w \in late \/ w \in {Write("success"), Write("admit"), Write("cancel")}
  BY DEF Abandons, Becomes
<1>3. custody.run \in Submissions /\ custody.run # None
  BY Holder
<1>4. /\ Write("success") \in Calls /\ Write("admit") \in Calls /\ Write("cancel") \in Calls
      /\ Write("success").for = custody.run /\ Write("admit").for = custody.run
      /\ Write("cancel").for = custody.run
  BY <1>3 DEF Write, Calls
<1>5. TypeOK'
  <2>1. late' \subseteq Calls
    BY <1>2, <1>4 DEF IInv, TypeOK
  <2>2. check' \in CheckStates
    BY <1>2 DEF IInv, TypeOK, CheckStates
  <2>3. QED
    BY <1>1, <1>2, <2>1, <2>2 DEF IInv, TypeOK, Entries, world
<1>6. ScopeInv'
  BY <1>2, <1>3, <1>4 DEF IInv, ScopeInv
<1>7. ASSUME NEW s \in Runs, s # r
      PROVE  RunInv(s)'
  <2>1. run[s].step \notin Publishing /\ run'[s] = run[s]
    BY <1>2, <1>7, Holder DEF IInv, TypeOK
  <2>2. QED
    BY <2>1 DEF IInv, RunInv, At, AdmittedAs, world
<1>8. RunInv(r)'
  BY <1>1, <1>2 DEF IInv, TypeOK, RunInv, At, Publishing, world
<1>9. QED
  BY <1>5, <1>6, <1>7, <1>8, Parts

LEMMA FailKeeps ==
  ASSUME IInv, NEW r \in Runs, Fail(r)
  PROVE  IInv'
<1>1. CASE run[r].step \in Publishing
  <2>1. Abandons(r, {}) /\ UNCHANGED <<world, starts, history, proposal, custody>>
    BY <1>1 DEF Fail
  <2>2. {} \subseteq {Write("success"), Write("admit")}
    OBVIOUS
  <2>3. QED
    BY <1>1, <2>1, <2>2, AbandonsKeeps
<1>2. QED
  BY <1>1, QuietKeeps

\* A write that is not answered changes nothing yet.
LEMMA TimesOutKeeps ==
  ASSUME IInv, NEW r \in Runs, TimesOut(r)
  PROVE  IInv'
<1>1. UNCHANGED <<world, starts, history, proposal, custody>>
  BY DEF TimesOut
<1>2. CASE At(r, "complete") /\ Abandons(r, {Write("success")})
  <2>1. {Write("success")} \subseteq {Write("success"), Write("admit")}
    OBVIOUS
  <2>2. QED
    BY <1>1, <1>2, <2>1, AbandonsKeeps DEF At, Publishing
<1>3. CASE At(r, "record") /\ Abandons(r, {Write("admit")})
  <2>1. {Write("admit")} \subseteq {Write("success"), Write("admit")}
    OBVIOUS
  <2>2. QED
    BY <1>1, <1>3, <2>1, AbandonsKeeps DEF At, Publishing
<1>4. CASE /\ Reserves(r) /\ Becomes(r, Goes(r, "failed"))
           /\ late' = late \cup {[call |-> "reserve", for |-> Submission(r)]}
           /\ UNCHANGED check
  <2>1. /\ Goes(r, "failed") \in Entries /\ Goes(r, "failed").step = "failed"
        /\ Goes(r, "failed").head = run[r].head
    BY GoesOn DEF IInv, Steps, Idle, Ended
  <2>2. run' = [run EXCEPT ![r] = Goes(r, "failed")]
    BY <1>4 DEF Becomes
  <2>3. Submission(r) \in Submissions /\ custody.run = None
    BY <1>4, AuthorizedIsClear, SubmissionType DEF Reserves
  <2> DEFINE w == [call |-> "reserve", for |-> Submission(r)]
  <2>4. w \in Calls /\ w.call = "reserve"
    BY <2>3 DEF Calls
  <2>5. late' = late \cup {w}
    BY <1>4
  <2> HIDE DEF w
  <2>6. TypeOK'
    BY <1>1, <1>4, <2>1, <2>2, <2>4, <2>5 DEF IInv, TypeOK, Entries, world
  <2>7. ScopeInv'
    BY <1>1, <1>4, <2>4, <2>5 DEF IInv, ScopeInv
  <2>8. ASSUME NEW s \in Runs, s # r
        PROVE  RunInv(s)'
    <3>1. run[s].step \notin Publishing /\ run'[s] = run[s]
      BY <2>2, <2>3, <2>8, FreeScope DEF IInv, TypeOK
    <3>2. QED
      BY <1>1, <3>1 DEF IInv, RunInv, At, AdmittedAs, world
  <2>9. RunInv(r)'
    BY <1>1, <2>1, <2>2 DEF IInv, TypeOK, RunInv, At, Publishing, world
  <2>10. QED
    BY <2>6, <2>7, <2>8, <2>9, Parts
<1>5. QED
  BY <1>2, <1>3, <1>4 DEF TimesOut

\* What was sent before is applied while nobody publishes, or is a reservation
\* that comes too late.
LEMMA LateKeeps ==
  ASSUME IInv, NEW w \in late, LateWrite(w)
  PROVE  IInv'
<1>1. /\ late' = late \ {w}
      /\ UNCHANGED <<world, run, starts, history, proposal>>
  BY DEF LateWrite
<1>2. w \in Calls
  BY DEF IInv, TypeOK
<1>3. CASE w.call = "reserve" /\ custody.run = None
  <2>1. custody' = [run |-> w.for, admitted |-> FALSE] /\ check' = check
    BY <1>3 DEF LateWrite
  <2>2. w.for \in Submissions
    BY <1>2 DEF Calls
  <2>3. TypeOK'
    BY <1>1, <2>1, <2>2 DEF IInv, TypeOK, world
  <2>4. ScopeInv'
    BY <1>1, <1>3, <2>1, FreeScope DEF ScopeInv
  <2>5. ASSUME NEW s \in Runs PROVE RunInv(s)'
    BY <1>1, <1>3, <2>1, <2>2, ReservedKeeps
  <2>6. QED
    BY <2>3, <2>4, <2>5, Parts
<1>4. CASE w.call = "reserve" /\ custody.run # None
  <2>1. custody' = custody /\ check' = check
    BY <1>4 DEF LateWrite
  <2>2. TypeOK' /\ ScopeInv'
    BY <1>1, <2>1 DEF IInv, TypeOK, ScopeInv, world
  <2>3. ASSUME NEW s \in Runs PROVE RunInv(s)'
    BY <1>1, <2>1 DEF IInv, RunInv, world, At, Committed, Clear, Submission, AdmittedAs
  <2>4. QED
    BY <2>2, <2>3, Parts
<1>5. CASE w.call # "reserve"
  <2>1. w.for = custody.run /\ custody.run # None
    BY <1>2, <1>5, NoneIsNothing DEF IInv, Calls
  <2>2. /\ custody'.run = custody.run /\ (custody.admitted => custody'.admitted)
        /\ custody' \in [run : {None} \cup Submissions, admitted : BOOLEAN]
    BY <1>5 DEF LateWrite, IInv, TypeOK
  <2>3. check' \in CheckStates
    BY DEF LateWrite, IInv, TypeOK, CheckStates
  <2>4. TypeOK' /\ ScopeInv'
    BY <1>1, <2>1, <2>2, <2>3 DEF IInv, TypeOK, ScopeInv, world
  <2>5. ASSUME NEW s \in Runs PROVE RunInv(s)'
    <3>1. run[s].step \notin Publishing
      BY <1>5, Holder DEF Committed
    <3>2. QED
      BY <1>1, <2>2, <3>1 DEF IInv, RunInv, world, At, AdmittedAs
  <2>6. QED
    BY <2>4, <2>5, Parts
<1>6. QED
  BY <1>3, <1>4, <1>5

\* The reads between the reservation and the success.
LEMMA RefreshKeeps ==
  ASSUME IInv, NEW r \in Runs, Refresh(r) \/ Confirm(r)
  PROVE  IInv'
<1>1. PICK step \in {"refresh", "confirm"}, next \in {"confirm", "complete"},
           holds \in BOOLEAN : Reread(r, step, holds, next)
  BY DEF Refresh, Confirm, MainIsHead, Authorized, Ratified
<1>2. run[r].step \in Publishing /\ ~At(r, "readback") /\ Committed(r)
  BY <1>1 DEF IInv, Reread, At, Publishing
<1>3. CASE /\ run' = [run EXCEPT ![r] = Goes(r, next)]
           /\ UNCHANGED <<world, starts, history, proposal, scope>>
  <2>1. next \in Steps /\ next \notin {"assess", "plan", "decide", "readback", "succeeded"}
    BY DEF Steps, Publishing
  <2>2. QED
    BY <1>2, <1>3, <2>1, OnwardKeeps
<1>4. CASE Abandons(r, {}) /\ UNCHANGED <<world, starts, history, proposal, custody>>
  <2>1. {} \subseteq {Write("success"), Write("admit")}
    OBVIOUS
  <2>2. QED
    BY <1>2, <1>4, <2>1, AbandonsKeeps
<1>5. QED
  BY <1>1, <1>3, <1>4 DEF Reread, Becomes, scope

\* The success, the admission, and its read-back.
LEMMA CompleteKeeps ==
  ASSUME IInv, NEW r \in Runs, Complete(r) \/ Admit(r)
  PROVE  IInv'
<1>1. PICK next \in {"record", "readback"} :
        /\ run' = [run EXCEPT ![r] = Goes(r, next)]
        /\ next = "record" => check' = "success" /\ custody' = custody
        /\ next = "readback" => check' = check /\ custody' = [custody EXCEPT !.admitted = TRUE]
  BY DEF Complete, Admit, Becomes
<1>2. UNCHANGED <<world, starts, history, proposal, late>>
  BY DEF Complete, Admit
<1>3. /\ run[r].step \in Publishing /\ ~At(r, "readback")
  BY DEF Complete, Admit, At, Publishing
<1>4. /\ Goes(r, next) \in Entries /\ Goes(r, next).step = next
      /\ Goes(r, next).job = run[r].job
      /\ Goes(r, next).head = run[r].head
      /\ Goes(r, next).ci = run[r].ci
  BY GoesOn DEF IInv, Steps, Publishing, Ended
<1>5. run'[r] = Goes(r, next)
  BY <1>1 DEF IInv, TypeOK
<1>6. /\ custody'.run = custody.run /\ check' \in CheckStates
      /\ custody'.run = Submission(r) /\ (custody'.admitted <=> next = "readback")
      /\ custody' \in [run : {None} \cup Submissions, admitted : BOOLEAN]
  <2>1. custody.run = Submission(r) /\ ~custody.admitted /\ Submission(r) \in Submissions
    BY <1>3, Holder DEF Committed
  <2>2. check' \in CheckStates
    BY <1>1 DEF IInv, TypeOK, CheckStates
  <2>3. CASE next = "record"
    BY <1>1, <2>1, <2>2, <2>3 DEF IInv, TypeOK
  <2>4. CASE next = "readback"
    BY <1>1, <2>1, <2>2, <2>4 DEF IInv, TypeOK
  <2>5. QED
    BY <2>3, <2>4
<1>7. TypeOK'
  BY <1>1, <1>2, <1>4, <1>6 DEF IInv, TypeOK, Entries, world
<1>8. ScopeInv'
  BY <1>2, <1>3, <1>6, Holder DEF IInv, ScopeInv
<1>9. ASSUME NEW s \in Runs, s # r
      PROVE  RunInv(s)'
  <2>1. run[s].step \notin Publishing /\ run'[s] = run[s]
    BY <1>1, <1>3, <1>9, Holder DEF IInv, TypeOK
  <2>2. ~At(s, "succeeded")
    BY <1>3, Holder DEF IInv, AdmittedAs
  <2>3. QED
    BY <1>2, <2>1, <2>2 DEF IInv, RunInv, world, At
<1>10. RunInv(r)'
  <2>1. Committed(r)
    BY <1>3, Holder
  <2>2. Clear(r)' /\ Submission(r)' = Submission(r) /\ At(r, "readback")' = (next = "readback")
    BY <1>2, <1>4, <1>5, <2>1 DEF Committed, Clear, Submission, At
  <2>3. Committed(r)'
    BY <1>2, <1>4, <1>5, <1>6, <2>1, <2>2 DEF Committed
  <2>4. QED
    BY <1>2, <1>4, <1>5, <2>3 DEF IInv, RunInv, At, world
<1>11. QED
  BY <1>7, <1>8, <1>9, <1>10, Parts

LEMMA ReadBackKeeps ==
  ASSUME IInv, NEW r \in Runs, ReadBack(r)
  PROVE  IInv'
<1>1. Check(r, "readback", TRUE, "succeeded")
  BY DEF ReadBack
<1>2. AdmittedAs(r)
  BY <1>1, Holder DEF Check, At, Publishing, AdmittedAs
<1>3. "succeeded" \in Steps /\ "succeeded" \notin Publishing
  BY DEF Steps, Idle, Ended, Publishing
<1>4. QED
  BY <1>1, <1>2, <1>3, CheckKeeps

\* The world leaves the runs alone, and a span does not grow with time.
LEMMA WorldKeeps ==
  ASSUME IInv, Tick \/ MoveMain \/ EditComment \/ RerunCi \/ ChangeRule
  PROVE  IInv'
<1>1. UNCHANGED <<run, starts, history, proposal, scope>>
  BY DEF Tick, MoveMain, EditComment, RerunCi, ChangeRule, Unmoved
<1>2. clock' \in 0 .. Horizon /\ clock' >= clock
  <2>1. clock \in 0 .. Horizon
    BY DEF IInv, TypeOK
  <2>2. CASE Tick
    BY <2>1, <2>2, Bounds DEF Tick
  <2>3. CASE clock' = clock
    BY <2>1, <2>3, Bounds
  <2>4. QED
    BY <2>2, <2>3 DEF MoveMain, EditComment, RerunCi, ChangeRule
<1>3. main' \in Commits /\ unedited' \in BOOLEAN /\ rule' \in BOOLEAN
  <2>1. main \in Commits /\ unedited \in BOOLEAN /\ rule \in BOOLEAN
    BY DEF IInv, TypeOK
  <2>2. CASE MoveMain
    <3>1. main + 1 \in Commits
      BY <2>1, <2>2, Bounds DEF MoveMain, Commits
    <3>2. QED
      BY <2>1, <2>2, <3>1 DEF MoveMain
  <2>3. QED
    BY <2>1, <2>2 DEF Tick, EditComment, RerunCi, ChangeRule
<1>4. ci' \in CiFacts
  BY Bounds
     DEF Tick, MoveMain, EditComment, RerunCi, ChangeRule, IInv, TypeOK, CiFacts
<1>5. TypeOK'
  BY <1>1, <1>2, <1>3, <1>4 DEF IInv, TypeOK, scope
<1>6. ASSUME NEW s \in Runs
      PROVE  RunInv(s)'
  <2>1. run[s].head <= main'
    <3>1. main' = main \/ main' = main + 1
      BY DEF Tick, MoveMain, EditComment, RerunCi, ChangeRule
    <3>2. run[s].head <= main /\ run[s].head \in Nat /\ main \in Nat
      BY Bounds DEF IInv, TypeOK, Commits
    <3>3. QED
      BY <3>1, <3>2
  <2>2. proposal[s] # None => proposal[s].expires <= clock' + TemplateSpan
    <3> SUFFICES ASSUME proposal[s] # None
                 PROVE  proposal[s].expires <= clock' + TemplateSpan
      OBVIOUS
    <3>1. proposal[s].expires \in Nat /\ clock \in Nat /\ clock' \in Nat
      BY <1>2, Bounds DEF IInv, TypeOK, Bodies
    <3>2. proposal[s].expires <= clock + TemplateSpan
      BY DEF IInv
    <3>3. QED
      BY <1>2, <3>1, <3>2, Spans
  <2>3. QED
    BY <1>1, <2>1, <2>2
       DEF IInv, RunInv, At, Committed, Clear, Submission, AdmittedAs, scope
<1>7. ScopeInv'
  BY <1>1 DEF IInv, ScopeInv, scope
<1>8. QED
  BY <1>5, <1>6, <1>7, Parts

LEMMA StepIInv ==
  ASSUME IInv, [Next]_vars
  PROVE  IInv'
<1>1. ASSUME NEW r \in Runs,
             \/ Work(r) \/ Fail(r) \/ TimesOut(r) \/ Dispatch(r) \/ Rerun(r)
             \/ Approve(r) \/ Reject(r) \/ Bypass(r)
      PROVE  IInv'
  BY <1>1, QueueKeeps, QuietKeeps, FailKeeps, TimesOutKeeps, ReviewKeeps, GateKeeps,
     AssessKeeps, PlanKeeps, DecideKeeps, DecideOtherwiseKeeps, RefreshKeeps,
     CompleteKeeps, ReadBackKeeps
     DEF Work
<1>2. ASSUME NEW w \in late, LateWrite(w)
      PROVE  IInv'
  BY <1>2, LateKeeps
<1>3. CASE Tick \/ MoveMain \/ EditComment \/ RerunCi \/ ChangeRule
  BY <1>3, WorldKeeps
<1>4. CASE UNCHANGED vars
  BY <1>4
     DEF vars, world, scope, IInv, TypeOK, At, Committed, Clear, Submission, AdmittedAs
<1>5. QED
  BY <1>1, <1>2, <1>3, <1>4 DEF Next

\* The invariant of the decision holds in every reachable state.
THEOREM Inductive == Spec => []IInv
<1>1. Init => IInv
  BY InitIInv
<1>2. IInv /\ [Next]_vars => IInv'
  BY StepIInv
<1>3. QED
  BY <1>1, <1>2, PTL DEF Spec

\* A run that GitHub shows as successful is the one on record for the scope.
THEOREM GreenIsOnRecord == Spec => []GreenRunIsOnRecord
<1>1. IInv => GreenRunIsOnRecord
  BY DEF IInv, GreenRunIsOnRecord
<1>2. QED
  BY <1>1, Inductive, PTL

-----------------------------------------------------------------------------
(* The workflow implements the consent.                                     *)

Settling == {"decide"} \cup Publishing

\* How a step may move what the fate of one run rests on.
Moves(q) ==
  /\ \/ history'[q] = history[q]
     \/ /\ history'[q].count = history[q].count + 1
        /\ history[q].count > 0 => history'[q].first = history[q].first
  /\ clock' >= clock /\ main' >= main /\ ci'.execution >= ci.execution
  /\ unedited' => unedited
  /\ ~At(q, "absent") => run'[q].step # "absent" /\ run'[q].head = run[q].head
  /\ run'[q].step \in Settling =>
       \/ run[q].step \in Settling /\ run'[q].ci = run[q].ci
       \/ run'[q].ci = ci.execution
  /\ run'[q].step \in Publishing => run[q].step \in Publishing \/ custody.run = None
  /\ At(q, "confirm")' => At(q, "confirm") \/ ~Lapsed(q)

\* How it may move what the scope says of the run: only the last reads let it
\* pass, and only who has passed is admitted.
Settles(q) ==
  /\ custody.run # None => custody'.run = custody.run
  /\ AdmittedAs(q) => AdmittedAs(q)'
  /\ AdmittedAs(q)' => AdmittedAs(q) \/ Passed(q)
  /\ Passed(q)' => Passed(q) \/ (At(q, "confirm") /\ MainIsHead(q))
  /\ Passed(q) => Passed(q)' \/ AdmittedAs(q)' \/ Taken(q)'

Evolves(q) == Moves(q) /\ Settles(q)

\* The scope stays, and the run takes none of the steps that pass.
LEMMA ScopeStays ==
  ASSUME NEW q \in Runs, UNCHANGED scope,
         \/ run'[q] = run[q]
         \/ /\ run[q].step \notin {"complete", "record"}
            /\ run'[q].step \notin {"complete", "record"}
  PROVE  Settles(q)
<1>1. custody' = custody /\ check' = check /\ late' = late
  BY DEF scope
<1>2. AdmittedAs(q)' <=> AdmittedAs(q)
  BY <1>1 DEF AdmittedAs
<1>3. Passed(q)' <=> Passed(q)
  BY <1>1 DEF Passed
<1>4. QED
  BY <1>1, <1>2, <1>3 DEF Settles

\* Steps of the world and steps that only move runs.
LEMMA BystanderEvolves ==
  ASSUME IInv, IInv', NEW q \in Runs,
         UNCHANGED <<world, scope>>,
         \/ history'[q] = history[q]
         \/ /\ history'[q].count = history[q].count + 1
            /\ history[q].count > 0 => history'[q].first = history[q].first,
         ~At(q, "absent") => run'[q].step # "absent" /\ run'[q].head = run[q].head,
         \/ run'[q] = run[q]
         \/ run'[q].step \notin Settling /\ run[q].step \notin {"complete", "record"}
         \/ /\ run'[q].step = "decide" /\ run'[q].ci = ci.execution
            /\ run[q].step \notin {"complete", "record"}
  PROVE  Evolves(q)
<1>1. clock' >= clock /\ main' >= main /\ ci'.execution >= ci.execution
  BY Bounds DEF IInv, TypeOK, Commits, CiFacts, world
<1>2. Moves(q)
  BY <1>1 DEF Moves, Settling, Publishing, world, At
<1>3. Settles(q)
  BY ScopeStays DEF Settling, Publishing
<1>4. QED
  BY <1>2, <1>3 DEF Evolves

LEMMA WorldEvolves ==
  ASSUME IInv, NEW q \in Runs,
         Tick \/ MoveMain \/ EditComment \/ RerunCi \/ ChangeRule
  PROVE  Evolves(q)
<1>1. clock \in Nat /\ main \in Nat /\ ci.execution \in Nat
  BY Bounds DEF IInv, TypeOK, Commits, CiFacts
<1>2. UNCHANGED <<run, history, scope>>
  BY DEF Tick, MoveMain, EditComment, RerunCi, ChangeRule, Unmoved
<1>3. clock' >= clock /\ main' >= main
  BY <1>1 DEF Tick, MoveMain, EditComment, RerunCi, ChangeRule
<1>4. ci'.execution >= ci.execution
  BY <1>1 DEF Tick, MoveMain, EditComment, RerunCi, ChangeRule
<1>5. unedited' => unedited
  BY DEF Tick, MoveMain, EditComment, RerunCi, ChangeRule
<1>6. Settles(q)
  BY <1>2, ScopeStays
<1>7. QED
  BY <1>2, <1>3, <1>4, <1>5, <1>6 DEF Evolves, Moves, At

LEMMA QueueEvolves ==
  ASSUME IInv, IInv', NEW q \in Runs, NEW r \in Runs, Dispatch(r) \/ Rerun(r)
  PROVE  Evolves(q)
<1>1. UNCHANGED <<world, scope>> /\ history'[q] = history[q]
  BY DEF Dispatch, Rerun
<1>2. \/ run'[q] = run[q]
      \/ /\ run'[q].step \in {"queued", "cancelled"}
         /\ run[q].step \notin {"complete", "record"}
         /\ ~At(q, "absent") => run'[q].head = run[q].head
  <2>1. run[q] \in Entries
    BY DEF IInv, TypeOK, Entries
  <2>2. CASE q # r
    <3>1. run'[q] = IF run[q].step = "queued" THEN [run[q] EXCEPT !.step = "cancelled"]
                                              ELSE run[q]
      BY <2>2 DEF Dispatch, Rerun, Enqueue
    <3>2. QED
      BY <2>1, <3>1 DEF Entries
  <2>3. CASE q = r /\ Dispatch(r)
    <3>1. run'[q] = [run[q] EXCEPT !.step = "queued", !.head = main]
      BY <2>3 DEF Dispatch, Enqueue
    <3>2. QED
      BY <2>1, <2>3, <3>1 DEF Entries, Dispatch, At
  <2>4. CASE q = r /\ Rerun(r)
    <3>1. PICK job \in {"prepare", run[q].job} :
            run'[q] = [run[q] EXCEPT !.step = "queued", !.job = job]
      BY <2>4 DEF Rerun, Enqueue
    <3>2. QED
      BY <2>1, <2>4, <3>1 DEF Entries, Rerun, Ended
  <2>5. QED
    BY <2>2, <2>3, <2>4
<1>3. ~At(q, "absent") => run'[q].step # "absent" /\ run'[q].head = run[q].head
  BY <1>2 DEF At
<1>4. \/ run'[q] = run[q]
      \/ run'[q].step \notin Settling /\ run[q].step \notin {"complete", "record"}
  BY <1>2 DEF Settling, Publishing
<1>5. \/ history'[q] = history[q]
      \/ /\ history'[q].count = history[q].count + 1
         /\ history[q].count > 0 => history'[q].first = history[q].first
  BY <1>1
<1>6. UNCHANGED <<world, scope>>
  BY <1>1
<1>7. QED
  BY <1>3, <1>4, <1>5, <1>6, BystanderEvolves

\* Steps of a run that neither reserve nor publish.
LEMMA QuietEvolves ==
  ASSUME IInv, IInv', NEW q \in Runs, NEW r \in Runs,
         \/ Start(r) \/ Bypass(r) \/ WaitEnds(r) \/ Approve(r) \/ Reject(r)
         \/ Fail(r) /\ run[r].step \notin Publishing
         \/ Gate(r) \/ Assess(r) \/ Plan(r) \/ DecideOtherwise(r) \/ ReadBack(r)
  PROVE  Evolves(q)
<1>1. UNCHANGED <<world, scope>>
  BY DEF Start, Bypass, WaitEnds, Fail, Approve, Reject, Gate, Check, Assess, Plan,
         DecideOtherwise, ReadBack, scope
<1>0. run[r].step \notin {"complete", "record"}
  BY DEF Start, Bypass, WaitEnds, Fail, Approve, Reject, Gate, Check, Assess, Plan,
         DecideOtherwise, ReadBack, At, Publishing
<1>2. PICK e \in Entries :
        /\ run' = [run EXCEPT ![r] = e]
        /\ e.head = run[r].head /\ e.step # "absent"
        /\ e.step \notin Settling \/ (e.step = "decide" /\ e.ci = ci.execution)
  <2>1. ASSUME NEW step \in Steps, run' = [run EXCEPT ![r] = Goes(r, step)],
               step # "absent", step \notin Settling
        PROVE  \E e \in Entries :
                 /\ run' = [run EXCEPT ![r] = e]
                 /\ e.head = run[r].head /\ e.step # "absent"
                 /\ e.step \notin Settling \/ (e.step = "decide" /\ e.ci = ci.execution)
    <3> DEFINE e == Goes(r, step)
    <3>1. e \in Entries /\ e.step = step /\ e.head = run[r].head
      BY <2>1, GoesOn DEF IInv
    <3> HIDE DEF e
    <3>2. run' = [run EXCEPT ![r] = e]
      BY <2>1 DEF e
    <3>3. QED
      BY <2>1, <3>1, <3>2
  <2>2. CASE \/ Start(r) \/ Bypass(r) \/ WaitEnds(r) \/ Approve(r) \/ Reject(r)
             \/ Fail(r) /\ run[r].step \notin Publishing
    <3>1. PICK step \in {"gate", "waiting", "failed"} : run' = [run EXCEPT ![r] = Goes(r, step)]
      BY <2>2 DEF Start, Bypass, WaitEnds, Fail, Approve, Reject, Becomes
    <3>2. step \in Steps /\ step # "absent" /\ step \notin Settling
      BY DEF Steps, Idle, Ended, Settling, Publishing
    <3>3. QED
      BY <2>1, <3>1, <3>2
  <2>3. CASE Gate(r) \/ DecideOtherwise(r) \/ ReadBack(r)
    <3>1. PICK step \in {"assess", "succeeded", "failed"} :
            run' = [run EXCEPT ![r] = Goes(r, step)]
      BY <2>3 DEF Gate, DecideOtherwise, ReadBack, Check, Becomes
    <3>2. step \in Steps /\ step # "absent" /\ step \notin Settling
      BY DEF Steps, Idle, Ended, Settling, Publishing
    <3>3. QED
      BY <2>1, <3>1, <3>2
  <2>4. CASE Assess(r) /\ ~ExceptionEligible(ci.jobs)
    <3>1. run' = [run EXCEPT ![r] = Goes(r, "failed")]
      BY <2>4 DEF Assess, Becomes
    <3>2. "failed" \in Steps /\ "failed" \notin Settling
      BY DEF Steps, Idle, Ended, Settling, Publishing
    <3>3. QED
      BY <2>1, <3>1, <3>2
  <2>5. CASE Assess(r) /\ ExceptionEligible(ci.jobs)
    <3> DEFINE next == IF run[r].job = "prepare" THEN "plan" ELSE "decide"
               g == Goes(r, next)
               e == [g EXCEPT !.ci = ci.execution]
    <3>1. g \in Entries /\ g.step = next /\ g.head = run[r].head
      BY GoesOn DEF IInv, Steps
    <3>2. run' = [run EXCEPT ![r] = e]
      BY <2>5 DEF Assess, Becomes
    <3> HIDE DEF g
    <3>3. e \in Entries /\ e.step = next /\ e.head = run[r].head /\ e.ci = ci.execution
      BY <3>1 DEF IInv, TypeOK, CiFacts, Entries
    <3>4. next \notin Settling \/ next = "decide"
      BY DEF Settling, Publishing
    <3> HIDE DEF e
    <3>5. QED
      BY <3>2, <3>3, <3>4
  <2>6. CASE Plan(r)
    <3> DEFINE g == Goes(r, "waiting")
               e == [g EXCEPT !.job = "admit", !.ci = 0]
    <3>1. g \in Entries /\ g.step = "waiting" /\ g.head = run[r].head
      BY GoesOn DEF IInv, Steps
    <3>2. run' = [run EXCEPT ![r] = e]
      BY <2>6 DEF Plan, Becomes
    <3>3. 0 \in 0 .. MaxCiRuns
      BY Bounds
    <3> HIDE DEF g
    <3>4. e \in Entries /\ e.step = "waiting" /\ e.head = run[r].head
      BY <3>1, <3>3 DEF Entries
    <3>5. "waiting" \notin Settling
      BY DEF Settling, Publishing
    <3> HIDE DEF e
    <3>6. QED
      BY <3>2, <3>4, <3>5
  <2>7. QED
    BY <2>2, <2>3, <2>4, <2>5, <2>6
<1>3. \/ history'[q] = history[q]
      \/ /\ history'[q].count = history[q].count + 1
         /\ history[q].count > 0 => history'[q].first = history[q].first
  <2>1. CASE history' = history
    BY <2>1
  <2>2. CASE \E review : Says(r, review)
    <3>1. PICK review : Says(r, review)
      BY <2>2
    <3>2. q # r => history'[q] = history[q]
      BY <3>1 DEF Says, IInv, TypeOK
    <3>3. q = r => /\ history'[q].count = history[q].count + 1
                   /\ history[q].first # None => history'[q].first = history[q].first
      BY <3>1 DEF Says, IInv, TypeOK
    <3>4. history[q].count > 0 => history[q].first # None
      BY DEF IInv, TypeOK
    <3>5. QED
      BY <3>2, <3>3, <3>4
  <2>3. QED
    BY <2>1, <2>2
       DEF Start, Bypass, WaitEnds, Fail, Approve, Reject, Gate, Check, Assess, Plan,
           DecideOtherwise, ReadBack
<1>4. ~At(q, "absent") => run'[q].step # "absent" /\ run'[q].head = run[q].head
  BY <1>2 DEF IInv, TypeOK, At
<1>5. \/ run'[q] = run[q]
      \/ run'[q].step \notin Settling /\ run[q].step \notin {"complete", "record"}
      \/ /\ run'[q].step = "decide" /\ run'[q].ci = ci.execution
         /\ run[q].step \notin {"complete", "record"}
  BY <1>0, <1>2 DEF IInv, TypeOK
<1>6. QED
  BY <1>1, <1>3, <1>4, <1>5, BystanderEvolves

\* A reservation, on time or late, is of a run that has not passed.
LEMMA ReservedSettles ==
  ASSUME IInv, IInv', custody.run = None, custody'.run # None, ~custody'.admitted,
         check' = check, late' \subseteq late, NEW q \in Runs,
         run'[q].step \notin {"complete", "record"}
  PROVE  Settles(q)
<1>1. ~AdmittedAs(q) /\ ~AdmittedAs(q)' /\ ~Passed(q)
  BY FreeScope DEF AdmittedAs, Passed
<1>2. ~Passed(q)'
  BY FreeScope DEF Passed
<1>3. QED
  BY <1>1, <1>2 DEF Settles

LEMMA DecideEvolves ==
  ASSUME IInv, IInv', NEW q \in Runs, NEW r \in Runs, Decide(r)
  PROVE  Evolves(q)
<1>1. /\ Goes(r, "refresh").step = "refresh" /\ Goes(r, "refresh").head = run[r].head
      /\ Goes(r, "refresh").ci = run[r].ci
  BY GoesOn DEF IInv, Steps, Publishing, Ended
<1>2. /\ run' = [run EXCEPT ![r] = Goes(r, "refresh")]
      /\ UNCHANGED <<world, history, check, late>> /\ custody.run = None
      /\ custody' = [run |-> Submission(r), admitted |-> FALSE]
      /\ run[r].step = "decide" /\ Authorized(r)
  BY DEF Decide, Reserves, Becomes, At
<1>3. custody'.run # None /\ ~custody'.admitted
  BY <1>2, AuthorizedIsClear, SubmissionType
<1>4. clock' >= clock /\ main' >= main /\ ci'.execution >= ci.execution
  BY <1>2, Bounds DEF IInv, TypeOK, Commits, CiFacts, world
<1>5. Moves(q)
  BY <1>1, <1>2, <1>4 DEF Moves, Settling, Publishing, world, At, IInv, TypeOK
<1>6. run'[q].step \notin {"complete", "record"}
  <2>1. run[q].step \notin Publishing
    BY <1>2, FreeScope
  <2>2. QED
    BY <1>1, <1>2, <2>1 DEF Publishing, IInv, TypeOK
<1>7. Settles(q)
  BY <1>2, <1>3, <1>6, ReservedSettles
<1>8. QED
  BY <1>5, <1>7 DEF Evolves

\* A run that reserves without an answer, and a late write.
LEMMA UnansweredEvolves ==
  ASSUME IInv, IInv', NEW q \in Runs, NEW r \in Runs, TimesOut(r), Reserves(r)
  PROVE  Evolves(q)
<1>1. /\ run' = [run EXCEPT ![r] = Goes(r, "failed")]
      /\ UNCHANGED <<world, history, custody, check>>
      /\ \A w \in late' : w \in late \/ w.call = "reserve"
      /\ custody.run = None
  BY DEF TimesOut, Reserves, Becomes, At
<1>2. /\ Goes(r, "failed").step = "failed" /\ Goes(r, "failed").head = run[r].head
  BY GoesOn DEF IInv, Steps, Idle, Ended
<1>3. clock' >= clock /\ main' >= main /\ ci'.execution >= ci.execution
  BY <1>1, Bounds DEF IInv, TypeOK, Commits, CiFacts, world
<1>4. Moves(q)
  BY <1>1, <1>2, <1>3 DEF Moves, Settling, Publishing, world, At, IInv, TypeOK
<1>5. ~Passed(q) /\ ~Passed(q)' /\ ~AdmittedAs(q) /\ ~AdmittedAs(q)'
  BY <1>1, FreeScope DEF Passed, AdmittedAs
<1>6. QED
  BY <1>1, <1>4, <1>5 DEF Evolves, Settles

LEMMA LateEvolves ==
  ASSUME IInv, IInv', NEW q \in Runs, NEW w \in late, LateWrite(w)
  PROVE  Evolves(q)
<1>1. UNCHANGED <<world, run, history>> /\ late' = late \ {w}
  BY DEF LateWrite
<1>2. clock' >= clock /\ main' >= main /\ ci'.execution >= ci.execution
  BY <1>1, Bounds DEF IInv, TypeOK, Commits, CiFacts, world
<1>3. Moves(q)
  BY <1>1, <1>2 DEF Moves, world, At
<1>4. w \in Calls
  BY DEF IInv, TypeOK
<1>5. CASE w.call = "reserve" /\ custody.run = None
  <2>1. custody' = [run |-> w.for, admitted |-> FALSE] /\ check' = check
    BY <1>5 DEF LateWrite
  <2>2. custody'.run # None /\ ~custody'.admitted
    BY <1>4, <2>1, NoneIsNothing DEF Calls
  <2>3. run'[q].step \notin {"complete", "record"}
    BY <1>1, <1>5, FreeScope DEF Publishing
  <2>4. Settles(q)
    BY <1>1, <1>5, <2>1, <2>2, <2>3, ReservedSettles
  <2>5. QED
    BY <1>3, <2>4 DEF Evolves
<1>6. CASE w.call = "reserve" /\ custody.run # None
  <2>1. custody' = custody /\ check' = check
    BY <1>6 DEF LateWrite
  <2>2. AdmittedAs(q)' <=> AdmittedAs(q)
    BY <2>1 DEF AdmittedAs
  <2>3. Passed(q)' <=> Passed(q)
    BY <1>1, <1>6, <2>1 DEF Passed
  <2>4. QED
    BY <1>3, <2>1, <2>2, <2>3 DEF Evolves, Settles
<1>7. CASE w.call # "reserve"
  <2>1. custody.run # None /\ \A s \in Runs : run[s].step \notin Publishing
    BY <1>7, FreeScope, Holder DEF Committed
  <2>2. custody'.run = custody.run /\ (custody.admitted => custody'.admitted)
    BY <1>7 DEF LateWrite, IInv, TypeOK
  <2>3. custody'.admitted => custody.admitted \/ w.call = "admit"
    BY <1>7 DEF LateWrite
  <2>4. check' = "success" => check = "success" \/ w.call = "success"
    BY <1>7 DEF LateWrite
  <2>5. AdmittedAs(q)' => AdmittedAs(q) \/ Passed(q)
    BY <2>1, <2>2, <2>3 DEF AdmittedAs, Passed
  <2>6. Passed(q)' => Passed(q)
    BY <1>1, <2>1, <2>2, <2>4 DEF Passed
  <2>7. Passed(q) => Taken(q)'
    BY <1>1, <2>1, <2>2 DEF Taken
  <2>8. AdmittedAs(q) => AdmittedAs(q)'
    BY <2>2 DEF AdmittedAs
  <2>9. QED
    BY <1>3, <2>2, <2>5, <2>6, <2>7, <2>8 DEF Evolves, Settles
<1>8. QED
  BY <1>5, <1>6, <1>7

\* A run that publishes fails: what it has passed it may yet be admitted for,
\* and another has nothing to do with it.
LEMMA AbandonsEvolves ==
  ASSUME IInv, IInv', NEW q \in Runs, NEW r \in Runs, run[r].step \in Publishing,
         NEW writes, Abandons(r, writes),
         writes # {} => run[r].step \in {"complete", "record"},
         UNCHANGED <<world, starts, history, proposal, custody>>
  PROVE  Evolves(q)
<1>1. /\ run' = [run EXCEPT ![r] = Goes(r, "failed")]
      /\ check' \in {check, "cancelled"}
      /\ \A w \in late' : w \in late \/ w \in writes \/ w = Write("cancel")
  BY DEF Abandons, Becomes
<1>2. /\ Goes(r, "failed").step = "failed" /\ Goes(r, "failed").head = run[r].head
  BY GoesOn DEF IInv, Steps, Idle, Ended
<1>3. clock' >= clock /\ main' >= main /\ ci'.execution >= ci.execution
  BY Bounds DEF IInv, TypeOK, Commits, CiFacts, world
<1>4. Moves(q)
  BY <1>1, <1>2, <1>3 DEF Moves, Settling, Publishing, world, At, IInv, TypeOK
<1>5. custody.run # None /\ custody.run.id = r /\ run'[r].step = "failed"
  BY <1>1, <1>2, Holder DEF IInv, TypeOK
<1>6. AdmittedAs(q)' <=> AdmittedAs(q)
  BY DEF AdmittedAs
<1>7. Passed(q) => Taken(q)'
  BY <1>5 DEF Passed, Taken, Publishing
<1>8. Passed(q)' => Passed(q)
  <2>1. SUFFICES ASSUME Passed(q)' PROVE Passed(q)
    OBVIOUS
  <2>2. q = r
    BY <1>5, <2>1 DEF Passed
  <2>3. CASE check' = "success"
    BY <1>1, <2>1, <2>3 DEF Passed
  <2>4. CASE \E w \in late' : w.call \in {"success", "admit"}
    <3>1. PICK w \in late' : w.call \in {"success", "admit"}
      BY <2>4
    <3>2. w # Write("cancel")
      BY <3>1 DEF Write
    <3>3. CASE w \in late
      BY <2>1, <3>1, <3>3 DEF Passed
    <3>4. CASE writes # {}
      BY <1>5, <2>2, <3>4 DEF Passed
    <3>5. QED
      BY <1>1, <3>2, <3>3, <3>4
  <2>5. QED
    BY <1>5, <2>1, <2>2, <2>3, <2>4 DEF Passed
<1>9. QED
  BY <1>4, <1>6, <1>7, <1>8 DEF Evolves, Settles

\* A step of the publication that goes on.
LEMMA OnwardEvolves ==
  ASSUME IInv, IInv', NEW q \in Runs, NEW r \in Runs,
         NEW from \in Publishing, NEW to \in Publishing, At(r, from),
         run' = [run EXCEPT ![r] = Goes(r, to)],
         UNCHANGED <<world, history, late>>, custody'.run = custody.run,
         to = "confirm" => ~Lapsed(r),
         to = "complete" => from = "confirm" /\ MainIsHead(r),
         to = "record" => from = "complete",
         check' # check => from = "complete",
         custody'.admitted <=> to = "readback",
         to = "readback" => from = "record",
         from \in {"complete", "record"} => to \in {"record", "readback"},
         check' = check \/ check' = "success",
         from # "readback"
  PROVE  Evolves(q)
<1>1. /\ Goes(r, to).step = to /\ Goes(r, to).head = run[r].head
      /\ Goes(r, to).ci = run[r].ci
  BY GoesOn DEF IInv, Steps, Publishing, Ended, Idle
<1>2. run[r].step = from /\ run[r].step \in Publishing
  BY DEF At
<1>3. clock' >= clock /\ main' >= main /\ ci'.execution >= ci.execution
  BY Bounds DEF IInv, TypeOK, Commits, CiFacts, world
<1>4. /\ custody.run # None /\ custody.run.id = r /\ ~custody.admitted
      /\ \A w \in late : w.call = "reserve"
  BY <1>2, Holder DEF Committed, At
<1>5. CASE q # r
  <2>1. run'[q] = run[q]
    BY <1>5 DEF IInv, TypeOK
  <2>2. ~Passed(q) /\ ~Passed(q)' /\ ~AdmittedAs(q) /\ ~AdmittedAs(q)'
    BY <1>4, <1>5 DEF Passed, AdmittedAs
  <2>3. Moves(q)
    BY <1>3, <2>1 DEF Moves, world, At
  <2>4. QED
    BY <2>2, <2>3 DEF Evolves, Settles
<1>6. CASE q = r
  <2>1. run'[r] = Goes(r, to)
    BY DEF IInv, TypeOK
  <2>2. to # "absent"
    BY DEF Publishing
  <2>3. Moves(q)
    BY <1>1, <1>2, <1>3, <1>6, <2>1, <2>2 DEF Moves, Settling, world, At
  <2>4. run'[r].step = to
    BY <1>1, <2>1
  <2>5. ~AdmittedAs(q)
    BY <1>4 DEF AdmittedAs
  <2>6. AdmittedAs(q)' <=> to = "readback"
    BY <1>4, <1>6 DEF AdmittedAs
  <2>7. to \in {"record", "readback"} => Passed(q)
    BY <1>2, <1>4, <1>6 DEF Passed
  <2>8. Passed(q)' => Passed(q) \/ (At(q, "confirm") /\ MainIsHead(q))
    <3>1. CASE to = "complete"
      <4>1. from = "confirm" /\ MainIsHead(q)
        BY <1>6, <3>1
      <4>2. At(q, "confirm")
        BY <1>2, <1>6, <4>1 DEF At
      <4>3. QED
        BY <4>1, <4>2
    <3>2. CASE to \in {"record", "readback"}
      BY <2>7, <3>2
    <3>3. CASE to \notin {"complete", "record", "readback"}
      <4>1. check' = check /\ late' = late
        BY <1>6, <3>3
      <4>2. QED
        BY <1>4, <1>6, <2>4, <3>3, <4>1 DEF Passed
    <3>4. QED
      BY <3>1, <3>2, <3>3
  <2>9. Passed(q) => Passed(q)' \/ AdmittedAs(q)'
    <3>1. CASE from \in {"complete", "record"}
      BY <1>4, <1>6, <2>4, <2>6, <3>1 DEF Passed
    <3>2. CASE from \notin {"complete", "record"}
      BY <1>2, <1>4, <3>2 DEF Passed
    <3>3. QED
      BY <3>1, <3>2
  <2>10. QED
    BY <2>3, <2>5, <2>6, <2>7, <2>8, <2>9 DEF Evolves, Settles
<1>7. QED
  BY <1>5, <1>6

LEMMA RefreshEvolves ==
  ASSUME IInv, IInv', NEW q \in Runs, NEW r \in Runs, Refresh(r) \/ Confirm(r)
  PROVE  Evolves(q)
<1>1. /\ run[r].step \in {"refresh", "confirm"} /\ run[r].step \in Publishing
      /\ UNCHANGED <<world, starts, history, proposal, custody>>
  BY DEF Refresh, Confirm, Reread, At, Publishing
<1>2. Committed(r) /\ ~custody.admitted
  BY <1>1, Holder DEF At
<1>3. CASE Abandons(r, {})
  BY <1>1, <1>3, AbandonsEvolves
<1>4. CASE /\ At(r, "refresh") /\ Authorized(r) /\ Ratified(r)
           /\ run' = [run EXCEPT ![r] = Goes(r, "confirm")] /\ UNCHANGED <<check, late>>
  <2>1. ~Lapsed(r)
    <3>1. history[r].first.body.expires \in Nat
      BY <1>2 DEF IInv, TypeOK, Committed, Clear, Reviews, Bodies
    <3>2. clock \in Nat
      BY Bounds DEF IInv, TypeOK
    <3>3. /\ ~(clock >= PolicyExpiry) /\ ~(clock >= history[r].first.body.expires)
      BY <1>4, <3>1, <3>2, Spans DEF Authorized, Timely
    <3>4. QED
      BY <1>4, <3>3 DEF Lapsed, Ratified
  <2>2. "refresh" \in Publishing /\ "confirm" \in Publishing
    BY DEF Publishing
  <2>3. UNCHANGED <<world, history, late>> /\ custody'.run = custody.run
        /\ (custody'.admitted <=> "confirm" = "readback") /\ check' = check
    BY <1>1, <1>2, <1>4
  <2>4. QED
    BY <1>4, <2>1, <2>2, <2>3, OnwardEvolves
<1>5. CASE /\ At(r, "confirm") /\ MainIsHead(r)
           /\ run' = [run EXCEPT ![r] = Goes(r, "complete")] /\ UNCHANGED <<check, late>>
  <2>1. "confirm" \in Publishing /\ "complete" \in Publishing
    BY DEF Publishing
  <2>2. UNCHANGED <<world, history, late>> /\ custody'.run = custody.run
        /\ (custody'.admitted <=> "complete" = "readback") /\ check' = check
    BY <1>1, <1>2, <1>5
  <2>3. QED
    BY <1>5, <2>1, <2>2, OnwardEvolves
<1>6. QED
  BY <1>3, <1>4, <1>5 DEF Refresh, Confirm, Reread, Becomes

LEMMA CompleteEvolves ==
  ASSUME IInv, IInv', NEW q \in Runs, NEW r \in Runs, Complete(r) \/ Admit(r)
  PROVE  Evolves(q)
<1>1. CASE Complete(r)
  <2>1. /\ At(r, "complete") /\ run' = [run EXCEPT ![r] = Goes(r, "record")]
        /\ UNCHANGED <<world, history, late>> /\ custody' = custody /\ check' = "success"
    BY <1>1 DEF Complete, Becomes
  <2>2. "complete" \in Publishing /\ "record" \in Publishing
    BY DEF Publishing
  <2>3. custody'.run = custody.run /\ (custody'.admitted <=> "record" = "readback")
    BY <2>1, <2>2, Holder DEF At
  <2>4. QED
    BY <2>1, <2>2, <2>3, OnwardEvolves
<1>2. CASE Admit(r)
  <2>1. /\ At(r, "record") /\ run' = [run EXCEPT ![r] = Goes(r, "readback")]
        /\ UNCHANGED <<world, history, late>> /\ check' = check
        /\ custody' = [custody EXCEPT !.admitted = TRUE]
    BY <1>2 DEF Admit, Becomes
  <2>2. "record" \in Publishing /\ "readback" \in Publishing
    BY DEF Publishing
  <2>3. custody'.run = custody.run /\ (custody'.admitted <=> "readback" = "readback")
    BY <2>1 DEF IInv, TypeOK
  <2>4. QED
    BY <2>1, <2>2, <2>3, OnwardEvolves
<1>3. QED
  BY <1>1, <1>2

LEMMA FailEvolves ==
  ASSUME IInv, IInv', NEW q \in Runs, NEW r \in Runs, Fail(r) \/ TimesOut(r)
  PROVE  Evolves(q)
<1>1. CASE Fail(r) /\ run[r].step \notin Publishing
  BY <1>1, QuietEvolves
<1>2. CASE Fail(r) /\ run[r].step \in Publishing
  <2>1. Abandons(r, {}) /\ UNCHANGED <<world, starts, history, proposal, custody>>
    BY <1>2 DEF Fail
  <2>2. QED
    BY <1>2, <2>1, AbandonsEvolves
<1>3. CASE TimesOut(r) /\ Reserves(r)
  BY <1>3, UnansweredEvolves
<1>4. CASE TimesOut(r) /\ ~Reserves(r)
  <2>1. PICK call \in {"success", "admit"} :
          /\ run[r].step \in {"complete", "record"} /\ Abandons(r, {Write(call)})
          /\ UNCHANGED <<world, starts, history, proposal, custody>>
    BY <1>4 DEF TimesOut, At
  <2>2. run[r].step \in Publishing
    BY <2>1 DEF Publishing
  <2>3. QED
    BY <2>1, <2>2, AbandonsEvolves
<1>5. QED
  BY <1>1, <1>2, <1>3, <1>4

LEMMA NextEvolves ==
  ASSUME IInv, IInv', Next, NEW q \in Runs
  PROVE  Evolves(q)
<1>1. ASSUME NEW r \in Runs,
             \/ Work(r) \/ Fail(r) \/ TimesOut(r) \/ Dispatch(r) \/ Rerun(r)
             \/ Approve(r) \/ Reject(r) \/ Bypass(r)
      PROVE  Evolves(q)
  BY <1>1, QueueEvolves, QuietEvolves, FailEvolves, DecideEvolves, RefreshEvolves,
     CompleteEvolves DEF Work
<1>2. ASSUME NEW w \in late, LateWrite(w)
      PROVE  Evolves(q)
  BY <1>2, LateEvolves
<1>3. QED
  BY <1>1, <1>2, WorldEvolves DEF Next

\* What the steps of a history mean for what it says.
LEMMA SpeechEvolves ==
  ASSUME IInv, IInv', NEW q \in Runs, Evolves(q), Spoken(q)
  PROVE  /\ Spoken(q)'
         /\ Clear(q)' => Clear(q) /\ history'[q] = history[q]
<1>1. history[q].count \in Nat /\ history'[q].count \in Nat
  BY DEF IInv, TypeOK
<1>2. CASE history'[q] = history[q]
  BY <1>2 DEF Spoken, Clear
<1>3. CASE history'[q].count = history[q].count + 1
  BY <1>1, <1>3 DEF Spoken, Clear
<1>4. QED
  BY <1>2, <1>3 DEF Evolves, Moves

\* A consent passes in an execution that has everything behind it.
LEMMA NewlyPassed ==
  ASSUME IInv, NEW q \in Runs, Evolves(q), Passed(q)', ~Passed(q)
  PROVE  Spoken(q) /\ ~Spoilt(q) /\ ~Taken(q)
<1>1. At(q, "confirm") /\ MainIsHead(q)
  BY DEF Evolves, Settles
<1>2. Committed(q) /\ custody.run.id = q
  BY <1>1, Holder DEF At, Publishing
<1>3. Spoken(q)
  BY <1>2 DEF Committed, Clear, Spoken
<1>4. ~Taken(q)
  BY <1>1, <1>2 DEF Taken, Publishing, At
<1>5. ~Spoilt(q)
  BY <1>1, <1>2
     DEF Spoilt, Committed, CiOvertaken, Unfounded, MainIsHead, Publishing, At
<1>6. QED
  BY <1>3, <1>4, <1>5

\* What voids a run stays, whatever is re-run, approved again or put back.
LEMMA SpoiltStays ==
  ASSUME IInv, IInv', NEW q \in Runs, Evolves(q), Spoilt(q)
  PROVE  Spoilt(q)'
<1>1. CASE Spoken(q) /\ ~Clear(q)
  BY <1>1, SpeechEvolves DEF Spoilt
<1>2. CASE Lapsed(q) /\ ~At(q, "confirm")
  <2>1. ~At(q, "confirm")'
    BY <1>2 DEF Evolves, Moves
  <2>2. clock \in Nat /\ clock' \in Nat /\ clock' >= clock
    BY Bounds DEF Evolves, Moves, IInv, TypeOK
  <2>3. CASE ~unedited
    BY <2>1, <2>3 DEF Evolves, Moves, Lapsed, Spoilt
  <2>4. CASE clock >= PolicyExpiry
    <3>1. clock' >= PolicyExpiry
      BY <2>2, <2>4, Spans
    <3>2. QED
      BY <2>1, <3>1 DEF Lapsed, Spoilt
  <2>5. CASE Spoken(q) /\ Clear(q) /\ clock >= history[q].first.body.expires
    <3>1. CASE ~Clear(q)'
      BY <2>5, <3>1, SpeechEvolves DEF Spoilt
    <3>2. CASE Clear(q)'
      <4>1. Spoken(q)' /\ history'[q] = history[q]
        BY <2>5, <3>2, SpeechEvolves
      <4>2. history[q].first.body.expires \in Nat
        BY <2>5 DEF Clear, IInv, TypeOK, Reviews, Bodies
      <4>3. clock' >= history'[q].first.body.expires
        BY <2>2, <2>5, <4>1, <4>2
      <4>4. QED
        BY <2>1, <3>2, <4>1, <4>3 DEF Lapsed, Spoilt
    <3>3. QED
      BY <3>1, <3>2
  <2>6. QED
    BY <1>2, <2>3, <2>4, <2>5 DEF Lapsed
<1>3. CASE CiOvertaken(q)
  <2>1. CASE ~Clear(q)'
    BY <1>3, <2>1, SpeechEvolves DEF CiOvertaken, Spoilt
  <2>2. CASE Clear(q)'
    <3>1. Spoken(q)' /\ history'[q] = history[q]
      BY <1>3, <2>2, SpeechEvolves DEF CiOvertaken
    <3> DEFINE accepted == history[q].first.body.ci
    <3>2. accepted \in Nat
      BY <1>3, Bounds DEF CiOvertaken, Clear, IInv, TypeOK, Reviews, Bodies
    <3>3. ci.execution \in Nat /\ ci'.execution \in Nat /\ ci'.execution >= ci.execution
      BY Bounds DEF Evolves, Moves, IInv, TypeOK, CiFacts
    <3>4. accepted < ci.execution /\ ~(run[q].step \in Settling /\ run[q].ci = accepted)
      BY <1>3 DEF CiOvertaken, Settling
    <3> HIDE DEF accepted
    <3>5. accepted < ci'.execution
      BY <3>2, <3>3, <3>4
    <3>6. ~(run'[q].step \in Settling /\ run'[q].ci = accepted)
      <4>1. ci.execution # accepted
        BY <3>2, <3>3, <3>4
      <4>2. QED
        BY <3>4, <4>1 DEF Evolves, Moves
    <3>7. CiOvertaken(q)'
      BY <2>2, <3>1, <3>5, <3>6 DEF accepted, CiOvertaken, Settling
    <3>8. QED
      BY <3>7 DEF Spoilt
  <2>3. QED
    BY <2>1, <2>2
<1>4. CASE Unfounded(q)
  <2>1. ~At(q, "absent")' /\ run'[q].head = run[q].head
    BY <1>4 DEF Unfounded, Evolves, Moves, At
  <2>2. CASE run[q].head \notin Accepted
    BY <2>1, <2>2 DEF Unfounded, Spoilt
  <2>3. CASE run[q].head # main
    <3>1. run[q].head <= main /\ main' >= main
      BY DEF IInv, Evolves, Moves
    <3>2. run[q].head \in Nat /\ main \in Nat /\ main' \in Nat
      BY Bounds DEF IInv, TypeOK, Commits
    <3>3. run'[q].head # main'
      BY <2>1, <2>3, <3>1, <3>2
    <3>4. QED
      BY <2>1, <3>3 DEF Unfounded, Spoilt
  <2>4. QED
    BY <1>4, <2>2, <2>3 DEF Unfounded
<1>5. QED
  BY <1>1, <1>2, <1>3, <1>4 DEF Spoilt

LEMMA TakenStays ==
  ASSUME NEW q \in Runs, Evolves(q), Taken(q)
  PROVE  Taken(q)'
BY DEF Evolves, Moves, Settles, Taken

\* Each run takes the turns the consent knows.
LEMMA FateEvolves ==
  ASSUME IInv, IInv', NEW q \in Runs, Evolves(q)
  PROVE  Fate(q)' = Fate(q) \/ <<Fate(q), Fate(q)'>> \in Consent!Turns
<1>1. /\ AdmittedAs(q) => AdmittedAs(q)'
      /\ AdmittedAs(q)' => AdmittedAs(q) \/ Passed(q)
      /\ Passed(q) => Passed(q)' \/ AdmittedAs(q)' \/ Taken(q)'
  BY DEF Evolves, Settles
<1>2. Spoilt(q) \/ Taken(q) => Spoilt(q)' \/ Taken(q)'
  BY SpoiltStays, TakenStays
<1>3. Spoken(q) => Spoken(q)'
  BY SpeechEvolves
<1>4. Passed(q)' /\ ~Passed(q) => Spoken(q) /\ ~Spoilt(q) /\ ~Taken(q)
  BY NewlyPassed
<1>5. QED
  BY <1>1, <1>2, <1>3, <1>4 DEF Fate, Consent!Turns

\* The admission workflow implements what it promises the person who
\* authorizes: no consent that was expired, edited, overtaken, repeated or
\* foreign at the last reads ever shows a success or becomes an admission,
\* although the writes of a run that has failed may be applied at any time.
THEOREM Refinement == Spec => ImplementsConsent
<1>1. Init => Consent!Unspoken
  <2> SUFFICES ASSUME Init, NEW r \in Runs PROVE Fate(r) = "open"
    BY DEF Consent!Unspoken
  <2>1. ~AdmittedAs(r) /\ ~Passed(r) /\ ~Taken(r) /\ ~Spoken(r)
    BY DEF Init, Unreserved, AdmittedAs, Passed, Taken, Spoken
  <2>2. ~Lapsed(r)
    BY <2>1, Spans DEF Init, Lapsed
  <2>3. ~Spoilt(r)
    BY <2>1, <2>2 DEF Init, Spoilt, CiOvertaken, Unfounded, At
  <2>4. QED
    BY <2>1, <2>3 DEF Fate
<1>2. IInv /\ IInv' /\ [Next]_vars => [Consent!Turn]_([r \in Runs |-> Fate(r)])
  <2> SUFFICES ASSUME IInv, IInv', [Next]_vars,
                      [r \in Runs |-> Fate(r)]' # [r \in Runs |-> Fate(r)]
               PROVE  Consent!Turn
    OBVIOUS
  <2>1. Next
    <3>1. ASSUME UNCHANGED vars, NEW r \in Runs PROVE Fate(r)' = Fate(r)
      <4>1. UNCHANGED <<clock, main, unedited, ci, run, history, custody, check, late>>
        BY <3>1 DEF vars, world, scope
      <4>2. AdmittedAs(r)' = AdmittedAs(r) /\ Taken(r)' = Taken(r)
            /\ Spoken(r)' = Spoken(r) /\ Clear(r)' = Clear(r)
            /\ Passed(r)' = Passed(r)
        BY <4>1 DEF AdmittedAs, Taken, Spoken, Clear, Passed
      <4>3. Lapsed(r)' = Lapsed(r) /\ CiOvertaken(r)' = CiOvertaken(r)
            /\ Unfounded(r)' = Unfounded(r)
        BY <4>1, <4>2 DEF Lapsed, CiOvertaken, Unfounded, At
      <4>4. Spoilt(r)' = Spoilt(r)
        BY <4>1, <4>2, <4>3 DEF Spoilt, At
      <4>. QED
        BY <4>2, <4>4 DEF Fate
    <3>. QED
      BY <3>1
  <2>2. ASSUME NEW r \in Runs
        PROVE  Fate(r)' = Fate(r) \/ <<Fate(r), Fate(r)'>> \in Consent!Turns
    BY <2>1, NextEvolves, FateEvolves
  <2>3. \A r \in Runs : Fate(r)' \in Consent!Fates
    BY DEF Fate, Consent!Fates
  <2>4. \A r \in Runs : Fate(r)' = "admitted" => \A s \in Runs \ {r} : Fate(s)' # "admitted"
    BY DEF Fate, AdmittedAs
  <2>5. QED
    BY <2>2, <2>3, <2>4 DEF Consent!Turn
<1>3. IInv /\ [Next]_vars => IInv'
  BY StepIInv
<1>4. QED
  BY <1>1, <1>2, <1>3, Inductive, PTL DEF Spec, ImplementsConsent, Consent!ConsentSpec

-----------------------------------------------------------------------------
(* A refusal has a reason.                                                  *)

LEMMA UnauthorizedHasReason ==
  ASSUME IInv, NEW r \in Runs, run[r].step \in {"decide", "refresh"}, ~Authorized(r)
  PROVE  HasReason(r)
<1> SUFFICES ASSUME ~HasReason(r)
             PROVE  Authorized(r)
  OBVIOUS
<1>0. /\ rule /\ Spoken(r) /\ ~Spoilt(r)
      /\ history[r].first.body = proposal[r]
      /\ history[r].first.body.ci = run[r].ci
  BY DEF HasReason, At
<1>1. Clear(r) /\ ~Lapsed(r)
  BY <1>0 DEF Spoilt, At
<1> DEFINE body == history[r].first.body
<1>2. SpokenOnce(history[r]) /\ Binds(body, r, run[r].ci)
  BY <1>0, <1>1 DEF Clear, SpokenOnce, Binds
<1>3. body.expires \in Nat /\ clock \in Nat /\ PolicyExpiry \in Nat
  BY <1>1, Spans, Bounds DEF Clear, IInv, TypeOK, Reviews, Bodies
<1>4. body.expires <= clock + TemplateSpan
  BY <1>0, <1>1 DEF Clear, IInv
<1>5. /\ ~(clock >= PolicyExpiry) /\ ~(clock >= body.expires)
      /\ body.expires <= PolicyExpiry
  BY <1>0, <1>1 DEF Clear, Lapsed
<1> HIDE DEF body
<1>6. Timely(body, clock)
  BY <1>3, <1>4, <1>5, Spans DEF Timely
<1>7. QED
  BY <1>0, <1>2, <1>6 DEF Authorized, body

\* An execution that stands on nothing stays refused.
LEMMA UnratifiedHasReason ==
  ASSUME IInv, NEW r \in Runs, run[r].step \in {"gate", "refresh", "confirm"},
         \/ ~MainIsHead(r)
         \/ run[r].step # "confirm" /\ ~Ratified(r)
  PROVE  HasReason(r)
BY DEF HasReason, Spoilt, Unfounded, Lapsed, MainIsHead, Ratified, At

\* The admitting job never refuses the answer it asked for: the principal's
\* one approval of the proposal as shown, in its time, with nothing changed.
THEOREM RefusalsHaveReasons == Spec => RefusalHasReason
<1> DEFINE Reasoned == \A r \in Runs :
             run[r].job = "admit" /\ run'[r].step = "failed" /\ Work(r) => HasReason(r)
<1>1. IInv => Reasoned
  <2> SUFFICES ASSUME IInv, NEW r \in Runs, Work(r), run[r].job = "admit",
                      run'[r].step = "failed"
               PROVE  HasReason(r)
    OBVIOUS
  <2>1. ASSUME NEW step \in Steps, run' = [run EXCEPT ![r] = Goes(r, step)]
        PROVE  step = "failed"
    BY <2>1, GoesOn DEF IInv, TypeOK
  <2>2. CASE WaitEnds(r)
    BY <2>2 DEF WaitEnds, HasReason
  <2>3. CASE Gate(r)
    <3>1. ~(MainIsHead(r) /\ Ratified(r)) /\ run[r].step = "gate"
      BY <2>1, <2>3 DEF Gate, Check, Becomes, At, Steps
    <3>2. QED
      BY <3>1, UnratifiedHasReason
  <2>4. CASE Assess(r)
    <3>1. ASSUME ExceptionEligible(ci.jobs) PROVE FALSE
      <4> DEFINE g == Goes(r, "decide")
      <4>1. g \in Entries /\ g.step = "decide"
        BY GoesOn DEF IInv, Steps
      <4>2. run' = [run EXCEPT ![r] = [g EXCEPT !.ci = ci.execution]]
        BY <2>4, <3>1 DEF Assess, Becomes
      <4> HIDE DEF g
      <4>3. run'[r].step = "decide"
        BY <4>1, <4>2 DEF IInv, TypeOK, Entries
      <4>4. QED
        BY <4>3
    <3>2. QED
      BY <2>4, <3>1 DEF Assess, HasReason, ExceptionEligible
  <2>5. CASE DecideOtherwise(r)
    <3>1. ~(Authorized(r) /\ Repeats(r)) /\ run[r].step = "decide"
      BY <2>1, <2>5 DEF DecideOtherwise, Check, Becomes, At, Steps, Idle, Ended
    <3>2. QED
      BY <2>5, <3>1, UnauthorizedHasReason DEF DecideOtherwise, HasReason, At
  <2>6. CASE Refresh(r)
    <3>1. ~(Authorized(r) /\ Ratified(r)) /\ run[r].step = "refresh"
      BY <2>1, <2>6 DEF Refresh, Reread, Becomes, At, Steps, Publishing
    <3>2. QED
      BY <3>1, UnauthorizedHasReason, UnratifiedHasReason
  <2>7. CASE Confirm(r)
    <3>1. ~MainIsHead(r) /\ run[r].step = "confirm"
      BY <2>1, <2>7 DEF Confirm, Reread, Becomes, At, Steps, Publishing
    <3>2. QED
      BY <3>1, UnratifiedHasReason
  <2>8. CASE Start(r)
    BY <2>1, <2>8 DEF Start, Becomes, Steps, Idle
  <2>9. CASE Plan(r)
    <3> DEFINE g == Goes(r, "waiting")
    <3>1. g \in Entries /\ g.step = "waiting"
      BY GoesOn DEF IInv, Steps
    <3>2. run' = [run EXCEPT ![r] = [g EXCEPT !.job = "admit", !.ci = 0]]
      BY <2>9 DEF Plan, Becomes
    <3> HIDE DEF g
    <3>3. run'[r].step = "waiting"
      BY <3>1, <3>2 DEF IInv, TypeOK, Entries
    <3>4. QED
      BY <3>3
  <2>10. CASE Decide(r)
    BY <2>1, <2>10 DEF Decide, Becomes, Steps, Publishing
  <2>11. CASE Complete(r) \/ Admit(r) \/ ReadBack(r)
    BY <2>1, <2>11
       DEF Complete, Admit, ReadBack, Check, Becomes, Steps, Publishing, Idle, Ended
  <2>12. QED
    BY <2>2, <2>3, <2>4, <2>5, <2>6, <2>7, <2>8, <2>9, <2>10, <2>11 DEF Work
<1>2. QED
  BY <1>1, Inductive, PTL DEF RefusalHasReason
=============================================================================
