--------------------------- MODULE CloudReviewProofs ---------------------------
(***************************************************************************)
(* What a check run and a green run of the cloud review mean, for any       *)
(* number of runs and commits.  The job of one run is followed from step to *)
(* step; what makes the properties inductive is how far a job has to be for *)
(* an exit code, a verification or a conclusion to be there.                *)
(***************************************************************************)
EXTENDS CloudReview, TLAPS

BeforeVerified == {"prepare", "verify_first"}
BeforeReviewed == BeforeVerified \cup {"reproduce", "identity", "review"}
Published == {"fail_unless", "enforce", "done", "lost"}
Green == {"fail_unless", "enforce", "done"}

Job ==
  [step : Steps \cup Ends, job : {"success", "failure", "cancelled"}, head : Heads,
   token : BOOLEAN, verified : SUBSET {"verify_first", "verify_last"},
   exit : {"", "0", "1"}, attestation : Attestations \cup {NoAttestation},
   post : {"none", "refused", "unanswered", "answered"}]

\* What a job that has come this far has behind it.
Progress(j) ==
  /\ j.exit # "" => "verify_first" \in j.verified
  /\ j.job = "success" /\ j.step \notin BeforeVerified => "verify_first" \in j.verified
  /\ j.job = "success" /\ j.step \notin BeforeReviewed => j.exit # ""
  /\ j.job = "success" /\ j.step \in {"publish"} \cup Green => "verify_last" \in j.verified
  /\ j.job = "success" /\ j.step \in {"enforce", "done"} => j.exit = "0"
  /\ j.job = "success" /\ j.step = "done" => Approves(j.attestation)
  /\ j.job = "success" /\ j.step \in Green => j.post = "answered"
  /\ j.step \in Steps \ Green => j.post = "none"

\* A check is that of a job which is past the publication.
Stands(c) ==
  /\ c.run \in Runs
  /\ c = CheckOf(c.run)
  /\ run[c.run].step \in Published

IInv ==
  /\ prHead \in Heads
  /\ run \in [Runs -> Job]
  /\ \A r \in Runs : Progress(run[r])
  /\ \A r \in Runs : run[r].post = "answered" => CheckOf(r) \in checks
  /\ \A c \in checks \cup late : Stands(c)

LEMMA StepsAre ==
  Steps = {"prepare", "verify_first", "reproduce", "identity", "review", "verify_last",
           "publish", "fail_unless", "enforce"}
  BY DEF Steps, Following

LEMMA NextStep ==
  /\ Following["prepare"] = "verify_first" /\ Following["verify_first"] = "reproduce"
  /\ Following["reproduce"] = "identity" /\ Following["identity"] = "review"
  /\ Following["review"] = "verify_last" /\ Following["verify_last"] = "publish"
  /\ Following["publish"] = "fail_unless" /\ Following["fail_unless"] = "enforce"
  /\ Following["enforce"] = "done"
  BY DEF Following

\* A run whose job becomes another one that is as far as it should be, and that
\* does not touch what an earlier check rests on, leaves everything else alone.
LEMMA OneJob ==
  ASSUME IInv, NEW r \in Runs, NEW j \in Job, Becomes(r, j), prHead' \in Heads,
         Progress(j), j.head = run[r].head,
         run[r].step \in Published =>
           /\ j.step \in Published /\ j.exit = run[r].exit
           /\ j.attestation = run[r].attestation,
         checks \subseteq checks',
         j.post = "answered" => CheckOf(r)' \in checks',
         \A c \in (checks \cup late)' : c \in checks \cup late \/
           (c = CheckOf(r)' /\ j.step \in Published)
  PROVE  IInv'
<1>1. run' \in [Runs -> Job] /\ run'[r] = j /\ \A q \in Runs \ {r} : run'[q] = run[q]
  BY DEF IInv, Becomes
<1>2. \A q \in Runs \ {r} : CheckOf(q)' = CheckOf(q)
  BY <1>1 DEF CheckOf, Conclusion
<1>3. run[r].step \in Published => CheckOf(r)' = CheckOf(r)
  BY <1>1 DEF CheckOf, Conclusion, Job, IInv
<1>4. \A q \in Runs : Progress(run'[q])
  BY <1>1 DEF IInv
<1>5. \A q \in Runs : run'[q].post = "answered" => CheckOf(q)' \in checks'
  BY <1>1, <1>2 DEF IInv
<1>6. ASSUME NEW c \in (checks \cup late)' PROVE Stands(c)'
  <2>1. CASE c \in checks \cup late
    <3>1. Stands(c)
      BY <2>1 DEF IInv
    <3>2. CASE c.run = r
      BY <3>1, <3>2, <1>1, <1>3 DEF Stands
    <3>3. CASE c.run # r
      BY <3>1, <3>3, <1>1, <1>2 DEF Stands
    <3>. QED
      BY <3>2, <3>3
  <2>2. CASE c = CheckOf(r)' /\ j.step \in Published
    <3>1. c.run = r
      BY <2>2 DEF CheckOf
    <3>. QED
      BY <2>2, <3>1, <1>1 DEF Stands
  <2>. QED
    BY <2>1, <2>2
<1>. QED
  BY <1>1, <1>4, <1>5, <1>6 DEF IInv

-----------------------------------------------------------------------------
(* One lemma per kind of step: the job it leaves is as far as it should be. *)

LEMMA JobOfRun ==
  ASSUME IInv, NEW r \in Runs
  PROVE  run[r] \in Job /\ Progress(run[r])
  BY DEF IInv

\* Failing or passing a step that publishes nothing.
LEMMA QuietStep ==
  ASSUME IInv, NEW r \in Runs, NEW j \in Job, Becomes(r, j), UNCHANGED <<prHead, checks, late>>,
         Progress(j), j.head = run[r].head, j.post = "answered" => run[r].post = "answered",
         j.exit = run[r].exit, j.attestation = run[r].attestation,
         run[r].step \in Published => j.step \in Published
  PROVE  IInv'
<1>1. prHead' \in Heads /\ checks \subseteq checks'
  BY DEF IInv
<1>2. run'[r] = j
  BY DEF Becomes, IInv
<1>3. CheckOf(r)' = CheckOf(r)
  BY <1>2 DEF CheckOf, Conclusion
<1>4. j.post = "answered" => CheckOf(r)' \in checks'
  BY <1>3 DEF IInv
<1>5. \A c \in (checks \cup late)' : c \in checks \cup late
  OBVIOUS
<1>. QED
  BY <1>1, <1>4, <1>5, OneJob

LEMMA SkipKeeps ==
  ASSUME IInv, NEW r \in Runs, Skip(r)
  PROVE  IInv'
<1>. DEFINE j == Passing(run[r])
<1>1. run[r] \in Job /\ Progress(run[r])
  BY JobOfRun
<1>2. run[r].step \in Steps /\ ~Wanted(r) /\ Becomes(r, j) /\ UNCHANGED <<prHead, checks, late>>
  BY <1>1 DEF Skip, Job
<1>3. run[r].job = "success" => run[r].step \in {"fail_unless", "enforce"}
                               /\ (run[r].step = "fail_unless" => run[r].exit = "0")
                               /\ (run[r].step = "enforce" => run[r].exit # "0")
  BY <1>2 DEF Wanted
<1>4. run[r].step \notin {"verify_last", "publish"}
  BY <1>2 DEF Wanted, AlwaysSteps
<1>5. j \in Job /\ j.step = Following[run[r].step] /\ j = [run[r] EXCEPT !.step = j.step]
  BY <1>1, <1>2, StepsAre, NextStep DEF Passing, Job, Ends
<1>6. Progress(j)
  BY <1>1, <1>2, <1>3, <1>4, <1>5, StepsAre, NextStep
     DEF Progress, Job, Green, BeforeVerified, BeforeReviewed
<1>7. run[r].step \in Published => j.step \in Published
  BY <1>2, <1>5, StepsAre, NextStep DEF Published
<1>. HIDE DEF j
<1>. QED
  BY <1>1, <1>2, <1>5, <1>6, <1>7, QuietStep DEF Job
\* A step that is reached is wanted: the job has not failed, or the step always
\* runs.
LEMMA Reached ==
  ASSUME IInv, NEW r \in Runs, NEW s \in Steps, At(r, s)
  PROVE  /\ run[r] \in Job /\ Progress(run[r]) /\ run[r].step = s
         /\ s \notin {"verify_last", "publish"} => run[r].job = "success"
         /\ s = "fail_unless" => run[r].exit # "0"
         /\ s = "enforce" => run[r].exit = "0"
  BY StepsAre DEF IInv, At, Wanted, AlwaysSteps

\* What a step may make of its job without touching the review or the check.
LEMMA JobAfter ==
  ASSUME NEW j \in Job, NEW k \in Job, Progress(j), j.step \in Steps \ Green, j.step # "publish",
         j.step # "review", k.step = Following[j.step], k.job = j.job, k.exit = j.exit,
         k.post = j.post, j.verified \subseteq k.verified,
         j.step \in {"verify_first", "verify_last"} => j.step \in k.verified
  PROVE  Progress(k)
<1>1. k.step \notin {"fail_unless", "enforce", "done"} /\ j.post = "none"
  BY StepsAre, NextStep DEF Job, Progress, Green
<1>2. k.exit # "" => "verify_first" \in k.verified
  BY DEF Progress
<1>0. j.step \in {"prepare", "verify_first", "reproduce", "identity", "verify_last"}
  BY StepsAre DEF Green
<1>3. k.job = "success" /\ k.step \notin BeforeVerified => "verify_first" \in k.verified
  <2>1. CASE j.step = "prepare"
    BY <2>1, NextStep DEF BeforeVerified
  <2>2. CASE j.step = "verify_first"
    BY <2>2
  <2>3. CASE j.step \in {"reproduce", "identity", "verify_last"}
    BY <2>3 DEF Progress, BeforeVerified
  <2>. QED
    BY <1>0, <2>1, <2>2, <2>3
<1>4. k.job = "success" /\ k.step \notin BeforeReviewed => k.exit # ""
  <2>1. CASE j.step = "verify_last"
    BY <2>1 DEF Progress, BeforeVerified, BeforeReviewed
  <2>2. CASE j.step \in {"prepare", "verify_first", "reproduce", "identity"}
    BY <2>2, NextStep DEF BeforeVerified, BeforeReviewed
  <2>. QED
    BY <1>0, <2>1, <2>2
<1>5. k.step = "publish" => "verify_last" \in k.verified
  BY StepsAre, NextStep DEF Green
<1>. QED
  BY <1>1, <1>2, <1>3, <1>4, <1>5 DEF Progress, Green

LEMMA JobFailed ==
  ASSUME NEW j \in Job, NEW k \in Job, Progress(j), j.step \in Steps \ Green, j.step # "publish",
         k.step = Following[j.step], k.job # "success", k.exit = j.exit,
         k.post = j.post, k.verified = j.verified
  PROVE  Progress(k)
  BY StepsAre, NextStep DEF Progress, Green

\* The fields of a job that passes or fails a step.
LEMMA Fields ==
  ASSUME NEW j \in Job, j.step \in Steps
  PROVE  /\ Passing(j) \in Job /\ Failing(j) \in Job
         /\ Passing(j) = [j EXCEPT !.step = Following[j.step]]
         /\ Passing(j).step = Following[j.step] /\ Failing(j).step = Following[j.step]
         /\ Passing(j).job = j.job /\ Failing(j).job # "success"
         /\ \A p \in {Passing(j), Failing(j)} :
              /\ p.head = j.head /\ p.exit = j.exit /\ p.post = j.post
              /\ p.attestation = j.attestation /\ p.verified = j.verified
<1>1. Following[j.step] \in Steps \cup Ends
  BY StepsAre, NextStep DEF Ends
<1>2. Passing(j) \in Job
  BY <1>1 DEF Passing, Job
<1>3. Failing(j) \in Job
  BY <1>2 DEF Failing, Passing, Job
<1>4. /\ Passing(j) = [j EXCEPT !.step = Following[j.step]]
      /\ Passing(j).step = Following[j.step] /\ Passing(j).job = j.job
  BY DEF Passing, Job
<1>5. Failing(j).step = Following[j.step] /\ Failing(j).job # "success"
  BY <1>2, <1>4 DEF Failing, Job
<1>6. /\ Passing(j).head = j.head /\ Passing(j).exit = j.exit /\ Passing(j).post = j.post
      /\ Passing(j).attestation = j.attestation /\ Passing(j).verified = j.verified
  BY DEF Passing, Job
<1>7. /\ Failing(j).head = j.head /\ Failing(j).exit = j.exit /\ Failing(j).post = j.post
      /\ Failing(j).attestation = j.attestation /\ Failing(j).verified = j.verified
  BY <1>2, <1>6 DEF Failing, Job
<1>. QED
  BY <1>2, <1>3, <1>4, <1>5, <1>6, <1>7

LEMMA PrepareKeeps ==
  ASSUME IInv, NEW r \in Runs, Prepare(r)
  PROVE  IInv'
<1>1. run[r] \in Job /\ Progress(run[r]) /\ run[r].step = "prepare"
  BY Reached, StepsAre DEF Prepare
<1>2. CASE Becomes(r, [Passing(run[r]) EXCEPT !.token = TRUE])
  <2>. DEFINE p == Passing(run[r])
              j == [p EXCEPT !.token = TRUE]
  <2>0. /\ p \in Job /\ p.step = Following[run[r].step] /\ p.job = run[r].job
        /\ p.head = run[r].head /\ p.exit = run[r].exit /\ p.post = run[r].post
        /\ p.attestation = run[r].attestation /\ p.verified = run[r].verified
    BY <1>1, Fields, StepsAre
  <2>. HIDE DEF p
  <2>1. /\ j \in Job /\ j.step = Following[run[r].step] /\ j.job = run[r].job
        /\ j.head = run[r].head /\ j.exit = run[r].exit /\ j.post = run[r].post
        /\ j.attestation = run[r].attestation /\ j.verified = run[r].verified
    BY <2>0 DEF Job
  <2>. HIDE DEF j
  <2>2. Progress(j)
    BY <1>1, <2>1, JobAfter, StepsAre DEF Green
  <2>. QED
    BY <1>1, <1>2, <2>1, <2>2, QuietStep DEF Prepare, j, p, Published
<1>3. ASSUME NEW issued \in BOOLEAN, Becomes(r, [Failing(run[r]) EXCEPT !.token = issued])
      PROVE  IInv'
  <2>. DEFINE p == Failing(run[r])
              j == [p EXCEPT !.token = issued]
  <2>0. /\ p \in Job /\ p.step = Following[run[r].step] /\ p.job # "success"
        /\ p.head = run[r].head /\ p.exit = run[r].exit /\ p.post = run[r].post
        /\ p.attestation = run[r].attestation /\ p.verified = run[r].verified
    BY <1>1, Fields, StepsAre
  <2>. HIDE DEF p
  <2>1. /\ j \in Job /\ j.step = Following[run[r].step] /\ j.job # "success"
        /\ j.head = run[r].head /\ j.exit = run[r].exit /\ j.post = run[r].post
        /\ j.attestation = run[r].attestation /\ j.verified = run[r].verified
    BY <2>0 DEF Job
  <2>. HIDE DEF j
  <2>2. Progress(j)
    BY <1>1, <2>1, JobFailed, StepsAre DEF Green
  <2>. QED
    BY <1>1, <1>3, <2>1, <2>2, QuietStep DEF Prepare, j, p, Published
<1>. QED
  BY <1>2, <1>3 DEF Prepare

LEMMA VerifyHeadKeeps ==
  ASSUME IInv, NEW r \in Runs, NEW s \in {"verify_first", "verify_last"}, VerifyHead(r, s)
  PROVE  IInv'
<1>. DEFINE p == Passing(run[r])
            j == [p EXCEPT !.verified = @ \cup {s}]
<1>1. run[r] \in Job /\ Progress(run[r]) /\ run[r].step = s
  BY Reached, StepsAre DEF VerifyHead
<1>0. /\ p \in Job /\ p.step = Following[run[r].step] /\ p.job = run[r].job
      /\ p.head = run[r].head /\ p.exit = run[r].exit /\ p.post = run[r].post
      /\ p.attestation = run[r].attestation /\ p.verified = run[r].verified
  BY <1>1, Fields, StepsAre
<1>. HIDE DEF p
<1>2. /\ j \in Job /\ j.step = Following[run[r].step] /\ j.job = run[r].job
      /\ j.head = run[r].head /\ j.exit = run[r].exit /\ j.post = run[r].post
      /\ j.attestation = run[r].attestation /\ j.verified = run[r].verified \cup {s}
  BY <1>0 DEF Job
<1>. HIDE DEF j
<1>3. Progress(j)
  BY <1>1, <1>2, JobAfter, StepsAre DEF Green
<1>. QED
  BY <1>1, <1>2, <1>3, QuietStep DEF VerifyHead, j, p, Published

LEMMA ReproduceKeeps ==
  ASSUME IInv, NEW r \in Runs, Reproduce(r)
  PROVE  IInv'
<1>1. run[r] \in Job /\ Progress(run[r]) /\ run[r].step \in {"reproduce", "identity"}
  BY Reached, StepsAre DEF Reproduce
<1>2. run[r].step \in Steps
  BY <1>1, StepsAre
<1>3. Progress(Passing(run[r]))
  BY <1>1, <1>2, Fields, JobAfter DEF Green
<1>. QED
  BY <1>1, <1>2, <1>3, Fields, QuietStep DEF Reproduce, Published

LEMMA StepFailsKeeps ==
  ASSUME IInv, NEW r \in Runs, StepFails(r)
  PROVE  IInv'
<1>1. PICK s \in {"verify_first", "reproduce", "identity", "verify_last"} : At(r, s)
  BY DEF StepFails
<1>2. run[r] \in Job /\ Progress(run[r]) /\ run[r].step = s /\ s \in Steps
  BY <1>1, Reached, StepsAre
<1>3. Progress(Failing(run[r]))
  BY <1>1, <1>2, Fields, JobFailed DEF Green
<1>. QED
  BY <1>1, <1>2, <1>3, Fields, QuietStep DEF StepFails, Published

\* The review leaves its exit code, after a head that was verified.
LEMMA ReviewKeeps ==
  ASSUME IInv, NEW r \in Runs, Review(r)
  PROVE  IInv'
<1>. DEFINE p == Passing(run[r])
<1>1. /\ run[r] \in Job /\ Progress(run[r]) /\ run[r].step = "review"
      /\ run[r].job = "success"
  BY Reached, StepsAre DEF Review
<1>2. /\ p \in Job /\ p.step = "verify_last" /\ p.job = run[r].job
      /\ p.head = run[r].head /\ p.post = run[r].post /\ p.verified = run[r].verified
  BY <1>1, Fields, StepsAre, NextStep
<1>. HIDE DEF p
<1>3. PICK x \in {"0", "1"}, a \in Attestations \cup {NoAttestation} :
        Becomes(r, [p EXCEPT !.exit = x, !.attestation = a])
  BY DEF Review, p
<1>. DEFINE j == [p EXCEPT !.exit = x, !.attestation = a]
<1>4. /\ j \in Job /\ j.step = "verify_last" /\ j.head = run[r].head
      /\ j.post = run[r].post /\ j.verified = run[r].verified /\ j.exit \in {"0", "1"}
  BY <1>2 DEF Job
<1>. HIDE DEF j
<1>5. "verify_first" \in run[r].verified /\ run[r].post = "none"
  BY <1>1, StepsAre DEF Progress, BeforeVerified, Green
<1>6. Progress(j)
  BY <1>4, <1>5 DEF Progress, BeforeReviewed, Green
<1>7. prHead' \in Heads /\ checks' = checks /\ late' = late
  BY DEF IInv, Review
<1>8. j.post # "answered" /\ run[r].step \notin Published
  BY <1>1, <1>4, <1>5 DEF Published
<1>. QED
  BY <1>3, <1>4, <1>6, <1>7, <1>8, OneJob DEF j

\* What the publication makes of its job: the step after it, with its outcome.
LEMMA JobPublished ==
  ASSUME IInv, NEW r \in Runs, At(r, "publish"), NEW p \in {Passing(run[r]), Failing(run[r])},
         NEW outcome \in {"refused", "unanswered", "answered"},
         p.job = "success" => outcome = "answered"
  PROVE  LET j == [p EXCEPT !.post = outcome]
         IN  /\ j \in Job /\ Progress(j)
             /\ j.head = run[r].head /\ j.step = "fail_unless" /\ j.post = outcome
             /\ j.exit = run[r].exit /\ j.attestation = run[r].attestation
             /\ run[r] \in Job /\ run[r].step \notin Published
<1>1. run[r] \in Job /\ Progress(run[r]) /\ run[r].step = "publish"
  BY Reached, StepsAre
<1>2. /\ p \in Job /\ p.step = "fail_unless" /\ p.head = run[r].head
      /\ p.exit = run[r].exit /\ p.attestation = run[r].attestation
      /\ p.verified = run[r].verified
      /\ p.job = "success" => run[r].job = "success"
  BY <1>1, Fields, StepsAre, NextStep
<1>. DEFINE j == [p EXCEPT !.post = outcome]
<1>3. /\ j \in Job /\ j.step = "fail_unless" /\ j.head = run[r].head /\ j.post = outcome
      /\ j.exit = run[r].exit /\ j.attestation = run[r].attestation
      /\ j.verified = run[r].verified /\ j.job = p.job
  BY <1>2 DEF Job
<1>. HIDE DEF j
<1>4. Progress(j)
  BY <1>1, <1>2, <1>3 DEF Progress, BeforeVerified, BeforeReviewed, Green
<1>. QED
  BY <1>1, <1>3, <1>4 DEF j, Published

\* A check that is posted, or may be, is the one the job stands for from now on.
LEMMA PublishKeeps ==
  ASSUME IInv, NEW r \in Runs, Publish(r)
  PROVE  IInv'
<1>. DEFINE j == [Passing(run[r]) EXCEPT !.post = "answered"]
<1>1. /\ At(r, "publish") /\ Becomes(r, j) /\ checks' = checks \cup {CheckOf(r)}
      /\ late' = late /\ prHead' \in Heads
  BY DEF Publish, IInv
<1>2. /\ j \in Job /\ Progress(j)
      /\ j.head = run[r].head /\ j.step = "fail_unless"
      /\ j.exit = run[r].exit /\ j.attestation = run[r].attestation
      /\ run[r].step \notin Published
  BY <1>1, JobPublished
<1>. HIDE DEF j
<1>3. CheckOf(r)' = CheckOf(r)
  BY <1>1, <1>2 DEF CheckOf, Conclusion, Becomes, IInv
<1>4. \A c \in (checks \cup late)' : c \in checks \cup late \/ c = CheckOf(r)'
  BY <1>1, <1>3
<1>. QED
  BY <1>1, <1>2, <1>3, <1>4, OneJob DEF Published

LEMMA PublishFailsKeeps ==
  ASSUME IInv, NEW r \in Runs, PublishFails(r)
  PROVE  IInv'
<1>. DEFINE j == [Failing(run[r]) EXCEPT !.post = "refused"]
<1>1. At(r, "publish") /\ Becomes(r, j) /\ UNCHANGED <<prHead, checks, late>>
  BY DEF PublishFails
<1>2. Failing(run[r]).job # "success"
  BY <1>1, Reached, Fields, StepsAre
<1>3. /\ j \in Job /\ Progress(j) /\ j.head = run[r].head /\ j.post = "refused"
      /\ j.exit = run[r].exit /\ j.attestation = run[r].attestation
      /\ run[r].step \notin Published
  BY <1>1, <1>2, JobPublished
<1>. HIDE DEF j
<1>. QED
  BY <1>1, <1>3, QuietStep

LEMMA PublishTimesOutKeeps ==
  ASSUME IInv, NEW r \in Runs, PublishTimesOut(r)
  PROVE  IInv'
<1>. DEFINE j == [Failing(run[r]) EXCEPT !.post = "unanswered"]
<1>1. /\ At(r, "publish") /\ Becomes(r, j) /\ late' = late \cup {CheckOf(r)}
      /\ checks' = checks /\ prHead' \in Heads
  BY DEF PublishTimesOut, IInv
<1>2. Failing(run[r]).job # "success"
  BY <1>1, Reached, Fields, StepsAre
<1>3. /\ j \in Job /\ Progress(j)
      /\ j.head = run[r].head /\ j.step = "fail_unless" /\ j.post = "unanswered"
      /\ j.exit = run[r].exit /\ j.attestation = run[r].attestation
      /\ run[r].step \notin Published
  BY <1>1, <1>2, JobPublished
<1>. HIDE DEF j
<1>4. CheckOf(r)' = CheckOf(r)
  BY <1>1, <1>3 DEF CheckOf, Conclusion, Becomes, IInv
<1>5. \A c \in (checks \cup late)' : c \in checks \cup late \/ c = CheckOf(r)'
  BY <1>1, <1>4
<1>. QED
  BY <1>1, <1>3, <1>4, <1>5, OneJob DEF Published

LEMMA FailUnlessReviewedKeeps ==
  ASSUME IInv, NEW r \in Runs, FailUnlessReviewed(r)
  PROVE  IInv'
<1>. DEFINE j == Failing(run[r])
<1>1. run[r] \in Job /\ Progress(run[r]) /\ run[r].step = "fail_unless"
  BY Reached, StepsAre DEF FailUnlessReviewed
<1>2. /\ j \in Job /\ j.step = "enforce" /\ j.job # "success" /\ j.head = run[r].head
      /\ j.exit = run[r].exit /\ j.post = run[r].post
      /\ j.attestation = run[r].attestation /\ j.verified = run[r].verified
  BY <1>1, Fields, StepsAre, NextStep
<1>. HIDE DEF j
<1>3. Progress(j)
  BY <1>1, <1>2 DEF Progress, Green
<1>. QED
  BY <1>1, <1>2, <1>3, QuietStep DEF FailUnlessReviewed, j, Published

LEMMA EnforceVerdictKeeps ==
  ASSUME IInv, NEW r \in Runs, EnforceVerdict(r)
  PROVE  IInv'
<1>1. /\ run[r] \in Job /\ Progress(run[r]) /\ run[r].step = "enforce"
      /\ run[r].job = "success" /\ run[r].exit = "0"
  BY Reached, StepsAre DEF EnforceVerdict
<1>2. PICK j \in {Passing(run[r]), Failing(run[r])} :
        Becomes(r, j) /\ (j = Failing(run[r]) \/ Approves(run[r].attestation))
  BY DEF EnforceVerdict
<1>3. /\ j \in Job /\ j.step = "done" /\ j.head = run[r].head /\ j.exit = run[r].exit
      /\ j.post = run[r].post /\ j.attestation = run[r].attestation
      /\ j.verified = run[r].verified
      /\ j.job = "success" => Approves(j.attestation)
  BY <1>1, <1>2, Fields, StepsAre, NextStep
<1>4. Progress(j)
  BY <1>1, <1>3 DEF Progress, BeforeVerified, BeforeReviewed, Green
<1>. QED
  BY <1>1, <1>2, <1>3, <1>4, QuietStep DEF EnforceVerdict, Published

\* A job that is cancelled or lost is no longer a success.
LEMMA EndedKeeps ==
  ASSUME IInv, NEW r \in Runs, Cancel(r) \/ Lose(r)
  PROVE  IInv'
<1>1. run[r] \in Job /\ Progress(run[r])
  BY JobOfRun
<1>2. PICK s \in {run[r].step, "lost"}, result \in {"failure", "cancelled"} :
        Becomes(r, [run[r] EXCEPT !.step = s, !.job = result])
  <2>1. CASE Cancel(r)
    <3>1. [run[r] EXCEPT !.job = "cancelled"]
            = [run[r] EXCEPT !.step = run[r].step, !.job = "cancelled"]
      BY <1>1 DEF Job
    <3>. QED
      BY <2>1, <3>1 DEF Cancel
  <2>2. CASE Lose(r)
    BY <2>2 DEF Lose
  <2>. QED
    BY <2>1, <2>2
<1>. DEFINE j == [run[r] EXCEPT !.step = s, !.job = result]
<1>3. /\ j \in Job /\ j.step = s /\ j.job # "success" /\ j.head = run[r].head
      /\ j.exit = run[r].exit /\ j.post = run[r].post
      /\ j.attestation = run[r].attestation /\ j.verified = run[r].verified
  BY <1>1 DEF Job, Ends
<1>. HIDE DEF j
<1>4. Progress(j)
  BY <1>1, <1>3, StepsAre DEF Progress
<1>5. UNCHANGED <<prHead, checks, late>>
  BY DEF Cancel, Lose
<1>. QED
  BY <1>1, <1>2, <1>3, <1>4, <1>5, QuietStep DEF j, Published

\* The world moves without a job noticing.
LEMMA WorldKeeps ==
  ASSUME IInv, (\E c \in late : LatePublish(c)) \/ (\E h \in Heads : MovePr(h))
               \/ UNCHANGED vars
  PROVE  IInv'
<1>1. /\ prHead' \in Heads /\ run' = run
      /\ checks \subseteq checks' /\ (checks \cup late)' \subseteq checks \cup late
  BY DEF IInv, LatePublish, MovePr, vars
<1>2. \A r : CheckOf(r)' = CheckOf(r)
  BY <1>1 DEF CheckOf, Conclusion
<1>3. \A c \in (checks \cup late)' : Stands(c)'
  BY <1>1, <1>2 DEF IInv, Stands
<1>. QED
  BY <1>1, <1>2, <1>3 DEF IInv

-----------------------------------------------------------------------------
LEMMA InitKeeps == Init => IInv
<1>. SUFFICES ASSUME Init PROVE IInv
  OBVIOUS
<1>. DEFINE Fresh(h) ==
       [step |-> "prepare", job |-> "success", head |-> h, token |-> FALSE,
        verified |-> {}, exit |-> "", attestation |-> NoAttestation, post |-> "none"]
<1>1. ASSUME NEW h \in Heads
      PROVE  Fresh(h) \in Job /\ Progress(Fresh(h)) /\ Fresh(h).post = "none"
  BY StepsAre DEF Job, Progress, BeforeVerified, BeforeReviewed, Green
<1>2. run \in [Runs -> {Fresh(h) : h \in Heads}]
  BY DEF Init
<1>. HIDE DEF Fresh
<1>3. ASSUME NEW r \in Runs
      PROVE  run[r] \in Job /\ Progress(run[r]) /\ run[r].post = "none"
  BY <1>1, <1>2
<1>4. run \in [Runs -> Job]
  BY <1>2, <1>3
<1>. QED
  BY <1>3, <1>4 DEF Init, IInv

LEMMA NextKeeps == IInv /\ [Next]_vars => IInv'
<1>. SUFFICES ASSUME IInv, [Next]_vars PROVE IInv'
  OBVIOUS
<1>1. ASSUME NEW r \in Runs, Step(r) PROVE IInv'
  BY <1>1, SkipKeeps, PrepareKeeps, VerifyHeadKeeps, ReproduceKeeps, StepFailsKeeps,
     ReviewKeeps, PublishKeeps, PublishFailsKeeps, PublishTimesOutKeeps,
     FailUnlessReviewedKeeps, EnforceVerdictKeeps DEF Step
<1>2. ASSUME NEW r \in Runs, Cancel(r) \/ Lose(r) PROVE IInv'
  BY <1>2, EndedKeeps
<1>. QED
  BY <1>1, <1>2, WorldKeeps DEF Next

\* The jobs of all runs are as far as their steps say, and every check is the
\* one its run stands for.
THEOREM Inductive == Spec => []IInv
  BY InitKeeps, NextKeeps, PTL DEF Spec

\* Every job and every check is of its type, and a check is on the commit its
\* run was dispatched for (the payload of publish_review_check).
THEOREM Types == Spec => []TypeOK
<1>1. IInv => TypeOK
  <2>. SUFFICES ASSUME IInv PROVE TypeOK
    OBVIOUS
  <2>1. \A r \in Runs : run[r] \in Job
    BY DEF IInv
  <2>2. \A c \in checks \cup late : c.run \in Runs /\ c.head = run[c.run].head
    BY DEF IInv, Stands, CheckOf
  <2>. QED
    BY <2>1, <2>2 DEF TypeOK, IInv, Job
<1>. QED
  BY <1>1, Inductive, PTL

\* A success on a commit, posted or still on its way, is of a run that verified
\* the head, whose review ended with exit code 0 and an authorizing approval:
\* publish_review_check runs after failures and cancellations too.
THEOREM SuccessIsReviewed == Spec => []SuccessRestsOnReview
<1>1. IInv => SuccessRestsOnReview
  <2>. SUFFICES ASSUME IInv, NEW c \in checks \cup late, c.conclusion = "success"
                PROVE  /\ run[c.run].exit = "0" /\ PrintsApproval(run[c.run].attestation)
                       /\ "verify_first" \in run[c.run].verified
    BY DEF SuccessRestsOnReview
  <2>1. c.run \in Runs /\ c.conclusion = Conclusion(run[c.run])
    BY DEF IInv, Stands, CheckOf
  <2>2. run[c.run].exit = "0" /\ PrintsApproval(run[c.run].attestation)
    BY <2>1 DEF Conclusion
  <2>. QED
    BY <2>1, <2>2 DEF IInv, Progress
<1>. QED
  BY <1>1, Inductive, PTL

\* A run that ends green has its success check on its commit, and found the
\* pull request there before the review and after it.
THEOREM GreenIsSuccess == Spec => []GreenRunHasSuccess
<1>1. IInv => GreenRunHasSuccess
  <2>. SUFFICES ASSUME IInv, NEW r \in Runs, run[r].step = "done", run[r].job = "success"
                PROVE  /\ [run |-> r, head |-> run[r].head, conclusion |-> "success"] \in checks
                       /\ run[r].verified = {"verify_first", "verify_last"}
    BY DEF GreenRunHasSuccess
  <2>1. run[r] \in Job /\ Progress(run[r])
    BY JobOfRun
  <2>2. /\ run[r].exit = "0" /\ Approves(run[r].attestation) /\ run[r].post = "answered"
        /\ {"verify_first", "verify_last"} \subseteq run[r].verified
    BY <2>1 DEF Progress, BeforeVerified, Green
  <2>3. CheckOf(r) \in checks
    BY <2>2 DEF IInv
  <2>. QED
    BY <2>1, <2>2, <2>3 DEF CheckOf, Conclusion, Approves, PrintsApproval, Job
<1>. QED
  BY <1>1, Inductive, PTL

=============================================================================
