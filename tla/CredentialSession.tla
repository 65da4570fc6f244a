--------------------------- MODULE CredentialSession ---------------------------
(***************************************************************************)
(* The life of the target installation token inside one Actions phase:     *)
(* target_token(), _run_actions_phase() and the wrapper                     *)
(* run_actions_phase() of research_admission_github.                        *)
(*                                                                         *)
(* The phase uses the App key only behind its ratification gate, exchanges  *)
(* it for a token, works with the token, and tries to revoke it: in the     *)
(* wrapper's except clause, before the rejection is reported, and once more *)
(* in its finally clause when the first revocation was not confirmed.       *)
(* Exchange and revocation may take effect without the phase learning of    *)
(* it, now or later; the token expires on its own; the runner may be lost.  *)
(***************************************************************************)
EXTENDS Naturals

CONSTANT Phases   \* the phases that may be dispatched, out of "plan", "admit"

ASSUME PhasesAssumption == Phases \subseteq {"plan", "admit"}

VARIABLES
  phase,      \* the phase that was dispatched
  pc,         \* where the phase stands
  session,    \* the installation token at GitHub
  effects,    \* the flags run_actions_phase shares with target_token
  late,       \* requests that were given up on and may still take effect
  published,  \* publish_admission changed the branch or a check run
  sideEffect, \* AdmissionError.decision.external_side_effect as raised
  report      \* the decision fields the wrapper reports, "none" before

vars == <<phase, pc, session, effects, late, published, sideEffect, report>>

-----------------------------------------------------------------------------
\* Keys of the effects dict that are true, without their credential_ prefix.
Flags == {"use_started", "session_attempted", "session_issued", "target_client",
          "session_revoked", "revocation_unconfirmed"}

\* Steps between the gate and the result, and what follows each.
Following == [gate |-> "use_key", use_key |-> "identify", identify |-> "exchange",
              exchange |-> "scope", scope |-> "acquire", acquire |-> "reconcile",
              reconcile |-> "collect", collect |-> "publish",
              publish |-> "output", output |-> "finally"]

Ends == {"done", "crashed"}
Labels == DOMAIN Following \cup {"except", "report", "finally"} \cup Ends

\* Steps that call GitHub with the installation token.
TokenSteps == {"scope", "acquire", "collect"}

Proceed == pc' = Following[pc]
Fail == pc' = "except"

\* Mutant: the client is recorded under a key nobody reads.
RecordMisnamed(flags) ==
  effects' = effects \cup {IF f = "target_client" THEN "client" ELSE f : f \in flags}

Record(flags) == effects' = effects \cup flags

Init ==
  /\ phase \in Phases
  /\ pc = "gate"
  /\ session = "none"
  /\ effects = {}
  /\ late = {}
  /\ published = FALSE
  /\ sideEffect = FALSE
  /\ report = [outcome |-> "none"]

-----------------------------------------------------------------------------
\* Canonical main, workflow identity and ratification, before any credential.
PassGate ==
  /\ pc = "gate"
  /\ Proceed \/ Fail
  /\ UNCHANGED <<phase, session, effects, late, published, sideEffect, report>>

\* target_token: the use is recorded before the key is looked at.
UseKey ==
  /\ pc = "use_key"
  /\ Record({"use_started"})
  /\ Proceed \/ Fail
  /\ UNCHANGED <<phase, session, late, published, sideEffect, report>>

\* Mutant: the attempt is not recorded.
IdentifyOnly ==
  /\ pc = "identify"
  /\ Proceed \/ Fail
  /\ UNCHANGED <<phase, session, effects, late, published, sideEffect, report>>

\* GET /app must name the expected App; the exchange is then announced.
IdentifyApp ==
  /\ pc = "identify"
  /\ \/ Record({"session_attempted"}) /\ Proceed
     \/ Fail /\ UNCHANGED effects
  /\ UNCHANGED <<phase, session, late, published, sideEffect, report>>

\* POST access_tokens: a token, an error, or no answer.
Exchange ==
  /\ pc = "exchange"
  /\ \/ /\ session' = "open"
        /\ Record({"session_issued", "target_client"})
        /\ Proceed
        /\ UNCHANGED late
     \/ /\ late' \in {late, late \cup {"exchange"}}
        /\ Fail
        /\ UNCHANGED <<session, effects>>
  /\ UNCHANGED <<phase, published, sideEffect, report>>

\* Mutant: a step that fails is tried again.
PreparePolling ==
  /\ pc \in TokenSteps \cup {"reconcile"}
  /\ pc \in TokenSteps => session = "open"
  /\ Proceed
  /\ UNCHANGED <<phase, session, effects, late, published, sideEffect, report>>

\* Scope check of the token, candidate acquisition, reconciliation, facts.
Prepare ==
  /\ pc \in TokenSteps \cup {"reconcile"}
  /\ \/ (pc \in TokenSteps => session = "open") /\ Proceed
     \/ Fail
  /\ UNCHANGED <<phase, session, effects, late, published, sideEffect, report>>

\* The plan phase only builds its answer.  publish_admission ends well, or
\* raises with or without a side effect; AdmissionPublication says when.
Publish ==
  /\ pc = "publish"
  /\ \/ phase = "plan" /\ Proceed /\ UNCHANGED <<published, sideEffect>>
     \/ phase = "admit" /\ published' \in BOOLEAN /\ Proceed /\ UNCHANGED sideEffect
     \/ /\ phase = "admit"
        /\ \/ UNCHANGED <<published, sideEffect>>
           \/ published' \in BOOLEAN /\ sideEffect' = TRUE
        /\ Fail
  /\ UNCHANGED <<phase, session, effects, late, report>>

\* The result is written to disk: an OSError here rejects a publication that
\* has succeeded.
WriteOutput ==
  /\ pc = "output"
  /\ \/ Proceed /\ report' = [outcome |-> "result"]
     \/ Fail /\ UNCHANGED report
  /\ UNCHANGED <<phase, session, effects, late, published, sideEffect>>

-----------------------------------------------------------------------------
\* DELETE /installation/token: confirmed, refused, or not answered.
Revoke ==
  \/ /\ session = "open"
     /\ session' = "revoked"
     /\ Record({"session_revoked"})
     /\ UNCHANGED late
  \/ /\ late' \in {late, late \cup {"revoke"}}
     /\ Record({"revocation_unconfirmed"})
     /\ UNCHANGED session

NoClient == "target_client" \notin effects

\* The except clause revokes the token of a client it knows.
HandleFailure ==
  /\ pc = "except"
  /\ \/ NoClient /\ UNCHANGED <<session, effects, late>>
     \/ ~NoClient /\ Revoke
  /\ pc' = "report"
  /\ UNCHANGED <<phase, published, sideEffect, report>>

\* Mutant: a revocation that was asked for counts as one.
ReportRevocationAsked ==
  /\ pc = "report"
  /\ report' = [outcome     |-> "rejected",
                began       |-> sideEffect \/ "use_started" \in effects,
                side_effect |-> sideEffect \/ "session_attempted" \in effects,
                issued      |-> "session_issued" \in effects,
                revoked     |-> "target_client" \in effects]
  /\ pc' = "finally"
  /\ UNCHANGED <<phase, session, effects, late, published, sideEffect>>

\* What the rejection says of execution, side effects and the session.
Report ==
  /\ pc = "report"
  /\ report' = [outcome     |-> "rejected",
                began       |-> sideEffect \/ "use_started" \in effects,
                side_effect |-> sideEffect \/ "session_attempted" \in effects,
                issued      |-> "session_issued" \in effects,
                revoked     |-> "session_revoked" \in effects]
  /\ pc' = "finally"
  /\ UNCHANGED <<phase, session, effects, late, published, sideEffect>>

\* Mutant: only rejected phases revoke their token.
FinallyNothing ==
  /\ pc = "finally"
  /\ pc' = "done"
  /\ UNCHANGED <<phase, session, effects, late, published, sideEffect, report>>

\* The finally clause runs on both paths, and revokes what is not revoked.
Finally ==
  /\ pc = "finally"
  /\ \/ /\ NoClient \/ "session_revoked" \in effects
        /\ UNCHANGED <<session, effects, late>>
     \/ ~NoClient /\ "session_revoked" \notin effects /\ Revoke
  /\ pc' = "done"
  /\ UNCHANGED <<phase, published, sideEffect, report>>

-----------------------------------------------------------------------------
\* A request that was given up on takes effect.
LateExchange ==
  /\ "exchange" \in late
  /\ late' = late \ {"exchange"}
  /\ session' = "open"
  /\ UNCHANGED <<phase, pc, effects, published, sideEffect, report>>

LateRevoke ==
  /\ "revoke" \in late
  /\ late' = late \ {"revoke"}
  /\ session' = IF session = "open" THEN "revoked" ELSE session
  /\ UNCHANGED <<phase, pc, effects, published, sideEffect, report>>

\* Installation tokens live for one hour.
Expire ==
  /\ session = "open"
  /\ session' = "expired"
  /\ UNCHANGED <<phase, pc, effects, late, published, sideEffect, report>>

Crash ==
  /\ pc \notin Ends
  /\ pc' = "crashed"
  /\ UNCHANGED <<phase, session, effects, late, published, sideEffect, report>>

Step == \/ PassGate \/ UseKey \/ IdentifyApp \/ Exchange \/ Prepare \/ Publish
        \/ WriteOutput \/ HandleFailure \/ Report \/ Finally
World == LateExchange \/ LateRevoke \/ Expire \/ Crash

Next == Step \/ World
Spec == Init /\ [][Next]_vars

\* Calls answer or time out, so the phase keeps stepping unless it is killed.
FairSpec == Spec /\ WF_vars(Step)

-----------------------------------------------------------------------------
TypeOK ==
  /\ phase \in Phases
  /\ pc \in Labels
  /\ session \in {"none", "open", "revoked", "expired"}
  /\ effects \subseteq Flags
  /\ late \subseteq {"exchange", "revoke"}
  /\ published \in BOOLEAN /\ sideEffect \in BOOLEAN
  /\ report.outcome \in {"none", "result", "rejected"}

Rejected == report.outcome = "rejected"

\* "Execution/side-effect values describe the actual stage": a rejection that
\* reports no side effect has opened no session, not even by a request that
\* is still on its way, and has published nothing.
SideEffectsAreReported ==
  Rejected /\ ~report.side_effect =>
    session = "none" /\ late = {} /\ ~published

\* A session is reported as revoked only when it is, and a session the phase
\* held is never reported as not issued.
SessionIsReportedHonestly ==
  Rejected =>
    /\ report.revoked => session = "revoked"
    /\ ~report.issued => "target_client" \notin effects

\* "Sessions are revoked on completion/failure where confirmed": when a phase
\* has ended and its token is still good, either it never learned the token,
\* or a revocation of it was tried and got no confirmation.
OpenSessionIsKnown ==
  pc = "done" /\ session = "open" =>
    NoClient \/ "revocation_unconfirmed" \in effects

\* A phase that is not killed comes to an end, having reported.
PhaseEnds == <>(pc = "crashed" \/ (pc = "done" /\ report.outcome # "none"))
=============================================================================
