------------------------ MODULE CredentialSessionProofs ------------------------
(***************************************************************************)
(* What a phase reports of its session, for every interleaving of its steps *)
(* with requests that take effect late, expiry and the loss of the runner.  *)
(* The reports are true because of what the flags record before a request   *)
(* is made, and because a token the phase knows of cannot be exchanged for  *)
(* another behind its back.                                                 *)
(***************************************************************************)
EXTENDS CredentialSession, TLAPS

BeforeToken == {"gate", "use_key", "identify", "exchange"}
WithToken == {"scope", "acquire", "reconcile", "collect", "publish", "output"}

Rejections ==
  [outcome : {"rejected"}, began : BOOLEAN, side_effect : BOOLEAN, issued : BOOLEAN,
   revoked : BOOLEAN]

\* A request is only made when it has been announced.
Announced ==
  /\ session # "none" \/ late # {} \/ published => "session_attempted" \in effects
  /\ pc = "exchange" => "session_attempted" \in effects
  /\ "target_client" \in effects <=> "session_issued" \in effects
  /\ "target_client" \in effects => "session_attempted" \in effects

\* Where the phase stands says what it holds.
Holds ==
  /\ pc \in BeforeToken => NoClient /\ session = "none" /\ ~published
  /\ pc \in WithToken => ~NoClient
  /\ pc \in BeforeToken \cup WithToken => late = {} /\ "session_revoked" \notin effects

\* A token the phase knows of is its only one, and a confirmed revocation final.
Settled ==
  /\ ~NoClient => "exchange" \notin late
  /\ "session_revoked" \in effects => ~NoClient /\ session = "revoked"
  /\ pc = "done" => NoClient \/ "session_revoked" \in effects
                             \/ "revocation_unconfirmed" \in effects

\* A rejection repeats the flags, which no longer change but for a revocation.
Reported ==
  /\ report \in {[outcome |-> "none"], [outcome |-> "result"]} \cup Rejections
  /\ report \in Rejections =>
       /\ pc \in {"finally", "done", "crashed"}
       /\ report.side_effect <=> sideEffect \/ "session_attempted" \in effects
       /\ report.issued <=> "session_issued" \in effects
       /\ report.revoked => "session_revoked" \in effects

Types ==
  /\ phase \in Phases /\ pc \in Labels
  /\ session \in {"none", "open", "revoked", "expired"}
  /\ effects \subseteq Flags /\ late \subseteq {"exchange", "revoke"}
  /\ published \in BOOLEAN /\ sideEffect \in BOOLEAN

IInv == Types /\ Announced /\ Holds /\ Settled /\ Reported

-----------------------------------------------------------------------------
LEMMA LabelsAre ==
  Labels = BeforeToken \cup WithToken \cup {"except", "report", "finally", "done", "crashed"}
  BY DEF Labels, Following, BeforeToken, WithToken, Ends

LEMMA NextLabel ==
  /\ Following["gate"] = "use_key" /\ Following["use_key"] = "identify"
  /\ Following["identify"] = "exchange" /\ Following["exchange"] = "scope"
  /\ Following["scope"] = "acquire" /\ Following["acquire"] = "reconcile"
  /\ Following["reconcile"] = "collect" /\ Following["collect"] = "publish"
  /\ Following["publish"] = "output" /\ Following["output"] = "finally"
  BY DEF Following

LEMMA InitKeeps == Init => IInv
  BY LabelsAre DEF Init, IInv, Types, Announced, Holds, Settled, Reported, NoClient,
                   BeforeToken, WithToken, Rejections

LEMMA PassGateKeeps == IInv /\ PassGate => IInv'
  BY LabelsAre, NextLabel
  DEF IInv, Types, Announced, Holds, Settled, Reported, NoClient, BeforeToken, WithToken,
      PassGate, Proceed, Fail, Rejections

LEMMA UseKeyKeeps == IInv /\ UseKey => IInv'
  BY LabelsAre, NextLabel
  DEF IInv, Types, Announced, Holds, Settled, Reported, NoClient, BeforeToken, WithToken,
      UseKey, Proceed, Fail, Record, Flags, Rejections

LEMMA IdentifyAppKeeps == IInv /\ IdentifyApp => IInv'
<1>. SUFFICES ASSUME IInv, IdentifyApp PROVE IInv'
  OBVIOUS
<1>1. /\ pc = "identify"
      /\ UNCHANGED <<phase, session, late, published, sideEffect, report>>
      /\ \/ pc' = "exchange" /\ effects' = effects \cup {"session_attempted"}
         \/ pc' = "except" /\ effects' = effects
  BY NextLabel DEF IdentifyApp, Record, Proceed, Fail
<1>2. report \notin Rejections
  BY <1>1 DEF IInv, Reported
<1>3. Types' /\ Announced'
  BY <1>1, LabelsAre DEF IInv, Types, Announced, Flags, BeforeToken, WithToken
<1>4. Holds' /\ Settled' /\ Reported'
  BY <1>1, <1>2 DEF IInv, Holds, Settled, Reported, NoClient, BeforeToken, WithToken
<1>. QED
  BY <1>3, <1>4 DEF IInv

LEMMA ExchangeKeeps == IInv /\ Exchange => IInv'
  BY LabelsAre, NextLabel
  DEF IInv, Types, Announced, Holds, Settled, Reported, NoClient, BeforeToken, WithToken,
      Exchange, Proceed, Fail, Record, Flags, Rejections

LEMMA PrepareKeeps == IInv /\ Prepare => IInv'
  BY LabelsAre, NextLabel
  DEF IInv, Types, Announced, Holds, Settled, Reported, NoClient, BeforeToken, WithToken,
      Prepare, Proceed, Fail, TokenSteps, Rejections

LEMMA PublishKeeps == IInv /\ Publish => IInv'
<1>. SUFFICES ASSUME IInv, Publish PROVE IInv'
  OBVIOUS
<1>1. /\ pc = "publish" /\ pc' \in {"output", "except"}
      /\ published' \in BOOLEAN /\ sideEffect' \in BOOLEAN
      /\ UNCHANGED <<phase, session, effects, late, report>>
  BY NextLabel DEF Publish, Proceed, Fail, IInv, Types
<1>2. "session_attempted" \in effects /\ report \notin Rejections
  BY <1>1 DEF IInv, Announced, Holds, Reported, NoClient, WithToken
<1>3. Types' /\ Announced' /\ Settled' /\ Reported'
  BY <1>1, <1>2, LabelsAre
  DEF IInv, Types, Announced, Settled, Reported, NoClient, BeforeToken, WithToken
<1>4. Holds'
  BY <1>1 DEF IInv, Holds, NoClient, BeforeToken, WithToken
<1>. QED
  BY <1>3, <1>4 DEF IInv

LEMMA WriteOutputKeeps == IInv /\ WriteOutput => IInv'
  BY LabelsAre, NextLabel
  DEF IInv, Types, Announced, Holds, Settled, Reported, NoClient, BeforeToken, WithToken,
      WriteOutput, Proceed, Fail, Rejections

\* A revocation, answered or not, keeps what is recorded.
LEMMA RevokeKeeps ==
  ASSUME IInv, Revoke, ~NoClient, "session_revoked" \notin effects
  PROVE  /\ session' \in {"none", "open", "revoked", "expired"}
         /\ effects \subseteq effects' /\ effects' \subseteq Flags
         /\ effects' \subseteq effects \cup {"session_revoked", "revocation_unconfirmed"}
         /\ late \subseteq late' /\ late' \subseteq late \cup {"revoke"}
         /\ "session_revoked" \in effects' => session' = "revoked"
         /\ {"session_revoked", "revocation_unconfirmed"} \cap effects' # {}
  BY DEF IInv, Types, Revoke, Record, Flags

LEMMA HandleFailureKeeps == IInv /\ HandleFailure => IInv'
<1>. SUFFICES ASSUME IInv, HandleFailure PROVE IInv'
  OBVIOUS
<1>. QED
  BY RevokeKeeps, LabelsAre
  DEF IInv, Types, Announced, Holds, Settled, Reported, NoClient, BeforeToken, WithToken,
      HandleFailure, Revoke, Record, Flags, Rejections

LEMMA ReportKeeps == IInv /\ Report => IInv'
<1>. SUFFICES ASSUME IInv, Report PROVE IInv'
  OBVIOUS
<1>1. /\ pc = "report" /\ pc' = "finally"
      /\ UNCHANGED <<phase, session, effects, late, published, sideEffect>>
  BY DEF Report
<1>2. /\ report' \in Rejections
      /\ report'.side_effect <=> sideEffect \/ "session_attempted" \in effects
      /\ report'.issued <=> "session_issued" \in effects
      /\ report'.revoked => "session_revoked" \in effects
  <2>. DEFINE a == sideEffect \/ "use_started" \in effects
              b == sideEffect \/ "session_attempted" \in effects
              c == "session_issued" \in effects
              d == "session_revoked" \in effects
  <2>1. a \in BOOLEAN /\ b \in BOOLEAN /\ c \in BOOLEAN /\ d \in BOOLEAN
    OBVIOUS
  <2>2. report' = [outcome |-> "rejected", began |-> a, side_effect |-> b,
                   issued |-> c, revoked |-> d]
    BY Zenon DEF Report
  <2>. HIDE DEF a, b, c, d
  <2>3. /\ report' \in Rejections
        /\ report'.side_effect = b /\ report'.issued = c /\ report'.revoked = d
    BY <2>1, <2>2 DEF Rejections
  <2>. QED
    BY <2>3 DEF b, c, d
<1>3. Types' /\ Announced' /\ Holds' /\ Settled'
  BY <1>1, LabelsAre
  DEF IInv, Types, Announced, Holds, Settled, NoClient, BeforeToken, WithToken
<1>4. Reported'
  BY <1>1, <1>2 DEF Reported
<1>. QED
  BY <1>3, <1>4 DEF IInv

LEMMA FinallyKeeps == IInv /\ Finally => IInv'
<1>. SUFFICES ASSUME IInv, Finally PROVE IInv'
  OBVIOUS
<1>1. pc = "finally" /\ pc' = "done" /\ UNCHANGED <<phase, published, sideEffect, report>>
  BY DEF Finally
<1>2. CASE (NoClient \/ "session_revoked" \in effects) /\ UNCHANGED <<session, effects, late>>
  <2>1. Types' /\ Announced' /\ Holds' /\ Settled'
    BY <1>1, <1>2, LabelsAre
    DEF IInv, Types, Announced, Holds, Settled, NoClient, BeforeToken, WithToken
  <2>2. Reported'
    BY <1>1, <1>2 DEF IInv, Reported
  <2>. QED
    BY <2>1, <2>2 DEF IInv
<1>3. CASE ~NoClient /\ "session_revoked" \notin effects /\ Revoke
  <2>1. Types'
    BY <1>1, <1>3, RevokeKeeps, LabelsAre DEF IInv, Types
  <2>2. Announced' /\ Holds'
    BY <1>1, <1>3, RevokeKeeps
    DEF IInv, Announced, Holds, NoClient, BeforeToken, WithToken
  <2>3. Settled'
    BY <1>1, <1>3, RevokeKeeps DEF IInv, Announced, Settled, NoClient
  <2>4. Reported'
    BY <1>1, <1>3, RevokeKeeps DEF IInv, Reported
  <2>. QED
    BY <2>1, <2>2, <2>3, <2>4 DEF IInv
<1>. QED
  BY <1>2, <1>3 DEF Finally

LEMMA WorldKeeps == IInv /\ (World \/ UNCHANGED vars) => IInv'
<1>. SUFFICES ASSUME IInv, World \/ UNCHANGED vars PROVE IInv'
  OBVIOUS
<1>1. UNCHANGED <<phase, effects, published, sideEffect, report>> /\ late' \subseteq late
  BY DEF World, LateExchange, LateRevoke, Expire, Crash, vars
<1>2. pc' = pc \/ pc' = "crashed"
  BY DEF World, LateExchange, LateRevoke, Expire, Crash, vars
<1>3. \/ session' = session
      \/ session' = "open" /\ "exchange" \in late
      \/ session' \in {"revoked", "expired"} /\ session = "open"
  BY DEF World, LateExchange, LateRevoke, Expire, Crash, vars
<1>4. Types'
  BY <1>1, <1>2, <1>3, LabelsAre DEF IInv, Types
<1>5. Announced'
  BY <1>1, <1>2, <1>3 DEF IInv, Announced
<1>6. Holds'
  BY <1>1, <1>2, <1>3 DEF IInv, Holds, NoClient, BeforeToken, WithToken
<1>7. Settled'
  BY <1>1, <1>2, <1>3 DEF IInv, Settled, NoClient
<1>8. Reported'
  BY <1>1, <1>2 DEF IInv, Reported
<1>. QED
  BY <1>4, <1>5, <1>6, <1>7, <1>8 DEF IInv

\* The flags, the session at GitHub and the requests still on their way fit
\* together at every moment of a phase.
THEOREM Inductive == Spec => []IInv
<1>1. IInv /\ [Next]_vars => IInv'
  BY PassGateKeeps, UseKeyKeeps, IdentifyAppKeeps, ExchangeKeeps, PrepareKeeps, PublishKeeps,
     WriteOutputKeeps, HandleFailureKeeps, ReportKeeps, FinallyKeeps, WorldKeeps
  DEF Next, Step
<1>. QED
  BY <1>1, InitKeeps, PTL DEF Spec

\* Every variable of a phase keeps its type.
THEOREM TypeCorrect == Spec => []TypeOK
<1>1. IInv => TypeOK
  BY DEF IInv, Types, Reported, TypeOK, Rejections
<1>. QED
  BY <1>1, Inductive, PTL

\* A rejection that denies a side effect has had none, not even by an exchange
\* it gave up on: target_token announces the attempt before it makes it.
THEOREM NoHiddenSideEffect == Spec => []SideEffectsAreReported
<1>1. IInv => SideEffectsAreReported
  BY DEF IInv, Types, Announced, Reported, SideEffectsAreReported, Rejected, Rejections
<1>. QED
  BY <1>1, Inductive, PTL

\* A rejection calls the session revoked only when it is, and never denies a
\* session whose client _run_actions_phase held.
THEOREM HonestReport == Spec => []SessionIsReportedHonestly
<1>1. IInv => SessionIsReportedHonestly
  BY DEF IInv, Announced, Settled, Reported, SessionIsReportedHonestly, Rejected, Rejections
<1>. QED
  BY <1>1, Inductive, PTL

\* A phase that ends with a live token never learned of it, or has tried to
\* revoke it without a confirmation (except and finally of run_actions_phase).
THEOREM OpenIsKnown == Spec => []OpenSessionIsKnown
<1>1. IInv => OpenSessionIsKnown
  BY DEF IInv, Settled, OpenSessionIsKnown
<1>. QED
  BY <1>1, Inductive, PTL
=============================================================================
