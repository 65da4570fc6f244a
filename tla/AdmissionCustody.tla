--------------------------- MODULE AdmissionCustody ---------------------------
(***************************************************************************)
(* What publication promises of one scope, whatever happens to the         *)
(* attempts that perform it: the scope is reserved once, for one holder;    *)
(* only the holder ever has a check run; the check is completed only under  *)
(* a receipt in custody; ADMITTED follows a completed check; and a check    *)
(* may be withdrawn at any time.                                            *)
(***************************************************************************)
CONSTANTS Attempts, None

VARIABLES
  stage,    \* how far custody of the scope has got
  holder,   \* the attempt the scope is reserved for
  checks    \* conclusion of each attempt's check run

custodyVars == <<stage, holder, checks>>

Free ==
  /\ stage = "none"
  /\ holder = None
  /\ checks = [a \in Attempts |-> "absent"]

Advance(from, to) == /\ stage = from
                     /\ stage' = to

Reserve ==
  /\ Advance("none", "RESERVED")
  /\ holder' \in Attempts
  /\ UNCHANGED checks

\* A conclusion of the holder's check, the only one that ever changes.
Conclude(conclusion) ==
  /\ checks' = [checks EXCEPT ![holder] = conclusion]
  /\ UNCHANGED <<stage, holder>>

OpenCheck ==
  /\ stage = "RESERVED"
  /\ checks[holder] = "absent"
  /\ Conclude("in_progress")

Persist ==
  /\ Advance("RESERVED", "RECEIPT_PERSISTED")
  /\ checks[holder] # "absent"
  /\ UNCHANGED <<holder, checks>>

\* Possible after a withdrawal too: an answerless completion may arrive late.
Complete ==
  /\ stage = "RECEIPT_PERSISTED"
  /\ checks[holder] # "absent"
  /\ Conclude("success")

Admit ==
  /\ Advance("RECEIPT_PERSISTED", "ADMITTED")
  /\ checks[holder] \in {"success", "cancelled"}
  /\ UNCHANGED <<holder, checks>>

Withdraw ==
  /\ holder # None
  /\ checks[holder] # "absent"
  /\ Conclude("cancelled")

CustodyNext == Reserve \/ OpenCheck \/ Persist \/ Complete \/ Admit \/ Withdraw

CustodySpec == Free /\ [][CustodyNext]_custodyVars
=============================================================================
