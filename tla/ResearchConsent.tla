---------------------------- MODULE ResearchConsent ----------------------------
(***************************************************************************)
(* What the admission workflow promises the person who authorizes: a run    *)
(* is open until the approval history says something; one clear consent     *)
(* passes if it still holds at the last reads; only then may success be     *)
(* shown and the run be admitted, at once or by a late write; and a run     *)
(* that has lost what the consent rests on stays void, whatever is re-run,  *)
(* approved again, applied late or put back.                                *)
(***************************************************************************)
CONSTANT Runs

VARIABLE fate  \* what may still become of each run

Fates == {"open", "consented", "passed", "void", "admitted"}

Turns == {<<"open", "consented">>, <<"open", "void">>,
          <<"consented", "void">>, <<"consented", "passed">>,
          <<"passed", "void">>, <<"passed", "admitted">>}

Unspoken == fate = [r \in Runs |-> "open"]

\* Time, main and the ratification may void several runs at once.
Turn ==
  /\ fate' \in [Runs -> Fates]
  /\ \A r \in Runs : fate'[r] = fate[r] \/ <<fate[r], fate'[r]>> \in Turns
  /\ \A r \in Runs : fate'[r] = "admitted" => \A s \in Runs \ {r} : fate'[s] # "admitted"

ConsentSpec == Unspoken /\ [][Turn]_fate
=============================================================================
