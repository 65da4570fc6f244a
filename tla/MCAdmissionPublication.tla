------------------------ MODULE MCAdmissionPublication ------------------------
(* Instances of AdmissionPublication for TLC.                               *)
EXTENDS AdmissionPublicationInv

CONSTANTS a1, a2, r1, r2

\* Every attempt belongs to the same workflow run: re-runs of one dispatch.
OneRun == [a \in Attempts |-> r1]

\* One attempt of its own workflow run, the others of another one.
TwoRuns == [a \in Attempts |-> IF a = a1 THEN r1 ELSE r2]
=============================================================================
