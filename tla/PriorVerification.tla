--------------------------- MODULE PriorVerification ---------------------------
(***************************************************************************)
(* The command prior-verify (run_prior_verification) and the workflow       *)
(* prior-release-verify around it.                                          *)
(*                                                                         *)
(* What changed is read from git objects.  The evidence is read from files  *)
(* of a checkout, one after the other and some of them twice, while at a    *)
(* desk somebody may still be editing them; on a runner the checkout is the *)
(* candidate's head and nothing else writes there.  A file is known by its  *)
(* bytes, and equal digests are equal bytes.  Facts the evidence states     *)
(* (counts, classifications, dispositions) may or may not satisfy the code: *)
(* Reject.                                                                  *)
(***************************************************************************)
EXTENDS Naturals, Sequences

CONSTANTS
  Claims,    \* what the pinned documents may say about other files
  MaxEdits   \* bound: edits of the checkout

VARIABLES
  profile,   \* which verification the policy asks for
  place,     \* "runner" or "desk"
  blob,      \* at the candidate's head, the artifact in git: 0 is deleted
  declared,  \* the payload the policy expects of the artifact, 0 is none
  says,      \* what the pinned documents say about other files
  work,      \* the checkout
  edits,     \* edits so far
  todo,      \* checks still to be made
  used,      \* the bytes each check has used
  verdict,   \* "", "PASS" (evidence is written) or "REJECT"
  job,       \* the workflow's job
  checks     \* conclusions posted by the job

given == <<profile, place, blob, declared, says>>
vars == <<given, work, edits, todo, used, verdict, job, checks>>

\* Bytes: 1 is what a policy or a root pins, 2 is another version, 10 + k is
\* the text of an LFS pointer to payload k; 0 is no file.
Pin == 1
Payloads == {1, 2}
PointerTo(payload) == 10 + payload
Pointers == {PointerTo(payload) : payload \in Payloads}
PayloadOf(pointer) == pointer - 10

\* The documents that carry their own digest are read once; the rest of the
\* files is hashed.  The artifact is a receipt, an entry of a listing or a
\* required file, depending on the profile.
Identified == {"inputs", "registry", "result", "envelope", "manifest"}
Hashed == {"ledger", "source", "artifact", "listing", "root_manifest", "code"}
Files == Identified \cup Hashed
Uses == Files \cup {"scope", "required", "chronology", "listing_again", "computed",
                    "large", "root", "root_files"}

\* A document as it is read: its bytes without the identity, the identity.
Contents(f) ==
  {c \in [bytes : {0} \cup Payloads \cup Pointers, id : {0} \cup Payloads] :
     /\ c.bytes \in Pointers => f = "artifact"
     /\ f \notin Identified \/ c.bytes = 0 => c.id = 0
     /\ f \in Identified /\ c.bytes # 0 => c.id # 0}

\* What a document with these bytes says about a file (0: nothing).
Says(document, bytes, file) ==
  IF bytes = Pin THEN says[document][file] ELSE bytes

-----------------------------------------------------------------------------
(* The checks of each profile, in the order of the code.                    *)

\* The extended checks, asked for by the policy or by a file of the evidence.
Section4Checks == <<"sources", "chronology">>
Cra05yChecks(extended) ==
  <<"scope", "inputs", "registry", "ledger", "result", "envelope", "receipts",
    "manifest">> \o (IF extended THEN Section4Checks ELSE <<>>) \o <<"large">>
CausalisB1Checks == <<"scope", "listing", "listed", "large">>
Atlas01aChecks == <<"scope", "listing", "listed", "large">>
Cdl00aChecks == <<"scope", "listing", "listed", "large">>
CausalisB2Checks == <<"scope", "required", "computed", "large">>
CausalisB2R1Checks == <<"scope", "required", "listing", "listed", "computed", "large">>
ReleaseChecks ==
  <<"root", "root_manifest", "root_files", "load", "scope", "listing", "exact",
    "listing_again">>

Listing == {"causalis_b1_01a", "atlas_01a", "cdl_00a"}
Computing == {"causalis_b2", "causalis_b2_r1"}
Profiles == {"cra_05y", "release"} \cup Listing \cup Computing

ChecksOf(p) ==
  CASE p = "causalis_b1_01a" -> {CausalisB1Checks}
    [] p = "atlas_01a" -> {Atlas01aChecks}
    [] p = "cdl_00a" -> {Cdl00aChecks}
    [] p = "causalis_b2" -> {CausalisB2Checks}
    [] p = "causalis_b2_r1" -> {CausalisB2R1Checks}
    [] p = "release" -> {ReleaseChecks}
    [] OTHER -> {Cra05yChecks(extended) : extended \in BOOLEAN}

Workflow == profile = "release" /\ place = "runner"

NoJob == [phase |-> "verify", state |-> "success", token |-> FALSE, exit |-> ""]

\* A large file is checked out as its payload, or as its pointer where LFS
\* does not smudge.
CheckedOut(b) == IF b \in Pointers THEN {b, PayloadOf(b)} ELSE {b}

Init ==
  /\ profile \in Profiles /\ place \in {"runner", "desk"}
  /\ blob \in {0} \cup Payloads \cup Pointers
  /\ declared \in {0} \cup Payloads /\ (profile # "cra_05y" => declared = 0)
  /\ says \in Claims
  /\ \E artifact \in CheckedOut(blob) :
       work = [f \in Files |-> [bytes |-> IF f = "artifact" THEN artifact ELSE Pin,
                                id |-> IF f \in Identified THEN Pin ELSE 0]]
  /\ edits = 0
  /\ todo \in ChecksOf(profile)
  /\ used = [u \in Uses |-> 0]
  /\ verdict = ""
  /\ job = IF Workflow THEN [NoJob EXCEPT !.phase = "prepare"] ELSE NoJob
  /\ checks = {}

-----------------------------------------------------------------------------
(* The checkout.                                                            *)

\* What a verification reads; edits elsewhere are of no account.
Reads == CASE profile = "cra_05y" -> Identified \cup {"ledger", "source", "artifact"}
           [] profile = "release" -> {"root_manifest", "code", "listing", "artifact"}
           [] OTHER -> {"listing", "artifact"}

\* Before the verification this is the candidate's author (or, for the prior
\* release, whoever moved it); during it, somebody at the same desk.
Edit(f) ==
  /\ f \in Reads /\ edits < MaxEdits /\ verdict = ""
  /\ place = "runner" => todo \in ChecksOf(profile) /\ f # "artifact"
  /\ \E c \in Contents(f) : work' = [work EXCEPT ![f] = c]
  /\ edits' = edits + 1
  /\ UNCHANGED <<given, todo, used, verdict, job, checks>>

-----------------------------------------------------------------------------
(* The verification.                                                        *)

At(check) == job.phase = "verify" /\ verdict = "" /\ Head(todo) = check

\* The check passes, having used these bytes.  After the last one the
\* evidence is written.
Passes(use, bytes) ==
  /\ used' = [used EXCEPT ![use] = bytes]
  /\ todo' = Tail(todo)
  /\ verdict' = IF Len(todo) = 1 THEN "PASS" ELSE ""
  /\ UNCHANGED <<given, work, edits, job, checks>>

Bytes(f) == work[f].bytes
Present(f) == Bytes(f) # 0
SelfConsistent(f) == Present(f) /\ work[f].id = Bytes(f)

\* Any check may fail, for what it finds or for a fact that is not modelled.
Reject ==
  /\ job.phase = "verify" /\ verdict = ""
  /\ verdict' = "REJECT"
  /\ UNCHANGED <<given, work, edits, todo, used, job, checks>>

\* The paths of the changed records, taken from git objects; a sealed or a
\* forbidden one rejects.
Scope == At("scope") /\ Passes("scope", 0)

\* Mutant: the identity a document claims is compared with the pin, and not
\* the digest of its contents.
PinnedByClaim(f) == At(f) /\ Present(f) /\ work[f].id = Pin /\ Passes(f, Bytes(f))

\* Inputs, registry, result and envelope.
Pinned(f) == At(f) /\ SelfConsistent(f) /\ Bytes(f) = Pin /\ Passes(f, Bytes(f))

Ledger == At("ledger") /\ Bytes("ledger") = Pin /\ Passes("ledger", Bytes("ledger"))

\* A receipt that is an LFS pointer stands for the payload it names.
StandsFor(bytes) == IF bytes \in Pointers THEN PayloadOf(bytes) ELSE bytes

Receipts ==
  LET expected == Says("envelope", used["envelope"], "artifact") IN
  /\ At("receipts")
  /\ expected # 0 => StandsFor(Bytes("artifact")) = expected
  /\ Passes("artifact", StandsFor(Bytes("artifact")))

\* Mutant: the registry is read again to learn which manifest it names.
ManifestOfReadAgain ==
  /\ At("manifest") /\ SelfConsistent("manifest")
  /\ Bytes("manifest") = Says("registry", Bytes("registry"), "manifest")
  /\ Passes("manifest", Bytes("manifest"))

Manifest ==
  /\ At("manifest") /\ SelfConsistent("manifest")
  /\ Bytes("manifest") = Says("registry", used["registry"], "manifest")
  /\ Passes("manifest", Bytes("manifest"))

\* Section 4: the implementation files, then the ledger once more for the
\* order of its attempts.
Sources ==
  /\ At("sources") /\ Bytes("source") = Says("registry", used["registry"], "source")
  /\ Passes("source", Bytes("source"))

Chronology ==
  At("chronology") /\ Present("ledger") /\ Passes("chronology", Bytes("ledger"))

\* A list of files with their digests: a manifest, or the preserved files of
\* b2_r1.
ReadListing ==
  At("listing") /\ Present("listing") /\ Passes("listing", Bytes("listing"))

Entry == Says("listing", used["listing"], "artifact")

Listed ==
  /\ At("listed")
  /\ Entry # 0 => Bytes("artifact") = Entry
  /\ Passes("artifact", Bytes("artifact"))

Required ==
  At("required") /\ Present("artifact") /\ Passes("required", 0)

\* The payload map of b2 and b2_r1 is made of digests computed here.
Computed ==
  At("computed") /\ Present("artifact") /\ Passes("computed", Bytes("artifact"))

\* Mutant: only the files the policy names are looked at, not every pointer.
DeclaredOnly == declared # 0

IsLarge == declared # 0 \/ blob \in Pointers

\* The policy, then what the evidence lists under the path or the name: the
\* envelope over the registry over the manifest, or the one map of a profile.
Expected ==
  LET said(d) == Says(d, used[d], "artifact")
      first(a, b) == IF a # 0 THEN a ELSE b
      listed == CASE profile = "cra_05y" ->
                       first(said("envelope"), first(said("registry"), said("manifest")))
                  [] profile \in Listing -> Entry
                  [] OTHER -> used["computed"]
  IN first(declared, listed)

\* A deleted file is passed over; a large one has to be a pointer in git.
Large ==
  /\ At("large")
  /\ \/ blob = 0 \/ ~IsLarge
     \/ blob \in Pointers /\ PayloadOf(blob) = Expected
  /\ Passes("large", 0)

-----------------------------------------------------------------------------
(* The previous release of the control plane, whose code judges the paths.  *)

\* Its checkout is at the root's commit and clean.
Root == At("root") /\ Bytes("root_manifest") = Pin /\ Bytes("code") = Pin
                  /\ Passes("root", 0)

RootManifest ==
  /\ At("root_manifest") /\ Bytes("root_manifest") = Pin
  /\ Passes("root_manifest", Bytes("root_manifest"))

\* The manifest is read again for its entries.
RootFiles ==
  /\ At("root_files")
  /\ Bytes("code") = Says("root_manifest", Bytes("root_manifest"), "code")
  /\ Present("code") /\ Passes("root_files", 0)

Load == At("load") /\ Present("code") /\ Passes("code", Bytes("code"))

\* Mutant: a file of the release the manifest does not list is let pass.
ListedOnly ==
  /\ At("exact")
  /\ Entry # 0 => Bytes("artifact") = Entry
  /\ Passes("artifact", Bytes("artifact"))

\* The candidate's release manifest lists its files, all of them, as they are.
Exact ==
  /\ At("exact") /\ Bytes("artifact") = Entry
  /\ Passes("artifact", Bytes("artifact"))

\* The digest of the manifest that goes into the evidence is of a second read.
ListingAgain ==
  /\ At("listing_again") /\ Present("listing")
  /\ Passes("listing_again", Bytes("listing"))

Verify ==
  \/ Scope \/ (\E f \in Identified \ {"manifest"} : Pinned(f)) \/ Ledger \/ Receipts
  \/ Manifest \/ Sources \/ Chronology \/ ReadListing \/ Listed \/ Required
  \/ Computed \/ Large \/ Root \/ RootManifest \/ RootFiles \/ Load \/ Exact
  \/ ListingAgain \/ Reject

-----------------------------------------------------------------------------
(* The workflow.                                                            *)

Keep == UNCHANGED <<given, work, edits, todo, used, verdict>>

\* Authority main, App token, checkouts; the token may outlive a failure, and
\* a step without an "if" is skipped after one.
Prepare ==
  /\ job.phase = "prepare"
  /\ \/ job' = [job EXCEPT !.phase = "verify", !.token = TRUE]
     \/ \E issued \in BOOLEAN :
          job' = [job EXCEPT !.phase = "publish", !.token = issued, !.state = "failure"]
  /\ UNCHANGED checks /\ Keep

\* The step keeps the exit code and never fails.
VerifyEnds ==
  /\ Workflow /\ job.phase = "verify" /\ verdict # ""
  /\ job' = [job EXCEPT !.phase = "publish", !.exit = IF verdict = "PASS" THEN "0" ELSE "1"]
  /\ UNCHANGED checks /\ Keep

\* The check is published by a cancelled job as well.
Cancel ==
  /\ Workflow /\ job.phase # "done" /\ job.state # "cancelled"
  /\ \E issued \in IF job.phase = "prepare" THEN BOOLEAN ELSE {job.token} :
       job' = [job EXCEPT !.state = "cancelled", !.token = issued,
                          !.phase = IF @ = "fail" THEN "done" ELSE "publish"]
  /\ UNCHANGED checks /\ Keep

\* Mutant: everything that is not a rejection is a success.
UnlessRejected == IF job.exit = "1" THEN "failure" ELSE "success"

Conclusion == IF job.exit = "0" THEN "success" ELSE "failure"

Publish ==
  /\ job.phase = "publish" /\ job.token
  /\ checks' = checks \cup {Conclusion}
  /\ job' = [job EXCEPT !.phase = "fail"]
  /\ Keep

\* Without a token, refused, or posted without an answer.
PublishFails ==
  /\ job.phase = "publish"
  /\ checks' \in {checks} \cup (IF job.token THEN {checks \cup {Conclusion}} ELSE {})
  /\ job' = [job EXCEPT !.phase = "fail", !.state = IF @ = "success" THEN "failure" ELSE @]
  /\ Keep

\* exit 1 unless the exit code is 0, in a job that has not failed yet.
FailWhenRejected ==
  /\ job.phase = "fail"
  /\ job' = [job EXCEPT !.phase = "done",
                        !.state = IF @ = "success" /\ job.exit # "0" THEN "failure" ELSE @]
  /\ UNCHANGED checks /\ Keep

Next == \/ \E f \in Files : Edit(f)
        \/ Verify
        \/ Prepare \/ VerifyEnds \/ Cancel \/ Publish \/ PublishFails \/ FailWhenRejected

Spec == Init /\ [][Next]_vars

-----------------------------------------------------------------------------
\* Evidence for the holdout candidate rests on what the policy pins, whoever
\* edits the checkout between one file and the next: the pinned documents,
\* the manifest, the receipts, the implementation and the payload of a large
\* file are those the pins lead to.  The ledger is read again for the order of
\* its attempts, which is that of the pinned ledger where nobody edits.
PassRestsOnPins ==
  LET names(d) == says[d]["artifact"]
      manifest == says["registry"]["manifest"]
      listed == IF names("envelope") # 0 THEN names("envelope")
                ELSE IF names("registry") # 0 THEN names("registry")
                ELSE IF manifest = Pin THEN names("manifest") ELSE manifest
  IN verdict = "PASS" /\ profile = "cra_05y" =>
       /\ \A f \in {"inputs", "registry", "result", "envelope", "ledger"} : used[f] = Pin
       /\ used["manifest"] = manifest
       /\ names("envelope") # 0 => used["artifact"] = names("envelope")
       /\ used["source"] \in {0, says["registry"]["source"]}
       /\ place = "runner" => used["chronology"] \in {0, Pin}
       /\ blob \in Pointers =>
            PayloadOf(blob) = IF declared # 0 THEN declared ELSE listed

\* Nothing compares the checkout with the head; but a large file among the
\* evidence that the other profiles hash was hashed as the payload the head's
\* pointer names, neither as another version nor as the text of the pointer.
LargeEvidenceIsOfHead ==
  verdict = "PASS" /\ blob \in Pointers =>
    /\ profile \in Listing => used["artifact"] = PayloadOf(blob)
    /\ profile \in Computing => used["computed"] = PayloadOf(blob)

\* "The prior-release verifier executes code from the pinned previous
\* control-plane release" (README): a success check was posted after exactly
\* that code passed a candidate whose manifest, the one in the evidence, lists
\* its files as they are; and a green run has posted one.
SuccessIsOfPinnedRelease ==
  /\ "success" \in checks =>
       /\ verdict = "PASS" /\ used["code"] = Pin
       /\ used["listing_again"] = used["listing"]
       /\ used["artifact"] = Says("listing", used["listing"], "artifact")
  /\ job.phase = "done" /\ job.state = "success" => "success" \in checks
=============================================================================
