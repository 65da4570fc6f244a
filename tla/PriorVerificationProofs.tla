------------------------ MODULE PriorVerificationProofs ------------------------
(***************************************************************************)
(* What a verification that passes rests on, for any documents and any      *)
(* number of edits.  A check that has been passed leaves a fact behind      *)
(* (Done); every list of checks is in one order (Rank), so that when a      *)
(* check is reached the facts it uses are there, and no later check of the  *)
(* same profile writes over what an earlier one used.                       *)
(***************************************************************************)
EXTENDS PriorVerification, SequenceTheorems, TLAPS

\* The one order all lists of checks agree with.
Rank ==
  [root |-> 1, root_manifest |-> 2, root_files |-> 3, load |-> 4, scope |-> 5,
   inputs |-> 6, registry |-> 7, ledger |-> 8, result |-> 9, envelope |-> 10,
   receipts |-> 11, manifest |-> 12, sources |-> 13, chronology |-> 14,
   required |-> 15, listing |-> 16, listed |-> 17, exact |-> 18, listing_again |-> 19,
   computed |-> 20, large |-> 21]
Checks == DOMAIN Rank

\* The checks every verification of a profile makes, and those it may make.
PinnedChecks == {"inputs", "registry", "ledger", "result", "envelope"}
Asked(p) ==
  CASE p = "cra_05y" -> PinnedChecks \cup {"scope", "receipts", "manifest", "large"}
    [] p = "release" -> {"root", "root_manifest", "root_files", "load", "scope",
                         "listing", "exact", "listing_again"}
    [] p = "causalis_b2" -> {"scope", "required", "computed", "large"}
    [] p = "causalis_b2_r1" -> {"scope", "required", "listing", "listed", "computed",
                                "large"}
    [] OTHER -> {"scope", "listing", "listed", "large"}
Allowed(p) == Asked(p) \cup IF p = "cra_05y" THEN {"sources", "chronology"} ELSE {}

\* What is known once a check has been passed.
Done(c) ==
  /\ c \in PinnedChecks => used[c] = Pin
  /\ c = "ledger" /\ place = "runner" => Bytes("ledger") = Pin
  /\ c = "manifest" => used["manifest"] = says["registry"]["manifest"]
  /\ c = "receipts" /\ says["envelope"]["artifact"] # 0 =>
       used["artifact"] = says["envelope"]["artifact"]
  /\ c = "listed" /\ Entry # 0 => used["artifact"] = Entry
  /\ c = "exact" => used["artifact"] = Entry
  /\ c = "root" /\ place = "runner" => Bytes("code") = Pin
  /\ c = "load" /\ place = "runner" => used["code"] = Pin
  /\ c = "listing" /\ place = "runner" => used["listing"] = Bytes("listing")
  /\ c = "listing_again" /\ place = "runner" => used["listing_again"] = used["listing"]
  /\ c = "large" /\ blob \in Pointers => PayloadOf(blob) = Expected

\* The bytes that fact is about.
About(c) ==
  CASE c \in PinnedChecks \cup {"manifest"} -> {c}
    [] c = "receipts" -> {"artifact"}
    [] c \in {"listed", "exact"} -> {"artifact", "listing"}
    [] c = "load" -> {"code"}
    [] c = "listing" -> {"listing"}
    [] c = "listing_again" -> {"listing_again", "listing"}
    [] OTHER -> {}

\* Where a check notes what it used.
UseOf(c) ==
  CASE c \in {"receipts", "listed", "exact"} -> "artifact"
    [] c = "sources" -> "source"
    [] c = "load" -> "code"
    [] OTHER -> c

IsLeft(c) == \E i \in DOMAIN todo : todo[i] = c

Given ==
  /\ profile \in Profiles /\ place \in {"runner", "desk"}
  /\ blob \in {0} \cup Payloads \cup Pointers
  /\ declared \in {0} \cup Payloads /\ (profile # "cra_05y" => declared = 0)

InOrder ==
  /\ todo \in Seq(Checks) /\ DOMAIN used = Uses
  /\ \A i \in DOMAIN todo : todo[i] \in Allowed(profile)
  /\ \A i, j \in DOMAIN todo : i < j => Rank[todo[i]] < Rank[todo[j]]
  /\ \A c \in Asked(profile) : ~IsLeft(c) => \A i \in DOMAIN todo : Rank[c] < Rank[todo[i]]

Facts ==
  /\ \A c \in Asked(profile) : ~IsLeft(c) => Done(c)
  /\ used["source"] \in {0, says["registry"]["source"]}
  /\ place = "runner" => used["chronology"] \in {0, Pin}

Verdicts ==
  /\ verdict \in {"", "PASS", "REJECT"}
  /\ verdict = "" => Len(todo) > 0
  /\ verdict = "PASS" => todo = <<>>

Jobs ==
  /\ job \in [phase : {"prepare", "verify", "publish", "fail", "done"},
              state : {"success", "failure", "cancelled"}, token : BOOLEAN,
              exit : {"", "0", "1"}]
  /\ ~Workflow => job.phase = "verify"
  /\ checks # {} => job.phase \in {"fail", "done"}
  /\ job.exit = "0" => verdict = "PASS"
  /\ "success" \in checks => job.exit = "0" /\ Workflow
  /\ job.phase = "fail" /\ job.state = "success" => Conclusion \in checks
  /\ job.phase = "done" /\ job.state = "success" => "success" \in checks

IInv == Given /\ InOrder /\ Facts /\ Verdicts /\ Jobs

-----------------------------------------------------------------------------
(* The lists of checks.                                                     *)

LEMMA RankIs ==
  /\ Rank["root"] = 1 /\ Rank["root_manifest"] = 2 /\ Rank["root_files"] = 3
  /\ Rank["load"] = 4 /\ Rank["scope"] = 5 /\ Rank["inputs"] = 6
  /\ Rank["registry"] = 7 /\ Rank["ledger"] = 8 /\ Rank["result"] = 9
  /\ Rank["envelope"] = 10 /\ Rank["receipts"] = 11 /\ Rank["manifest"] = 12
  /\ Rank["sources"] = 13 /\ Rank["chronology"] = 14 /\ Rank["required"] = 15
  /\ Rank["listing"] = 16 /\ Rank["listed"] = 17 /\ Rank["exact"] = 18
  /\ Rank["listing_again"] = 19 /\ Rank["computed"] = 20 /\ Rank["large"] = 21
  BY DEF Rank

LEMMA ChecksAre ==
  Checks = {"root", "root_manifest", "root_files", "load", "scope", "inputs", "registry",
            "ledger", "result", "envelope", "receipts", "manifest", "sources", "chronology",
            "required", "listing", "listed", "exact", "listing_again", "computed", "large"}
  BY DEF Checks, Rank

LEMMA RanksAreNumbers == \A c \in Checks : Rank[c] \in Nat
  BY ChecksAre, RankIs

LEMMA LargeIsLast == \A c \in Checks : ~(Rank["large"] < Rank[c])
<1>1. \A c \in Checks : Rank[c] <= 21
  BY ChecksAre, RankIs
<1>2. Rank["large"] = 21
  BY RankIs
<1>. QED
  BY <1>1, <1>2, RanksAreNumbers

LEMMA AskedAreChecks ==
  ASSUME NEW p
  PROVE  Asked(p) \subseteq Checks /\ Allowed(p) \subseteq Checks
  BY ChecksAre DEF Asked, Allowed, PinnedChecks

\* A list of checks is in the order of Rank, has what is asked for and nothing
\* that is not allowed.
Fits(list, p) ==
  /\ list \in Seq(Checks) /\ Len(list) > 0
  /\ \A i \in DOMAIN list : list[i] \in Allowed(p)
  /\ \A i, j \in DOMAIN list : i < j => Rank[list[i]] < Rank[list[j]]
  /\ \A c \in Asked(p) : \E i \in DOMAIN list : list[i] = c

LEMMA ReleaseFits == Fits(ReleaseChecks, "release")
<1>. DEFINE L == <<"root", "root_manifest", "root_files", "load", "scope", "listing",
                   "exact", "listing_again">>
<1>1. ReleaseChecks = L
  BY DEF ReleaseChecks
<1>2. /\ L \in Seq(Checks) /\ Len(L) = 8 /\ DOMAIN L = 1..8
      /\ L[1] = "root" /\ L[2] = "root_manifest" /\ L[3] = "root_files"
      /\ L[4] = "load" /\ L[5] = "scope" /\ L[6] = "listing" /\ L[7] = "exact"
      /\ L[8] = "listing_again"
  BY ChecksAre
<1>. HIDE DEF L
<1>3. \A i \in DOMAIN L : L[i] \in Allowed("release")
  BY <1>2 DEF Allowed, Asked, PinnedChecks
<1>4. \A i, j \in DOMAIN L : i < j => Rank[L[i]] < Rank[L[j]]
  BY <1>2, RankIs
<1>5. \A c \in Asked("release") : \E i \in DOMAIN L : L[i] = c
  BY <1>2 DEF Asked, PinnedChecks
<1>. QED
  BY <1>1, <1>2, <1>3, <1>4, <1>5 DEF Fits

LEMMA B1Fits == Fits(CausalisB1Checks, "causalis_b1_01a")
<1>. DEFINE L == <<"scope", "listing", "listed", "large">>
<1>1. CausalisB1Checks = L
  BY DEF CausalisB1Checks
<1>2. /\ L \in Seq(Checks) /\ Len(L) = 4 /\ DOMAIN L = 1..4
      /\ L[1] = "scope" /\ L[2] = "listing" /\ L[3] = "listed" /\ L[4] = "large"
  BY ChecksAre
<1>. HIDE DEF L
<1>3. \A i \in DOMAIN L : L[i] \in Allowed("causalis_b1_01a")
  BY <1>2 DEF Allowed, Asked, PinnedChecks
<1>4. \A i, j \in DOMAIN L : i < j => Rank[L[i]] < Rank[L[j]]
  BY <1>2, RankIs
<1>5. \A c \in Asked("causalis_b1_01a") : \E i \in DOMAIN L : L[i] = c
  BY <1>2 DEF Asked, PinnedChecks
<1>. QED
  BY <1>1, <1>2, <1>3, <1>4, <1>5 DEF Fits

LEMMA AtlasFits == Fits(Atlas01aChecks, "atlas_01a")
<1>. DEFINE L == <<"scope", "listing", "listed", "large">>
<1>1. Atlas01aChecks = L
  BY DEF Atlas01aChecks
<1>2. /\ L \in Seq(Checks) /\ Len(L) = 4 /\ DOMAIN L = 1..4
      /\ L[1] = "scope" /\ L[2] = "listing" /\ L[3] = "listed" /\ L[4] = "large"
  BY ChecksAre
<1>. HIDE DEF L
<1>3. \A i \in DOMAIN L : L[i] \in Allowed("atlas_01a")
  BY <1>2 DEF Allowed, Asked, PinnedChecks
<1>4. \A i, j \in DOMAIN L : i < j => Rank[L[i]] < Rank[L[j]]
  BY <1>2, RankIs
<1>5. \A c \in Asked("atlas_01a") : \E i \in DOMAIN L : L[i] = c
  BY <1>2 DEF Asked, PinnedChecks
<1>. QED
  BY <1>1, <1>2, <1>3, <1>4, <1>5 DEF Fits

LEMMA CdlFits == Fits(Cdl00aChecks, "cdl_00a")
<1>. DEFINE L == <<"scope", "listing", "listed", "large">>
<1>1. Cdl00aChecks = L
  BY DEF Cdl00aChecks
<1>2. /\ L \in Seq(Checks) /\ Len(L) = 4 /\ DOMAIN L = 1..4
      /\ L[1] = "scope" /\ L[2] = "listing" /\ L[3] = "listed" /\ L[4] = "large"
  BY ChecksAre
<1>. HIDE DEF L
<1>3. \A i \in DOMAIN L : L[i] \in Allowed("cdl_00a")
  BY <1>2 DEF Allowed, Asked, PinnedChecks
<1>4. \A i, j \in DOMAIN L : i < j => Rank[L[i]] < Rank[L[j]]
  BY <1>2, RankIs
<1>5. \A c \in Asked("cdl_00a") : \E i \in DOMAIN L : L[i] = c
  BY <1>2 DEF Asked, PinnedChecks
<1>. QED
  BY <1>1, <1>2, <1>3, <1>4, <1>5 DEF Fits

LEMMA B2Fits == Fits(CausalisB2Checks, "causalis_b2")
<1>. DEFINE L == <<"scope", "required", "computed", "large">>
<1>1. CausalisB2Checks = L
  BY DEF CausalisB2Checks
<1>2. /\ L \in Seq(Checks) /\ Len(L) = 4 /\ DOMAIN L = 1..4
      /\ L[1] = "scope" /\ L[2] = "required" /\ L[3] = "computed" /\ L[4] = "large"
  BY ChecksAre
<1>. HIDE DEF L
<1>3. \A i \in DOMAIN L : L[i] \in Allowed("causalis_b2")
  BY <1>2 DEF Allowed, Asked, PinnedChecks
<1>4. \A i, j \in DOMAIN L : i < j => Rank[L[i]] < Rank[L[j]]
  BY <1>2, RankIs
<1>5. \A c \in Asked("causalis_b2") : \E i \in DOMAIN L : L[i] = c
  BY <1>2 DEF Asked, PinnedChecks
<1>. QED
  BY <1>1, <1>2, <1>3, <1>4, <1>5 DEF Fits

LEMMA B2R1Fits == Fits(CausalisB2R1Checks, "causalis_b2_r1")
<1>. DEFINE L == <<"scope", "required", "listing", "listed", "computed", "large">>
<1>1. CausalisB2R1Checks = L
  BY DEF CausalisB2R1Checks
<1>2. /\ L \in Seq(Checks) /\ Len(L) = 6 /\ DOMAIN L = 1..6
      /\ L[1] = "scope" /\ L[2] = "required" /\ L[3] = "listing" /\ L[4] = "listed"
      /\ L[5] = "computed" /\ L[6] = "large"
  BY ChecksAre
<1>. HIDE DEF L
<1>3. \A i \in DOMAIN L : L[i] \in Allowed("causalis_b2_r1")
  BY <1>2 DEF Allowed, Asked, PinnedChecks
<1>4. \A i, j \in DOMAIN L : i < j => Rank[L[i]] < Rank[L[j]]
  BY <1>2, RankIs
<1>5. \A c \in Asked("causalis_b2_r1") : \E i \in DOMAIN L : L[i] = c
  BY <1>2 DEF Asked, PinnedChecks
<1>. QED
  BY <1>1, <1>2, <1>3, <1>4, <1>5 DEF Fits

LEMMA Joined ==
  ASSUME NEW a \in Seq(Checks), NEW b \in Seq(Checks)
  PROVE  /\ a \o b \in Seq(Checks) /\ Len(a \o b) = Len(a) + Len(b)
         /\ \A i \in 1..Len(a) : (a \o b)[i] = a[i]
         /\ \A i \in 1..Len(b) : (a \o b)[Len(a) + i] = b[i]
  OBVIOUS

LEMMA ShortFits == Fits(Cra05yChecks(FALSE), "cra_05y")
<1>. DEFINE A == <<"scope", "inputs", "registry", "ledger", "result", "envelope",
                   "receipts", "manifest">>
            S == <<>>
            E == <<"large">>
            M == A \o S
            L == M \o E
<1>1. Cra05yChecks(FALSE) = L
  BY Zenon DEF Cra05yChecks, Section4Checks
<1>a. /\ A \in Seq(Checks) /\ Len(A) = 8
      /\ A[1] = "scope" /\ A[2] = "inputs" /\ A[3] = "registry" /\ A[4] = "ledger"
      /\ A[5] = "result" /\ A[6] = "envelope" /\ A[7] = "receipts" /\ A[8] = "manifest"
  BY ChecksAre
<1>b. /\ S \in Seq(Checks) /\ Len(S) = 0 /\ S = <<>>
      /\ E \in Seq(Checks) /\ Len(E) = 1 /\ E[1] = "large"
  BY ChecksAre
<1>. HIDE DEF A, S, E
<1>c. /\ M \in Seq(Checks) /\ Len(M) = 8
      /\ \A i \in 1..8 : M[i] = A[i]
  BY <1>a, <1>b
<1>. HIDE DEF M
<1>2. /\ L \in Seq(Checks) /\ Len(L) = 9 /\ DOMAIN L = 1..9
      /\ \A i \in 1..8 : L[i] = A[i]
      /\ L[9] = "large"
  <2>1. /\ L \in Seq(Checks) /\ Len(L) = Len(M) + Len(E)
        /\ \A i \in 1..Len(M) : L[i] = M[i]
        /\ \A i \in 1..Len(E) : L[Len(M) + i] = E[i]
    BY <1>b, <1>c, Joined
  <2>. HIDE DEF L
  <2>2. /\ Len(L) = 9 /\ \A i \in 1..8 : L[i] = M[i]
        /\ L[9] = E[1]
    BY <1>b, <1>c, <2>1
  <2>. QED
    BY <1>b, <1>c, <2>1, <2>2
<1>. HIDE DEF L
<1>3. \A i \in DOMAIN L : L[i] \in Allowed("cra_05y")
  BY <1>a, <1>2 DEF Allowed, Asked, PinnedChecks
<1>q. /\ L[1] = "scope" /\ L[2] = "inputs" /\ L[3] = "registry" /\ L[4] = "ledger"
      /\ L[5] = "result" /\ L[6] = "envelope" /\ L[7] = "receipts"
      /\ L[8] = "manifest" /\ L[9] = "large"
  BY <1>a, <1>2
<1>r. /\ \A i \in 1..8 : Rank[L[i]] = 4 + i
      /\ Rank[L[9]] = 21
  BY <1>q, RankIs
<1>4. \A i, j \in DOMAIN L : i < j => Rank[L[i]] < Rank[L[j]]
  BY <1>2, <1>r
<1>5. \A c \in Asked("cra_05y") : \E i \in DOMAIN L : L[i] = c
  <2>1. /\ 1 \in DOMAIN L /\ 2 \in DOMAIN L /\ 3 \in DOMAIN L /\ 4 \in DOMAIN L
        /\ 5 \in DOMAIN L /\ 6 \in DOMAIN L /\ 7 \in DOMAIN L /\ 8 \in DOMAIN L
        /\ 9 \in DOMAIN L
    BY <1>2
  <2>3. Asked("cra_05y") = {"inputs", "registry", "ledger", "result", "envelope", "scope",
                            "receipts", "manifest", "large"}
    BY DEF Asked, PinnedChecks
  <2>. QED
    BY <1>q, <2>1, <2>3, Zenon
<1>6. Fits(L, "cra_05y")
  BY <1>2, <1>3, <1>4, <1>5 DEF Fits
<1>. QED
  BY <1>1, <1>6, Zenon

LEMMA ExtendedFits == Fits(Cra05yChecks(TRUE), "cra_05y")
<1>. DEFINE A == <<"scope", "inputs", "registry", "ledger", "result", "envelope",
                   "receipts", "manifest">>
            S == <<"sources", "chronology">>
            E == <<"large">>
            M == A \o S
            L == M \o E
<1>1. Cra05yChecks(TRUE) = L
  BY Zenon DEF Cra05yChecks, Section4Checks
<1>a. /\ A \in Seq(Checks) /\ Len(A) = 8
      /\ A[1] = "scope" /\ A[2] = "inputs" /\ A[3] = "registry" /\ A[4] = "ledger"
      /\ A[5] = "result" /\ A[6] = "envelope" /\ A[7] = "receipts" /\ A[8] = "manifest"
  BY ChecksAre
<1>b. /\ S \in Seq(Checks) /\ Len(S) = 2 /\ S[1] = "sources" /\ S[2] = "chronology"
      /\ E \in Seq(Checks) /\ Len(E) = 1 /\ E[1] = "large"
  BY ChecksAre
<1>. HIDE DEF A, S, E
<1>c. /\ M \in Seq(Checks) /\ Len(M) = 10
      /\ \A i \in 1..8 : M[i] = A[i]
      /\ M[9] = S[1] /\ M[10] = S[2]
  <2>1. /\ M \in Seq(Checks) /\ Len(M) = Len(A) + Len(S)
        /\ \A i \in 1..Len(A) : M[i] = A[i]
        /\ \A i \in 1..Len(S) : M[Len(A) + i] = S[i]
    BY <1>a, <1>b, Joined
  <2>. HIDE DEF M
  <2>2. /\ Len(M) = 10 /\ \A i \in 1..8 : M[i] = A[i]
        /\ M[9] = S[1] /\ M[10] = S[2]
    <3>1. 1 \in 1..Len(S) /\ 2 \in 1..Len(S) /\ Len(A) + 1 = 9 /\ Len(A) + 2 = 10
      BY <1>a, <1>b
    <3>. QED
      BY <1>a, <1>b, <2>1, <3>1
  <2>. QED
    BY <2>1, <2>2, Zenon
<1>. HIDE DEF M
<1>2. /\ L \in Seq(Checks) /\ Len(L) = 11 /\ DOMAIN L = 1..11
      /\ \A i \in 1..8 : L[i] = A[i]
      /\ L[9] = "sources" /\ L[10] = "chronology" /\ L[11] = "large"
  <2>1. /\ L \in Seq(Checks) /\ Len(L) = Len(M) + Len(E)
        /\ \A i \in 1..Len(M) : L[i] = M[i]
        /\ \A i \in 1..Len(E) : L[Len(M) + i] = E[i]
    BY <1>b, <1>c, Joined
  <2>. HIDE DEF L
  <2>2. /\ Len(L) = 11 /\ \A i \in 1..10 : L[i] = M[i]
        /\ L[11] = E[1]
    BY <1>b, <1>c, <2>1
  <2>. QED
    BY <1>b, <1>c, <2>1, <2>2
<1>. HIDE DEF L
<1>3. \A i \in DOMAIN L : L[i] \in Allowed("cra_05y")
  BY <1>a, <1>2 DEF Allowed, Asked, PinnedChecks
<1>q. /\ L[1] = "scope" /\ L[2] = "inputs" /\ L[3] = "registry" /\ L[4] = "ledger"
      /\ L[5] = "result" /\ L[6] = "envelope" /\ L[7] = "receipts"
      /\ L[8] = "manifest"
      /\ L[9] = "sources" /\ L[10] = "chronology" /\ L[11] = "large"
  BY <1>a, <1>2
<1>r. /\ \A i \in 1..10 : Rank[L[i]] = 4 + i
      /\ Rank[L[11]] = 21
  BY <1>q, RankIs
<1>4. \A i, j \in DOMAIN L : i < j => Rank[L[i]] < Rank[L[j]]
  <2>. SUFFICES ASSUME NEW i \in 1..11, NEW j \in 1..11, i < j
                PROVE  Rank[L[i]] < Rank[L[j]]
    BY <1>2
  <2>1. i \in 1..10 /\ Rank[L[i]] = 4 + i
    BY <1>r
  <2>2. CASE j = 11
    BY <1>r, <2>1, <2>2
  <2>3. CASE j # 11
    <3>1. j \in 1..10 /\ Rank[L[j]] = 4 + j
      BY <1>r, <2>3
    <3>. QED
      BY <2>1, <3>1
  <2>. QED
    BY <2>2, <2>3
<1>5. \A c \in Asked("cra_05y") : \E i \in DOMAIN L : L[i] = c
  <2>1. /\ 1 \in DOMAIN L /\ 2 \in DOMAIN L /\ 3 \in DOMAIN L /\ 4 \in DOMAIN L
        /\ 5 \in DOMAIN L /\ 6 \in DOMAIN L /\ 7 \in DOMAIN L /\ 8 \in DOMAIN L
        /\ 11 \in DOMAIN L
    BY <1>2
  <2>3. Asked("cra_05y") = {"inputs", "registry", "ledger", "result", "envelope", "scope",
                            "receipts", "manifest", "large"}
    BY DEF Asked, PinnedChecks
  <2>. QED
    BY <1>q, <2>1, <2>3, Zenon
<1>6. Fits(L, "cra_05y")
  BY <1>2, <1>3, <1>4, <1>5 DEF Fits
<1>. QED
  BY <1>1, <1>6, Zenon

LEMMA ListsFit ==
  ASSUME NEW p \in Profiles, NEW list \in ChecksOf(p)
  PROVE  Fits(list, p)
<1>1. p \in {"cra_05y", "release", "causalis_b1_01a", "atlas_01a", "cdl_00a",
             "causalis_b2", "causalis_b2_r1"}
  BY DEF Profiles, Listing, Computing
<1>2. CASE p = "cra_05y"
  <2>1. PICK extended \in BOOLEAN : list = Cra05yChecks(extended)
    BY <1>2 DEF ChecksOf
  <2>. QED
    BY <1>2, <2>1, ShortFits, ExtendedFits
<1>3. CASE p # "cra_05y"
  BY <1>1, <1>3, ReleaseFits, B1Fits, AtlasFits, CdlFits, B2Fits, B2R1Fits DEF ChecksOf
<1>. QED
  BY <1>2, <1>3

LEMMA StartIsFit == ASSUME todo \in ChecksOf(profile), profile \in Profiles
                    PROVE  /\ (DOMAIN used = Uses => InOrder)
                           /\ Len(todo) > 0
                           /\ \A c \in Asked(profile) : IsLeft(c)
<1>1. Fits(todo, profile)
  BY ListsFit
<1>2. \A c \in Asked(profile) : IsLeft(c)
  BY <1>1 DEF Fits, IsLeft
<1>. QED
  BY <1>1, <1>2 DEF Fits, InOrder

LEMMA InitIInv == Init => IInv
<1>. SUFFICES ASSUME Init PROVE IInv
  OBVIOUS
<1>1. Given
  BY DEF Given, Init
<1>2. /\ InOrder /\ Len(todo) > 0 /\ \A c \in Asked(profile) : IsLeft(c)
  BY StartIsFit DEF Init
<1>3. Facts
  <2>1. used["source"] = 0 /\ used["chronology"] = 0
    <3>1. used = [u \in Uses |-> 0] /\ "source" \in Uses /\ "chronology" \in Uses
      BY DEF Init, Uses, Files, Hashed
    <3>. QED
      BY <3>1
  <2>. QED
    BY <1>2, <2>1 DEF Facts
<1>4. Verdicts
  BY <1>2 DEF Verdicts, Init
<1>5. Jobs
  <2>1. checks = {} /\ job = (IF Workflow THEN [NoJob EXCEPT !.phase = "prepare"] ELSE NoJob)
    BY DEF Init
  <2>2. CASE Workflow
    BY <2>1, <2>2 DEF Jobs, NoJob
  <2>3. CASE ~Workflow
    BY <2>1, <2>3 DEF Jobs, NoJob
  <2>. QED
    BY <2>2, <2>3
<1>. QED
  BY <1>1, <1>2, <1>3, <1>4, <1>5 DEF IInv

-----------------------------------------------------------------------------
(* A check that is passed.                                                  *)

\* When a check is reached, those before it have left their facts.
LEMMA HeadFirst ==
  ASSUME IInv, NEW c, At(c)
  PROVE  /\ todo \in Seq(Checks) /\ Len(todo) > 0 /\ todo[1] = c
         /\ c \in Checks /\ c \in Allowed(profile)
         /\ \A d \in Asked(profile) : Rank[d] < Rank[c] => Done(d)
<1>1. todo \in Seq(Checks) /\ Len(todo) > 0 /\ todo[1] = c
  <2>1. todo \in Seq(Checks) /\ Len(todo) > 0 /\ Head(todo) = c
    BY DEF IInv, InOrder, Verdicts, At
  <2>. QED
    BY <2>1
<1>2. 1 \in DOMAIN todo /\ c \in Checks /\ c \in Allowed(profile)
  BY <1>1 DEF IInv, InOrder
<1>3. ASSUME NEW d \in Asked(profile), Rank[d] < Rank[c] PROVE Done(d)
  <2>1. ASSUME IsLeft(d) PROVE FALSE
    <3>1. PICK i \in DOMAIN todo : todo[i] = d
      BY <2>1 DEF IsLeft
    <3>2. i = 1 \/ 1 < i
      BY <1>1
    <3>3. Rank[d] \in Nat /\ Rank[c] \in Nat
      BY <1>2, AskedAreChecks, RanksAreNumbers
    <3>4. CASE i = 1
      BY <1>1, <1>3, <3>1, <3>3, <3>4
    <3>5. CASE 1 < i
      <4>1. Rank[todo[1]] < Rank[todo[i]]
        BY <1>2, <3>1, <3>5 DEF IInv, InOrder
      <4>. QED
        BY <1>1, <1>3, <3>1, <3>3, <4>1
    <3>. QED
      BY <3>2, <3>4, <3>5
  <2>. QED
    BY <2>1 DEF IInv, Facts
<1>. QED
  BY <1>1, <1>2, <1>3

\* Of the same profile, no later check writes over what an earlier one used.
LEMMA NotRead ==
  ASSUME NEW p, NEW c \in Allowed(p), NEW d \in Asked(p), Rank[d] < Rank[c]
  PROVE  UseOf(c) \notin About(d)
  BY RankIs DEF Allowed, Asked, PinnedChecks, UseOf, About

LEMMA Kept ==
  ASSUME NEW u \in Uses, NEW b, DOMAIN used = Uses, used' = [used EXCEPT ![u] = b],
         UNCHANGED <<given, work>>,
         NEW d, d # "large", u \notin About(d), Done(d)
  PROVE  Done(d)'
<1>1. \A x \in Uses \ {u} : used'[x] = used[x]
  OBVIOUS
<1>2. {"inputs", "registry", "ledger", "result", "envelope", "manifest", "artifact",
       "listing", "code", "listing_again"} \subseteq Uses
  BY DEF Uses, Files, Identified, Hashed
<1>. QED
  BY <1>1, <1>2 DEF Done, About, given, Bytes, Entry, Says, PinnedChecks

LEMMA TailOf ==
  ASSUME NEW S, NEW s \in Seq(S), Len(s) > 0
  PROVE  /\ Tail(s) \in Seq(S) /\ Len(Tail(s)) = Len(s) - 1
         /\ Len(Tail(s)) = 0 => Tail(s) = <<>>
         /\ \A i \in DOMAIN Tail(s) : i + 1 \in DOMAIN s /\ Tail(s)[i] = s[i + 1]
         /\ \A i \in DOMAIN s : i # 1 => i - 1 \in DOMAIN Tail(s) /\ Tail(s)[i - 1] = s[i]
<1>. DEFINE t == Tail(s)
<1>1. /\ t \in Seq(S) /\ Len(t) = Len(s) - 1
      /\ \A i \in 1..Len(t) : t[i] = s[i + 1]
  BY HeadTailProperties, EmptySeq
<1>. HIDE DEF t
<1>2. /\ DOMAIN t = 1..Len(t) /\ DOMAIN s = 1..Len(s) /\ Len(s) \in Nat
      /\ Len(t) = 0 => t = <<>>
  BY <1>1, EmptySeq
<1>3. \A i \in DOMAIN t : i + 1 \in DOMAIN s /\ t[i] = s[i + 1]
  BY <1>1, <1>2
<1>4. ASSUME NEW i \in DOMAIN s, i # 1 PROVE i - 1 \in DOMAIN t /\ t[i - 1] = s[i]
  <2>1. i - 1 \in 1..Len(t) /\ (i - 1) + 1 = i
    BY <1>1, <1>2, <1>4
  <2>. QED
    BY <1>1, <1>2, <2>1
<1>. QED
  BY <1>1, <1>2, <1>3, <1>4 DEF t

\* A check that leaves its fact is a step that keeps the invariant.
LEMMA AfterPass ==
  ASSUME IInv, NEW c, At(c), NEW b, Passes(UseOf(c), b), Done(c)',
         (used["source"] \in {0, says["registry"]["source"]})',
         (place = "runner" => used["chronology"] \in {0, Pin})'
  PROVE  IInv'
<1>1. /\ todo \in Seq(Checks) /\ Len(todo) > 0 /\ todo[1] = c
      /\ c \in Checks /\ c \in Allowed(profile)
  BY HeadFirst
<1>2. /\ used' = [used EXCEPT ![UseOf(c)] = b] /\ todo' = Tail(todo)
      /\ verdict' = (IF Len(todo) = 1 THEN "PASS" ELSE "")
      /\ UNCHANGED <<given, work, edits, job, checks>>
  BY DEF Passes
<1>3. /\ todo' \in Seq(Checks) /\ Len(todo') = Len(todo) - 1
      /\ Len(todo') = 0 => todo' = <<>>
      /\ \A i \in DOMAIN todo' : i + 1 \in DOMAIN todo /\ todo'[i] = todo[i + 1]
      /\ \A i \in DOMAIN todo : i # 1 => i - 1 \in DOMAIN todo' /\ todo'[i - 1] = todo[i]
  <2>1. todo' = Tail(todo)
    BY <1>2
  <2>. QED
    BY <1>1, <2>1, TailOf
<1>4. \A d \in Checks \ {c} : IsLeft(d) => IsLeft(d)'
  <2>. SUFFICES ASSUME NEW d \in Checks \ {c}, IsLeft(d) PROVE IsLeft(d)'
    OBVIOUS
  <2>1. PICK i \in DOMAIN todo : todo[i] = d
    BY DEF IsLeft
  <2>2. i # 1
    BY <1>1, <2>1
  <2>3. i - 1 \in DOMAIN todo' /\ todo'[i - 1] = todo[i]
    BY <1>3, <2>2
  <2>. QED
    BY <2>1, <2>3 DEF IsLeft
<1>5. \A d \in Asked(profile) \ {c} : ~IsLeft(d)' => Rank[d] < Rank[c] /\ Done(d)
  <2>. SUFFICES ASSUME NEW d \in Asked(profile) \ {c}, ~IsLeft(d)'
                PROVE  Rank[d] < Rank[c] /\ Done(d)
    OBVIOUS
  <2>1. ~IsLeft(d)
    BY <1>4, AskedAreChecks
  <2>2. Rank[d] < Rank[todo[1]]
    BY <1>1, <2>1 DEF IInv, InOrder
  <2>. QED
    BY <1>1, <2>1, <2>2 DEF IInv, Facts
<1>6. \A d \in Asked(profile) : ~IsLeft(d)' => Done(d)'
  <2>. SUFFICES ASSUME NEW d \in Asked(profile) \ {c}, ~IsLeft(d)' PROVE Done(d)'
    OBVIOUS
  <2>1. Rank[d] < Rank[c] /\ Done(d)
    BY <1>5
  <2>2. UseOf(c) \notin About(d)
    BY <1>1, <2>1, NotRead
  <2>3. d # "large"
    BY <1>1, <2>1, LargeIsLast
  <2>4. UseOf(c) \in Uses /\ DOMAIN used = Uses
    BY <1>1, ChecksAre DEF UseOf, Uses, Files, Identified, Hashed, IInv, InOrder
  <2>. QED
    BY <1>2, <2>1, <2>2, <2>3, <2>4, Kept
<1>7. profile' = profile /\ place' = place
  BY <1>2 DEF given
<1>8. Given'
  BY <1>2 DEF IInv, Given, given
<1>9. InOrder'
  <2>1. DOMAIN used' = Uses
    BY <1>2 DEF IInv, InOrder
  <2>2. \A i \in DOMAIN todo' : todo'[i] \in Allowed(profile)
    BY <1>3 DEF IInv, InOrder
  <2>3. \A i, j \in DOMAIN todo' : i < j => Rank[todo'[i]] < Rank[todo'[j]]
    <3>. SUFFICES ASSUME NEW i \in DOMAIN todo', NEW j \in DOMAIN todo', i < j
                  PROVE  Rank[todo'[i]] < Rank[todo'[j]]
      OBVIOUS
    <3>1. i + 1 < j + 1 /\ i + 1 \in DOMAIN todo /\ j + 1 \in DOMAIN todo
      BY <1>3
    <3>. QED
      BY <1>3, <3>1 DEF IInv, InOrder
  <2>4. ASSUME NEW d \in Asked(profile), ~IsLeft(d)', NEW i \in DOMAIN todo'
        PROVE  Rank[d] < Rank[todo'[i]]
    <3>1. Rank[c] < Rank[todo'[i]]
      <4>1. 1 < i + 1 /\ i + 1 \in DOMAIN todo /\ 1 \in DOMAIN todo
        BY <1>1, <1>3
      <4>. QED
        BY <1>1, <1>3, <4>1 DEF IInv, InOrder
    <3>2. d = c \/ Rank[d] < Rank[c]
      BY <1>5, <2>4
    <3>3. Rank[d] \in Nat /\ Rank[c] \in Nat /\ Rank[todo'[i]] \in Nat
      BY <1>1, <1>3, AskedAreChecks, RanksAreNumbers
    <3>. QED
      BY <3>1, <3>2, <3>3
  <2>. QED
    BY <1>3, <1>7, <2>1, <2>2, <2>3, <2>4 DEF InOrder
<1>10. Facts'
  BY <1>6, <1>7 DEF Facts
<1>11. Verdicts'
  <2>1. verdict' = (IF Len(todo) = 1 THEN "PASS" ELSE "")
    BY <1>2
  <2>2. /\ Len(todo) = 1 => todo' = <<>>
        /\ Len(todo) # 1 => Len(todo') > 0
    BY <1>1, <1>3
  <2>. QED
    BY <2>1, <2>2 DEF Verdicts
<1>12. Jobs'
  <2>1. verdict = "" /\ job.exit # "0"
    BY DEF At, IInv, Jobs
  <2>2. Workflow' = Workflow /\ Conclusion' = Conclusion /\ job' = job /\ checks' = checks
    BY <1>2 DEF Workflow, Conclusion, given
  <2>. QED
    BY <2>1, <2>2 DEF IInv, Jobs
<1>. QED
  BY <1>8, <1>9, <1>10, <1>11, <1>12 DEF IInv

LEMMA OthersKept ==
  ASSUME IInv, NEW u \in Uses, NEW b, Passes(u, b)
  PROVE  /\ used'[u] = b /\ \A x \in Uses \ {u} : used'[x] = used[x]
         /\ UNCHANGED <<profile, place, blob, declared, says, work>>
         /\ u # "source" => (used["source"] \in {0, says["registry"]["source"]})'
         /\ u # "chronology" => (place = "runner" => used["chronology"] \in {0, Pin})'
<1>1. /\ used'[u] = b /\ \A x \in Uses \ {u} : used'[x] = used[x]
      /\ UNCHANGED <<profile, place, blob, declared, says, work>>
  BY DEF IInv, InOrder, Passes, given
<1>2. "source" \in Uses /\ "chronology" \in Uses
  BY DEF Uses, Files, Hashed
<1>3. u # "source" => used'["source"] = used["source"]
  BY <1>1, <1>2
<1>4. u # "chronology" => used'["chronology"] = used["chronology"]
  BY <1>1, <1>2
<1>. QED
  BY <1>1, <1>3, <1>4 DEF IInv, Facts

LEMMA UsesAre ==
  Uses = {"inputs", "registry", "result", "envelope", "manifest", "ledger", "source",
          "artifact", "listing", "root_manifest", "code", "scope", "required",
          "chronology", "listing_again", "computed", "large", "root", "root_files"}
  BY DEF Uses, Files, Identified, Hashed

-----------------------------------------------------------------------------
(* One check after the other.                                               *)

LEMMA ScopeStep == ASSUME IInv, Scope PROVE IInv'
<1>1. At("scope") /\ Passes("scope", 0) /\ UseOf("scope") = "scope" /\ "scope" \in Uses
  BY UsesAre DEF Scope, UseOf
<1>2. Done("scope")'
  BY DEF Done, PinnedChecks
<1>. QED
  BY <1>1, <1>2, OthersKept, AfterPass

LEMMA RequiredStep == ASSUME IInv, Required PROVE IInv'
<1>1. At("required") /\ Passes("required", 0) /\ UseOf("required") = "required" /\ "required" \in Uses
  BY UsesAre DEF Required, UseOf
<1>2. Done("required")'
  BY DEF Done, PinnedChecks
<1>. QED
  BY <1>1, <1>2, OthersKept, AfterPass

LEMMA ComputedStep == ASSUME IInv, Computed PROVE IInv'
<1>1. At("computed") /\ Passes("computed", Bytes("artifact")) /\ UseOf("computed") = "computed" /\ "computed" \in Uses
  BY UsesAre DEF Computed, UseOf
<1>2. Done("computed")'
  BY DEF Done, PinnedChecks
<1>. QED
  BY <1>1, <1>2, OthersKept, AfterPass

LEMMA RootManifestStep == ASSUME IInv, RootManifest PROVE IInv'
<1>1. At("root_manifest") /\ Passes("root_manifest", Bytes("root_manifest")) /\ UseOf("root_manifest") = "root_manifest" /\ "root_manifest" \in Uses
  BY UsesAre DEF RootManifest, UseOf
<1>2. Done("root_manifest")'
  BY DEF Done, PinnedChecks
<1>. QED
  BY <1>1, <1>2, OthersKept, AfterPass

LEMMA RootFilesStep == ASSUME IInv, RootFiles PROVE IInv'
<1>1. At("root_files") /\ Passes("root_files", 0) /\ UseOf("root_files") = "root_files" /\ "root_files" \in Uses
  BY UsesAre DEF RootFiles, UseOf
<1>2. Done("root_files")'
  BY DEF Done, PinnedChecks
<1>. QED
  BY <1>1, <1>2, OthersKept, AfterPass

LEMMA PinnedStep ==
  ASSUME IInv, NEW f \in Identified \ {"manifest"}, Pinned(f) PROVE IInv'
<1>1. At(f) /\ Passes(f, Bytes(f)) /\ UseOf(f) = f /\ f \in Uses /\ Bytes(f) = Pin
      /\ f \in {"inputs", "registry", "result", "envelope"}
  BY UsesAre DEF Pinned, UseOf, Identified
<1>2. used'[f] = Pin
  BY <1>1, OthersKept
<1>3. Done(f)'
  BY <1>1, <1>2 DEF Done, PinnedChecks
<1>. QED
  BY <1>1, <1>3, OthersKept, AfterPass

LEMMA LedgerStep == ASSUME IInv, Ledger PROVE IInv'
<1>1. At("ledger") /\ Passes("ledger", Bytes("ledger")) /\ UseOf("ledger") = "ledger" /\ "ledger" \in Uses
  BY UsesAre DEF Ledger, UseOf
<1>2. /\ used'["ledger"] = Bytes("ledger") /\ \A x \in Uses \ {"ledger"} : used'[x] = used[x]
      /\ UNCHANGED <<profile, place, blob, declared, says, work>>
  BY <1>1, OthersKept
<1>3. Done("ledger")'
  BY <1>2, UsesAre DEF Ledger, Done, PinnedChecks, Bytes
<1>. QED
  BY <1>1, <1>3, OthersKept, AfterPass

LEMMA ReceiptsStep == ASSUME IInv, Receipts PROVE IInv'
<1>1. At("receipts") /\ Passes("artifact", StandsFor(Bytes("artifact"))) /\ UseOf("receipts") = "artifact" /\ "artifact" \in Uses
  BY UsesAre DEF Receipts, UseOf
<1>2. /\ used'["artifact"] = StandsFor(Bytes("artifact")) /\ \A x \in Uses \ {"artifact"} : used'[x] = used[x]
      /\ UNCHANGED <<profile, place, blob, declared, says, work>>
  BY <1>1, OthersKept
<1>3. used["envelope"] = Pin /\ "envelope" \in Uses /\ used'["envelope"] = Pin
  <2>1. profile = "cra_05y"
    BY <1>1, HeadFirst DEF Allowed, Asked, PinnedChecks
  <2>2. "envelope" \in Asked(profile) /\ Rank["envelope"] < Rank["receipts"]
    BY <2>1, RankIs DEF Asked, PinnedChecks
  <2>3. used["envelope"] = Pin
    BY <1>1, <2>2, HeadFirst DEF Done, PinnedChecks
  <2>. QED
    BY <1>2, <2>3, UsesAre
<1>4. Done("receipts")'
  BY <1>2, <1>3 DEF Receipts, Done, PinnedChecks, Says
<1>. QED
  BY <1>1, <1>4, OthersKept, AfterPass

LEMMA ManifestStep == ASSUME IInv, Manifest PROVE IInv'
<1>1. At("manifest") /\ Passes("manifest", Bytes("manifest")) /\ UseOf("manifest") = "manifest" /\ "manifest" \in Uses
  BY UsesAre DEF Manifest, UseOf
<1>2. /\ used'["manifest"] = Bytes("manifest") /\ \A x \in Uses \ {"manifest"} : used'[x] = used[x]
      /\ UNCHANGED <<profile, place, blob, declared, says, work>>
  BY <1>1, OthersKept
<1>3. used["registry"] = Pin /\ "registry" \in Uses /\ used'["registry"] = Pin
  <2>1. profile = "cra_05y"
    BY <1>1, HeadFirst DEF Allowed, Asked, PinnedChecks
  <2>2. "registry" \in Asked(profile) /\ Rank["registry"] < Rank["manifest"]
    BY <2>1, RankIs DEF Asked, PinnedChecks
  <2>3. used["registry"] = Pin
    BY <1>1, <2>2, HeadFirst DEF Done, PinnedChecks
  <2>. QED
    BY <1>2, <2>3, UsesAre
<1>4. Done("manifest")'
  BY <1>2, <1>3 DEF Manifest, Done, PinnedChecks, Says
<1>. QED
  BY <1>1, <1>4, OthersKept, AfterPass

LEMMA SourcesStep == ASSUME IInv, Sources PROVE IInv'
<1>1. At("sources") /\ Passes("source", Bytes("source")) /\ UseOf("sources") = "source"
      /\ "source" \in Uses
  BY UsesAre DEF Sources, UseOf
<1>2. /\ used'["source"] = Bytes("source") /\ \A x \in Uses \ {"source"} : used'[x] = used[x]
      /\ UNCHANGED <<profile, place, blob, declared, says, work>>
  BY <1>1, OthersKept
<1>3. used["registry"] = Pin /\ "registry" \in Uses /\ used'["registry"] = Pin
  <2>1. profile = "cra_05y"
    BY <1>1, HeadFirst DEF Allowed, Asked, PinnedChecks
  <2>2. "registry" \in Asked(profile) /\ Rank["registry"] < Rank["sources"]
    BY <2>1, RankIs DEF Asked, PinnedChecks
  <2>3. used["registry"] = Pin
    BY <1>1, <2>2, HeadFirst DEF Done, PinnedChecks
  <2>. QED
    BY <1>2, <2>3, UsesAre
<1>4. (used["source"] \in {0, says["registry"]["source"]})'
  BY <1>2, <1>3 DEF Sources, Says
<1>5. Done("sources")'
  BY DEF Done, PinnedChecks
<1>. QED
  BY <1>1, <1>4, <1>5, OthersKept, AfterPass

LEMMA ChronologyStep == ASSUME IInv, Chronology PROVE IInv'
<1>1. At("chronology") /\ Passes("chronology", Bytes("ledger"))
      /\ UseOf("chronology") = "chronology" /\ "chronology" \in Uses
  BY UsesAre DEF Chronology, UseOf
<1>2. used'["chronology"] = Bytes("ledger") /\ UNCHANGED place
  BY <1>1, OthersKept
<1>3. place = "runner" => Bytes("ledger") = Pin
  <2>1. profile = "cra_05y"
    BY <1>1, HeadFirst DEF Allowed, Asked, PinnedChecks
  <2>2. "ledger" \in Asked(profile) /\ Rank["ledger"] < Rank["chronology"]
    BY <2>1, RankIs DEF Asked, PinnedChecks
  <2>. QED
    BY <1>1, <2>2, HeadFirst DEF Done
<1>4. (place = "runner" => used["chronology"] \in {0, Pin})'
  BY <1>2, <1>3
<1>5. Done("chronology")'
  BY DEF Done, PinnedChecks
<1>. QED
  BY <1>1, <1>4, <1>5, OthersKept, AfterPass

LEMMA ReadListingStep == ASSUME IInv, ReadListing PROVE IInv'
<1>1. At("listing") /\ Passes("listing", Bytes("listing")) /\ UseOf("listing") = "listing" /\ "listing" \in Uses
  BY UsesAre DEF ReadListing, UseOf
<1>2. /\ used'["listing"] = Bytes("listing") /\ \A x \in Uses \ {"listing"} : used'[x] = used[x]
      /\ UNCHANGED <<profile, place, blob, declared, says, work>>
  BY <1>1, OthersKept
<1>3. Done("listing")'
  BY <1>2, UsesAre DEF ReadListing, Done, PinnedChecks, Bytes
<1>. QED
  BY <1>1, <1>3, OthersKept, AfterPass

LEMMA ListedStep == ASSUME IInv, Listed PROVE IInv'
<1>1. At("listed") /\ Passes("artifact", Bytes("artifact")) /\ UseOf("listed") = "artifact" /\ "artifact" \in Uses
  BY UsesAre DEF Listed, UseOf
<1>2. /\ used'["artifact"] = Bytes("artifact") /\ \A x \in Uses \ {"artifact"} : used'[x] = used[x]
      /\ UNCHANGED <<profile, place, blob, declared, says, work>>
  BY <1>1, OthersKept
<1>3. Done("listed")'
  BY <1>2, UsesAre DEF Listed, Done, PinnedChecks, Entry, Says
<1>. QED
  BY <1>1, <1>3, OthersKept, AfterPass

LEMMA ExactStep == ASSUME IInv, Exact PROVE IInv'
<1>1. At("exact") /\ Passes("artifact", Bytes("artifact")) /\ UseOf("exact") = "artifact" /\ "artifact" \in Uses
  BY UsesAre DEF Exact, UseOf
<1>2. /\ used'["artifact"] = Bytes("artifact") /\ \A x \in Uses \ {"artifact"} : used'[x] = used[x]
      /\ UNCHANGED <<profile, place, blob, declared, says, work>>
  BY <1>1, OthersKept
<1>3. Done("exact")'
  BY <1>2, UsesAre DEF Exact, Done, PinnedChecks, Entry, Says
<1>. QED
  BY <1>1, <1>3, OthersKept, AfterPass

LEMMA RootStep == ASSUME IInv, Root PROVE IInv'
<1>1. At("root") /\ Passes("root", 0) /\ UseOf("root") = "root" /\ "root" \in Uses
  BY UsesAre DEF Root, UseOf
<1>2. /\ used'["root"] = 0 /\ \A x \in Uses \ {"root"} : used'[x] = used[x]
      /\ UNCHANGED <<profile, place, blob, declared, says, work>>
  BY <1>1, OthersKept
<1>3. Done("root")'
  BY <1>2, UsesAre DEF Root, Done, PinnedChecks, Bytes
<1>. QED
  BY <1>1, <1>3, OthersKept, AfterPass

LEMMA LoadStep == ASSUME IInv, Load PROVE IInv'
<1>1. At("load") /\ Passes("code", Bytes("code")) /\ UseOf("load") = "code" /\ "code" \in Uses
  BY UsesAre DEF Load, UseOf
<1>2. /\ used'["code"] = Bytes("code") /\ \A x \in Uses \ {"code"} : used'[x] = used[x]
      /\ UNCHANGED <<profile, place, blob, declared, says, work>>
  BY <1>1, OthersKept
<1>3. place = "runner" => Bytes("code") = Pin
  <2>1. profile = "release"
    BY <1>1, HeadFirst DEF Allowed, Asked, PinnedChecks
  <2>2. "root" \in Asked(profile) /\ Rank["root"] < Rank["load"]
    BY <2>1, RankIs DEF Asked, PinnedChecks
  <2>. QED
    BY <1>1, <2>2, HeadFirst DEF Done
<1>4. Done("load")'
  BY <1>2, <1>3 DEF Load, Done, PinnedChecks, Bytes
<1>. QED
  BY <1>1, <1>4, OthersKept, AfterPass

LEMMA ListingAgainStep == ASSUME IInv, ListingAgain PROVE IInv'
<1>1. At("listing_again") /\ Passes("listing_again", Bytes("listing")) /\ UseOf("listing_again") = "listing_again" /\ "listing_again" \in Uses
  BY UsesAre DEF ListingAgain, UseOf
<1>2. /\ used'["listing_again"] = Bytes("listing") /\ \A x \in Uses \ {"listing_again"} : used'[x] = used[x]
      /\ UNCHANGED <<profile, place, blob, declared, says, work>>
  BY <1>1, OthersKept
<1>3. place = "runner" => used["listing"] = Bytes("listing")
  <2>1. profile = "release"
    BY <1>1, HeadFirst DEF Allowed, Asked, PinnedChecks
  <2>2. "listing" \in Asked(profile) /\ Rank["listing"] < Rank["listing_again"]
    BY <2>1, RankIs DEF Asked, PinnedChecks
  <2>. QED
    BY <1>1, <2>2, HeadFirst DEF Done
<1>4. Done("listing_again")'
  BY <1>2, <1>3, UsesAre DEF ListingAgain, Done, PinnedChecks, Bytes
<1>. QED
  BY <1>1, <1>4, OthersKept, AfterPass

LEMMA LargeStep == ASSUME IInv, Large PROVE IInv'
<1>1. At("large") /\ Passes("large", 0) /\ UseOf("large") = "large" /\ "large" \in Uses
  BY UsesAre DEF Large, UseOf
<1>2. /\ \A x \in Uses \ {"large"} : used'[x] = used[x]
      /\ UNCHANGED <<profile, place, blob, declared, says, work>>
  BY <1>1, OthersKept
<1>3. Expected' = Expected
  BY <1>2, UsesAre DEF Expected, Entry, Says
<1>4. blob \in Pointers => PayloadOf(blob) = Expected
  BY DEF Large, IsLarge, Pointers, PointerTo, Payloads
<1>5. Done("large")'
  BY <1>2, <1>3, <1>4 DEF Done, PinnedChecks, PayloadOf
<1>. QED
  BY <1>1, <1>5, OthersKept, AfterPass

-----------------------------------------------------------------------------
(* The other steps.                                                         *)

\* On a runner the checkout moves before the first check only, when no fact
\* has been left yet; at a desk no fact is about the checkout.
LEMMA EditStep == ASSUME IInv, NEW f \in Files, Edit(f) PROVE IInv'
<1>1. /\ UNCHANGED <<profile, place, blob, declared, says, todo, used, verdict, job, checks>>
      /\ place = "runner" => todo \in ChecksOf(profile)
  BY DEF Edit, given
<1>2. \A c : IsLeft(c)' = IsLeft(c)
  BY <1>1 DEF IsLeft
<1>3. Facts'
  <2>1. CASE place = "runner"
    <3>1. \A c \in Asked(profile) : IsLeft(c)
      BY <1>1, <2>1, StartIsFit DEF IInv, Given
    <3>. QED
      BY <1>1, <1>2, <3>1 DEF IInv, Facts
  <2>2. CASE place # "runner"
    <3>1. \A c : Done(c)' = Done(c)
      BY <1>1, <2>2 DEF Done, Entry, Expected, Says
    <3>. QED
      BY <1>1, <1>2, <2>2, <3>1 DEF IInv, Facts
  <2>. QED
    BY <2>1, <2>2
<1>4. Workflow' = Workflow /\ Conclusion' = Conclusion
  BY <1>1 DEF Workflow, Conclusion
<1>5. Given' /\ Verdicts'
  BY <1>1 DEF IInv, Given, Verdicts
<1>6. InOrder'
  BY <1>1, <1>2 DEF IInv, InOrder
<1>7. Jobs'
  BY <1>1, <1>4 DEF IInv, Jobs
<1>. QED
  BY <1>3, <1>5, <1>6, <1>7 DEF IInv

\* What the job does leaves the facts alone.
LEMMA FactsKept ==
  ASSUME IInv, UNCHANGED <<profile, place, blob, declared, says, work, todo, used>>
  PROVE  Given' /\ InOrder' /\ Facts' /\ Workflow' = Workflow
<1>1. \A c : IsLeft(c)' = IsLeft(c) /\ Done(c)' = Done(c)
  BY DEF IsLeft, Done, Entry, Expected, Says, Bytes
<1>. QED
  BY <1>1 DEF IInv, Given, InOrder, Facts, Workflow

LEMMA RejectStep == ASSUME IInv, Reject PROVE IInv'
<1>1. Given' /\ InOrder' /\ Facts' /\ Workflow' = Workflow
  BY FactsKept DEF Reject, given
<1>2. Verdicts'
  BY DEF Reject, Verdicts
<1>3. Jobs'
  <2>1. /\ job' = job /\ checks' = checks /\ job.exit # "0" /\ job.phase = "verify"
    BY DEF Reject, IInv, Jobs
  <2>. QED
    BY <1>1, <2>1 DEF IInv, Jobs
<1>. QED
  BY <1>1, <1>2, <1>3 DEF IInv

LEMMA VerifyStep == ASSUME IInv, Verify PROVE IInv'
  BY ScopeStep, PinnedStep, LedgerStep, ReceiptsStep, ManifestStep, SourcesStep,
     ChronologyStep, ReadListingStep, ListedStep, RequiredStep, ComputedStep, LargeStep,
     RootStep, RootManifestStep, RootFilesStep, LoadStep, ExactStep, ListingAgainStep,
     RejectStep DEF Verify

LEMMA JobStep ==
  ASSUME IInv, Prepare \/ VerifyEnds \/ Cancel \/ Publish \/ PublishFails \/ FailWhenRejected
  PROVE  IInv'
<1>1. Keep
  BY DEF Prepare, VerifyEnds, Cancel, Publish, PublishFails, FailWhenRejected
<1>2. Given' /\ InOrder' /\ Facts' /\ Workflow' = Workflow /\ verdict' = verdict
  BY <1>1, FactsKept DEF Keep, given
<1>3. Verdicts'
  BY <1>1 DEF Keep, IInv, Verdicts
<1>4. Jobs'
  <2>. USE <1>2 DEF IInv, Jobs
  <2>1. CASE Prepare
    BY <2>1 DEF Prepare
  <2>2. CASE VerifyEnds
    BY <2>2 DEF VerifyEnds, Verdicts
  <2>3. CASE Cancel
    BY <2>3 DEF Cancel
  <2>4. CASE Publish
    BY <2>4 DEF Publish, Conclusion
  <2>5. CASE PublishFails
    <3>1. /\ job.phase = "publish" /\ checks = {}
          /\ job' = [job EXCEPT !.phase = "fail",
                                !.state = IF @ = "success" THEN "failure" ELSE @]
      BY <2>5 DEF PublishFails
    <3>2. checks' = {} \/ checks' = {Conclusion}
      BY <2>5, <3>1 DEF PublishFails
    <3>3. "success" \in checks' => job.exit = "0"
      <4>1. job.exit # "0" => Conclusion # "success"
        BY DEF Conclusion
      <4>. QED
        BY <3>2, <4>1
    <3>4. Workflow
      BY <3>1
    <3>5. job' \in [phase : {"prepare", "verify", "publish", "fail", "done"},
                    state : {"success", "failure", "cancelled"}, token : BOOLEAN,
                    exit : {"", "0", "1"}]
          /\ job'.phase = "fail" /\ job'.state # "success" /\ job'.exit = job.exit
      BY <3>1
    <3>. QED
      BY <3>3, <3>4, <3>5
  <2>6. CASE FailWhenRejected
    BY <2>6 DEF FailWhenRejected, Conclusion
  <2>. QED
    BY <2>1, <2>2, <2>3, <2>4, <2>5, <2>6
<1>. QED
  BY <1>2, <1>3, <1>4 DEF IInv

-----------------------------------------------------------------------------

\* Of every verification, whatever the documents say and however often the
\* checkout is edited: the checks that were passed have left what they found,
\* and neither a later check nor the workflow's job has disturbed it.
THEOREM Inductive == Spec => []IInv
<1>1. IInv /\ [Next]_vars => IInv'
  <2>. SUFFICES ASSUME IInv, [Next]_vars PROVE IInv'
    OBVIOUS
  <2>1. CASE \E f \in Files : Edit(f)
    BY <2>1, EditStep
  <2>2. CASE Verify
    BY <2>2, VerifyStep
  <2>3. CASE Prepare \/ VerifyEnds \/ Cancel \/ Publish \/ PublishFails \/ FailWhenRejected
    BY <2>3, JobStep
  <2>4. CASE UNCHANGED vars
    <3>1. Given' /\ InOrder' /\ Facts' /\ Workflow' = Workflow
      BY <2>4, FactsKept DEF vars, given
    <3>. QED
      BY <2>4, <3>1 DEF vars, IInv, Verdicts, Jobs, Conclusion
  <2>. QED
    BY <2>1, <2>2, <2>3, <2>4 DEF Next
<1>. QED
  BY InitIInv, <1>1, PTL DEF Spec

LEMMA AllDone ==
  ASSUME IInv, verdict = "PASS" PROVE \A c \in Asked(profile) : Done(c)
<1>1. \A c : ~IsLeft(c)
  BY DEF IInv, Verdicts, IsLeft
<1>. QED
  BY <1>1 DEF IInv, Facts

\* Evidence written for the holdout candidate (_verify_cra_05y) rests on the
\* documents the policy pins, for any documents and any number of edits of the
\* checkout between one read and the next.
THEOREM PassRestsOnPinsHolds == Spec => []PassRestsOnPins
<1>1. IInv => PassRestsOnPins
  <2>. SUFFICES ASSUME IInv, verdict = "PASS", profile = "cra_05y"
                PROVE  PassRestsOnPins
    BY DEF PassRestsOnPins
  <2>1. \A c \in PinnedChecks \cup {"receipts", "manifest", "large"} : Done(c)
    BY AllDone DEF Asked
  <2>2. \A f \in PinnedChecks : used[f] = Pin
    BY <2>1 DEF Done
  <2>3. used["manifest"] = says["registry"]["manifest"]
    BY <2>1 DEF Done
  <2>4. says["envelope"]["artifact"] # 0 => used["artifact"] = says["envelope"]["artifact"]
    BY <2>1 DEF Done
  <2>5. blob \in Pointers => PayloadOf(blob) = Expected
    BY <2>1 DEF Done
  <2>6. /\ used["source"] \in {0, says["registry"]["source"]}
        /\ place = "runner" => used["chronology"] \in {0, Pin}
    BY DEF IInv, Facts
  <2>7. used["envelope"] = Pin /\ used["registry"] = Pin
    BY <2>2 DEF PinnedChecks
  <2>8. /\ Says("envelope", used["envelope"], "artifact") = says["envelope"]["artifact"]
        /\ Says("registry", used["registry"], "artifact") = says["registry"]["artifact"]
        /\ Says("manifest", used["manifest"], "artifact") =
             IF says["registry"]["manifest"] = Pin THEN says["manifest"]["artifact"]
             ELSE says["registry"]["manifest"]
    BY <2>3, <2>7 DEF Says
  <2>9. Expected =
          IF declared # 0 THEN declared
          ELSE IF says["envelope"]["artifact"] # 0 THEN says["envelope"]["artifact"]
          ELSE IF says["registry"]["artifact"] # 0 THEN says["registry"]["artifact"]
          ELSE IF says["registry"]["manifest"] = Pin THEN says["manifest"]["artifact"]
          ELSE says["registry"]["manifest"]
    BY <2>8 DEF Expected, Listing
  <2>. QED
    BY <2>2, <2>3, <2>4, <2>5, <2>6, <2>9 DEF PassRestsOnPins, PinnedChecks
<1>. QED
  BY Inductive, <1>1, PTL

\* A large file among the evidence of the other profiles (_verify_lfs_pointers
\* against their listing or map) was hashed as the payload the pointer at the
\* candidate's head names.
THEOREM LargeEvidenceIsOfHeadHolds == Spec => []LargeEvidenceIsOfHead
<1>1. IInv => LargeEvidenceIsOfHead
  <2>. SUFFICES ASSUME IInv, verdict = "PASS", blob \in Pointers
                PROVE  LargeEvidenceIsOfHead
    BY DEF LargeEvidenceIsOfHead
  <2>1. PayloadOf(blob) # 0
    BY DEF Pointers, PointerTo, PayloadOf, Payloads
  <2>2. CASE profile \in Listing
    <3>1. Done("listed") /\ Done("large") /\ declared = 0
      BY <2>2, AllDone DEF Asked, Listing, IInv, Given
    <3>2. PayloadOf(blob) = Entry
      BY <2>2, <3>1 DEF Done, Expected, Listing
    <3>. QED
      BY <2>1, <2>2, <3>1, <3>2 DEF Done, LargeEvidenceIsOfHead, Listing, Computing
  <2>3. CASE profile \in Computing
    <3>1. Done("large") /\ declared = 0
      BY <2>3, AllDone DEF Asked, Computing, IInv, Given
    <3>2. PayloadOf(blob) = used["computed"]
      BY <2>3, <3>1 DEF Done, Expected, Listing, Computing
    <3>. QED
      BY <2>3, <3>2 DEF LargeEvidenceIsOfHead, Listing, Computing
  <2>. QED
    BY <2>2, <2>3 DEF LargeEvidenceIsOfHead
<1>. QED
  BY Inductive, <1>1, PTL

\* The check prior-release-verify posts a success for (publish step of
\* prior-release-verify.yml) came of exactly the pinned release's code and of a
\* release manifest that lists the candidate's files as they are; a green run
\* has posted one.
THEOREM SuccessIsOfPinnedReleaseHolds == Spec => []SuccessIsOfPinnedRelease
<1>1. IInv => SuccessIsOfPinnedRelease
  <2>. SUFFICES ASSUME IInv PROVE SuccessIsOfPinnedRelease
    OBVIOUS
  <2>1. ASSUME "success" \in checks
        PROVE  /\ verdict = "PASS" /\ used["code"] = Pin
               /\ used["listing_again"] = used["listing"]
               /\ used["artifact"] = Says("listing", used["listing"], "artifact")
    <3>1. verdict = "PASS" /\ profile = "release" /\ place = "runner"
      BY <2>1 DEF IInv, Jobs, Workflow
    <3>2. Done("load") /\ Done("exact") /\ Done("listing_again")
      BY <3>1, AllDone DEF Asked
    <3>. QED
      BY <3>1, <3>2 DEF Done, Entry
  <2>2. job.phase = "done" /\ job.state = "success" => "success" \in checks
    BY DEF IInv, Jobs
  <2>. QED
    BY <2>1, <2>2 DEF SuccessIsOfPinnedRelease
<1>. QED
  BY Inductive, <1>1, PTL
=============================================================================
