---------------------- MODULE AdmissionPublicationProofs ----------------------
(***************************************************************************)
(* Proofs about AdmissionPublication, for every set of attempts, requests  *)
(* and grants.                                                             *)
(***************************************************************************)
EXTENDS AdmissionPublicationInv, SequenceTheorems, TLAPS

-----------------------------------------------------------------------------
(* The trees of the branch.                                                 *)

LEMMA NoStateType == NoState \in Commit
BY DEF NoState, Commit, Statuses

LEMMA TreeAtType ==
  ASSUME TypeOK, NEW n \in 0..Len(ledger)
  PROVE  TreeAt(n) \in Commit
<1>1. Len(ledger) \in Nat
  BY LenProperties DEF TypeOK
<1> QED
  BY <1>1, NoStateType, ElementOfSeq DEF TypeOK, TreeAt

LEMMA CurrentType == TypeOK => Current \in Commit
BY TreeAtType, LenProperties DEF TypeOK, Current

\* What a ledger write commits is a tree.
LEMMA TreeType ==
  ASSUME TypeOK, NEW a \in Attempts, NEW call \in WriteLabels, head[a] <= Len(ledger)
  PROVE  Tree(a, call) \in Commit
<1>1. Len(ledger) \in Nat /\ head[a] \in Nat
  BY LenProperties DEF TypeOK
<1>2. TreeAt(head[a]) \in Commit
  BY <1>1, TreeAtType
<1> QED
  BY <1>1, <1>2 DEF Tree, StatusOf, Commit, Statuses, WriteLabels

\* A new commit leaves the older ones in place and becomes the current tree.
LEMMA AppendTree ==
  ASSUME TypeOK, NEW c \in Commit, ledger' = Append(ledger, c)
  PROVE  /\ ledger' \in Seq(Commit)
         /\ Len(ledger) \in Nat
         /\ Len(ledger') = Len(ledger) + 1
         /\ \A i \in 1..Len(ledger) : ledger'[i] = ledger[i]
         /\ ledger'[Len(ledger) + 1] = c
         /\ Current' = c
         /\ \A n \in 0..Len(ledger) : (IF n = 0 THEN NoState ELSE ledger'[n]) = TreeAt(n)
<1>1. /\ ledger' \in Seq(Commit)
      /\ Len(ledger') = Len(ledger) + 1
      /\ \A i \in 1..Len(ledger) : ledger'[i] = ledger[i]
      /\ ledger'[Len(ledger) + 1] = c
  BY AppendProperties DEF TypeOK
<1>2. Len(ledger) \in Nat
  BY LenProperties DEF TypeOK
<1>3. Current' = c
  BY <1>1, <1>2 DEF Current, TreeAt
<1>4. \A n \in 0..Len(ledger) : (IF n = 0 THEN NoState ELSE ledger'[n]) = TreeAt(n)
  BY <1>1, <1>2 DEF TreeAt
<1> QED
  BY <1>1, <1>2, <1>3, <1>4

-----------------------------------------------------------------------------
(* Initially.                                                               *)

LEMMA InitTypeOK == Init => TypeOK
<1> SUFFICES ASSUME Init PROVE TypeOK
  OBVIOUS
<1>1. ledger \in Seq(Commit)
  <2>1. CASE ledger = <<>>
    BY <2>1, EmptySeq
  <2>2. CASE ledger = <<NoState>>
    BY <2>2, NoStateType
  <2> QED
    BY <2>1, <2>2 DEF Init
<1> QED
  BY <1>1 DEF Init, TypeOK, Labels, QuietLabels

LEMMA InitIInv == Init => IInv
<1> SUFFICES ASSUME Init PROVE IInv
  OBVIOUS
<1>1. TypeOK
  BY InitTypeOK
<1>2. /\ Len(ledger) \in Nat
      /\ \A i \in 1..Len(ledger) : ledger[i] = NoState
      /\ Current = NoState
  <2>1. CASE ledger = <<>>
    BY <2>1 DEF Current, TreeAt
  <2>2. CASE ledger = <<NoState>>
    BY <2>2 DEF Current, TreeAt
  <2> QED
    BY <2>1, <2>2 DEF Init
<1>3. StageInv
  BY <1>2, AttemptsAssumption DEF Init, StageInv, Needs, At, NoState, Completing
<1>4. LateInv
  BY DEF Init, LateInv, NoLate
<1>5. LedgerInv /\ AdmittedInv
  BY <1>2 DEF Init, LedgerInv, AdmittedInv, NoState
<1>6. CheckInv
  BY DEF Init, CheckInv
<1> QED
  BY <1>1, <1>3, <1>4, <1>5, <1>6 DEF IInv

-----------------------------------------------------------------------------
(* What a ledger write does to the world.  It is applied for an attempt      *)
(* that finds what the write needs, at once or late.                         *)

LEMMA WriteTree ==
  ASSUME IInv, NEW a \in Attempts, NEW call \in WriteLabels, Needs(a, call),
         ApplyWrite(a, call)
  PROVE  /\ Len(ledger) = head[a]
         /\ Current = TreeAt(head[a])
         /\ Tree(a, call) \in Commit
         /\ call = "reserve" => Current = NoState /\ Tree(a, call) = Reserved(a)
         /\ call = "persist" =>
              Current = Reserved(a) /\ Tree(a, call) = Persisted(a)
         /\ call = "admit" =>
              Current = Persisted(a) /\ Tree(a, call) = Admitted(a, head[a])
<1>1. Len(ledger) = head[a] /\ head[a] \in Nat
  BY DEF ApplyWrite, FastForward, IInv, TypeOK
<1>2. Current = TreeAt(head[a])
  BY <1>1 DEF Current
<1>3. Tree(a, call) \in Commit
  BY <1>1, TreeType DEF IInv
<1>4. ASSUME call = "reserve"
      PROVE  Current = NoState /\ Tree(a, call) = Reserved(a)
  <2>1. Current = NoState
    BY <1>2, <1>4 DEF Needs
  <2> QED
    BY <1>2, <1>4, <2>1 DEF Tree, StatusOf, NoState, Reserved
<1>5. ASSUME call = "persist"
      PROVE  Current = Reserved(a) /\ Tree(a, call) = Persisted(a)
  <2>1. Current = Reserved(a)
    BY <1>2, <1>5 DEF Needs
  <2> QED
    BY <1>2, <1>5, <2>1 DEF Tree, StatusOf, Reserved, Persisted
<1>6. ASSUME call = "admit"
      PROVE  Current = Persisted(a) /\ Tree(a, call) = Admitted(a, head[a])
  <2>1. Current = Persisted(a)
    BY <1>2, <1>6 DEF Needs
  <2> QED
    BY <1>2, <1>6, <2>1 DEF Tree, StatusOf, Persisted, Admitted
<1> QED
  BY <1>1, <1>2, <1>3, <1>4, <1>5, <1>6

\* A write keeps the branch, and what the check runs say of it, consistent.
LEMMA WriteWorld ==
  ASSUME IInv, NEW a \in Attempts, NEW call \in WriteLabels, Needs(a, call),
         ApplyWrite(a, call), UNCHANGED <<grant, head>>
  PROVE  LedgerInv' /\ AdmittedInv' /\ CheckInv'
<1> DEFINE c == Tree(a, call)
<1>1. c \in Commit /\ ledger' = Append(ledger, c)
  BY WriteTree DEF ApplyWrite
<1> HIDE DEF c
<1>2. /\ Len(ledger) \in Nat
      /\ Len(ledger') = Len(ledger) + 1
      /\ \A i \in 1..Len(ledger) : ledger'[i] = ledger[i]
      /\ ledger'[Len(ledger) + 1] = c
      /\ Current' = c
  BY <1>1, AppendTree DEF IInv
<1>3. /\ c.by = a /\ c.status # "none"
      /\ c.status = "ADMITTED" => c = Admitted(a, head[a])
      /\ Current.by \in {None, a} /\ Current.status # "ADMITTED"
      /\ Len(ledger) = head[a]
      /\ c.status = "ADMITTED" => Current = Persisted(a) /\ call = "admit"
  BY WriteTree DEF c, WriteLabels, Reserved, Persisted, Admitted, NoState
<1>4. LedgerInv'
  BY <1>2, <1>3, AttemptsAssumption DEF LedgerInv, IInv, TypeOK
<1>5. AdmittedInv'
  <2> SUFFICES ASSUME NEW i \in 1..Len(ledger'), ledger'[i].status = "ADMITTED"
               PROVE  /\ Current' = ledger'[i]
                      /\ ledger'[i].receiptCommit \in 1..Len(ledger')
                      /\ ledger'[ledger'[i].receiptCommit] = Persisted(ledger'[i].by)
                      /\ checks'[ledger'[i].by] \in {"success", "cancelled"}
    BY DEF AdmittedInv, Persisted
  <2>1. i = Len(ledger) + 1
    <3>1. SUFFICES ASSUME i \in 1..Len(ledger) PROVE FALSE
      BY <1>2
    <3>2. ledger[i].status = "ADMITTED"
      BY <1>2, <3>1
    <3> QED
      BY <1>3, <3>1, <3>2 DEF AdmittedInv, IInv
  <2>2. c = Admitted(a, head[a]) /\ Current = Persisted(a) /\ call = "admit"
    BY <1>2, <1>3, <2>1
  <2>3. head[a] \in 1..Len(ledger) /\ ledger[head[a]] = Persisted(a)
    BY <1>2, <1>3, <2>2 DEF Current, TreeAt, Persisted, NoState
  <2>4. checks[a] \in {"success", "cancelled"}
    BY <2>2 DEF Needs
  <2> QED
    BY <1>2, <2>1, <2>2, <2>3, <2>4 DEF Admitted, ApplyWrite
<1>6. CheckInv'
  <2> SUFFICES ASSUME NEW b \in Attempts
               PROVE  /\ checks'[b] # "absent" => Current'.by = b /\ grant'[b] \in Grants
                      /\ checks'[b] = "success" =>
                           \E i \in 1..Len(ledger') : ledger'[i] = Persisted(b)
    BY DEF CheckInv, Persisted
  <2>1. checks' = checks
    BY DEF ApplyWrite
  <2>2. checks[b] # "absent" => Current.by = b
    BY DEF IInv, CheckInv
  <2> QED
    BY <1>2, <1>3, <2>1, <2>2, AttemptsAssumption DEF IInv, CheckInv
<1> QED
  BY <1>4, <1>5, <1>6

\* Labels that only the holder of the scope can stand at.
Holding == {"recheck_pr", "create", "confirm_reserve", "persist",
            "confirm_persist", "readback", "recheck_pr_after", "admit",
            "confirm_admit"} \cup Completing

LEMMA NeedsHolder ==
  ASSUME IInv, NEW a \in Attempts, NEW l \in Holding, Needs(a, l)
  PROVE  Current.by = a
<1>1. Len(ledger) \in Nat /\ head[a] \in Nat /\ head[a] <= Len(ledger)
  BY LenProperties DEF IInv, TypeOK, LedgerInv
<1>2. \A i \in 1..Len(ledger) : ledger[i].by = a => Current.by = a
  BY AttemptsAssumption DEF IInv, LedgerInv
<1>3. CASE l \in {"confirm_reserve", "confirm_persist", "confirm_admit"}
  BY <1>1, <1>2, <1>3 DEF Needs, Reserved, Persisted, Admitted
<1>4. CASE l \notin {"confirm_reserve", "confirm_persist", "confirm_admit"}
  <2>1. TreeAt(head[a]) = Reserved(a) \/ TreeAt(head[a]) = Persisted(a)
    BY <1>4 DEF Needs, Holding, Completing
  <2>2. TreeAt(head[a]).by = a
    BY <2>1 DEF Reserved, Persisted
  <2>3. head[a] # 0
    BY <2>2, AttemptsAssumption DEF TreeAt, NoState
  <2> QED
    BY <1>1, <1>2, <2>2, <2>3 DEF TreeAt
<1> QED
  BY <1>3, <1>4

\* A write takes away nothing that another attempt, or another late call of
\* the same attempt, needs.
LEMMA WriteKeeps ==
  ASSUME IInv, NEW a \in Attempts, NEW call \in WriteLabels, Needs(a, call),
         ApplyWrite(a, call), UNCHANGED <<grant, head>>,
         NEW b \in Attempts, NEW l \in Labels, Needs(b, l),
         b = a => l \in (Calls \ {call}) \cup {"partial", "unconfirmed", "crashed"},
         b = a /\ call = "admit" => l # "complete"
  PROVE  Needs(b, l)'
<1> DEFINE c == Tree(a, call)
<1>1. c \in Commit /\ ledger' = Append(ledger, c)
  BY WriteTree DEF ApplyWrite
<1> HIDE DEF c
<1>2. /\ Len(ledger) \in Nat
      /\ Len(ledger') = Len(ledger) + 1
      /\ \A i \in 1..Len(ledger) : ledger'[i] = ledger[i]
      /\ Current' = c
      /\ \A n \in 0..Len(ledger) : (IF n = 0 THEN NoState ELSE ledger'[n]) = TreeAt(n)
  BY <1>1, AppendTree DEF IInv
<1>3. head[b] \in 0..Len(ledger)
  BY <1>2 DEF IInv, LedgerInv, TypeOK
<1>4. TreeAt(head[b])' = TreeAt(head[b])
  BY <1>2, <1>3 DEF TreeAt
<1>5. head[b] < Len(ledger) => ledger'[head[b] + 1] = ledger[head[b] + 1]
  BY <1>2, <1>3
<1>6. /\ c.by = a /\ Current.by \in {None, a} /\ Current.status # "ADMITTED"
      /\ call = "reserve" => TreeAt(head[a]) = NoState
      /\ call = "persist" => TreeAt(head[a]) = Reserved(a)
      /\ call = "admit" => TreeAt(head[a]) = Persisted(a)
  BY WriteTree DEF c, WriteLabels, Reserved, Persisted, Admitted, NoState
<1>7. checks' = checks /\ head' = head /\ grant' = grant
  BY DEF ApplyWrite
<1>8. CASE b # a
  <2>1. l \in {"recheck_pr", "create", "confirm_reserve", "confirm_persist"}
            \cup Completing => Current.by = b
    BY NeedsHolder DEF Holding
  <2>2. l \notin {"recheck_pr", "create", "confirm_reserve", "confirm_persist"}
             \cup Completing
    BY <1>6, <1>8, <2>1, AttemptsAssumption
  <2>3. l \notin {"authenticated", "revalidate_pr", "revalidate_check", "already"}
    BY <1>6 DEF Needs
  <2>4. CASE l \in Untouching
    <3>1. checks[b] = "absent"
      BY <2>4 DEF Needs
    <3>2. l = "reserve" => TreeAt(head[b]) = NoState
      BY DEF Needs
    <3> QED
      BY <1>2, <1>4, <1>6, <1>7, <1>8, <2>3, <2>4, <3>1, <3>2
      DEF Needs, Completing, Untouching, QuietLabels
  <2>5. CASE l \notin Untouching
    <3>1. l \notin {"reserve", "authenticated", "revalidate_pr",
                   "revalidate_check", "already"} \cup Untouching
      BY <2>3, <2>5 DEF Untouching
    <3>2. CASE l = "confirm_admit"
      BY <1>2, <1>3, <1>5, <1>7, <3>2 DEF Needs, Completing, Untouching, QuietLabels, Admitted
    <3>3. CASE l # "confirm_admit"
      BY <1>4, <1>7, <2>2, <3>1, <3>3 DEF Needs, Reserved, Persisted
    <3> QED
      BY <3>2, <3>3
  <2> QED
    BY <2>4, <2>5
<1>9. CASE b = a
  <2>1. l \in {"withdraw", "partial", "unconfirmed", "crashed"}
    <3>1. l \in (Calls \ {call}) \cup {"partial", "unconfirmed", "crashed"}
      BY <1>9
    <3>2. CASE call = "reserve"
      BY <1>6, <1>9, <3>1, <3>2 DEF Needs, Calls, NoState, Reserved, Persisted, Completing
    <3>3. CASE call = "persist"
      BY <1>6, <1>9, <3>1, <3>3 DEF Needs, Calls, NoState, Reserved, Persisted, Completing
    <3>4. CASE call = "admit"
      BY <1>6, <1>9, <3>1, <3>4 DEF Needs, Calls, NoState, Reserved, Persisted, Completing
    <3> QED
      BY <3>2, <3>3, <3>4 DEF WriteLabels
  <2> QED
    BY <1>7, <1>9, <2>1 DEF Needs, Completing, Untouching, QuietLabels
<1> QED
  BY <1>8, <1>9

-----------------------------------------------------------------------------
(* The same for a call that changes a check run.                            *)

LEMMA CheckHolder ==
  ASSUME IInv, NEW a \in Attempts, NEW call \in CheckLabels, Needs(a, call)
  PROVE  Current.by = a
<1>1. CASE call = "withdraw"
  BY <1>1 DEF Needs, IInv, CheckInv
<1>2. CASE call \in {"create", "complete"}
  BY <1>2, NeedsHolder DEF Holding, Completing
<1> QED
  BY <1>1, <1>2 DEF CheckLabels

LEMMA CheckWorld ==
  ASSUME IInv, NEW a \in Attempts, NEW call \in CheckLabels, Needs(a, call),
         grant[a] \in Grants, ApplyCheck(a, call), UNCHANGED <<grant, head>>
  PROVE  LedgerInv' /\ AdmittedInv' /\ CheckInv'
<1>1. Current.by = a
  BY CheckHolder
<1>2. /\ ledger' = ledger /\ head' = head /\ grant' = grant
      /\ checks' = [checks EXCEPT ![a] = Conclusion[call]]
      /\ checks'[a] = Conclusion[call]
      /\ \A b \in Attempts \ {a} : checks'[b] = checks[b]
  BY DEF ApplyCheck, IInv, TypeOK
<1>3. Current' = Current
  BY <1>2 DEF Current, TreeAt
<1>4. /\ call = "create" => Conclusion[call] = "in_progress"
      /\ call = "complete" => Conclusion[call] = "success"
      /\ call = "withdraw" => Conclusion[call] = "cancelled"
  BY DEF Conclusion
<1>5. LedgerInv'
  BY <1>2, <1>3 DEF IInv, LedgerInv
<1>6. AdmittedInv'
  <2> SUFFICES ASSUME NEW i \in 1..Len(ledger), ledger[i].status = "ADMITTED"
               PROVE  /\ Current = ledger[i]
                      /\ ledger[i].receiptCommit \in 1..Len(ledger)
                      /\ ledger[ledger[i].receiptCommit] = Persisted(ledger[i].by)
                      /\ checks'[ledger[i].by] \in {"success", "cancelled"}
    BY <1>2, <1>3 DEF AdmittedInv, Persisted
  <2>1. Current = ledger[i]
    BY DEF IInv, AdmittedInv
  <2>2. call = "withdraw"
    BY <2>1 DEF Needs, CheckLabels, Completing
  <2> QED
    BY <1>1, <1>2, <1>4, <2>1, <2>2 DEF IInv, AdmittedInv
<1>7. CheckInv'
  <2> SUFFICES ASSUME NEW b \in Attempts
               PROVE  /\ checks'[b] # "absent" => Current.by = b /\ grant[b] \in Grants
                      /\ checks'[b] = "success" =>
                           \E i \in 1..Len(ledger) : ledger[i] = Persisted(b)
    BY <1>2, <1>3 DEF CheckInv, Persisted
  <2>1. CASE b # a
    BY <1>2, <2>1 DEF IInv, CheckInv
  <2>2. CASE b = a /\ call = "complete"
    <3>1. TreeAt(head[a]) = Persisted(a)
      BY <2>2 DEF Needs, Completing
    <3>2. head[a] \in 1..Len(ledger)
      BY <3>1, AttemptsAssumption, LenProperties
      DEF TreeAt, NoState, Persisted, IInv, TypeOK, LedgerInv
    <3> QED
      BY <1>1, <2>2, <3>1, <3>2 DEF TreeAt
  <2>3. CASE b = a /\ call # "complete"
    BY <1>1, <1>2, <1>4, <2>3 DEF CheckLabels
  <2> QED
    BY <2>1, <2>2, <2>3
<1> QED
  BY <1>5, <1>6, <1>7

LEMMA CheckKeeps ==
  ASSUME IInv, NEW a \in Attempts, NEW call \in CheckLabels, Needs(a, call),
         ApplyCheck(a, call), UNCHANGED <<grant, head>>,
         NEW b \in Attempts, NEW l \in Labels, Needs(b, l),
         b = a => l \in (Calls \ {call}) \cup {"withdraw", "partial", "unconfirmed", "crashed"}
  PROVE  Needs(b, l)'
<1>1. /\ ledger' = ledger /\ head' = head /\ grant' = grant
      /\ checks'[a] = Conclusion[call]
      /\ b # a => checks'[b] = checks[b]
  BY DEF ApplyCheck, IInv, TypeOK
<1>2. Current' = Current /\ TreeAt(head[b])' = TreeAt(head[b])
  BY <1>1 DEF Current, TreeAt
<1>3. CASE b # a
  BY <1>1, <1>2, <1>3 DEF Needs, SameIdentity, Reserved, Persisted, Admitted
<1>4. CASE b = a
  <2>1. l \in (Calls \ {call}) \cup {"withdraw", "partial", "unconfirmed", "crashed"}
    BY <1>4
  <2>2. Current.by = a
    BY CheckHolder
  <2>3. l # "reserve" /\ l # "create"
    BY <1>4, <2>1, <2>2 DEF Needs, Untouching, CheckLabels, Completing
  <2>4. CASE call = "create"
    BY <1>4, <2>1, <2>3, <2>4
    DEF Needs, Calls, Completing, Untouching, QuietLabels
  <2>5. CASE call \in {"complete", "withdraw"}
    <3>1. checks'[a] \in {"success", "cancelled"}
      BY <1>1, <2>5 DEF Conclusion
    <3> QED
      BY <1>1, <1>2, <1>4, <2>1, <2>3, <3>1
      DEF Needs, Calls, Completing, Untouching, QuietLabels, Reserved, Persisted
  <2> QED
    BY <2>4, <2>5 DEF CheckLabels
<1> QED
  BY <1>3, <1>4

-----------------------------------------------------------------------------
(* One attempt moves to label l.                                            *)

\* A step that leaves the branch, the checks, the grants and the heads alone
\* keeps everything that speaks only of them.
LEMMA Still ==
  ASSUME IInv, UNCHANGED <<ledger, checks, grant, head>>
  PROVE  /\ LedgerInv' /\ AdmittedInv' /\ CheckInv'
         /\ \A b \in Attempts, k \in Labels : Needs(b, k) => Needs(b, k)'
<1>1. Current' = Current /\ \A b \in Attempts : TreeAt(head[b])' = TreeAt(head[b])
  BY DEF Current, TreeAt
<1>2. LedgerInv' /\ AdmittedInv' /\ CheckInv'
  BY <1>1 DEF IInv, LedgerInv, AdmittedInv, CheckInv, Persisted
<1>3. ASSUME NEW b \in Attempts, NEW k \in Labels, Needs(b, k) PROVE Needs(b, k)'
  BY <1>1, <1>3 DEF Needs, SameIdentity, Reserved, Persisted, Admitted
<1> QED
  BY <1>2, <1>3

\* Labels at which an attempt need not have found an approval.
Early == {"collect", "authorize", "rejected", "crashed"}

\* What a step of one attempt, that leaves no call behind, has to establish.
LEMMA Move ==
  ASSUME IInv, NEW a \in Attempts, NEW l \in Labels, Goto(a, l),
         UNCHANGED inflight,
         \A b \in Attempts \ {a} : grant'[b] = grant[b] /\ checks'[b] = checks[b],
         \A b \in Attempts \ {a}, k \in Labels : Needs(b, k) => Needs(b, k)',
         \A k \in Calls : <<a, k>> \in inflight => Needs(a, k)',
         Needs(a, l)',
         l = "admit" => checks'[a] = "success",
         l \in Live => NoLate(a),
         (l \in Early /\ NoLate(a)) \/ grant'[a] \in Grants
  PROVE  StageInv' /\ LateInv'
<1>1. pc'[a] = l /\ \A b \in Attempts \ {a} : pc'[b] = pc[b]
  BY DEF Goto, IInv, TypeOK
<1>2. Calls \subseteq Labels /\ \A b \in Attempts : pc[b] \in Labels
  BY DEF Calls, Labels, WriteLabels, CheckLabels, IInv, TypeOK
<1>3. ASSUME NEW b \in Attempts
      PROVE  /\ \A k \in Labels : pc'[b] = k => Needs(b, k)'
             /\ pc'[b] = "admit" => checks'[b] = "success"
             /\ \A k \in Calls : <<b, k>> \in inflight' => Needs(b, k)'
  <2>1. CASE b = a
    BY <1>1, <2>1
  <2>2. CASE b # a
    <3>1. Needs(b, pc[b]) /\ \A k \in Calls : <<b, k>> \in inflight => Needs(b, k)
      BY DEF IInv, StageInv
    <3>2. pc[b] = "admit" => checks[b] = "success"
      BY DEF IInv, StageInv, At
    <3> QED
      BY <1>1, <1>2, <2>2, <3>1, <3>2
  <2> QED
    BY <2>1, <2>2
<1>4. StageInv'
  <2>1. \A b \in Attempts : pc'[b] \in Labels
    BY <1>1, <1>2
  <2> SUFFICES ASSUME NEW b \in Attempts
               PROVE  /\ Needs(b, pc[b])'
                      /\ pc'[b] = "admit" => checks'[b] = "success"
                      /\ \A k \in Calls : <<b, k>> \in inflight' => Needs(b, k)'
    BY DEF StageInv, At
  <2>2. Needs(b, pc[b])'
    BY <1>3, <2>1 DEF Needs
  <2> QED
    BY <1>3, <2>2
<1>5. LateInv'
  <2> SUFFICES ASSUME NEW b \in Attempts
               PROVE  /\ pc'[b] \in Live => NoLate(b)'
                      /\ ~(<<b, "complete">> \in inflight' /\ <<b, "admit">> \in inflight')
                      /\ \/ pc'[b] \in Early /\ NoLate(b)'
                         \/ grant'[b] \in Grants
    BY DEF LateInv, Early
  <2>1. NoLate(b)' = NoLate(b)
    BY DEF NoLate
  <2>2. /\ pc[b] \in Live => NoLate(b)
        /\ ~(<<b, "complete">> \in inflight /\ <<b, "admit">> \in inflight)
        /\ (pc[b] \in Early /\ NoLate(b)) \/ grant[b] \in Grants
    BY DEF IInv, LateInv, Early
  <2>3. CASE b = a
    BY <1>1, <2>1, <2>2, <2>3
  <2>4. CASE b # a
    BY <1>1, <2>1, <2>2, <2>4
  <2> QED
    BY <2>3, <2>4
<1> QED
  BY <1>4, <1>5

-----------------------------------------------------------------------------
(* Types.                                                                   *)

LEMMA LabelTypes ==
  /\ Outcomes \subseteq Labels /\ QuietLabels \subseteq Labels
  /\ WriteLabels \subseteq Calls /\ CheckLabels \subseteq Calls
  /\ Calls \subseteq WriteLabels \cup CheckLabels
  /\ Calls \subseteq Labels /\ ReadLabels \subseteq Labels
  /\ \A l \in Labels : OnError(l) \in {"withdraw", "partial"}
  /\ {"withdraw", "partial"} \subseteq Labels
BY DEF Labels, Outcomes, QuietLabels, Calls, ReadLabels, WriteLabels, CheckLabels,
       OnError

LEMMA ApplyType ==
  ASSUME IInv, NEW a \in Attempts, NEW call \in Calls, Apply(a, call)
  PROVE  /\ ledger' \in Seq(Commit)
         /\ checks' \in [Attempts -> {"absent", "in_progress", "success", "cancelled"}]
<1>1. CASE call \in WriteLabels /\ ApplyWrite(a, call)
  <2>1. Tree(a, call) \in Commit
    BY <1>1, TreeType DEF IInv, LedgerInv
  <2> QED
    BY <1>1, <2>1, AppendTree DEF IInv, TypeOK, ApplyWrite
<1>2. CASE call \in CheckLabels /\ ApplyCheck(a, call)
  BY <1>2 DEF ApplyCheck, Conclusion, CheckLabels, IInv, TypeOK
<1> QED
  BY <1>1, <1>2 DEF Apply

LEMMA StepTypeOK == IInv /\ [Next]_vars => TypeOK'
<1> SUFFICES ASSUME IInv, [Next]_vars PROVE TypeOK'
  OBVIOUS
<1> USE LabelTypes
<1>1. TypeOK /\ Len(ledger) \in Nat
  BY LenProperties DEF IInv, TypeOK
<1>2. \A a \in Attempts : pc[a] \in Labels
  BY <1>1 DEF TypeOK
<1>3. ASSUME NEW a \in Attempts, NEW l \in Labels, Goto(a, l)
      PROVE  pc' \in [Attempts -> Labels]
  BY <1>1, <1>3 DEF Goto, TypeOK
<1>4. ASSUME NEW a \in Attempts, CollectFacts(a) PROVE TypeOK'
  BY <1>1, <1>3, <1>4 DEF CollectFacts, world, TypeOK, Labels, QuietLabels, Outcomes
<1>5. ASSUME NEW a \in Attempts, Decide(a) PROVE TypeOK'
  BY <1>1, <1>3, <1>5 DEF Decide, world, TypeOK, Labels, QuietLabels, Outcomes
<1>6. ASSUME NEW a \in Attempts, NEW l \in Labels, ReadLedger(a, l) PROVE TypeOK'
  BY <1>1, <1>3, <1>6 DEF ReadLedger, world, TypeOK
<1>7. ASSUME NEW a \in Attempts, RevalidatePr(a) \/ RevalidateCheck(a) PROVE TypeOK'
  BY <1>1, <1>3, <1>7
  DEF RevalidatePr, RevalidateCheck, world, TypeOK, Labels, QuietLabels, Outcomes
<1>8. ASSUME NEW a \in Attempts, UpdateRef(a) PROVE TypeOK'
  <2>1. pc[a] \in Calls /\ Apply(a, pc[a])
    BY <1>8 DEF UpdateRef, Apply
  <2>2. ConfirmOf[pc[a]] \in Labels
    BY <1>8 DEF UpdateRef, WriteLabels, ConfirmOf, Labels, ConfirmLabels
  <2> QED
    BY <1>1, <1>3, <1>8, <2>1, <2>2, ApplyType DEF UpdateRef, world, TypeOK
<1>9. ASSUME NEW a \in Attempts, ConfirmRef(a) PROVE TypeOK'
  <2>1. AfterConfirm[pc[a]] \in Labels
    BY <1>9 DEF ConfirmRef, ConfirmLabels, AfterConfirm, Labels, ReadLabels, Outcomes
  <2> QED
    BY <1>1, <1>2, <1>3, <1>9, <2>1 DEF ConfirmRef, Raise, world, TypeOK
<1>10. ASSUME NEW a \in Attempts, WriteCheck(a) PROVE TypeOK'
  <2>1. pc[a] \in Calls /\ Apply(a, pc[a])
    BY <1>10 DEF WriteCheck, Apply
  <2>2. AfterCheck[pc[a]] \in Labels
    BY <1>10
    DEF WriteCheck, CheckLabels, AfterCheck, Labels, ReadLabels, WriteLabels, Outcomes
  <2> QED
    BY <1>1, <1>3, <1>10, <2>1, <2>2, ApplyType DEF WriteCheck, world, TypeOK
<1>11. ASSUME NEW a \in Attempts, NEW label, NEW ok, NEW l \in Labels,
              Reread(a, label, ok, l)
       PROVE  TypeOK'
  BY <1>1, <1>2, <1>3, <1>11 DEF Reread, Require, Raise, world, TypeOK
<1>12. ASSUME NEW a \in Attempts, Fault(a) \/ Crash(a) PROVE TypeOK'
  <2>1. "rejected" \in Labels /\ "unconfirmed" \in Labels /\ "crashed" \in Labels
    BY DEF Labels, Outcomes
  <2>2. CASE QuietReadFails(a) \/ Crash(a)
    BY <1>1, <1>3, <2>1, <2>2 DEF QuietReadFails, Crash, world, TypeOK
  <2>3. CASE CallFails(a)
    BY <1>1, <1>2, <1>3, <2>1, <2>3 DEF CallFails, Raise, world, TypeOK
  <2>4. CASE CallTimesOut(a)
    <3>1. pc' \in [Attempts -> Labels]
      BY <1>2, <1>3, <2>1, <2>4 DEF CallTimesOut
    <3>2. inflight' \subseteq Attempts \X Calls
      BY <1>1, <2>4 DEF CallTimesOut, TypeOK
    <3> QED
      BY <1>1, <2>4, <3>1, <3>2 DEF CallTimesOut, world, TypeOK
  <2> QED
    BY <1>12, <2>2, <2>3, <2>4 DEF Fault
<1>13. ASSUME NEW a \in Attempts, NEW call \in Calls, LateCall(a, call)
       PROVE  TypeOK'
  BY <1>1, <1>13, ApplyType DEF LateCall, world, TypeOK
<1>14. CASE Environment
  BY <1>1, <1>14, AppendTree, CurrentType
  DEF Environment, MovePr, AdvanceMain, OtherScope, ChangeApproval, world, TypeOK
<1>15. CASE UNCHANGED vars
  BY <1>1, <1>15 DEF vars, TypeOK
<1>16. ASSUME NEW a \in Attempts, Work(a) PROVE TypeOK'
  <2>1. {"reserve", "conflict", "partial", "revalidate_pr", "create",
         "recheck_pr_last", "recheck_main", "complete", "recheck_pr_after",
         "admit"} \subseteq Labels
    BY DEF Labels, WriteLabels, ReadLabels, QuietLabels, CheckLabels, Outcomes
  <2>2. CASE \/ ScopeIsFree(a) \/ ScopeIsTaken(a) \/ ScopeIsPending(a)
             \/ ScopeIsAdmitted(a)
    <3>1. \E l \in Labels : ReadLedger(a, l)
      BY <2>1, <2>2
      DEF ScopeIsFree, ScopeIsTaken, ScopeIsPending, ScopeIsAdmitted
    <3> QED
      BY <1>6, <3>1
  <2>3. CASE RecheckPr(a) \/ RefreshApproval(a) \/ RecheckPrLast(a)
    BY <1>11, <2>1, <2>3 DEF RecheckPr, RefreshApproval, RecheckPrLast
  <2>4. CASE RecheckMain(a) \/ ReadBack(a) \/ RecheckPrAfter(a)
    BY <1>11, <2>1, <2>4 DEF RecheckMain, ReadBack, RecheckPrAfter
  <2> QED
    BY <1>4, <1>5, <1>7, <1>8, <1>9, <1>10, <1>16, <2>2, <2>3, <2>4 DEF Work
<1> QED
  BY <1>12, <1>13, <1>14, <1>15, <1>16 DEF Next

-----------------------------------------------------------------------------
(* Every step keeps the invariant.                                          *)

LEMMA AtStage ==
  ASSUME IInv, NEW a \in Attempts
  PROVE  /\ pc[a] \in Labels
         /\ Needs(a, pc[a])
         /\ pc[a] = "admit" => checks[a] = "success"
         /\ pc[a] \in Live => NoLate(a)
         /\ (pc[a] \in Early /\ NoLate(a)) \/ grant[a] \in Grants
         /\ \A k \in Calls : <<a, k>> \in inflight => Needs(a, k)
BY DEF IInv, TypeOK, StageInv, LateInv, At, Early

\* A step that only moves the attempt to its next label.
LEMMA Local ==
  ASSUME IInv, TypeOK', NEW a \in Attempts, NEW l \in Labels, Goto(a, l),
         UNCHANGED <<ledger, checks, grant, head, inflight>>,
         Needs(a, l),
         l = "admit" => checks[a] = "success",
         l \in Live => NoLate(a),
         (l \in Early /\ NoLate(a)) \/ grant[a] \in Grants
  PROVE  IInv'
<1>1. /\ LedgerInv' /\ AdmittedInv' /\ CheckInv'
      /\ \A b \in Attempts, k \in Labels : Needs(b, k) => Needs(b, k)'
  BY Still
<1>2. \A k \in Calls : <<a, k>> \in inflight => Needs(a, k)'
  BY <1>1, AtStage, LabelTypes
<1>3. StageInv' /\ LateInv'
  BY <1>1, <1>2, Move
<1> QED
  BY <1>1, <1>3 DEF IInv

\* An exception finds the check it has to withdraw.
LEMMA RaiseNeeds ==
  ASSUME IInv, NEW a \in Attempts, pc[a] \in TryLabels
  PROVE  /\ Needs(a, OnError(pc[a]))
         /\ OnError(pc[a]) \in {"withdraw", "partial"} \ Live
         /\ grant[a] \in Grants
<1>1. OnError(pc[a]) \in {"withdraw", "partial"}
  BY LabelTypes, AtStage
<1>2. {"withdraw", "partial"} \cap Live = {}
  BY DEF Live, Untouching, QuietLabels, ConfirmLabels, ReadLabels
<1>3. grant[a] \in Grants
  BY AtStage DEF Early, TryLabels, KnowsCheck
<1>4. pc[a] \in KnowsCheck => checks[a] # "absent"
  BY AtStage DEF KnowsCheck, Needs, Completing
<1>5. Needs(a, OnError(pc[a]))
  <2>1. OnError(pc[a]) = "withdraw" => checks[a] # "absent"
    BY <1>4 DEF OnError
  <2> QED
    BY <1>1, <2>1 DEF Needs, Untouching, QuietLabels, Completing
<1> QED
  BY <1>1, <1>2, <1>3, <1>5

LEMMA RaiseStep ==
  ASSUME IInv, TypeOK', NEW a \in Attempts, pc[a] \in TryLabels, Raise(a),
         UNCHANGED <<ledger, checks, grant, head, inflight>>
  PROVE  IInv'
<1> DEFINE l == OnError(pc[a])
<1>1. /\ Needs(a, l) /\ l \in {"withdraw", "partial"} \ Live
      /\ grant[a] \in Grants /\ l \in Labels
  BY RaiseNeeds, LabelTypes
<1>2. Goto(a, l)
  BY DEF Raise
<1> HIDE DEF l
<1> QED
  BY <1>1, <1>2, Local

LEMMA QuietStep ==
  ASSUME IInv, TypeOK', NEW a \in Attempts,
         CollectFacts(a) \/ QuietReadFails(a) \/ RevalidatePr(a) \/ RevalidateCheck(a)
  PROVE  IInv'
<1>1. pc[a] \in QuietLabels /\ pc[a] \in Untouching
  BY DEF CollectFacts, QuietReadFails, RevalidatePr, RevalidateCheck, Untouching,
         QuietLabels, At
<1>2. NoLate(a) /\ checks[a] = "absent" /\ Current.by # a
  BY <1>1, AtStage DEF Live, Needs
<1>3. ASSUME NEW l \in {"authorize", "rejected", "refused", "revalidate_check", "already"},
             Goto(a, l), UNCHANGED <<ledger, checks, grant, head, inflight>>,
             l \in {"revalidate_check", "already"} =>
                pc[a] \in {"revalidate_pr", "revalidate_check"},
             l \notin Early => grant[a] \in Grants
      PROVE  IInv'
  <2>1. l \in Labels
    BY DEF Labels, QuietLabels, Outcomes
  <2>2. Needs(a, l)
    BY <1>2, <1>3, AtStage DEF Needs, Completing
  <2> QED
    BY <1>2, <1>3, <2>1, <2>2, Local
<1>4. CASE CollectFacts(a)
  BY <1>3, <1>4 DEF CollectFacts, Early
<1>5. CASE QuietReadFails(a)
  BY <1>3, <1>5 DEF QuietReadFails, Early
<1>6. CASE RevalidatePr(a) \/ RevalidateCheck(a)
  <2>1. pc[a] \in {"revalidate_pr", "revalidate_check"}
    BY <1>6 DEF RevalidatePr, RevalidateCheck, At
  <2>2. grant[a] \in Grants
    BY <2>1, AtStage DEF Early
  <2> QED
    BY <1>3, <1>6, <2>1, <2>2 DEF RevalidatePr, RevalidateCheck
<1> QED
  BY <1>4, <1>5, <1>6

\* A scope that is not free has a holder.
LEMMA HolderType ==
  ASSUME IInv, Current.status # "none"
  PROVE  Current.by \in Attempts
<1>1. Len(ledger) \in Nat /\ Current \in Commit
  BY CurrentType, LenProperties DEF IInv, TypeOK
<1>2. Len(ledger) # 0 /\ Current = ledger[Len(ledger)]
  BY DEF Current, TreeAt, NoState
<1>3. Current.by # None
  BY <1>1, <1>2 DEF IInv, LedgerInv, NoState
<1> QED
  BY <1>1, <1>3 DEF Commit

\* The evidence an attempt decides on matters to nobody else yet.
LEMMA DecideStep ==
  ASSUME IInv, TypeOK', NEW a \in Attempts, Decide(a)
  PROVE  IInv'
<1>1. /\ pc[a] = "authorize" /\ NoLate(a)
      /\ checks[a] = "absent" /\ Current.by # a
  BY AtStage DEF Decide, At, Needs, Live, Untouching, QuietLabels
<1>2. CASE UNCHANGED grant
  <2>1. Goto(a, "rejected") \/ (Goto(a, "read_ledger") /\ grant[a] \in Grants)
    BY <1>2 DEF Decide, IInv, TypeOK
  <2>2. Needs(a, "rejected") /\ Needs(a, "read_ledger")
    BY <1>1 DEF Needs, Completing
  <2>3. "rejected" \in Labels /\ "read_ledger" \in Labels
    BY DEF Labels, QuietLabels, Outcomes
  <2>4. UNCHANGED <<ledger, checks, grant, head, inflight>>
    BY <1>2 DEF Decide
  <2>5. CASE Goto(a, "rejected")
    BY <1>1, <2>2, <2>3, <2>4, <2>5, Local DEF Early
  <2>6. CASE Goto(a, "read_ledger") /\ grant[a] \in Grants
    BY <1>1, <2>2, <2>3, <2>4, <2>6, Local
  <2> QED
    BY <2>1, <2>5, <2>6
<1>3. CASE grant' # grant
  <2>1. /\ grant'[a] \in Grants /\ Goto(a, "read_ledger")
        /\ \A b \in Attempts \ {a} : grant'[b] = grant[b]
        /\ UNCHANGED <<ledger, checks, head, inflight>>
    BY <1>3 DEF Decide, IInv, TypeOK
  <2>2. Current' = Current /\ \A b \in Attempts : TreeAt(head[b])' = TreeAt(head[b])
    BY <2>1 DEF Current, TreeAt
  <2>3. LedgerInv' /\ AdmittedInv'
    BY <2>1, <2>2 DEF IInv, LedgerInv, AdmittedInv, Persisted
  <2>4. CheckInv'
    BY <1>1, <2>1, <2>2 DEF IInv, CheckInv, Persisted
  <2>5. ASSUME NEW b \in Attempts \ {a}, NEW k \in Labels, Needs(b, k)
        PROVE  Needs(b, k)'
    <3>1. SameIdentity(b, Current.by)' = SameIdentity(b, Current.by)
          \/ k \notin {"revalidate_pr", "revalidate_check", "already"}
      <4>1. CASE k \in {"revalidate_pr", "revalidate_check", "already"}
        <5>1. Current.status = "ADMITTED"
          BY <2>5, <4>1 DEF Needs
        <5>2. Current.by \in Attempts
          BY <5>1, HolderType
        <5> QED
          BY <1>1, <2>1, <2>2, <5>2 DEF SameIdentity
      <4> QED
        BY <4>1
    <3> QED
      BY <2>1, <2>2, <2>5, <3>1 DEF Needs, Reserved, Persisted, Admitted
  <2>6. Needs(a, "read_ledger")'
    BY <1>1, <2>1, <2>2 DEF Needs, Completing
  <2>7. StageInv' /\ LateInv'
    <3>1. "read_ledger" \in Labels
      BY DEF Labels, QuietLabels
    <3>2. \A k \in Calls : <<a, k>> \notin inflight
      BY <1>1 DEF NoLate
    <3> QED
      BY <1>1, <2>1, <2>5, <2>6, <3>1, <3>2, Move
  <2> QED
    BY <2>3, <2>4, <2>7 DEF IInv
<1> QED
  BY <1>2, <1>3

\* The head an attempt builds on matters to nobody else.
LEMMA HeadWorld ==
  ASSUME IInv, NEW a \in Attempts, NEW n \in 0..Len(ledger),
         head' = [head EXCEPT ![a] = n], UNCHANGED <<ledger, checks, grant>>
  PROVE  /\ LedgerInv' /\ AdmittedInv' /\ CheckInv' /\ head'[a] = n
         /\ Current' = Current /\ TreeAt(n)' = TreeAt(n)
         /\ \A b \in Attempts \ {a}, k \in Labels : Needs(b, k) => Needs(b, k)'
<1>1. head'[a] = n /\ \A b \in Attempts \ {a} : head'[b] = head[b]
  BY DEF IInv, TypeOK
<1>2. /\ Current' = Current /\ TreeAt(n)' = TreeAt(n)
      /\ \A b \in Attempts \ {a} : TreeAt(head[b])' = TreeAt(head[b])
  BY <1>1 DEF Current, TreeAt
<1>3. LedgerInv' /\ AdmittedInv' /\ CheckInv'
  BY <1>1, <1>2, LenProperties
  DEF IInv, TypeOK, LedgerInv, AdmittedInv, CheckInv, Persisted
<1>4. ASSUME NEW b \in Attempts \ {a}, NEW k \in Labels, Needs(b, k) PROVE Needs(b, k)'
  BY <1>1, <1>2, <1>4 DEF Needs, SameIdentity, Reserved, Persisted, Admitted
<1> QED
  BY <1>1, <1>2, <1>3, <1>4

LEMMA ReadLedgerStep ==
  ASSUME IInv, TypeOK', NEW a \in Attempts,
         ScopeIsFree(a) \/ ScopeIsTaken(a) \/ ScopeIsPending(a) \/ ScopeIsAdmitted(a)
  PROVE  IInv'
<1>1. PICK l \in {"reserve", "conflict", "partial", "revalidate_pr"} :
        /\ ReadLedger(a, l)
        /\ l = "reserve" => Current.status = "none"
        /\ l = "revalidate_pr" =>
             Current.status = "ADMITTED" /\ SameIdentity(a, Current.by)
  BY DEF ScopeIsFree, ScopeIsTaken, ScopeIsPending, ScopeIsAdmitted
<1>2. /\ pc[a] = "read_ledger" /\ NoLate(a) /\ grant[a] \in Grants
      /\ checks[a] = "absent" /\ Current.by # a
  BY <1>1, AtStage DEF ReadLedger, At, Needs, Live, Untouching, QuietLabels, Early
<1>3. Len(ledger) \in 0..Len(ledger)
  BY LenProperties DEF IInv, TypeOK
<1>4. /\ head' = [head EXCEPT ![a] = Len(ledger)] /\ Goto(a, l)
      /\ UNCHANGED <<ledger, checks, grant, inflight>>
  BY <1>1 DEF ReadLedger
<1>5. /\ LedgerInv' /\ AdmittedInv' /\ CheckInv' /\ head'[a] = Len(ledger)
      /\ Current' = Current /\ TreeAt(Len(ledger))' = TreeAt(Len(ledger))
      /\ \A b \in Attempts \ {a}, k \in Labels : Needs(b, k) => Needs(b, k)'
  BY <1>3, <1>4, HeadWorld
<1>6. Current.status = "none" => Current = NoState
  BY <1>3 DEF IInv, LedgerInv, Current, TreeAt
<1>7. TreeAt(head[a])' = Current
  BY <1>4, <1>5 DEF TreeAt, Current
<1>8. Needs(a, l)'
  BY <1>1, <1>2, <1>4, <1>5, <1>6, <1>7
  DEF Needs, Completing, Untouching, QuietLabels, SameIdentity, NoState
<1>9. l \in Labels /\ \A k \in Calls : <<a, k>> \notin inflight
  BY <1>2 DEF NoLate, Labels, WriteLabels, Outcomes, QuietLabels
<1>10. StageInv' /\ LateInv'
  BY <1>1, <1>2, <1>4, <1>5, <1>8, <1>9, Move
<1> QED
  BY <1>5, <1>10 DEF IInv

LEMMA UpdateRefStep ==
  ASSUME IInv, TypeOK', NEW a \in Attempts, UpdateRef(a)
  PROVE  IInv'
<1>1. PICK call \in WriteLabels :
        /\ ApplyWrite(a, call) /\ Goto(a, ConfirmOf[call])
        /\ UNCHANGED <<grant, head, inflight>>
        /\ Needs(a, call) /\ NoLate(a) /\ grant[a] \in Grants
        /\ call = "admit" => checks[a] = "success"
  BY AtStage DEF UpdateRef, WriteLabels, Live, Untouching, Early
<1>2. ConfirmOf[call] \in ConfirmLabels /\ ConfirmOf[call] \in Labels
  BY <1>1 DEF WriteLabels, ConfirmOf, ConfirmLabels, Labels
<1>3. LedgerInv' /\ AdmittedInv' /\ CheckInv'
  BY <1>1, WriteWorld
<1>4. \A b \in Attempts \ {a}, k \in Labels : Needs(b, k) => Needs(b, k)'
  BY <1>1, WriteKeeps
<1>5. Needs(a, ConfirmOf[call])'
  <2>1. /\ Len(ledger) = head[a] /\ Tree(a, call) \in Commit
        /\ ledger' = Append(ledger, Tree(a, call))
        /\ checks' = checks /\ head' = head
    BY <1>1, WriteTree DEF ApplyWrite
  <2>2. /\ Len(ledger) \in Nat /\ Len(ledger') = Len(ledger) + 1
        /\ ledger'[Len(ledger) + 1] = Tree(a, call) /\ Current' = Tree(a, call)
    BY <2>1, AppendTree DEF IInv
  <2>3. CASE call = "reserve"
    <3>1. Tree(a, call) = Reserved(a) /\ checks[a] = "absent"
      BY <1>1, <2>3, WriteTree DEF Needs, Untouching
    <3>2. ConfirmOf[call] = "confirm_reserve"
      BY <2>3 DEF ConfirmOf
    <3> QED
      BY <2>1, <2>2, <3>1, <3>2
      DEF Needs, Reserved, Completing, Untouching, QuietLabels
  <2>4. CASE call = "persist"
    <3>1. Tree(a, call) = Persisted(a) /\ checks[a] # "absent"
      BY <1>1, <2>4, WriteTree DEF Needs
    <3>2. ConfirmOf[call] = "confirm_persist"
      BY <2>4 DEF ConfirmOf
    <3> QED
      BY <2>1, <2>2, <3>1, <3>2
      DEF Needs, Persisted, Completing, Untouching, QuietLabels
  <2>5. CASE call = "admit"
    <3>1. Tree(a, call) = Admitted(a, head[a]) /\ checks[a] = "success"
      BY <1>1, <2>5, WriteTree
    <3>2. ConfirmOf[call] = "confirm_admit"
      BY <2>5 DEF ConfirmOf
    <3> QED
      BY <2>1, <2>2, <3>1, <3>2
      DEF Needs, Admitted, Completing, Untouching, QuietLabels
  <2> QED
    BY <1>1, <2>3, <2>4, <2>5 DEF WriteLabels
<1>6. checks' = checks
  BY <1>1 DEF ApplyWrite
<1>7. ConfirmOf[call] # "admit" /\ \A k \in Calls : <<a, k>> \notin inflight
  BY <1>1, <1>2 DEF NoLate, ConfirmLabels
<1>8. StageInv' /\ LateInv'
  BY <1>1, <1>2, <1>4, <1>5, <1>6, <1>7, Move
<1> QED
  BY <1>3, <1>8 DEF IInv

LEMMA ConfirmRefStep ==
  ASSUME IInv, TypeOK', NEW a \in Attempts, ConfirmRef(a)
  PROVE  IInv'
<1>1. pc[a] \in ConfirmLabels /\ UNCHANGED <<ledger, checks, grant, inflight>>
  BY DEF ConfirmRef
<1>2. /\ Needs(a, pc[a]) /\ NoLate(a) /\ grant[a] \in Grants
      /\ pc[a] \in TryLabels
  BY <1>1, AtStage DEF ConfirmLabels, Live, Early, TryLabels, KnowsCheck
<1>3. CASE Raise(a) /\ UNCHANGED head
  BY <1>1, <1>2, <1>3, RaiseStep
<1>4. ASSUME NEW n, NEW l, n = head[a] + 1, l = AfterConfirm[pc[a]],
             Len(ledger) = n, head' = [head EXCEPT ![a] = n], Goto(a, l)
      PROVE  IInv'
  <2>1. n \in 0..Len(ledger) /\ n # 0
    BY <1>4, LenProperties DEF IInv, TypeOK
  <2>2. Current = ledger[n]
    BY <1>4, <2>1 DEF Current, TreeAt
  <2>3. l \in Labels /\ l # "admit"
    BY <1>1, <1>4 DEF ConfirmLabels, AfterConfirm, Labels, ReadLabels, Outcomes
  <2>4. /\ LedgerInv' /\ AdmittedInv' /\ CheckInv' /\ head'[a] = n
        /\ Current' = Current /\ TreeAt(n)' = TreeAt(n)
        /\ \A b \in Attempts \ {a}, k \in Labels : Needs(b, k) => Needs(b, k)'
    BY <1>1, <1>4, <2>1, HeadWorld
  <2>5. TreeAt(head[a])' = Current
    BY <1>1, <2>1, <2>2, <2>4 DEF TreeAt
  <2>6. Needs(a, l)'
    <3>1. CASE pc[a] = "confirm_reserve"
      <4>1. l = "recheck_pr" /\ Current = Reserved(a) /\ checks[a] = "absent"
        BY <1>2, <1>4, <2>2, <3>1 DEF Needs, AfterConfirm
      <4> QED
        BY <1>1, <2>4, <2>5, <4>1
        DEF Needs, Reserved, Completing, Untouching, QuietLabels
    <3>2. CASE pc[a] = "confirm_persist"
      <4>1. l = "refresh" /\ Current = Persisted(a) /\ checks[a] # "absent"
        BY <1>2, <1>4, <2>2, <3>2 DEF Needs, AfterConfirm
      <4> QED
        BY <1>1, <2>4, <2>5, <4>1
        DEF Needs, Persisted, Completing, Untouching, QuietLabels
    <3>3. CASE pc[a] = "confirm_admit"
      <4>1. /\ l = "authenticated" /\ Current = Admitted(a, head[a])
            /\ checks[a] = "success"
        BY <1>2, <1>4, <2>2, <3>3 DEF Needs, AfterConfirm
      <4> QED
        BY <1>1, <2>4, <4>1
        DEF Needs, Admitted, Completing, Untouching, QuietLabels
    <3> QED
      BY <1>1, <3>1, <3>2, <3>3 DEF ConfirmLabels
  <2>7. \A k \in Calls : <<a, k>> \notin inflight
    BY <1>2 DEF NoLate
  <2>8. StageInv' /\ LateInv'
    BY <1>1, <1>2, <1>4, <2>3, <2>4, <2>6, <2>7, Move
  <2> QED
    BY <2>4, <2>8 DEF IInv
<1> QED
  BY <1>3, <1>4 DEF ConfirmRef

LEMMA WriteCheckStep ==
  ASSUME IInv, TypeOK', NEW a \in Attempts, WriteCheck(a)
  PROVE  IInv'
<1>1. PICK call \in CheckLabels :
        /\ ApplyCheck(a, call) /\ Goto(a, AfterCheck[call])
        /\ UNCHANGED <<grant, head, inflight>>
        /\ Needs(a, call) /\ grant[a] \in Grants
        /\ call # "withdraw" => NoLate(a)
        /\ \A k \in Calls : <<a, k>> \in inflight => Needs(a, k)
  BY AtStage DEF WriteCheck, CheckLabels, Live, Early
<1>2. LedgerInv' /\ AdmittedInv' /\ CheckInv'
  BY <1>1, CheckWorld
<1>3. \A b \in Attempts \ {a}, k \in Labels : Needs(b, k) => Needs(b, k)'
  BY <1>1, CheckKeeps
<1>4. \A k \in Calls : <<a, k>> \in inflight => Needs(a, k)'
  <2>1. CASE call = "withdraw"
    <3> SUFFICES ASSUME NEW k \in Calls, <<a, k>> \in inflight PROVE Needs(a, k)'
      OBVIOUS
    <3>1. Needs(a, k) /\ k \in Labels
      BY <1>1, LabelTypes
    <3>2. k \in (Calls \ {call}) \cup {"withdraw", "partial", "unconfirmed", "crashed"}
      BY <2>1
    <3> QED
      BY <1>1, <3>1, <3>2, CheckKeeps
  <2>2. CASE call # "withdraw"
    BY <1>1, <2>2 DEF NoLate
  <2> QED
    BY <2>1, <2>2
<1>5. /\ ledger' = ledger /\ head' = head /\ checks'[a] = Conclusion[call]
      /\ \A b \in Attempts \ {a} : checks'[b] = checks[b]
  BY <1>1 DEF ApplyCheck, IInv, TypeOK
<1>6. TreeAt(head[a])' = TreeAt(head[a])
  BY <1>5 DEF TreeAt
<1>7. Needs(a, AfterCheck[call])'
  <2>1. CASE call = "create"
    <3>1. AfterCheck[call] = "persist" /\ TreeAt(head[a]) = Reserved(a)
      BY <1>1, <2>1 DEF AfterCheck, Needs
    <3> QED
      BY <1>5, <1>6, <2>1, <3>1
      DEF Needs, Conclusion, Reserved, Completing, Untouching, QuietLabels
  <2>2. CASE call = "complete"
    <3>1. AfterCheck[call] = "readback" /\ TreeAt(head[a]) = Persisted(a)
      BY <1>1, <2>2 DEF AfterCheck, Needs, Completing
    <3> QED
      BY <1>5, <1>6, <2>2, <3>1
      DEF Needs, Conclusion, Persisted, Completing, Untouching, QuietLabels
  <2>3. CASE call = "withdraw"
    <3>1. AfterCheck[call] = "partial"
      BY <2>3 DEF AfterCheck
    <3> QED
      BY <3>1 DEF Needs, Completing, Untouching, QuietLabels
  <2> QED
    BY <1>1, <2>1, <2>2, <2>3 DEF CheckLabels
<1>8. /\ AfterCheck[call] \in Labels /\ AfterCheck[call] # "admit"
      /\ AfterCheck[call] \in Live => NoLate(a)
  BY <1>1
  DEF CheckLabels, AfterCheck, Labels, WriteLabels, ReadLabels, Outcomes, Live,
      Untouching, QuietLabels, ConfirmLabels
<1>9. StageInv' /\ LateInv'
  BY <1>1, <1>3, <1>4, <1>5, <1>7, <1>8, Move
<1> QED
  BY <1>2, <1>9 DEF IInv

LEMMA RereadStep ==
  ASSUME IInv, TypeOK', NEW a \in Attempts,
         \/ RecheckPr(a) \/ RefreshApproval(a) \/ RecheckPrLast(a)
         \/ RecheckMain(a) \/ ReadBack(a) \/ RecheckPrAfter(a)
  PROVE  IInv'
<1>1. /\ pc[a] \in ReadLabels
      /\ UNCHANGED <<ledger, checks, grant, head, inflight>>
      /\ Raise(a) \/ \E l \in {"create", "recheck_pr_last", "recheck_main",
                               "complete", "recheck_pr_after", "admit"} :
           /\ Goto(a, l)
           /\ <<pc[a], l>> \in
                {<<"recheck_pr", "create">>, <<"refresh", "recheck_pr_last">>,
                 <<"recheck_pr_last", "recheck_main">>,
                 <<"recheck_main", "complete">>,
                 <<"readback", "recheck_pr_after">>,
                 <<"recheck_pr_after", "admit">>}
  BY DEF RecheckPr, RefreshApproval, RecheckPrLast, RecheckMain, ReadBack,
         RecheckPrAfter, Reread, Require, At, ReadLabels
<1>2. pc[a] \in TryLabels /\ pc[a] \in Live /\ pc[a] \notin Early
  BY <1>1 DEF ReadLabels, TryLabels, KnowsCheck, Live, Early
<1>3. CASE Raise(a)
  BY <1>1, <1>2, <1>3, RaiseStep
<1>4. CASE ~Raise(a)
  <2>1. PICK l \in {"create", "recheck_pr_last", "recheck_main", "complete",
                    "recheck_pr_after", "admit"} :
           /\ Goto(a, l)
           /\ <<pc[a], l>> \in
                {<<"recheck_pr", "create">>, <<"refresh", "recheck_pr_last">>,
                 <<"recheck_pr_last", "recheck_main">>,
                 <<"recheck_main", "complete">>,
                 <<"readback", "recheck_pr_after">>,
                 <<"recheck_pr_after", "admit">>}
    BY <1>1, <1>4
  <2>2. l \in Labels
    BY DEF Labels, CheckLabels, ReadLabels, WriteLabels
  <2>3. Needs(a, pc[a]) /\ NoLate(a) /\ grant[a] \in Grants
    BY <1>2, AtStage
  <2>4. Needs(a, l) /\ (l = "admit" => checks[a] = "success")
    BY <2>1, <2>3 DEF Needs, Completing, Untouching, QuietLabels
  <2> QED
    BY <1>1, <2>1, <2>2, <2>3, <2>4, Local
<1> QED
  BY <1>3, <1>4

LEMMA CallFailsStep ==
  ASSUME IInv, TypeOK', NEW a \in Attempts, CallFails(a)
  PROVE  IInv'
<1>1. UNCHANGED <<ledger, checks, grant, head, inflight>>
  BY DEF CallFails
<1>2. CASE pc[a] \in TryLabels /\ Raise(a)
  BY <1>1, <1>2, RaiseStep
<1>3. CASE At(a, "withdraw") /\ Goto(a, "unconfirmed")
  <2>1. grant[a] \in Grants
    BY <1>3, AtStage DEF At, Early
  <2>2. Needs(a, "unconfirmed")
    BY DEF Needs, Completing, Untouching, QuietLabels
  <2>3. "unconfirmed" \in Labels \ Live
    BY DEF Labels, Outcomes, Live, Untouching, QuietLabels, ConfirmLabels, ReadLabels
  <2> QED
    BY <1>1, <1>3, <2>1, <2>2, <2>3, Local
<1> QED
  BY <1>2, <1>3 DEF CallFails

LEMMA CrashStep ==
  ASSUME IInv, TypeOK', NEW a \in Attempts, Crash(a)
  PROVE  IInv'
<1>1. Needs(a, "crashed")
  BY DEF Needs, Completing, Untouching, QuietLabels
<1>2. "crashed" \in Labels \ Live
  BY DEF Labels, Outcomes, Live, Untouching, QuietLabels, ConfirmLabels, ReadLabels
<1>3. "crashed" \in Early /\ (NoLate(a) \/ grant[a] \in Grants)
  BY AtStage DEF Early
<1> QED
  BY <1>1, <1>2, <1>3, Local DEF Crash

\* The call an attempt gives up on is the only one it leaves behind, unless
\* it is the withdrawal.
LEMMA CallTimesOutStep ==
  ASSUME IInv, TypeOK', NEW a \in Attempts, CallTimesOut(a)
  PROVE  IInv'
<1>1. PICK call \in Calls :
        /\ pc[a] = call /\ inflight' = inflight \cup {<<a, call>>}
        /\ UNCHANGED <<ledger, checks, grant, head>>
        /\ Needs(a, call) /\ grant[a] \in Grants
        /\ call # "withdraw" => NoLate(a)
  BY AtStage DEF CallTimesOut, Calls, Live, Early, Untouching
<1>2. PICK l \in {"withdraw", "partial", "unconfirmed"} : Goto(a, l) /\ Needs(a, l)
  <2>1. CASE call = "withdraw"
    <3>1. Goto(a, "unconfirmed")
      BY <1>1, <2>1 DEF CallTimesOut, At
    <3>2. Needs(a, "unconfirmed")
      BY DEF Needs, Completing, Untouching, QuietLabels
    <3> QED
      BY <3>1, <3>2
  <2>2. CASE call # "withdraw"
    <3>1. pc[a] \in TryLabels
      BY <1>1, <2>2 DEF Calls, TryLabels, KnowsCheck
    <3>2. Goto(a, OnError(pc[a]))
      BY <1>1, <2>2 DEF CallTimesOut, At
    <3> QED
      BY <3>1, <3>2, RaiseNeeds
  <2> QED
    BY <2>1, <2>2
<1>3. /\ LedgerInv' /\ AdmittedInv' /\ CheckInv'
      /\ \A b \in Attempts, k \in Labels : Needs(b, k) => Needs(b, k)'
  BY <1>1, Still
<1>4. /\ pc'[a] = l /\ \A b \in Attempts \ {a} : pc'[b] = pc[b]
      /\ l \in Labels \ Live /\ l # "admit"
  BY <1>2
  DEF Goto, IInv, TypeOK, Labels, CheckLabels, Outcomes, Live, Untouching,
      QuietLabels, ConfirmLabels, ReadLabels
<1>5. ASSUME NEW b \in Attempts
      PROVE  /\ \A k \in Labels : pc'[b] = k => Needs(b, k)'
             /\ pc'[b] = "admit" => checks'[b] = "success"
             /\ \A k \in Calls : <<b, k>> \in inflight' => Needs(b, k)'
  <2>1. \A k \in Calls : <<b, k>> \in inflight' => Needs(b, k) /\ k \in Labels
    BY <1>1, AtStage, LabelTypes
  <2> QED
    BY <1>1, <1>2, <1>3, <1>4, <2>1, AtStage
<1>6. StageInv'
  <2> SUFFICES ASSUME NEW b \in Attempts
               PROVE  /\ Needs(b, pc[b])'
                      /\ pc'[b] = "admit" => checks'[b] = "success"
                      /\ \A k \in Calls : <<b, k>> \in inflight' => Needs(b, k)'
    BY DEF StageInv, At
  <2>1. pc'[b] \in Labels
    BY DEF TypeOK
  <2>2. Needs(b, pc[b])'
    BY <1>5, <2>1 DEF Needs
  <2> QED
    BY <1>5, <2>2
<1>7. LateInv'
  <2> SUFFICES ASSUME NEW b \in Attempts
               PROVE  /\ pc'[b] \in Live => NoLate(b)'
                      /\ ~(<<b, "complete">> \in inflight' /\ <<b, "admit">> \in inflight')
                      /\ \/ pc'[b] \in Early /\ NoLate(b)'
                         \/ grant'[b] \in Grants
    BY DEF LateInv, Early
  <2>1. CASE b = a
    <3>1. ~(<<a, "complete">> \in inflight /\ <<a, "admit">> \in inflight)
      BY DEF IInv, LateInv
    <3>2. call # "withdraw" =>
            <<a, "complete">> \notin inflight /\ <<a, "admit">> \notin inflight
      BY <1>1 DEF NoLate, Calls
    <3> QED
      BY <1>1, <1>4, <2>1, <3>1, <3>2
  <2>2. CASE b # a
    <3>1. NoLate(b)' = NoLate(b)
      BY <1>1, <2>2 DEF NoLate
    <3>2. ~(<<b, "complete">> \in inflight' /\ <<b, "admit">> \in inflight')
      BY <1>1, <2>2 DEF IInv, LateInv
    <3> QED
      BY <1>1, <1>4, <2>2, <3>1, <3>2, AtStage
  <2> QED
    BY <2>1, <2>2
<1> QED
  BY <1>3, <1>6, <1>7 DEF IInv

LEMMA LateCallStep ==
  ASSUME IInv, TypeOK', NEW a \in Attempts, NEW call \in Calls, LateCall(a, call)
  PROVE  IInv'
<1>1. /\ <<a, call>> \in inflight /\ inflight' = inflight \ {<<a, call>>}
      /\ UNCHANGED <<pc, grant, head>>
      /\ Apply(a, call)
  BY DEF LateCall
<1>2. ~NoLate(a) /\ Needs(a, call) /\ grant[a] \in Grants /\ pc[a] \notin Live
  BY <1>1, AtStage DEF NoLate
<1>3. pc[a] \in {"withdraw", "partial", "unconfirmed", "crashed"}
  BY <1>2, AtStage
  DEF Labels, WriteLabels, ConfirmLabels, ReadLabels, QuietLabels, CheckLabels,
      Outcomes, Live, Untouching
<1>4. /\ LedgerInv' /\ AdmittedInv' /\ CheckInv'
      /\ \A b \in Attempts \ {a} : checks'[b] = checks[b]
      /\ \A b \in Attempts, k \in Labels :
           /\ Needs(b, k)
           /\ b = a => k \in (Calls \ {call}) \cup {"withdraw", "partial", "unconfirmed", "crashed"}
           /\ b = a /\ call = "admit" => k # "complete"
           => Needs(b, k)'
  <2>1. CASE call \in WriteLabels /\ ApplyWrite(a, call)
    <3>1. LedgerInv' /\ AdmittedInv' /\ CheckInv' /\ checks' = checks
      BY <1>1, <1>2, <2>1, WriteWorld DEF ApplyWrite
    <3>2. call # "withdraw" /\ "withdraw" \in Calls
      BY <2>1 DEF WriteLabels, Calls
    <3>3. ASSUME NEW b \in Attempts, NEW k \in Labels, Needs(b, k),
                 b = a => k \in (Calls \ {call})
                            \cup {"withdraw", "partial", "unconfirmed", "crashed"},
                 b = a /\ call = "admit" => k # "complete"
          PROVE  Needs(b, k)'
      <4>1. b = a => k \in (Calls \ {call}) \cup {"partial", "unconfirmed", "crashed"}
        BY <3>2, <3>3
      <4> QED
        BY <1>1, <1>2, <2>1, <3>3, <4>1, WriteKeeps
    <3> QED
      BY <3>1, <3>3
  <2>2. CASE call \in CheckLabels /\ ApplyCheck(a, call)
    <3>1. LedgerInv' /\ AdmittedInv' /\ CheckInv'
      BY <1>1, <1>2, <2>2, CheckWorld
    <3>2. \A b \in Attempts \ {a} : checks'[b] = checks[b]
      BY <2>2 DEF ApplyCheck, IInv, TypeOK
    <3>3. ASSUME NEW b \in Attempts, NEW k \in Labels, Needs(b, k),
                 b = a => k \in (Calls \ {call})
                            \cup {"withdraw", "partial", "unconfirmed", "crashed"}
          PROVE  Needs(b, k)'
      BY <1>1, <1>2, <2>2, <3>3, CheckKeeps
    <3> QED
      BY <3>1, <3>2, <3>3
  <2> QED
    BY <1>1, <2>1, <2>2 DEF Apply
<1>5. ASSUME NEW b \in Attempts
      PROVE  /\ \A k \in Labels : pc[b] = k => Needs(b, k)'
             /\ pc[b] = "admit" => checks'[b] = "success"
             /\ \A k \in Calls : <<b, k>> \in inflight' => Needs(b, k)'
  <2>1. CASE b = a
    <3>1. \A k \in Labels : pc[a] = k => Needs(a, k)'
      BY <1>3, <1>4, AtStage
    <3>2. call = "admit" => <<a, "complete">> \notin inflight
      BY <1>1 DEF IInv, LateInv
    <3>3. \A k \in Calls : <<a, k>> \in inflight' => Needs(a, k)'
      BY <1>1, <1>4, <3>2, AtStage, LabelTypes
    <3> QED
      BY <1>3, <2>1, <3>1, <3>3
  <2>2. CASE b # a
    BY <1>1, <1>4, <2>2, AtStage, LabelTypes
  <2> QED
    BY <2>1, <2>2
<1>6. StageInv'
  <2> SUFFICES ASSUME NEW b \in Attempts
               PROVE  /\ Needs(b, pc[b])'
                      /\ pc'[b] = "admit" => checks'[b] = "success"
                      /\ \A k \in Calls : <<b, k>> \in inflight' => Needs(b, k)'
    BY DEF StageInv, At
  <2>1. pc'[b] \in Labels /\ pc' = pc
    BY <1>1 DEF TypeOK
  <2>2. Needs(b, pc[b])'
    BY <1>5, <2>1 DEF Needs
  <2> QED
    BY <1>5, <2>1, <2>2
<1>7. LateInv'
  BY <1>1 DEF IInv, LateInv, NoLate
<1> QED
  BY <1>4, <1>6, <1>7 DEF IInv

\* Steps of the world leave every attempt and every call where they are.
LEMMA WorldStep ==
  ASSUME IInv, TypeOK', UNCHANGED <<checks, pc, grant, head, inflight>>,
         LedgerInv' /\ AdmittedInv' /\ CheckInv',
         \A b \in Attempts, k \in Labels : Needs(b, k) => Needs(b, k)'
  PROVE  IInv'
<1>1. StageInv'
  <2> SUFFICES ASSUME NEW b \in Attempts
               PROVE  /\ Needs(b, pc[b])'
                      /\ pc[b] = "admit" => checks[b] = "success"
                      /\ \A k \in Calls : <<b, k>> \in inflight => Needs(b, k)'
    BY DEF StageInv, At
  <2>1. \A k \in Labels : pc'[b] = k => Needs(b, k)'
    BY AtStage
  <2>2. Needs(b, pc[b])'
    BY <2>1 DEF Needs, TypeOK
  <2> QED
    BY <2>2, AtStage, LabelTypes
<1>2. LateInv'
  BY DEF IInv, LateInv, NoLate
<1> QED
  BY <1>1, <1>2 DEF IInv

LEMMA OtherScopeStep ==
  ASSUME IInv, TypeOK', OtherScope
  PROVE  IInv'
<1>1. /\ ledger' = Append(ledger, Current) /\ Current \in Commit
      /\ UNCHANGED <<checks, pc, grant, head, inflight>>
  BY CurrentType DEF OtherScope, IInv
<1>2. /\ Len(ledger) \in Nat
      /\ Len(ledger') = Len(ledger) + 1
      /\ \A i \in 1..Len(ledger) : ledger'[i] = ledger[i]
      /\ ledger'[Len(ledger) + 1] = Current
      /\ Current' = Current
      /\ \A n \in 0..Len(ledger) : (IF n = 0 THEN NoState ELSE ledger'[n]) = TreeAt(n)
  BY <1>1, AppendTree DEF IInv
<1>3. Current = NoState \/ (Len(ledger) # 0 /\ Current = ledger[Len(ledger)])
  BY DEF Current, TreeAt
<1>4. LedgerInv'
  <2>1. \A b \in Attempts : head'[b] <= Len(ledger')
    BY <1>1, <1>2 DEF IInv, TypeOK, LedgerInv
  <2> SUFFICES ASSUME NEW i \in 1..Len(ledger')
               PROVE  /\ ledger'[i].by \in {None, Current.by}
                      /\ ledger'[i].by = None => ledger'[i] = NoState
                      /\ ledger'[i].by # None => ledger'[i].status # "none"
    BY <1>2, <2>1 DEF LedgerInv, NoState
  <2>2. CASE i \in 1..Len(ledger)
    BY <1>2, <2>2 DEF IInv, LedgerInv
  <2>3. CASE i = Len(ledger) + 1 /\ Current = NoState
    BY <1>2, <2>3 DEF NoState
  <2>4. CASE /\ i = Len(ledger) + 1
             /\ Len(ledger) # 0 /\ Current = ledger[Len(ledger)]
    BY <1>2, <2>4 DEF IInv, LedgerInv
  <2> QED
    BY <1>2, <1>3, <2>2, <2>3, <2>4
<1>5. AdmittedInv'
  <2> SUFFICES ASSUME NEW i \in 1..Len(ledger'), ledger'[i].status = "ADMITTED"
               PROVE  /\ Current = ledger'[i]
                      /\ ledger'[i].receiptCommit \in 1..Len(ledger')
                      /\ ledger'[ledger'[i].receiptCommit] = Persisted(ledger'[i].by)
                      /\ checks[ledger'[i].by] \in {"success", "cancelled"}
    BY <1>1, <1>2 DEF AdmittedInv, Persisted
  <2>1. PICK j \in 1..Len(ledger) : ledger[j] = ledger'[i]
    BY <1>2, <1>3 DEF NoState
  <2> QED
    BY <1>2, <2>1 DEF IInv, AdmittedInv
<1>6. CheckInv'
  BY <1>1, <1>2 DEF IInv, CheckInv, Persisted
<1>7. ASSUME NEW b \in Attempts, NEW k \in Labels, Needs(b, k) PROVE Needs(b, k)'
  <2>1. head[b] \in 0..Len(ledger)
    BY <1>2 DEF IInv, LedgerInv, TypeOK
  <2>2. TreeAt(head[b])' = TreeAt(head[b])
    BY <1>1, <1>2, <2>1 DEF TreeAt
  <2>3. head[b] < Len(ledger) =>
          head'[b] < Len(ledger') /\ ledger'[head[b] + 1] = ledger[head[b] + 1]
    BY <1>1, <1>2, <2>1
  <2> QED
    BY <1>1, <1>2, <1>7, <2>2, <2>3 DEF Needs, SameIdentity, Reserved, Persisted, Admitted
<1> QED
  BY <1>1, <1>4, <1>5, <1>6, <1>7, WorldStep

LEMMA StepIInv == IInv /\ [Next]_vars => IInv'
<1> SUFFICES ASSUME IInv, [Next]_vars PROVE IInv'
  OBVIOUS
<1>1. TypeOK'
  BY StepTypeOK
<1>2. ASSUME NEW a \in Attempts, Work(a) PROVE IInv'
  <2>1. CASE CollectFacts(a) \/ RevalidatePr(a) \/ RevalidateCheck(a)
    BY <1>1, <2>1, QuietStep
  <2>2. CASE Decide(a)
    BY <1>1, <2>2, DecideStep
  <2>3. CASE \/ ScopeIsFree(a) \/ ScopeIsTaken(a) \/ ScopeIsPending(a)
             \/ ScopeIsAdmitted(a)
    BY <1>1, <2>3, ReadLedgerStep
  <2>4. CASE UpdateRef(a)
    BY <1>1, <2>4, UpdateRefStep
  <2>5. CASE ConfirmRef(a)
    BY <1>1, <2>5, ConfirmRefStep
  <2>6. CASE WriteCheck(a)
    BY <1>1, <2>6, WriteCheckStep
  <2>7. CASE \/ RecheckPr(a) \/ RefreshApproval(a) \/ RecheckPrLast(a)
             \/ RecheckMain(a) \/ ReadBack(a) \/ RecheckPrAfter(a)
    BY <1>1, <2>7, RereadStep
  <2> QED
    BY <1>2, <2>1, <2>2, <2>3, <2>4, <2>5, <2>6, <2>7 DEF Work
<1>3. ASSUME NEW a \in Attempts, Fault(a) PROVE IInv'
  BY <1>1, <1>3, QuietStep, CallFailsStep, CallTimesOutStep DEF Fault
<1>4. ASSUME NEW a \in Attempts, Crash(a) PROVE IInv'
  BY <1>1, <1>4, CrashStep
<1>5. ASSUME NEW a \in Attempts, NEW call \in Calls, LateCall(a, call) PROVE IInv'
  BY <1>1, <1>5, LateCallStep
<1>6. CASE OtherScope
  BY <1>1, <1>6, OtherScopeStep
<1>7. CASE \/ MovePr \/ AdvanceMain \/ (\E r \in Requests : ChangeApproval(r))
           \/ UNCHANGED vars
  <2>1. UNCHANGED <<ledger, checks, pc, grant, head, inflight>>
    BY <1>7 DEF MovePr, AdvanceMain, ChangeApproval, vars
  <2> QED
    BY <1>1, <2>1, Still, WorldStep
<1> QED
  BY <1>2, <1>3, <1>4, <1>5, <1>6, <1>7 DEF Next, Environment

-----------------------------------------------------------------------------
(* The theorems.                                                            *)

\* Every reachable state satisfies the inductive invariant.
THEOREM Inductive == Spec => []IInv
<1> QED
  BY InitIInv, StepIInv, PTL DEF Spec

\* Values keep their types: in particular the branch stays a sequence of
\* commits and no attempt stands outside the code's labels.
THEOREM TypeCorrect == Spec => []TypeOK
<1>1. IInv => TypeOK
  BY DEF IInv
<1> QED
  BY <1>1, Inductive, PTL

\* At most one attempt ever creates a check run for the scope.
THEOREM OneCheck == Spec => []AtMostOneCheck
<1>1. IInv => AtMostOneCheck
  BY DEF IInv, CheckInv, AtMostOneCheck
<1> QED
  BY <1>1, Inductive, PTL

\* A success conclusion is backed by a receipt the branch already holds.
THEOREM CustodyBeforeSuccess == Spec => []SuccessIsCustodied
<1>1. IInv => SuccessIsCustodied
  <2> SUFFICES ASSUME IInv, NEW a \in Attempts, checks[a] = "success"
               PROVE  \E i \in 1..Len(ledger) :
                         /\ ledger[i].status = "RECEIPT_PERSISTED"
                         /\ ledger[i].by = a /\ ledger[i].receipt = a
    BY DEF SuccessIsCustodied
  <2>1. PICK i \in 1..Len(ledger) : ledger[i] = Persisted(a)
    BY DEF IInv, CheckInv
  <2> QED
    BY <2>1 DEF Persisted
<1> QED
  BY <1>1, Inductive, PTL

\* The invariant backs ADMITTED.
LEMMA BackedByInvariant == IInv => AdmittedIsBacked
<1> SUFFICES ASSUME IInv, Current.status = "ADMITTED" PROVE AdmittedIsBacked
  BY DEF AdmittedIsBacked
<1>1. Len(ledger) \in 1..Len(ledger) /\ Current = ledger[Len(ledger)]
  BY LenProperties DEF Current, TreeAt, NoState, IInv, TypeOK
<1>2. /\ Current.receiptCommit \in 1..Len(ledger)
      /\ ledger[Current.receiptCommit] = Persisted(Current.by)
      /\ checks[Current.by] \in {"success", "cancelled"}
  BY <1>1 DEF IInv, AdmittedInv
<1>3. ReceiptAt(Current) = Current.by
  BY <1>2 DEF ReceiptAt, TreeAt, Persisted
<1>4. Current.by \in Attempts
  BY HolderType
<1> QED
  BY <1>2, <1>3, <1>4 DEF AdmittedIsBacked, IInv, CheckInv

\* ADMITTED names the holder's receipt, and the holder's check was completed.
THEOREM AdmissionBacked == Spec => []AdmittedIsBacked
<1>1. IInv => AdmittedIsBacked
  BY BackedByInvariant
<1> QED
  BY <1>1, Inductive, PTL

\* An authenticated admission is the recorded one and cannot be taken back.
THEOREM Finality == Spec => []AuthenticatedIsFinal
<1>1. IInv => AuthenticatedIsFinal
  <2> SUFFICES ASSUME IInv, NEW a \in Attempts, At(a, "authenticated")
               PROVE  /\ Current.status = "ADMITTED" /\ Current.by = a
                      /\ checks[a] = "success"
                      /\ \A call \in Calls : <<a, call>> \notin inflight
    BY DEF AuthenticatedIsFinal
  <2>1. pc[a] = "authenticated"
    BY DEF At
  <2>2. Needs(a, "authenticated") /\ NoLate(a)
    BY <2>1, AtStage DEF Live
  <2> QED
    BY <2>2 DEF Needs, NoLate
<1> QED
  BY <1>1, Inductive, PTL

\* A repeated request is told of the admission that is recorded for it.
THEOREM Repetition == Spec => []RepeatIsIdentical
<1>1. IInv => RepeatIsIdentical
  <2> SUFFICES ASSUME IInv, NEW a \in Attempts, At(a, "already")
               PROVE  /\ Current.status = "ADMITTED"
                      /\ SameIdentity(a, Current.by)
                      /\ ReceiptAt(Current) = Current.by
    BY DEF RepeatIsIdentical
  <2>1. pc[a] = "already"
    BY DEF At
  <2>2. Current.status = "ADMITTED" /\ SameIdentity(a, Current.by)
    BY <2>1, AtStage DEF Needs
  <2> QED
    BY <2>2, BackedByInvariant DEF AdmittedIsBacked
<1> QED
  BY <1>1, Inductive, PTL

\* An attempt that reports no side effect has had none, and will have none.
THEOREM NoSideEffect == Spec => []RejectionLeavesNoTrace
<1>1. IInv => RejectionLeavesNoTrace
  <2> SUFFICES ASSUME IInv, NEW a \in Attempts,
                      pc[a] \in {"rejected", "conflict", "refused", "already"}
               PROVE  /\ checks[a] = "absent"
                      /\ \A i \in 1..Len(ledger) : ledger[i].by # a
                      /\ \A call \in Calls : <<a, call>> \notin inflight
    BY DEF RejectionLeavesNoTrace
  <2>1. checks[a] = "absent" /\ Current.by # a /\ NoLate(a)
    BY AtStage DEF Needs, Live, Untouching
  <2>2. \A i \in 1..Len(ledger) : ledger[i].by # a
    BY <2>1, AttemptsAssumption DEF IInv, LedgerInv
  <2> QED
    BY <2>1, <2>2 DEF NoLate
<1> QED
  BY <1>1, Inductive, PTL

-----------------------------------------------------------------------------
(* What a step may do to the branch and to the check runs.                  *)

LEMMA Effects ==
  ASSUME IInv, [Next]_vars
  PROVE  \/ UNCHANGED <<ledger, checks>>
         \/ OtherScope
         \/ \E a \in Attempts, call \in WriteLabels :
               Needs(a, call) /\ ApplyWrite(a, call)
         \/ \E a \in Attempts, call \in CheckLabels :
               Needs(a, call) /\ ApplyCheck(a, call)
<1>1. ASSUME NEW a \in Attempts, UpdateRef(a) \/ WriteCheck(a)
      PROVE  \/ \E call \in WriteLabels : Needs(a, call) /\ ApplyWrite(a, call)
             \/ \E call \in CheckLabels : Needs(a, call) /\ ApplyCheck(a, call)
  <2>1. Needs(a, pc[a])
    BY AtStage
  <2> QED
    BY <1>1, <2>1 DEF UpdateRef, WriteCheck
<1>2. ASSUME NEW a \in Attempts, Work(a), ~UpdateRef(a), ~WriteCheck(a)
      PROVE  UNCHANGED <<ledger, checks>>
  BY <1>2
  DEF Work, CollectFacts, Decide, ScopeIsFree, ScopeIsTaken, ScopeIsPending,
      ScopeIsAdmitted, ReadLedger, RevalidatePr, RevalidateCheck, ConfirmRef,
      RecheckPr, RefreshApproval, RecheckPrLast, RecheckMain, ReadBack,
      RecheckPrAfter, Reread
<1>3. ASSUME NEW a \in Attempts, Fault(a) \/ Crash(a)
      PROVE  UNCHANGED <<ledger, checks>>
  BY <1>3 DEF Fault, QuietReadFails, CallFails, CallTimesOut, Crash
<1>4. ASSUME NEW a \in Attempts, NEW call \in Calls, LateCall(a, call)
      PROVE  \/ call \in WriteLabels /\ Needs(a, call) /\ ApplyWrite(a, call)
             \/ call \in CheckLabels /\ Needs(a, call) /\ ApplyCheck(a, call)
  BY <1>4, AtStage DEF LateCall, Apply
<1>5. CASE Environment
  BY <1>5 DEF Environment, MovePr, AdvanceMain, ChangeApproval
<1>6. CASE UNCHANGED vars
  BY <1>6 DEF vars
<1>7. CASE \E a \in Attempts : Work(a)
  BY <1>1, <1>2, <1>7
<1>8. CASE \E a \in Attempts, call \in Calls : LateCall(a, call)
  BY <1>4, <1>8
<1> QED
  BY <1>3, <1>5, <1>6, <1>7, <1>8 DEF Next

\* A write moves the scope one stage on, for the attempt that holds it.
LEMMA WriteStage ==
  ASSUME IInv, NEW a \in Attempts, NEW call \in WriteLabels,
         Needs(a, call), ApplyWrite(a, call)
  PROVE  /\ call = "reserve" => Current = NoState /\ Current' = Reserved(a)
         /\ call = "persist" => Current = Reserved(a) /\ Current' = Persisted(a)
         /\ call = "admit" => Current = Persisted(a) /\ Current' = Admitted(a, head[a])
<1>1. Tree(a, call) \in Commit /\ ledger' = Append(ledger, Tree(a, call))
  BY WriteTree DEF ApplyWrite
<1>2. Current' = Tree(a, call)
  BY <1>1, AppendTree DEF IInv
<1> QED
  BY <1>2, WriteTree

LEMMA OtherScopeKeeps ==
  ASSUME IInv, OtherScope
  PROVE  Current' = Current /\ UNCHANGED checks
<1>1. Current \in Commit /\ ledger' = Append(ledger, Current)
  BY CurrentType DEF IInv, OtherScope
<1> QED
  BY <1>1, AppendTree DEF IInv, OtherScope

\* Custody of the scope only advances, in every step of every attempt and of
\* every late call.
THEOREM CustodyOnlyAdvances == Spec => CustodyAdvances
<1> DEFINE A == /\ Rank(Current.status) <= Rank(Current'.status)
                /\ Current.by # None => Current'.by = Current.by
                /\ Current.receipt # None => Current'.receipt = Current.receipt
<1>1. IInv /\ [Next]_vars => [A]_ledger
  <2> SUFFICES ASSUME IInv, [Next]_vars, ledger' # ledger PROVE A
    OBVIOUS
  <2>1. CASE OtherScope
    <3>1. Current \in Commit /\ Current' = Current
      BY <2>1, OtherScopeKeeps, CurrentType DEF IInv
    <3> QED
      BY <3>1 DEF Rank, Commit, Statuses
  <2>2. ASSUME NEW a \in Attempts, NEW call \in WriteLabels,
               Needs(a, call), ApplyWrite(a, call)
        PROVE  A
    <3>1. /\ call = "reserve" => Current = NoState /\ Current' = Reserved(a)
          /\ call = "persist" => Current = Reserved(a) /\ Current' = Persisted(a)
          /\ call = "admit" =>
               Current = Persisted(a) /\ Current' = Admitted(a, head[a])
      BY <2>2, WriteStage
    <3> QED
      BY <3>1 DEF WriteLabels, NoState, Reserved, Persisted, Admitted, Rank
  <2>3. ASSUME NEW a \in Attempts, NEW call \in CheckLabels, ApplyCheck(a, call)
        PROVE  FALSE
    BY <2>3 DEF ApplyCheck
  <2> QED
    BY <2>1, <2>2, <2>3, Effects
<1> QED
  BY <1>1, Inductive, PTL DEF Spec, CustodyAdvances

\* Publication implements the custody of the scope.
THEOREM Refinement == Spec => ImplementsCustody
<1>1. Init => Custody!Free
  <2> SUFFICES ASSUME Init PROVE Custody!Free
    OBVIOUS
  <2>1. Current = NoState
    <3>1. CASE ledger = <<>>
      BY <3>1 DEF Current, TreeAt
    <3>2. CASE ledger = <<NoState>>
      BY <3>2 DEF Current, TreeAt
    <3> QED
      BY <3>1, <3>2 DEF Init
  <2> QED
    BY <2>1 DEF Init, NoState, Custody!Free
<1>2. IInv /\ [Next]_vars => [Custody!CustodyNext]_(Custody!custodyVars)
  <2> SUFFICES ASSUME IInv, [Next]_vars,
                      ~ UNCHANGED Custody!custodyVars
               PROVE  Custody!CustodyNext
    OBVIOUS
  <2>1. ~ UNCHANGED <<ledger, checks>> /\ ~ OtherScope
    BY OtherScopeKeeps DEF Custody!custodyVars, Current, TreeAt
  <2>2. ASSUME NEW a \in Attempts, NEW call \in WriteLabels,
               Needs(a, call), ApplyWrite(a, call)
        PROVE  Custody!CustodyNext
    <3>1. /\ call = "reserve" => Current = NoState /\ Current' = Reserved(a)
          /\ call = "persist" => Current = Reserved(a) /\ Current' = Persisted(a)
          /\ call = "admit" =>
               Current = Persisted(a) /\ Current' = Admitted(a, head[a])
          /\ checks' = checks
      BY <2>2, WriteStage DEF ApplyWrite
    <3>2. CASE call = "reserve"
      BY <3>1, <3>2
      DEF Custody!CustodyNext, Custody!Reserve, Custody!Advance, NoState, Reserved
    <3>3. CASE call = "persist"
      <4>1. checks[a] # "absent"
        BY <2>2, <3>3 DEF Needs
      <4> QED
        BY <3>1, <3>3, <4>1
        DEF Custody!CustodyNext, Custody!Persist, Custody!Advance, Reserved, Persisted
    <3>4. CASE call = "admit"
      <4>1. checks[a] \in {"success", "cancelled"}
        BY <2>2, <3>4 DEF Needs
      <4> QED
        BY <3>1, <3>4, <4>1
        DEF Custody!CustodyNext, Custody!Admit, Custody!Advance, Persisted, Admitted
    <3> QED
      BY <3>2, <3>3, <3>4 DEF WriteLabels
  <2>3. ASSUME NEW a \in Attempts, NEW call \in CheckLabels,
               Needs(a, call), ApplyCheck(a, call)
        PROVE  Custody!CustodyNext
    <3>1. /\ Current.by = a /\ a # None
          /\ checks' = [checks EXCEPT ![Current.by] = Conclusion[call]]
          /\ Current' = Current
      BY <2>3, CheckHolder, AttemptsAssumption DEF ApplyCheck, Current, TreeAt
    <3>2. CASE call = "create"
      <4>1. Current.status = "RESERVED" /\ checks[a] = "absent"
        BY <2>3, <3>2 DEF Needs
      <4> QED
        BY <3>1, <3>2, <4>1
        DEF Custody!CustodyNext, Custody!OpenCheck, Custody!Conclude, Conclusion
    <3>3. CASE call = "complete"
      <4>1. Current.status = "RECEIPT_PERSISTED" /\ checks[a] # "absent"
        BY <2>3, <3>3 DEF Needs, Completing
      <4> QED
        BY <3>1, <3>3, <4>1
        DEF Custody!CustodyNext, Custody!Complete, Custody!Conclude, Conclusion
    <3>4. CASE call = "withdraw"
      <4>1. checks[a] # "absent"
        BY <2>3, <3>4 DEF Needs
      <4> QED
        BY <3>1, <3>4, <4>1
        DEF Custody!CustodyNext, Custody!Withdraw, Custody!Conclude, Conclusion
    <3> QED
      BY <3>2, <3>3, <3>4 DEF CheckLabels
  <2> QED
    BY <2>1, <2>2, <2>3, Effects
<1> QED
  BY <1>1, <1>2, Inductive, PTL DEF Spec, ImplementsCustody, Custody!CustodySpec

-----------------------------------------------------------------------------
(* What is lost for good before the refresh.                                *)

\* Before the refresh the check is at most open.  (IInv only asks that it is
\* there, since that is all a late call may count on.)
Unspent == \A a \in Attempts : pc[a] \in Unrefreshed => checks[a] # "success"

\* The reads that stand between an attempt and the success of its check.
Gates == {"refresh", "recheck_pr_last", "recheck_main"}

\* The labels beyond each of them.
Spending == {"complete", "readback", "recheck_pr_after", "admit", "confirm_admit",
             "authenticated"}
Beyond(g) ==
  CASE g = "refresh"         -> Spending \cup {"recheck_pr_last", "recheck_main"}
    [] g = "recheck_pr_last" -> Spending \cup {"recheck_main"}
    [] g = "recheck_main"    -> Spending

\* The read fails, as things are.
Closed(a, g) ==
  CASE g = "refresh"         -> approval[RequestOf[a]] # grant[a]
    [] g = "recheck_pr_last" -> ~prAtHead
    [] g = "recheck_main"    -> ~mainFixed

\* The attempt has not come through, and nothing of it is on its way.
Held(a, g) ==
  /\ pc[a] \notin Beyond(g)
  /\ <<a, "complete">> \notin inflight
  /\ checks[a] # "success"

\* What a step of an attempt may do to it: where it may come from, and what it
\* leaves on its way.
LEMMA AttemptSteps ==
  ASSUME IInv, NEW a \in Attempts, Work(a) \/ Fault(a) \/ Crash(a)
  PROVE  /\ pc'[a] \in Unrefreshed =>
              pc[a] \in Unrefreshed /\ checks'[a] \in {checks[a], "in_progress"}
         /\ pc'[a] = "recheck_pr_last" =>
              pc[a] = "refresh" /\ approval[RequestOf[a]] = grant[a]
         /\ pc'[a] = "recheck_main" => pc[a] = "recheck_pr_last" /\ prAtHead
         /\ pc'[a] = "complete" => pc[a] = "recheck_main" /\ mainFixed
         /\ pc'[a] \in Spending \ {"complete"} => pc[a] \in Spending
         /\ checks'[a] = "success" => checks[a] = "success" \/ pc[a] = "complete"
         /\ <<a, "complete">> \in inflight' =>
              <<a, "complete">> \in inflight \/ pc[a] = "complete"
<1>1. pc \in [Attempts -> Labels]
      /\ checks \in [Attempts -> {"absent", "in_progress", "success", "cancelled"}]
  BY DEF IInv, TypeOK
<1>2. ASSUME NEW l, Goto(a, l) PROVE pc'[a] = l
  BY <1>1, <1>2 DEF Goto
<1>3. \A l : OnError(l) \in {"withdraw", "partial"}
  BY DEF OnError
<1>4. CASE \/ CollectFacts(a) \/ Decide(a) \/ RevalidatePr(a) \/ RevalidateCheck(a)
           \/ QuietReadFails(a) \/ Crash(a)
  <2>1. /\ UNCHANGED <<checks, inflight>>
        /\ \/ pc[a] \in Unrefreshed /\ pc'[a] \in {"authorize", "read_ledger"}
           \/ pc'[a] \in {"rejected", "revalidate_check", "refused", "already", "crashed"}
    BY <1>2, <1>4
    DEF CollectFacts, Decide, RevalidatePr, RevalidateCheck, QuietReadFails, Crash,
        At, Unrefreshed
  <2>. QED
    BY <2>1 DEF Unrefreshed, Spending
<1>5. CASE \/ ScopeIsFree(a) \/ ScopeIsTaken(a) \/ ScopeIsPending(a)
           \/ ScopeIsAdmitted(a)
  <2>1. /\ UNCHANGED <<checks, inflight>>
        /\ pc[a] = "read_ledger"
        /\ pc'[a] \in {"reserve", "conflict", "partial", "revalidate_pr"}
    BY <1>2, <1>5
    DEF ScopeIsFree, ScopeIsTaken, ScopeIsPending, ScopeIsAdmitted, ReadLedger, At
  <2>. QED
    BY <2>1 DEF Unrefreshed, Spending
<1>6. CASE UpdateRef(a) \/ ConfirmRef(a)
  <2>1. /\ UNCHANGED <<checks, inflight>>
        /\ \/ pc'[a] \in {"withdraw", "partial"}
           \/ pc[a] = "reserve" /\ pc'[a] = "confirm_reserve"
           \/ pc[a] = "persist" /\ pc'[a] = "confirm_persist"
           \/ pc[a] = "admit" /\ pc'[a] = "confirm_admit"
           \/ pc[a] = "confirm_reserve" /\ pc'[a] = "recheck_pr"
           \/ pc[a] = "confirm_persist" /\ pc'[a] = "refresh"
           \/ pc[a] = "confirm_admit" /\ pc'[a] = "authenticated"
    BY <1>2, <1>3, <1>6
    DEF UpdateRef, ConfirmRef, ApplyWrite, Raise, WriteLabels, ConfirmLabels,
        ConfirmOf, AfterConfirm
  <2>. QED
    BY <2>1 DEF Unrefreshed, Spending
<1>7. CASE WriteCheck(a)
  <2>1. /\ UNCHANGED inflight
        /\ \/ pc[a] = "create" /\ pc'[a] = "persist" /\ checks'[a] = "in_progress"
           \/ pc[a] = "complete" /\ pc'[a] = "readback" /\ checks'[a] = "success"
           \/ pc[a] = "withdraw" /\ pc'[a] = "partial" /\ checks'[a] = "cancelled"
    BY <1>1, <1>2, <1>7 DEF WriteCheck, ApplyCheck, CheckLabels, Conclusion, AfterCheck
  <2>. QED
    BY <2>1 DEF Unrefreshed, Spending
<1>8. CASE \/ RecheckPr(a) \/ RefreshApproval(a) \/ RecheckPrLast(a) \/ RecheckMain(a)
           \/ ReadBack(a) \/ RecheckPrAfter(a)
  <2>1. ASSUME NEW label, NEW ok, NEW next, Reread(a, label, ok, next)
        PROVE  /\ UNCHANGED <<checks, inflight>>
               /\ pc'[a] \in {"withdraw", "partial"} \/ (pc[a] = label /\ ok /\ pc'[a] = next)
    BY <1>2, <1>3, <2>1 DEF Reread, Require, Raise, At
  <2>2. /\ UNCHANGED <<checks, inflight>>
        /\ \/ pc'[a] \in {"withdraw", "partial"}
           \/ pc[a] = "recheck_pr" /\ pc'[a] = "create"
           \/ /\ pc[a] = "refresh" /\ approval[RequestOf[a]] = grant[a]
              /\ pc'[a] = "recheck_pr_last"
           \/ pc[a] = "recheck_pr_last" /\ prAtHead /\ pc'[a] = "recheck_main"
           \/ pc[a] = "recheck_main" /\ mainFixed /\ pc'[a] = "complete"
           \/ pc[a] = "readback" /\ pc'[a] = "recheck_pr_after"
           \/ pc[a] = "recheck_pr_after" /\ pc'[a] = "admit"
    BY <1>8, <2>1
    DEF RecheckPr, RefreshApproval, RecheckPrLast, RecheckMain, ReadBack, RecheckPrAfter
  <2>. QED
    BY <2>2 DEF Unrefreshed, Spending
<1>9. CASE CallFails(a) \/ CallTimesOut(a)
  <2>1. /\ UNCHANGED checks
        /\ inflight' \subseteq inflight \cup {<<a, pc[a]>>}
        /\ pc'[a] \in {"withdraw", "partial", "unconfirmed"}
    BY <1>2, <1>3, <1>9 DEF CallFails, CallTimesOut, Raise
  <2>. QED
    BY <2>1 DEF Unrefreshed, Spending
<1>. QED
  BY <1>4, <1>5, <1>6, <1>7, <1>8, <1>9 DEF Work, Fault

\* The steps of others leave an attempt alone, but for a late call of it.
LEMMA OtherSteps ==
  ASSUME IInv, [Next]_vars, NEW a \in Attempts
  PROVE  \/ Work(a) \/ Fault(a) \/ Crash(a)
         \/ /\ pc'[a] = pc[a]
            /\ <<a, "complete">> \in inflight' => <<a, "complete">> \in inflight
            /\ \/ checks'[a] = checks[a]
               \/ \E call \in Calls : /\ <<a, call>> \in inflight
                                      /\ checks'[a] = "success" => call = "complete"
<1>. DEFINE Result ==
         \/ Work(a) \/ Fault(a) \/ Crash(a)
         \/ /\ pc'[a] = pc[a]
            /\ <<a, "complete">> \in inflight' => <<a, "complete">> \in inflight
            /\ \/ checks'[a] = checks[a]
               \/ \E call \in Calls : /\ <<a, call>> \in inflight
                                      /\ checks'[a] = "success" => call = "complete"
<1>1. pc \in [Attempts -> Labels]
      /\ checks \in [Attempts -> {"absent", "in_progress", "success", "cancelled"}]
  BY DEF IInv, TypeOK
<1>2. ASSUME NEW b \in Attempts, b # a, NEW l, Goto(b, l) PROVE pc'[a] = pc[a]
  BY <1>1, <1>2 DEF Goto
<1>3. ASSUME NEW b \in Attempts, b # a, Work(b) PROVE Result
  <2>1. UNCHANGED inflight /\ pc'[a] = pc[a]
    BY <1>2, <1>3
    DEF Work, CollectFacts, Decide, ScopeIsFree, ScopeIsTaken, ScopeIsPending,
        ScopeIsAdmitted, ReadLedger, RevalidatePr, RevalidateCheck, UpdateRef, WriteCheck,
        ConfirmRef, RecheckPr, RefreshApproval, RecheckPrLast, RecheckMain, ReadBack,
        RecheckPrAfter, Reread, Require, Raise
  <2>2. checks'[a] = checks[a]
    BY <1>1, <1>3
    DEF Work, CollectFacts, Decide, ScopeIsFree, ScopeIsTaken, ScopeIsPending,
        ScopeIsAdmitted, ReadLedger, RevalidatePr, RevalidateCheck, UpdateRef, WriteCheck,
        ConfirmRef, RecheckPr, RefreshApproval, RecheckPrLast, RecheckMain, ReadBack,
        RecheckPrAfter, Reread, ApplyWrite, ApplyCheck
  <2>. QED
    BY <2>1, <2>2
<1>4. ASSUME NEW b \in Attempts, b # a, Fault(b) \/ Crash(b) PROVE Result
  <2>1. UNCHANGED checks /\ inflight' \subseteq inflight \cup {<<b, pc[b]>>}
    BY <1>4 DEF Fault, QuietReadFails, CallFails, CallTimesOut, Crash
  <2>2. pc'[a] = pc[a]
    BY <1>2, <1>4 DEF Fault, QuietReadFails, CallFails, CallTimesOut, Crash, Raise
  <2>. QED
    BY <1>4, <2>1, <2>2
<1>5. ASSUME NEW b \in Attempts, NEW call \in Calls, LateCall(b, call) PROVE Result
  <2>1. UNCHANGED pc /\ inflight' \subseteq inflight /\ <<b, call>> \in inflight
    BY <1>5 DEF LateCall
  <2>2. CASE b # a
    BY <1>1, <1>5, <2>1, <2>2 DEF LateCall, Apply, ApplyWrite, ApplyCheck
  <2>3. CASE b = a /\ call \in WriteLabels /\ ApplyWrite(a, call)
    BY <2>1, <2>3 DEF ApplyWrite
  <2>4. CASE b = a /\ call \in CheckLabels /\ ApplyCheck(a, call)
    <3>1. checks'[a] = "success" => call = "complete"
      BY <1>1, <2>4 DEF ApplyCheck, CheckLabels, Conclusion
    <3>. QED
      BY <2>1, <2>4, <3>1
  <2>. QED
    BY <1>5, <2>2, <2>3, <2>4 DEF LateCall, Apply
<1>6. CASE Environment \/ UNCHANGED vars
  BY <1>6 DEF Environment, MovePr, AdvanceMain, OtherScope, ChangeApproval, vars
<1>. QED
  BY <1>3, <1>4, <1>5, <1>6 DEF Next

LEMMA UnspentStays == IInv /\ Unspent /\ [Next]_vars => Unspent'
<1>. SUFFICES ASSUME IInv, Unspent, [Next]_vars, NEW a \in Attempts,
                     pc'[a] \in Unrefreshed
              PROVE  checks'[a] # "success"
  BY DEF Unspent
<1>1. CASE Work(a) \/ Fault(a) \/ Crash(a)
  BY <1>1, AttemptSteps DEF Unspent
<1>2. CASE /\ pc'[a] = pc[a]
           /\ \/ checks'[a] = checks[a]
              \/ \E call \in Calls : <<a, call>> \in inflight
  <2>1. pc[a] \in Unrefreshed
    BY <1>2
  <2>2. NoLate(a)
    BY <2>1 DEF IInv, LateInv, Live, Untouching, QuietLabels, ConfirmLabels, ReadLabels,
                Unrefreshed
  <2>. QED
    BY <1>2, <2>1, <2>2 DEF NoLate, Unspent
<1>. QED
  BY <1>1, <1>2, OtherSteps

LEMMA UnrefreshedIsHeld ==
  ASSUME IInv, Unspent, NEW a \in Attempts, pc[a] \in Unrefreshed, NEW g \in Gates
  PROVE  Held(a, g)
<1>1. NoLate(a)
  BY DEF IInv, LateInv, Live, Untouching, QuietLabels, ConfirmLabels, ReadLabels,
         Unrefreshed
<1>. QED
  BY <1>1 DEF Held, NoLate, Calls, Unspent, Unrefreshed, Beyond, Gates, Spending

\* Through a closed gate nobody comes.
LEMMA HeldStays ==
  ASSUME IInv, [Next]_vars, NEW a \in Attempts, NEW g \in Gates, Held(a, g), Closed(a, g)
  PROVE  Held(a, g)'
<1>1. CASE Work(a) \/ Fault(a) \/ Crash(a)
  <2>1. pc'[a] \notin Beyond(g)
    BY <1>1, AttemptSteps DEF Held, Closed, Beyond, Gates, Spending
  <2>2. <<a, "complete">> \notin inflight' /\ checks'[a] # "success"
    BY <1>1, AttemptSteps DEF Held, Beyond, Gates, Spending
  <2>. QED
    BY <2>1, <2>2 DEF Held, Beyond
<1>2. CASE /\ pc'[a] = pc[a]
           /\ <<a, "complete">> \in inflight' => <<a, "complete">> \in inflight
           /\ \/ checks'[a] = checks[a]
              \/ \E call \in Calls : /\ <<a, call>> \in inflight
                                     /\ checks'[a] = "success" => call = "complete"
  BY <1>2 DEF Held, Beyond
<1>. QED
  BY <1>1, <1>2, OtherSteps

\* An attempt that lost the pull request's head, main or its approval for good
\* before the refresh never has a successful check: each is read once more
\* between the receipt and the success transition.
THEOREM StaleIsNeverSuccess == Spec => StaleNeverSucceeds
<1>1. Init => Unspent
  BY DEF Init, Unspent
<1>2. Spec => []Unspent
  BY <1>1, UnspentStays, Inductive, PTL DEF Spec
<1>3. ASSUME NEW a \in Attempts
      PROVE  Spec => [](pc[a] \in Unrefreshed /\ LostForGood(a) => [](checks[a] # "success"))
  <2>. DEFINE U == pc[a] \in Unrefreshed
              C == checks[a] # "success"
              P == Held(a, "recheck_pr_last")
              M == Held(a, "recheck_main")
              A == Held(a, "refresh")
              Same == approval[RequestOf[a]] # grant[a]
  <2>1. IInv /\ Unspent /\ U => P /\ M /\ A
    BY UnrefreshedIsHeld DEF Gates
  <2>2. (P => C) /\ (M => C) /\ (A => C)
    BY DEF Held
  <2>3. IInv /\ [Next]_vars /\ P /\ ~prAtHead => P'
    BY HeldStays DEF Gates, Closed
  <2>4. IInv /\ [Next]_vars /\ M /\ ~mainFixed => M'
    BY HeldStays DEF Gates, Closed
  <2>5. IInv /\ [Next]_vars /\ A /\ Same => A'
    BY HeldStays DEF Gates, Closed
  <2>. HIDE DEF U, C, P, M, A, Same
  <2>6. Spec => [](U /\ ([]~prAtHead \/ []~mainFixed \/ []Same) => []C)
    BY <1>2, <2>1, <2>2, <2>3, <2>4, <2>5, Inductive, PTL DEF Spec
  <2>. QED
    BY <2>6, PTL DEF U, C, Same, LostForGood
<1>. QED
  BY <1>3 DEF StaleNeverSucceeds
=============================================================================
