-------------------------- MODULE ExecutionLedgerProofs --------------------------
(***************************************************************************)
(* What an attestation says of its ledger, for any lines, callers, policies *)
(* and results.  The verifier keeps its events apart from the file it read; *)
(* the invariant ties the two together (EventsAreLines: the n-th event is   *)
(* the n-th line that is not blank) and remembers what each line passed     *)
(* (LinesWereAccepted) and what was derived (AttestedIsDerived).            *)
(***************************************************************************)
EXTENDS ExecutionLedger, SequenceLemmas, FiniteSetTheorems

Numbered(l, n) == [l EXCEPT !.number = n]
Events == {Numbered(l, n) : l \in Lines, n \in Nat}

LedgerType ==
  /\ call \in Calls /\ policy \in Policies
  /\ read \in Seq(Lines) /\ events \in Seq(Events)

EventsAreLines ==
  /\ Len(events) = Cardinality(Content)
  /\ \A i \in Content :
       /\ Ordinal(i) \in DOMAIN events
       /\ events[Ordinal(i)] = Numbered(read[i], Ordinal(i))
  /\ \A n \in DOMAIN events : \E i \in Content : Ordinal(i) = n

LinesWereAccepted ==
  \A i \in Content :
    /\ read[i].kind = "EXECUTION_RECEIPT" => Authenticated(read[i].receipt, read[i].run)
    /\ read[i].number = Ordinal(i) \/ (read[i].number = 0 /\ Ordinal(i) = i)

AttestedIsDerived == Attested => Derivable(attestation.fields)

LedgerInv == LedgerType /\ EventsAreLines /\ LinesWereAccepted /\ AttestedIsDerived

-----------------------------------------------------------------------------
(* Lines, and which of the lines they are.                                  *)

\* A line with another number is the same line otherwise.
LEMMA NumberedFacts ==
  ASSUME NEW l \in Lines, NEW n \in Nat
  PROVE  LET e == Numbered(l, n)
         IN  /\ e.number = n /\ e.kind = l.kind /\ e.own = l.own
             /\ e.test = l.test /\ e.head = l.head /\ e.receipt = l.receipt
<1>1. l = [kind |-> l.kind, number |-> l.number, own |-> l.own, run |-> l.run,
           test |-> l.test, head |-> l.head, receipt |-> l.receipt]
  BY LinesAssumption
<1>. QED
  BY <1>1 DEF Numbered

\* The lines up to one are finitely many, and no more than its place in the file.
LEMMA BelowIsFinite ==
  ASSUME NEW S, S \subseteq Nat \ {0}, NEW i \in Nat
  PROVE  LET T == {j \in S : j <= i}
         IN  IsFiniteSet(T) /\ Cardinality(T) \in Nat /\ Cardinality(T) <= i
             /\ (Cardinality(T) = i => 1..i \subseteq S)
<1>. DEFINE T == {j \in S : j <= i}
<1>1. T \in SUBSET (1..i)
  <2>1. ASSUME NEW j \in T PROVE j \in 1..i
    OBVIOUS
  <2>. QED
    BY <2>1
<1>2. IsFiniteSet(1..i) /\ Cardinality(1..i) = i
  BY FS_Interval
<1>. HIDE DEF T
<1>3. IsFiniteSet(T) /\ Cardinality(T) <= i /\ (i = Cardinality(T) => 1..i = T)
  BY <1>1, <1>2, FS_Subset
<1>4. Cardinality(T) \in Nat
  BY <1>3, FS_CardinalityType
<1>5. T \subseteq S
  BY DEF T
<1>. QED
  BY <1>3, <1>4, <1>5 DEF T

\* A later line of a set has a higher rank in it.
LEMMA RanksRise ==
  ASSUME NEW S, S \subseteq Nat \ {0}, NEW i \in Nat, NEW j \in S, i < j
  PROVE  Cardinality({k \in S : k <= i}) < Cardinality({k \in S : k <= j})
<1>. DEFINE T == {k \in S : k <= i}
            U == {k \in S : k <= j}
<1>1. IsFiniteSet(T) /\ Cardinality(T) \in Nat
  BY BelowIsFinite
<1>2. j \in Nat /\ j \notin T
  OBVIOUS
<1>3. IsFiniteSet(T \cup {j}) /\ Cardinality(T \cup {j}) = Cardinality(T) + 1
  BY <1>1, <1>2, FS_AddElement
<1>4. IsFiniteSet(U) /\ Cardinality(U) \in Nat
  BY <1>2, BelowIsFinite
<1>5. T \cup {j} \in SUBSET U
  <2>1. ASSUME NEW k \in T PROVE k \in U
    BY <1>2
  <2>2. j \in U
    BY <1>2
  <2>. QED
    BY <2>1, <2>2
<1>. HIDE DEF T, U
<1>6. Cardinality(T \cup {j}) <= Cardinality(U)
  BY <1>4, <1>5, FS_Subset
<1>. QED
  BY <1>1, <1>3, <1>4, <1>6 DEF T, U

LEMMA ContentFacts ==
  ASSUME LedgerType
  PROVE  /\ Content \subseteq Nat \ {0}
         /\ Content \subseteq DOMAIN read
         /\ \A i \in Content : read[i] \in Lines /\ Ordinal(i) \in Nat /\ Ordinal(i) <= i
                               /\ (Ordinal(i) = i => 1..i \subseteq Content)
         /\ \A i, j \in Content : Ordinal(i) <= Ordinal(j) <=> i <= j
<1>1. /\ Content \subseteq Nat \ {0} /\ Content \subseteq DOMAIN read
      /\ \A i \in Content : read[i] \in Lines
  BY ElementOfSeq, LenProperties DEF LedgerType, Content
<1>2. ASSUME NEW i \in Content
      PROVE  Ordinal(i) \in Nat /\ Ordinal(i) <= i /\ (Ordinal(i) = i => 1..i \subseteq Content)
  BY <1>1, BelowIsFinite DEF Ordinal
<1>3. ASSUME NEW i \in Content, NEW j \in Content, i < j
      PROVE  Ordinal(i) < Ordinal(j)
  BY <1>1, <1>3, RanksRise DEF Ordinal
<1>4. ASSUME NEW i \in Content, NEW j \in Content
      PROVE  Ordinal(i) <= Ordinal(j) <=> i <= j
  <2>1. i \in Nat /\ j \in Nat /\ Ordinal(i) \in Nat /\ Ordinal(j) \in Nat
    BY <1>1, <1>2
  <2>2. i < j => Ordinal(i) < Ordinal(j)
    BY <1>3
  <2>3. j < i => Ordinal(j) < Ordinal(i)
    BY <1>3
  <2>4. i = j => Ordinal(i) = Ordinal(j)
    OBVIOUS
  <2>. HIDE DEF Ordinal
  <2>. QED
    BY <2>1, <2>2, <2>3, <2>4
<1>. QED
  BY <1>1, <1>2, <1>4

-----------------------------------------------------------------------------
(* The invariant is kept.                                                   *)

\* What a blank line does to the content of the file.
LEMMA BlankAdded ==
  ASSUME LedgerType, NEW l \in Lines, l.kind = "blank", read' = Append(read, l)
  PROVE  Content' = Content
         /\ \A i \in Content : Ordinal(i)' = Ordinal(i) /\ read'[i] = read[i]
<1>1. /\ read \in Seq(Lines) /\ Len(read) \in Nat /\ DOMAIN read = 1..Len(read)
      /\ DOMAIN read' = 1..(Len(read) + 1)
      /\ \A i \in 1..Len(read) : read'[i] = read[i]
      /\ read'[Len(read) + 1] = l
  BY AppendProperties, LenProperties DEF LedgerType
<1>2. Content' = Content
  BY <1>1 DEF Content
<1>. QED
  BY <1>1, <1>2 DEF Ordinal, Content

\* What another line does to it.
LEMMA LineAdded ==
  ASSUME LedgerType, NEW l \in Lines, l.kind # "blank", read' = Append(read, l),
         NEW n, n = Len(read) + 1
  PROVE  /\ n \notin Content /\ Content' = Content \cup {n} /\ read'[n] = l
         /\ \A i \in Content : Ordinal(i)' = Ordinal(i) /\ read'[i] = read[i]
         /\ Ordinal(n)' = Cardinality(Content) + 1
         /\ Cardinality(Content') = Cardinality(Content) + 1
<1>1. /\ read \in Seq(Lines) /\ Len(read) \in Nat /\ DOMAIN read = 1..Len(read)
      /\ DOMAIN read' = 1..n
      /\ \A i \in 1..Len(read) : read'[i] = read[i]
      /\ read'[n] = l
  BY AppendProperties, LenProperties DEF LedgerType
<1>2. n \notin Content /\ Content' = Content \cup {n}
  BY <1>1 DEF Content
<1>3. \A i \in Content : i \in 1..Len(read)
  BY <1>1 DEF Content
<1>4. ASSUME NEW i \in Content PROVE Ordinal(i)' = Ordinal(i) /\ read'[i] = read[i]
  <2>1. {j \in Content \cup {n} : j <= i} = {j \in Content : j <= i}
    BY <1>1, <1>3
  <2>. QED
    BY <1>1, <1>2, <1>3, <2>1 DEF Ordinal
<1>5. IsFiniteSet(Content)
  <2>1. Content \in SUBSET (1..Len(read))
    BY <1>1 DEF Content
  <2>2. IsFiniteSet(1..Len(read))
    BY <1>1, FS_Interval
  <2>. QED
    BY <2>1, <2>2, FS_Subset
<1>6. Cardinality(Content \cup {n}) = Cardinality(Content) + 1
  BY <1>2, <1>5, FS_AddElement
<1>7. {j \in Content' : j <= n} = Content \cup {n}
  BY <1>1, <1>2, <1>3
<1>. QED
  BY <1>1, <1>2, <1>4, <1>6, <1>7 DEF Ordinal

LEMMA InitLedger == Init => LedgerInv
<1>. SUFFICES ASSUME Init PROVE LedgerInv
  OBVIOUS
<1>1. Content = {}
  BY DEF Init, Content
<1>2. LedgerType
  BY DEF Init, LedgerType
<1>3. EventsAreLines
  BY <1>1, FS_EmptySet DEF Init, EventsAreLines
<1>. QED
  BY <1>1, <1>2, <1>3 DEF Init, LedgerInv, LinesWereAccepted, AttestedIsDerived, Attested

\* A line that is taken is the next event.
LEMMA TakeLineKeeps ==
  ASSUME LedgerInv, NEW l \in Lines, TakeLine(l)
  PROVE  LedgerInv'
<1>. PICK n, m : n = Len(read) + 1 /\ m = Len(events) + 1
  OBVIOUS
<1>1. /\ LedgerType /\ EventsAreLines /\ LinesWereAccepted
      /\ outcome = "reading" /\ outcome' = outcome /\ Accepts(l)
      /\ call' = call /\ policy' = policy
      /\ read' = Append(read, l)
      /\ events' = Append(events, Numbered(l, NumberOf(l)))
  BY DEF TakeLine, MayRead, LedgerInv, Numbered
<1>2. l.kind # "blank" /\ NumberOf(l) = m
      /\ (l.kind = "EXECUTION_RECEIPT" => Authenticated(l.receipt, l.run))
  BY <1>1 DEF Accepts
<1>3. Numbered(l, m) \in Events /\ m \in Nat
  BY <1>1, LenProperties DEF Events, LedgerType
<1>4. LedgerType'
  BY <1>1, <1>2, <1>3, AppendProperties DEF LedgerType
<1>5. /\ Len(events) \in Nat /\ DOMAIN events = 1..Len(events)
      /\ Len(events') = m /\ DOMAIN events' = 1..m
      /\ \A k \in 1..Len(events) : events'[k] = events[k]
      /\ events'[m] = Numbered(l, m)
  BY <1>1, <1>2, <1>3, AppendProperties, LenProperties DEF LedgerType
<1>6. /\ n \notin Content /\ Content' = Content \cup {n} /\ read'[n] = l
      /\ \A i \in Content : Ordinal(i)' = Ordinal(i) /\ read'[i] = read[i]
      /\ Ordinal(n)' = m /\ Cardinality(Content') = m
  BY <1>1, <1>2, LineAdded DEF EventsAreLines
<1>7. EventsAreLines'
  <2>1. ASSUME NEW i \in Content'
        PROVE  Ordinal(i)' \in 1..m /\ events'[Ordinal(i)'] = Numbered(read'[i], Ordinal(i)')
    <3>1. CASE i \in Content
      <4>1. Ordinal(i) \in 1..Len(events) /\ events[Ordinal(i)] = Numbered(read[i], Ordinal(i))
        BY <1>1, <1>5, <3>1 DEF EventsAreLines
      <4>2. Ordinal(i)' = Ordinal(i) /\ read'[i] = read[i]
        BY <1>6, <3>1
      <4>. QED
        BY <1>5, <4>1, <4>2
    <3>2. CASE i = n
      BY <1>5, <1>6, <3>2
    <3>. QED
      BY <1>6, <3>1, <3>2
  <2>2. ASSUME NEW k \in 1..m PROVE \E i \in Content' : Ordinal(i)' = k
    <3>1. CASE k \in 1..Len(events)
      BY <1>1, <1>5, <1>6, <3>1 DEF EventsAreLines
    <3>2. CASE k = m
      BY <1>6, <3>2
    <3>. QED
      BY <1>5, <3>1, <3>2
  <2>. QED
    BY <1>5, <1>6, <2>1, <2>2 DEF EventsAreLines
<1>8. LinesWereAccepted'
  <2>1. \A rec, run : Authenticated(rec, run)' <=> Authenticated(rec, run)
    BY <1>1 DEF Authenticated, Permits, DecisionFor
  <2>2. ASSUME NEW i \in Content'
        PROVE  /\ read'[i].kind = "EXECUTION_RECEIPT" =>
                    Authenticated(read[i].receipt, read[i].run)'
               /\ read'[i].number = Ordinal(i)' \/ (read'[i].number = 0 /\ Ordinal(i)' = i)
    <3>1. CASE i \in Content
      BY <1>1, <1>6, <2>1, <3>1 DEF LinesWereAccepted
    <3>2. CASE i = n
      <4>1. l.number = m \/ (l.number = 0 /\ n = m)
        BY <1>2 DEF NumberOf
      <4>. QED
        BY <1>2, <1>6, <2>1, <3>2, <4>1
    <3>. QED
      BY <1>6, <3>1, <3>2
  <2>. QED
    BY <2>2 DEF LinesWereAccepted
<1>9. AttestedIsDerived'
  BY <1>1 DEF AttestedIsDerived, Attested
<1>. QED
  BY <1>4, <1>7, <1>8, <1>9 DEF LedgerInv

LEMMA SkipBlankKeeps ==
  ASSUME LedgerInv, NEW l \in Lines, SkipBlank(l)
  PROVE  LedgerInv'
<1>1. /\ LedgerType /\ EventsAreLines /\ LinesWereAccepted
      /\ outcome = "reading" /\ outcome' = outcome /\ l.kind = "blank"
      /\ call' = call /\ policy' = policy /\ events' = events
      /\ read' = Append(read, l)
  BY DEF SkipBlank, MayRead, LedgerInv
<1>2. LedgerType'
  BY <1>1, AppendProperties DEF LedgerType
<1>3. Content' = Content
      /\ \A i \in Content : Ordinal(i)' = Ordinal(i) /\ read'[i] = read[i]
  BY <1>1, BlankAdded
<1>4. EventsAreLines'
  BY <1>1, <1>3 DEF EventsAreLines
<1>5. LinesWereAccepted'
  <2>1. \A rec, run : Authenticated(rec, run)' <=> Authenticated(rec, run)
    BY <1>1 DEF Authenticated, Permits, DecisionFor
  <2>. QED
    BY <1>1, <1>3, <2>1 DEF LinesWereAccepted
<1>6. AttestedIsDerived'
  BY <1>1 DEF AttestedIsDerived, Attested
<1>. QED
  BY <1>2, <1>4, <1>5, <1>6 DEF LedgerInv

\* A step that adds no line keeps what is known of the lines.
LEMMA LinesKept ==
  ASSUME LedgerInv, UNCHANGED <<call, policy, read, events>>
  PROVE  LedgerType' /\ EventsAreLines' /\ LinesWereAccepted'
<1>1. Content' = Content /\ \A i : Ordinal(i)' = Ordinal(i)
  BY DEF Content, Ordinal
<1>2. \A rec, run : Authenticated(rec, run)' <=> Authenticated(rec, run)
  BY DEF Authenticated, Permits, DecisionFor
<1>3. LedgerType' /\ EventsAreLines'
  BY <1>1 DEF LedgerInv, LedgerType, EventsAreLines
<1>4. LinesWereAccepted'
  BY <1>1, <1>2 DEF LedgerInv, LinesWereAccepted
<1>. QED
  BY <1>3, <1>4

\* What can be derived from the events depends on them and on the call.
LEMMA DerivableKept ==
  ASSUME NEW f, UNCHANGED <<call, events>>
  PROVE  Derivable(f)' <=> Derivable(f)
<1>1. LastHead' = LastHead /\ Derived' = Derived /\ Receipts' = Receipts
  BY DEF LastHead, Seen, Derived, Tests, Receipts
<1>2. Referenced(f)' <=> Referenced(f)
  BY DEF Referenced, Matching
<1>. QED
  BY <1>1, <1>2 DEF Derivable, Candidate

LEMMA StepKeeps == LedgerInv /\ [Next]_vars => LedgerInv'
<1>. SUFFICES ASSUME LedgerInv, [Next]_vars PROVE LedgerInv'
  OBVIOUS
<1>1. ASSUME UNCHANGED <<call, policy, read, events>>, ~Attested'
      PROVE  LedgerInv'
  BY <1>1, LinesKept DEF LedgerInv, AttestedIsDerived
<1>2. CASE Begin
  BY <1>1, <1>2 DEF Begin, Attested
<1>3. ASSUME Reject PROVE LedgerInv'
  BY <1>1, <1>3 DEF Reject, Attested
<1>4. CASE Refuse
  BY <1>3, <1>4 DEF Refuse
<1>5. ASSUME NEW l \in Lines, RejectLine(l) PROVE LedgerInv'
  BY <1>3, <1>5 DEF RejectLine
<1>6. ASSUME NEW f \in Fields, RejectResult(f) PROVE LedgerInv'
  BY <1>3, <1>6 DEF RejectResult
<1>7. ASSUME NEW f \in Fields, Attest(f) PROVE LedgerInv'
  <2>1. UNCHANGED <<call, policy, read, events>> /\ Derivable(f) /\ attestation'.fields = f
    BY <1>7 DEF Attest
  <2>2. Derivable(f)'
    BY <2>1, DerivableKept
  <2>3. AttestedIsDerived'
    BY <2>1, <2>2 DEF AttestedIsDerived, Derivable, Candidate, Referenced
  <2>. QED
    BY <2>1, <2>3, LinesKept DEF LedgerInv
<1>8. CASE UNCHANGED vars
  <2>1. UNCHANGED <<call, policy, read, events>> /\ Attested' = Attested
        /\ attestation' = attestation
    BY <1>8 DEF vars, Attested
  <2>2. AttestedIsDerived'
    BY <2>1, DerivableKept DEF LedgerInv, AttestedIsDerived
  <2>. QED
    BY <2>1, <2>2, LinesKept DEF LedgerInv
<1>. QED
  BY <1>2, <1>4, <1>5, <1>6, <1>7, <1>8, TakeLineKeeps, SkipBlankKeeps DEF Next

\* The invariant holds throughout.
THEOREM LedgerInductive == Spec => []LedgerInv
<1>. QED
  BY InitLedger, StepKeeps, PTL DEF Spec

-----------------------------------------------------------------------------
(* What the invariant says of an attestation.                               *)

\* The decision that is looked at is one of those on offer.
LEMMA DecisionIsOnOffer ==
  ASSUME NEW rec, {rec.names, "authorization_decision"} \subseteq DOMAIN call.files
  PROVE  DecisionFor(rec) \in {None, rec.decision, call.decision}
                                \cup {call.files[x] : x \in DOMAIN call.files}
<1>. DEFINE offer == <<rec.decision, call.decision, call.files[rec.names],
                       call.files["authorization_decision"]>>
            found == {i \in 1..4 : offer[i] # None}
<1>1. \A i \in 1..4 : offer[i] \in {rec.decision, call.decision}
                                     \cup {call.files[x] : x \in DOMAIN call.files}
  OBVIOUS
<1>2. found # {} => Min(found) \in found
  BY MinIsLeast
<1>3. DecisionFor(rec) = IF found = {} THEN None ELSE offer[Min(found)]
  BY DEF DecisionFor
<1>4. \A i \in found : i \in 1..4
  OBVIOUS
<1>. HIDE DEF offer, found
<1>. QED
  BY <1>1, <1>2, <1>3, <1>4

\* The events, as lines of the file: in the same order, and saying the same.
LEMMA EventOfLine ==
  ASSUME LedgerInv
  PROVE  /\ DOMAIN events = 1..Len(events) /\ Len(events) \in Nat
         /\ \A i \in Content :
              LET e == events[Ordinal(i)]
              IN  /\ Ordinal(i) \in DOMAIN events /\ e.number = Ordinal(i)
                  /\ e.kind = read[i].kind /\ e.test = read[i].test
                  /\ e.head = read[i].head /\ e.own = read[i].own
         /\ \A n \in DOMAIN events : \E i \in Content : Ordinal(i) = n
         /\ \A i, j \in Content : Ordinal(i) <= Ordinal(j) <=> i <= j
<1>1. LedgerType /\ EventsAreLines
  BY DEF LedgerInv
<1>2. \A i \in Content : read[i] \in Lines /\ Ordinal(i) \in Nat
  BY <1>1, ContentFacts
<1>3. \A i, j \in Content : Ordinal(i) <= Ordinal(j) <=> i <= j
  BY <1>1, ContentFacts
<1>4. ASSUME NEW i \in Content
      PROVE  LET e == events[Ordinal(i)]
             IN  /\ Ordinal(i) \in DOMAIN events /\ e.number = Ordinal(i)
                 /\ e.kind = read[i].kind /\ e.test = read[i].test
                 /\ e.head = read[i].head /\ e.own = read[i].own
  <2>1. Ordinal(i) \in DOMAIN events /\ events[Ordinal(i)] = Numbered(read[i], Ordinal(i))
    BY <1>1 DEF EventsAreLines
  <2>. QED
    BY <1>2, <2>1, NumberedFacts
<1>5. DOMAIN events = 1..Len(events) /\ Len(events) \in Nat
  BY <1>1, LenProperties DEF LedgerType
<1>. QED
  BY <1>1, <1>3, <1>4, <1>5 DEF EventsAreLines

LEMMA Authorized == LedgerInv => ReceiptsAreAuthorized
<1>. SUFFICES ASSUME LedgerInv, NEW i \in Content, read[i].kind = "EXECUTION_RECEIPT"
              PROVE  LET rec == read[i].receipt
                     IN  /\ rec.producer # policy.reviewer
                         /\ \E d \in {rec.decision, call.decision}
                                      \cup {call.files[x] : x \in DOMAIN call.files} :
                              /\ d # None
                              /\ d.allowed /\ d.run = "this"
                              /\ <<d.id, d.permits>> = <<rec.names, rec.does>>
  BY DEF ReceiptsAreAuthorized
<1>. DEFINE rec == read[i].receipt
            d == DecisionFor(rec)
<1>1. /\ rec # None /\ rec.producer # policy.reviewer
      /\ d # None /\ d.allowed /\ d.run = "this" /\ d.id = rec.names /\ d.permits = rec.does
  BY DEF LedgerInv, LinesWereAccepted, Authenticated, Permits
<1>2. {rec.names, "authorization_decision"} \subseteq DOMAIN call.files
  <2>1. read[i] \in Lines /\ call \in Calls
    BY ContentFacts DEF LedgerInv, LedgerType
  <2>. QED
    BY <1>1, <2>1, LinesAssumption
<1>3. d \in {None, rec.decision, call.decision} \cup {call.files[x] : x \in DOMAIN call.files}
  BY <1>2, DecisionIsOnOffer
<1>. HIDE DEF rec, d
<1>. QED
  BY <1>1, <1>3 DEF rec

LEMMA NoGap == LedgerInv => NoGapBeforeALine
<1>. SUFFICES ASSUME LedgerInv, NEW i \in Content
              PROVE  IF read[i].number # 0 THEN read[i].number = Ordinal(i)
                     ELSE \A j \in 1..i : read[j].kind # "blank"
  BY DEF NoGapBeforeALine
<1>1. read[i].number = Ordinal(i) \/ (read[i].number = 0 /\ Ordinal(i) = i)
  BY DEF LedgerInv, LinesWereAccepted
<1>2. /\ Ordinal(i) \in Nat /\ (Ordinal(i) = i => 1..i \subseteq Content)
      /\ i \in Nat \ {0} /\ read[i].number \in Nat
  BY ContentFacts, LinesAssumption DEF LedgerInv
<1>3. Ordinal(i) # 0
  <2>1. Ordinal(i) \in 1..Len(events) /\ Len(events) \in Nat
    BY EventOfLine
  <2>. QED
    BY <2>1
<1>4. \A j \in Content : read[j].kind # "blank"
  BY DEF Content
<1>. QED
  BY <1>1, <1>2, <1>3, <1>4

LEMMA Earned == LedgerInv => StatusIsEarned
<1>. SUFFICES ASSUME LedgerInv, Attested PROVE StatusIsEarned
  BY DEF StatusIsEarned
<1>. DEFINE ran == {i \in Content : read[i].test # "none"}
            passed == \E i \in ran : read[i].test = "pass" /\ \A j \in ran : j <= i
            failed == \E i \in ran : read[i].test = "fail"
<1>1. attestation.fields.status = Derived
  BY DEF LedgerInv, AttestedIsDerived, Derivable
<1>2. \A i \in ran : Ordinal(i) \in Tests /\ events[Ordinal(i)].test = read[i].test
  BY EventOfLine DEF Tests
<1>3. \A n \in Tests : \E i \in ran : Ordinal(i) = n
  <2>1. ASSUME NEW n \in Tests PROVE \E i \in ran : Ordinal(i) = n
    <3>1. PICK i \in Content : Ordinal(i) = n
      BY EventOfLine DEF Tests
    <3>2. read[i].test # "none"
      BY <3>1, EventOfLine DEF Tests
    <3>. QED
      BY <3>1, <3>2
  <2>. QED
    BY <2>1
<1>4. \A i, j \in ran : Ordinal(i) <= Ordinal(j) <=> i <= j
  BY EventOfLine
<1>5. Tests # {} => Max(Tests) \in Tests /\ \A n \in Tests : n <= Max(Tests)
  <2>1. Tests \subseteq 0..Len(events) /\ Len(events) \in Nat
    BY EventOfLine DEF Tests
  <2>. QED
    BY <2>1, MaxIsLargest
<1>6. \A n \in Tests : n \in Nat
  BY EventOfLine DEF Tests
<1>. HIDE DEF ran
<1>7. Tests = {} <=> ran = {}
  BY <1>2, <1>3
<1>8. (\E n \in Tests : events[n].test = "fail") <=> failed
  BY <1>2, <1>3
<1>9. ASSUME Tests # {} PROVE events[Max(Tests)].test = "pass" <=> passed
  <2>1. PICK i \in ran : Ordinal(i) = Max(Tests)
    BY <1>3, <1>5, <1>9
  <2>2. \A j \in ran : j <= i
    BY <1>2, <1>4, <1>5, <1>9, <2>1
  <2>3. \A k \in ran : (\A j \in ran : j <= k) => k = i
    <3>1. ASSUME NEW k \in ran, \A j \in ran : j <= k PROVE k = i
      <4>1. k <= i /\ i <= k /\ k \in Nat /\ i \in Nat
        BY <2>2, <3>1, ContentFacts DEF ran, LedgerInv
      <4>. QED
        BY <4>1
    <3>. QED
      BY <3>1
  <2>. QED
    BY <1>2, <2>1, <2>2, <2>3
<1>10. passed => ran # {}
  OBVIOUS
<1>. HIDE DEF passed, failed
<1>11. /\ Derived \in {"PASS", "PASS_AFTER_RETRY"} <=> passed
       /\ passed => (Derived = "PASS_AFTER_RETRY" <=> failed)
       /\ Derived = "NOT_RUN" <=> ran = {}
  BY <1>7, <1>8, <1>9, <1>10 DEF Derived
<1>. QED
  BY <1>1, <1>11 DEF StatusIsEarned, passed, failed, ran

LEMMA Relevant == LedgerInv => EvidenceIsRelevant
<1>. SUFFICES ASSUME LedgerInv, Attested, \A i \in DOMAIN events : events[i].own <= i,
                     NEW n \in attestation.fields.pytest
              PROVE  \E i \in Content : Ordinal(i) = n /\ read[i].test # "none"
  BY DEF EvidenceIsRelevant
<1>. DEFINE S == {i \in DOMAIN events : n \in {events[i].number, events[i].own}}
<1>1. n \in DOMAIN events /\ events[Min(S)].test # "none"
  BY DEF LedgerInv, AttestedIsDerived, Derivable, Referenced, Matching
<1>2. PICK i \in Content : Ordinal(i) = n
  BY <1>1, EventOfLine
<1>3. n \in S
  BY <1>1, <1>2, EventOfLine
<1>4. ASSUME NEW k \in S PROVE n <= k
  <2>1. PICK j \in Content : Ordinal(j) = k
    BY EventOfLine
  <2>2. events[k].number = k /\ events[k].own <= k /\ k \in Nat
    BY <2>1, EventOfLine
  <2>. QED
    BY <1>4, <2>2
<1>5. Min(S) \in S /\ Min(S) <= n
  <2>1. S \subseteq Nat
    BY EventOfLine
  <2>. HIDE DEF S
  <2>. QED
    BY <1>3, <2>1, MinIsLeast
<1>6. Min(S) = n
  <2>1. Min(S) \in Nat /\ n \in Nat
    BY <1>3, <1>5, EventOfLine
  <2>. HIDE DEF S
  <2>. QED
    BY <1>4, <1>5, <2>1
<1>. QED
  BY <1>1, <1>2, <1>6, EventOfLine

LEMMA SeenLast == LedgerInv => CandidateWasSeenLast
<1>. SUFFICES ASSUME LedgerInv, Attested, attestation.fields.candidate = None
              PROVE  \E i \in Content :
                       /\ read[i].head = call.candidate
                       /\ \A j \in Content : j > i => read[j].head \in {None, read[i].head}
  BY DEF CandidateWasSeenLast
<1>1. LastHead = call.candidate /\ LastHead # None
  BY DEF LedgerInv, AttestedIsDerived, Derivable, Candidate
<1>2. Seen # {} /\ events[Max(Seen)].head = call.candidate
  BY <1>1 DEF LastHead
<1>3. Seen \subseteq 0..Len(events) /\ Len(events) \in Nat
  BY EventOfLine DEF Seen
<1>4. Max(Seen) \in Seen /\ \A n \in Seen : n <= Max(Seen)
  BY <1>2, <1>3, MaxIsLargest
<1>5. PICK i \in Content : Ordinal(i) = Max(Seen)
  BY <1>4, EventOfLine DEF Seen
<1>6. read[i].head = call.candidate
  BY <1>2, <1>5, EventOfLine
<1>7. ASSUME NEW j \in Content, j > i PROVE read[j].head = None
  <2>1. ~(j <= i)
    BY <1>7, ContentFacts DEF LedgerInv
  <2>2. ~(Ordinal(j) <= Max(Seen))
    BY <1>5, <2>1, EventOfLine
  <2>3. Ordinal(j) \notin Seen
    BY <1>4, <2>2
  <2>. QED
    BY <2>3, EventOfLine DEF Seen
<1>. QED
  BY <1>6, <1>7

-----------------------------------------------------------------------------
(* The theorems.                                                            *)

\* Every receipt of an attested ledger is by another than the reviewer and
\* rests on a decision on offer, whatever the caller leaves unsaid.
THEOREM AttestedReceiptsAreAuthorized == Spec => []ReceiptsAreAuthorized
<1>. QED
  BY LedgerInductive, Authorized, PTL

\* An attested ledger has no gap before a numbered line; what was cut off at its
\* end is not noticed.
THEOREM AttestedLedgerHasNoGap == Spec => []NoGapBeforeALine
<1>. QED
  BY LedgerInductive, NoGap, PTL

\* The attested status is what the test runs in the file amount to.
THEOREM AttestedStatusIsEarned == Spec => []StatusIsEarned
<1>. QED
  BY LedgerInductive, Earned, PTL

\* What a test result refers to is a run of the tests.
THEOREM AttestedEvidenceIsRelevant == Spec => []EvidenceIsRelevant
<1>. QED
  BY LedgerInductive, Relevant, PTL

\* The candidate of a result that names none is the one seen last.
THEOREM AttestedCandidateWasSeenLast == Spec => []CandidateWasSeenLast
<1>. QED
  BY LedgerInductive, SeenLast, PTL

=============================================================================
