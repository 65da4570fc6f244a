--------------------------- MODULE LocalReviewProofs ---------------------------
(***************************************************************************)
(* What an approval and a published check mean, for any candidates, any     *)
(* diffs, any answers of the model and any budget of a slice.               *)
(*                                                                         *)
(* First, who can reach a publication: a receipt carries the digest of the  *)
(* diff of its own head, which never changes, and only the gate lets a      *)
(* receipt through (IInv).  Then, how a diff is sliced: packing keeps its   *)
(* lines and their order, a file's section is its block of the diff, and    *)
(* every receipt is of such a cut (CutInv); so coverage is truthful, a      *)
(* slice over the budget is one line, and the gate agrees with the reviewer.*)
(***************************************************************************)
EXTENDS LocalReview, SequenceLemmas

ReviewFields == {"step", "head", "slices", "answers", "final"}
DispatchFields == {"step", "receipt", "head"}

Reviewed == {"verdict", "signed"}
Dispatched == {"verify_head", "admit", "publish"}

\* A verdict stands on an answer for every slice, none of them against it.
VerdictStands ==
  review.step \in Reviewed =>
    /\ Len(review.answers) = Len(review.slices)
    /\ review.final.verdict = "APPROVE" => ~Blocked(review.answers, review.final)

\* A signed receipt is about the diff of its head.
ReceiptsAreOfHeads == \A r \in receipts : r.aggregate = SourceDiff(diff[r.head])

\* The gate has been passed by the dispatched receipt, or by that of a check.
Passed(r, h) == r \in receipts /\ r.head = h /\ Admissible(r)

ChecksPassed ==
  /\ dispatch.step \in Dispatched => dispatch.receipt \in receipts
  /\ dispatch.step = "publish" => Passed(dispatch.receipt, dispatch.head)
  /\ \A c \in checks \cup late : Passed(c.receipt, c.head)

IInv ==
  /\ DOMAIN review = ReviewFields
  /\ DOMAIN dispatch = DispatchFields
  /\ VerdictStands
  /\ ReceiptsAreOfHeads
  /\ ChecksPassed

-----------------------------------------------------------------------------
LEMMA InitKeeps == Init => IInv
  BY DEF Init, IInv, ReviewFields, DispatchFields, VerdictStands, Reviewed,
         ReceiptsAreOfHeads, ChecksPassed, Dispatched

\* The reviewer only ever adds receipts.
LEMMA MoreReceipts ==
  ASSUME IInv, receipts \subseteq receipts', UNCHANGED workflow
  PROVE  ChecksPassed' /\ DOMAIN dispatch' = DispatchFields
  BY DEF IInv, ChecksPassed, Passed, Admissible, High, workflow

LEMMA BuildPacketKeeps ==
  ASSUME IInv, NEW h \in Heads, BuildPacket(h)
  PROVE  IInv'
<1>1. DOMAIN review' = ReviewFields /\ VerdictStands'
  BY DEF BuildPacket, ReviewFields, VerdictStands, Reviewed
<1>2. ReceiptsAreOfHeads'
  BY DEF BuildPacket, IInv, ReceiptsAreOfHeads
<1>. QED
  BY <1>1, <1>2, MoreReceipts DEF BuildPacket, IInv

\* A step of the reviewer that has no verdict yet.
LEMMA UndecidedKeeps ==
  ASSUME IInv, DOMAIN review' = ReviewFields, review'.step \notin Reviewed,
         UNCHANGED <<diff, receipts, workflow>>
  PROVE  IInv'
<1>1. VerdictStands' /\ ReceiptsAreOfHeads'
  BY DEF IInv, VerdictStands, ReceiptsAreOfHeads
<1>. QED
  BY <1>1, MoreReceipts DEF IInv

LEMMA CutSlicesKeeps == IInv /\ CutSlices => IInv'
<1>. SUFFICES ASSUME IInv, CutSlices PROVE IInv'
  OBVIOUS
<1>1. \E s \in {"asking", "failed"}, p \in {review.slices, Slices(Packet(review.head), diff[review.head])} :
        review' = [review EXCEPT !.step = s, !.slices = p]
  BY DEF CutSlices, IInv, ReviewFields
<1>2. DOMAIN review' = ReviewFields /\ review'.step \notin Reviewed
  BY <1>1 DEF IInv, ReviewFields, Reviewed
<1>. QED
  BY <1>2, UndecidedKeeps DEF CutSlices

LEMMA AskSliceKeeps == IInv /\ AskSlice => IInv'
<1>. SUFFICES ASSUME IInv, AskSlice PROVE IInv'
  OBVIOUS
<1>1. DOMAIN review' = ReviewFields /\ review'.step \notin Reviewed
  BY DEF AskSlice, IInv, ReviewFields, Reviewed
<1>. QED
  BY <1>1, UndecidedKeeps DEF AskSlice

LEMMA FailReviewKeeps == IInv /\ FailReview => IInv'
<1>. SUFFICES ASSUME IInv, FailReview PROVE IInv'
  OBVIOUS
<1>1. DOMAIN review' = ReviewFields /\ review'.step \notin Reviewed
  BY DEF FailReview, IInv, ReviewFields, Reviewed
<1>. QED
  BY <1>1, UndecidedKeeps DEF FailReview

\* The synthesized verdict is kept only if no answer blocks it.
LEMMA SynthesizeKeeps == IInv /\ Synthesize => IInv'
<1>. SUFFICES ASSUME IInv, Synthesize PROVE IInv'
  OBVIOUS
<1>1. PICK final \in FinalAnswers :
        IF /\ final.verdict = "APPROVE" => ~Blocked(review.answers, final)
           /\ Conserves(review.answers, final)
        THEN review' = [review EXCEPT !.step = "verdict", !.final = final]
        ELSE review' = [review EXCEPT !.step = "failed"]
  BY DEF Synthesize
<1>2. CASE review' = [review EXCEPT !.step = "failed"]
  <2>1. DOMAIN review' = ReviewFields /\ review'.step \notin Reviewed
    BY <1>2 DEF IInv, ReviewFields, Reviewed
  <2>. QED
    BY <2>1, UndecidedKeeps DEF Synthesize
<1>3. CASE /\ final.verdict = "APPROVE" => ~Blocked(review.answers, final)
           /\ review' = [review EXCEPT !.step = "verdict", !.final = final]
  <2>1. /\ DOMAIN review' = ReviewFields
        /\ review'.answers = review.answers /\ review'.slices = review.slices
        /\ review'.final = final
    BY <1>3 DEF IInv, ReviewFields
  <2>2. VerdictStands'
    BY <1>3, <2>1 DEF VerdictStands, Synthesize, Blocked, SliceFindings, Answered, High
  <2>3. ReceiptsAreOfHeads'
    BY DEF Synthesize, IInv, ReceiptsAreOfHeads
  <2>. QED
    BY <2>1, <2>2, <2>3, MoreReceipts DEF Synthesize, IInv
<1>. QED
  BY <1>1, <1>2, <1>3

\* The receipt is of the head that was reviewed, and of its diff.
LEMMA SignReceiptKeeps == IInv /\ SignReceipt => IInv'
<1>. SUFFICES ASSUME IInv, SignReceipt PROVE IInv'
  OBVIOUS
<1>1. /\ DOMAIN review' = ReviewFields
      /\ review'.answers = review.answers /\ review'.slices = review.slices
      /\ review'.final = review.final /\ review.step = "verdict"
  BY DEF SignReceipt, IInv, ReviewFields
<1>2. VerdictStands'
  BY <1>1 DEF IInv, VerdictStands, Reviewed, Blocked, SliceFindings, Answered, High
<1>3. Receipt.head = review.head /\ Receipt.aggregate = SourceDiff(diff[review.head])
  BY DEF Receipt, Packet
<1>4. ReceiptsAreOfHeads'
  BY <1>3 DEF SignReceipt, IInv, ReceiptsAreOfHeads
<1>. QED
  BY <1>1, <1>2, <1>4, MoreReceipts DEF SignReceipt, IInv

-----------------------------------------------------------------------------
\* The gate does not touch the reviewer.
LEMMA ReviewerIdle ==
  ASSUME IInv, UNCHANGED <<diff, reviewer>>, DOMAIN dispatch' = DispatchFields, ChecksPassed'
  PROVE  IInv'
<1>1. VerdictStands'
  BY DEF IInv, VerdictStands, reviewer, Blocked, SliceFindings, Answered, High
<1>2. ReceiptsAreOfHeads'
  BY DEF IInv, ReceiptsAreOfHeads, reviewer
<1>. QED
  BY <1>1, <1>2 DEF IInv, reviewer

LEMMA DispatchKeeps ==
  ASSUME IInv, NEW r \in receipts, NEW h \in Heads, Dispatch(r, h)
  PROVE  IInv'
<1>1. DOMAIN dispatch' = DispatchFields
  BY DEF Dispatch, DispatchFields
<1>2. ChecksPassed'
  BY DEF IInv, ChecksPassed, Dispatch, Passed, Admissible, High, reviewer
<1>. QED
  BY <1>1, <1>2, ReviewerIdle DEF Dispatch

\* A dispatched receipt goes on, or is denied, without reaching a check.
LEMMA DispatchMoves ==
  ASSUME IInv, dispatch.step \in Dispatched,
         NEW s \in {"admit", "publish", "published", "denied"},
         dispatch' = [dispatch EXCEPT !.step = s],
         s = "publish" => Passed(dispatch.receipt, dispatch.head),
         \A c \in (checks \cup late)' : Passed(c.receipt, c.head),
         UNCHANGED <<diff, reviewer>>
  PROVE  IInv'
<1>1. /\ DOMAIN dispatch' = DispatchFields /\ dispatch'.step = s
      /\ dispatch'.receipt = dispatch.receipt /\ dispatch'.head = dispatch.head
  BY DEF IInv, DispatchFields
<1>2. ChecksPassed'
  BY <1>1 DEF IInv, ChecksPassed, Passed, Admissible, High, reviewer
<1>. QED
  BY <1>1, <1>2, ReviewerIdle

LEMMA VerifyHeadKeeps == IInv /\ VerifyHead => IInv'
<1>. SUFFICES ASSUME IInv, VerifyHead PROVE IInv'
  OBVIOUS
<1>1. \A c \in (checks \cup late)' : Passed(c.receipt, c.head)
  BY DEF IInv, ChecksPassed, VerifyHead
<1>2. PICK s \in {"admit", "denied"} : dispatch' = [dispatch EXCEPT !.step = s]
  BY DEF VerifyHead
<1>. QED
  BY <1>1, <1>2, DispatchMoves DEF VerifyHead, Dispatched

LEMMA AdmitKeeps == IInv /\ Admit => IInv'
<1>. SUFFICES ASSUME IInv, Admit PROVE IInv'
  OBVIOUS
<1>1. \A c \in (checks \cup late)' : Passed(c.receipt, c.head)
  BY DEF IInv, ChecksPassed, Admit
<1>2. dispatch.receipt \in receipts /\ dispatch.step \in Dispatched
  BY DEF IInv, ChecksPassed, Admit, Dispatched
<1>3. PICK s \in {"publish", "denied"} :
        /\ dispatch' = [dispatch EXCEPT !.step = s]
        /\ s = "publish" => Accepts(dispatch.receipt, dispatch.head)
  BY DEF Admit
<1>4. s = "publish" => Passed(dispatch.receipt, dispatch.head)
  BY <1>2, <1>3 DEF Accepts, Passed
<1>. QED
  BY <1>1, <1>2, <1>3, <1>4, DispatchMoves DEF Admit

\* The check of the receipt that has been let pass is posted, or on its way.
LEMMA PublishKeeps == IInv /\ (Publish \/ PublishTimesOut) => IInv'
<1>. SUFFICES ASSUME IInv, Publish \/ PublishTimesOut PROVE IInv'
  OBVIOUS
<1>1. dispatch.step = "publish" /\ (checks \cup late)' = checks \cup late \cup {Check}
  BY DEF Publish, PublishTimesOut
<1>2. Check.receipt = dispatch.receipt /\ Check.head = dispatch.head
  BY DEF Check
<1>3. \A c \in (checks \cup late)' : Passed(c.receipt, c.head)
  BY <1>1, <1>2 DEF IInv, ChecksPassed
<1>4. PICK s \in {"published", "denied"} : dispatch' = [dispatch EXCEPT !.step = s]
  BY DEF Publish, PublishTimesOut
<1>. QED
  BY <1>1, <1>3, <1>4, DispatchMoves DEF Publish, PublishTimesOut, Dispatched

LEMMA DenyDispatchKeeps == IInv /\ DenyDispatch => IInv'
<1>. SUFFICES ASSUME IInv, DenyDispatch PROVE IInv'
  OBVIOUS
<1>1. \A c \in (checks \cup late)' : Passed(c.receipt, c.head)
  BY DEF IInv, ChecksPassed, DenyDispatch
<1>. QED
  BY <1>1, DispatchMoves DEF DenyDispatch, Dispatched

\* A late check appears, the pull request moves, or nothing does.
LEMMA WorldKeeps ==
  ASSUME IInv, (\E c \in late : LatePublish(c)) \/ (\E h \in Heads : MovePr(h))
               \/ UNCHANGED vars
  PROVE  IInv'
<1>1. /\ UNCHANGED <<diff, reviewer, dispatch>>
      /\ (checks \cup late)' \subseteq checks \cup late
  BY DEF LatePublish, MovePr, vars, reviewer, workflow
<1>2. ChecksPassed'
  BY <1>1 DEF IInv, ChecksPassed, Passed, Admissible, High, reviewer
<1>. QED
  BY <1>1, <1>2, ReviewerIdle DEF IInv

-----------------------------------------------------------------------------
\* Verdicts, receipts and checks rest on one another at every moment.
THEOREM Inductive == Spec => []IInv
<1>1. IInv /\ [Next]_vars => IInv'
  <2>. SUFFICES ASSUME IInv, [Next]_vars PROVE IInv'
    OBVIOUS
  <2>1. CASE ReviewStep
    BY <2>1, CutSlicesKeeps, AskSliceKeeps, SynthesizeKeeps, SignReceiptKeeps,
       FailReviewKeeps DEF ReviewStep
  <2>2. CASE AdmissionStep
    BY <2>2, VerifyHeadKeeps, AdmitKeeps, PublishKeeps, DenyDispatchKeeps
    DEF AdmissionStep
  <2>3. ASSUME NEW h \in Heads, BuildPacket(h) PROVE IInv'
    BY <2>3, BuildPacketKeeps
  <2>4. ASSUME NEW h \in Heads, NEW r \in receipts, Dispatch(r, h) PROVE IInv'
    BY <2>4, DispatchKeeps
  <2>. QED
    BY <2>1, <2>2, <2>3, <2>4, WorldKeeps DEF Next
<1>. QED
  BY <1>1, InitKeeps, PTL DEF Spec

\* A published success is on a head whose own diff an admissible receipt was
\* signed for, whatever was dispatched and wherever the pull request went.
THEOREM SuccessReviewed == Spec => []SuccessWasReviewed
<1>1. IInv => SuccessWasReviewed
  BY DEF IInv, ReceiptsAreOfHeads, ChecksPassed, Passed, SuccessWasReviewed
<1>. QED
  BY <1>1, Inductive, PTL

-----------------------------------------------------------------------------
(* Packing.                                                                 *)

CharsOf(text) == [i \in DOMAIN text |-> text[i].chars]
BytesOf(text) == [i \in DOMAIN text |-> text[i].bytes]

\* The characters and the bytes of a piece are the weights of its lines.
LEMMA TextFacts ==
  ASSUME NEW text, IsText(text)
  PROVE  /\ Len(text) \in Nat /\ DOMAIN text = 1..Len(text)
         /\ CharsOf(text) \in [DOMAIN text -> Nat] /\ BytesOf(text) \in [DOMAIN text -> Nat]
<1>1. Len(text) \in Nat /\ DOMAIN text = 1..Len(text)
  <2>1. PICK X : text \in Seq(X)
    BY DEF IsText
  <2>. QED
    BY <2>1, LenProperties
<1>2. \A i \in DOMAIN text : text[i].chars \in Nat /\ text[i].bytes \in Nat
  BY DEF IsText, IsLine
<1>. QED
  BY <1>1, <1>2 DEF CharsOf, BytesOf

LEMMA PiecesWeigh ==
  ASSUME NEW text, NEW piece \in Seq(DOMAIN text)
  PROVE  /\ Chars(text, piece) = Weight(CharsOf(text), piece)
         /\ Bytes(text, piece) = Weight(BytesOf(text), piece)
<1>1. \A k \in DOMAIN piece : piece[k] \in DOMAIN text
  BY LenProperties, ElementOfSeq
<1>2. /\ [k \in DOMAIN piece |-> text[piece[k]].chars] = [k \in DOMAIN piece |-> CharsOf(text)[piece[k]]]
      /\ [k \in DOMAIN piece |-> text[piece[k]].bytes] = [k \in DOMAIN piece |-> BytesOf(text)[piece[k]]]
  BY <1>1 DEF CharsOf, BytesOf
<1>. QED
  BY <1>2 DEF Chars, Bytes, Weight

BinsOver(X) == [closed : Seq(Seq(X)), open : Seq(X)]
NoBins == [closed |-> <<>>, open |-> <<>>]

\* What Add makes of the open bin and a piece.
Added(text, bins, piece) ==
  \/ /\ bins.open # <<>> /\ Chars(text, bins.open) + Chars(text, piece) > Budget
     /\ Add(text, bins, piece).closed = Append(bins.closed, bins.open)
     /\ Add(text, bins, piece).open = piece
  \/ /\ ~(bins.open # <<>> /\ Chars(text, bins.open) + Chars(text, piece) > Budget)
     /\ Add(text, bins, piece).closed = bins.closed
     /\ Add(text, bins, piece).open = bins.open \o piece

LEMMA AddFacts ==
  ASSUME NEW X, NEW text, NEW bins \in BinsOver(X), NEW piece \in Seq(X)
  PROVE  Add(text, bins, piece) \in BinsOver(X) /\ Added(text, bins, piece)
<1>1. PICK c \in Seq(Seq(X)), o \in Seq(X) : bins = [closed |-> c, open |-> o]
  BY DEF BinsOver
<1>2. CASE o # <<>> /\ Chars(text, o) + Chars(text, piece) > Budget
  <2>1. Add(text, bins, piece) = [closed |-> Append(c, o), open |-> piece]
    BY <1>1, <1>2 DEF Add
  <2>2. Append(c, o) \in Seq(Seq(X))
    BY AppendProperties
  <2>3. Add(text, bins, piece) \in BinsOver(X)
    BY <2>1, <2>2 DEF BinsOver
  <2>4. /\ bins.closed = c /\ bins.open = o
        /\ Add(text, bins, piece).closed = Append(c, o)
        /\ Add(text, bins, piece).open = piece
    BY <1>1, <2>1
  <2>. QED
    BY <1>2, <2>3, <2>4, Zenon DEF Added
<1>3. CASE ~(o # <<>> /\ Chars(text, o) + Chars(text, piece) > Budget)
  <2>1. Add(text, bins, piece) = [closed |-> c, open |-> o \o piece]
    BY <1>1, <1>3 DEF Add
  <2>2. o \o piece \in Seq(X)
    BY ConcatProperties
  <2>3. Add(text, bins, piece) \in BinsOver(X)
    BY <2>1, <2>2 DEF BinsOver
  <2>4. /\ bins.closed = c /\ bins.open = o
        /\ Add(text, bins, piece).closed = c
        /\ Add(text, bins, piece).open = o \o piece
    BY <1>1, <2>1
  <2>. QED
    BY <1>3, <2>3, <2>4, Zenon DEF Added
<1>. QED
  BY <1>2, <1>3

LEMMA BinsFacts ==
  ASSUME NEW X, NEW text, NEW s \in Seq(Seq(X))
  PROVE  /\ Bins(text, s) \in [0..Len(s) -> BinsOver(X)] /\ Bins(text, s)[0] = NoBins
         /\ \A n \in 1..Len(s) : Bins(text, s)[n] = Add(text, Bins(text, s)[n - 1], s[n])
<1>1. Len(s) \in Nat /\ \A n \in 1..Len(s) : s[n] \in Seq(X)
  BY LenProperties, ElementOfSeq
<1>2. NoBins \in BinsOver(X)
  BY EmptySeq DEF NoBins, BinsOver
<1>3. \A bins \in BinsOver(X), piece \in Seq(X) : Add(text, bins, piece) \in BinsOver(X)
  BY AddFacts
<1>. DEFINE Body(f) == [n \in 0..Len(s) |-> IF n = 0 THEN NoBins
                                            ELSE Add(text, f[n - 1], s[n])]
<1>4. \E f : f = Body(f)
  <2>. DEFINE step == [n \in 1..Len(s) |-> [b \in BinsOver(X) |-> Add(text, b, s[n])]]
  <2>1. step \in [1..Len(s) -> [BinsOver(X) -> BinsOver(X)]]
    BY <1>1, <1>3
  <2>2. \A n \in 1..Len(s), b \in BinsOver(X) : step[n][b] = Add(text, b, s[n])
    OBVIOUS
  <2>. HIDE DEF step
  <2>3. PICK f : f \in [0..Len(s) -> BinsOver(X)] /\ Loops(f, Len(s), NoBins, step)
    BY <1>1, <1>2, <2>1, Recursion
  <2>4. ASSUME NEW n \in 1..Len(s) PROVE f[n] = Add(text, f[n - 1], s[n])
    <3>1. n - 1 \in 0..Len(s)
      BY <1>1
    <3>2. f[n - 1] \in BinsOver(X)
      BY <2>3, <3>1
    <3>. QED
      BY <2>2, <2>3, <3>2 DEF Loops
  <2>5. \A n \in 0..Len(s) : f[n] = IF n = 0 THEN NoBins ELSE Add(text, f[n - 1], s[n])
    BY <1>1, <2>3, <2>4 DEF Loops
  <2>6. f = Body(f)
    BY <2>3, <2>5
  <2>. QED
    BY <2>6
<1>5. Bins(text, s) = Body(Bins(text, s))
  BY <1>4 DEF Bins, NoBins
<1>6. /\ Bins(text, s)[0] = NoBins
      /\ \A n \in 1..Len(s) : Bins(text, s)[n] = Add(text, Bins(text, s)[n - 1], s[n])
  <2>1. \A n \in 0..Len(s) :
          Bins(text, s)[n] = IF n = 0 THEN NoBins ELSE Add(text, Bins(text, s)[n - 1], s[n])
    BY <1>5
  <2>2. 0 \in 0..Len(s) /\ \A n \in 1..Len(s) : n # 0 /\ n \in 0..Len(s)
    BY <1>1
  <2>. HIDE DEF Body
  <2>. QED
    BY <2>1, <2>2
<1>7. DOMAIN Bins(text, s) = 0..Len(s) /\ Bins(text, s) = [n \in 0..Len(s) |-> Bins(text, s)[n]]
  BY <1>5
<1>. HIDE DEF Body
<1>. DEFINE T == {n \in 0..Len(s) : Bins(text, s)[n] \in BinsOver(X)}
<1>8. 0 \in T
  BY <1>1, <1>2, <1>6
<1>9. ASSUME NEW n \in 1..Len(s), n - 1 \in T PROVE n \in T
  <2>1. Add(text, Bins(text, s)[n - 1], s[n]) \in BinsOver(X)
    BY <1>1, <1>3, <1>9
  <2>2. n \in 0..Len(s)
    BY <1>1
  <2>. QED
    BY <1>6, <2>1, <2>2, Zenon
<1>10. \A n \in 0..Len(s) : n \in T
  <2>. HIDE DEF T
  <2>. QED
    BY <1>1, <1>8, <1>9, BoundedInduction
<1>11. Bins(text, s) \in [0..Len(s) -> BinsOver(X)]
  BY <1>7, <1>10
<1>. QED
  BY <1>6, <1>11

\* A piece or a bin within the budget.
Fits(text, pieces, bin) ==
  Chars(text, bin) <= Budget \/ \E m \in DOMAIN pieces : bin = pieces[m]

\* The bins hold the pieces that have been packed, in order, and each either
\* stays within the budget or holds one piece.
LEMMA BinsHold ==
  ASSUME NEW text, IsText(text), NEW s \in Seq(Seq(DOMAIN text))
  PROVE  \A n \in 0..Len(s) :
           LET bins == Bins(text, s)[n]
           IN  /\ Joined(bins.closed) \o bins.open = Joins(s)[n]
               /\ \A k \in 1..Len(bins.closed) : Fits(text, s, bins.closed[k])
               /\ bins.open = <<>> \/ Fits(text, s, bins.open)
<1>. DEFINE X == DOMAIN text
            Held(n, c, o) == /\ Joined(c) \o o = Joins(s)[n]
                             /\ \A k \in 1..Len(c) : Fits(text, s, c[k])
                             /\ o = <<>> \/ Fits(text, s, o)
            T == {n \in 0..Len(s) : Held(n, Bins(text, s)[n].closed, Bins(text, s)[n].open)}
<1>1. Len(s) \in Nat /\ DOMAIN s = 1..Len(s) /\ \A n \in 1..Len(s) : s[n] \in Seq(X)
  BY LenProperties, ElementOfSeq
<1>2. /\ Bins(text, s) \in [0..Len(s) -> BinsOver(X)] /\ Bins(text, s)[0] = NoBins
      /\ \A n \in 1..Len(s) : Bins(text, s)[n] = Add(text, Bins(text, s)[n - 1], s[n])
  BY BinsFacts
<1>3. /\ Joins(s) \in [0..Len(s) -> Seq(X)] /\ Joins(s)[0] = <<>>
      /\ \A n \in 1..Len(s) : Joins(s)[n] = Joins(s)[n - 1] \o s[n]
  BY JoinsFacts
<1>4. 0 \in T
  <2>1. Joined(<<>>) \o <<>> = <<>> /\ Len(<<>>) = 0
    BY JoinedNone
  <2>2. Bins(text, s)[0].closed = <<>> /\ Bins(text, s)[0].open = <<>> /\ 0 \in 0..Len(s)
    BY <1>1, <1>2 DEF NoBins
  <2>3. Held(0, <<>>, <<>>)
    BY <1>3, <2>1
  <2>. HIDE DEF Held
  <2>. QED
    BY <2>2, <2>3
<1>5. ASSUME NEW n \in 1..Len(s), n - 1 \in T PROVE n \in T
  <2>1. n - 1 \in 0..Len(s) /\ n \in 0..Len(s)
    BY <1>1
  <2>2. PICK bins \in BinsOver(X) : bins = Bins(text, s)[n - 1]
    BY <1>2, <2>1
  <2>3. PICK c \in Seq(Seq(X)), o \in Seq(X) : c = bins.closed /\ o = bins.open
    BY DEF BinsOver
  <2>4. PICK piece \in Seq(X) : piece = s[n]
    BY <1>1
  <2>5. Held(n - 1, c, o)
    BY <1>5, <2>2, <2>3
  <2>6. Joins(s)[n] = (Joined(c) \o o) \o piece
    BY <1>3, <2>4, <2>5
  <2>7. Joined(c) \in Seq(X) /\ Len(c) \in Nat
    BY JoinedIsSeq, LenProperties
  <2>8. Fits(text, s, piece)
    BY <1>1, <2>4 DEF Fits
  <2>9. CASE /\ o # <<>>
             /\ Bins(text, s)[n].closed = Append(c, o) /\ Bins(text, s)[n].open = piece
    <3>1. Joined(Append(c, o)) = Joined(c) \o o
      BY JoinedAppend
    <3>2. /\ Len(Append(c, o)) = Len(c) + 1
          /\ \A k \in 1..Len(c) : Append(c, o)[k] = c[k]
          /\ Append(c, o)[Len(c) + 1] = o
      BY AppendProperties
    <3>3. \A k \in 1..Len(Append(c, o)) : Fits(text, s, Append(c, o)[k])
      <4>1. \A k \in 1..(Len(c) + 1) : k \in 1..Len(c) \/ k = Len(c) + 1
        BY <2>7
      <4>. QED
        BY <2>5, <2>9, <3>2, <4>1
    <3>4. Held(n, Append(c, o), piece)
      BY <2>6, <2>8, <3>1, <3>3
    <3>. HIDE DEF Held
    <3>. QED
      BY <2>1, <2>9, <3>4
  <2>10. CASE /\ ~(o # <<>> /\ Chars(text, o) + Chars(text, piece) > Budget)
              /\ Bins(text, s)[n].closed = c /\ Bins(text, s)[n].open = o \o piece
    <3>1. Joined(c) \o (o \o piece) = Joins(s)[n]
      <4>1. JoinsAssociatively(Seq(X))
        BY Regroup
      <4>. QED
        BY <2>6, <2>7, <4>1 DEF JoinsAssociatively
    <3>2. Fits(text, s, o \o piece)
      <4>1. CASE o = <<>>
        <5>1. o \o piece = piece
          BY <4>1, ConcatEmptySeq
        <5>. QED
          BY <2>8, <5>1
      <4>2. CASE Chars(text, o) + Chars(text, piece) <= Budget
        <5>1. /\ Chars(text, o) = Weight(CharsOf(text), o)
              /\ Chars(text, piece) = Weight(CharsOf(text), piece)
          BY PiecesWeigh
        <5>2. o \o piece \in Seq(X)
          BY ConcatProperties
        <5>3. Chars(text, o \o piece) = Weight(CharsOf(text), o \o piece)
          BY <5>2, PiecesWeigh
        <5>4. CharsOf(text) \in [X -> Nat]
          BY TextFacts
        <5>5. Weight(CharsOf(text), o \o piece)
                = Weight(CharsOf(text), o) + Weight(CharsOf(text), piece)
          BY <5>4, WeightOfBoth
        <5>6. Chars(text, o \o piece) <= Budget
          BY <4>2, <5>1, <5>3, <5>5
        <5>. QED
          BY <5>6 DEF Fits
      <4>3. Chars(text, o) \in Nat /\ Chars(text, piece) \in Nat
        <5>1. CharsOf(text) \in [X -> Nat]
          BY TextFacts
        <5>2. Weight(CharsOf(text), o) \in Nat /\ Weight(CharsOf(text), piece) \in Nat
          BY <5>1, WeightsAreNat
        <5>. QED
          BY <5>2, PiecesWeigh
      <4>. QED
        BY <2>10, <4>1, <4>2, <4>3, BudgetAssumption
    <3>3. Held(n, c, o \o piece)
      BY <2>5, <3>1, <3>2
    <3>. HIDE DEF Held
    <3>. QED
      BY <2>1, <2>10, <3>3
  <2>11. Bins(text, s)[n] = Add(text, bins, piece)
    BY <1>2, <2>2, <2>4
  <2>12. Add(text, bins, piece) \in BinsOver(X) /\ Added(text, bins, piece)
    BY AddFacts
  <2>. HIDE DEF T, Held
  <2>. QED
    BY <2>3, <2>9, <2>10, <2>11, <2>12, Zenon DEF Added
<1>6. \A n \in 0..Len(s) : n \in T
  <2>. HIDE DEF T
  <2>. QED
    BY <1>1, <1>4, <1>5, BoundedInduction
<1>. QED
  BY <1>6, Zenon

\* Packing loses nothing, and adds nothing.
LEMMA PackFacts ==
  ASSUME NEW text, IsText(text), NEW s \in Seq(Seq(DOMAIN text))
  PROVE  /\ Pack(text, s) \in Seq(Seq(DOMAIN text))
         /\ Joined(Pack(text, s)) = Joined(s)
         /\ \A k \in 1..Len(Pack(text, s)) : Fits(text, s, Pack(text, s)[k])
<1>. DEFINE X == DOMAIN text
<1>1. Len(s) \in Nat /\ Len(s) \in 0..Len(s)
  BY LenProperties
<1>2. Bins(text, s) \in [0..Len(s) -> BinsOver(X)]
  BY BinsFacts
<1>3. PICK bins \in BinsOver(X) : bins = Bins(text, s)[Len(s)]
  BY <1>1, <1>2
<1>4. PICK c \in Seq(Seq(X)), o \in Seq(X) : c = bins.closed /\ o = bins.open
  BY DEF BinsOver
<1>5. /\ Joined(c) \o o = Joined(s)
      /\ \A k \in 1..Len(c) : Fits(text, s, c[k])
      /\ o = <<>> \/ Fits(text, s, o)
  BY <1>1, <1>3, <1>4, BinsHold DEF Joined
<1>6. Pack(text, s) = IF o = <<>> THEN c ELSE Append(c, o)
  BY <1>3, <1>4 DEF Pack
<1>7. CASE o = <<>>
  <2>1. Joined(c) \o <<>> = Joined(c)
    BY JoinedIsSeq, ConcatEmptySeq
  <2>. QED
    BY <1>5, <1>6, <1>7, <2>1
<1>8. CASE o # <<>>
  <2>1. Joined(Append(c, o)) = Joined(c) \o o
    BY JoinedAppend
  <2>2. /\ Append(c, o) \in Seq(Seq(X)) /\ Len(Append(c, o)) = Len(c) + 1
        /\ \A k \in 1..Len(c) : Append(c, o)[k] = c[k]
        /\ Append(c, o)[Len(c) + 1] = o
    BY AppendProperties
  <2>3. \A k \in 1..(Len(c) + 1) : k \in 1..Len(c) \/ k = Len(c) + 1
    BY LenProperties
  <2>. QED
    BY <1>5, <1>6, <1>8, <2>1, <2>2, <2>3
<1>. QED
  BY <1>7, <1>8

-----------------------------------------------------------------------------
(* Sections and slices.                                                     *)

\* A section runs from a header of its path to the line before the next header.
IsSection(text, path, section, f, e) ==
  /\ f \in 1..Len(text) /\ e \in (f + 1)..(Len(text) + 1)
  /\ text[f].mark = path
  /\ \A i \in (f + 1)..(e - 1) : text[i].mark = NoMark
  /\ section = [k \in 1..(e - f) |-> f + k - 1]

LEMMA SectionFacts ==
  ASSUME NEW text, IsText(text), NEW path
  PROVE  \/ Section(text, path) = <<>>
         \/ \E f, e \in Nat : IsSection(text, path, Section(text, path), f, e)
<1>. DEFINE starts == {i \in DOMAIN text : text[i].mark = path}
            f == Min(starts)
            nexts == {i \in DOMAIN text : i > f /\ text[i].mark # NoMark}
            e == IF nexts = {} THEN Len(text) + 1 ELSE Min(nexts)
<1>1. Len(text) \in Nat /\ DOMAIN text = 1..Len(text)
  BY TextFacts
<1>2. Section(text, path) = IF starts = {} THEN <<>> ELSE [k \in 1..(e - f) |-> f + k - 1]
  BY DEF Section
<1>3. CASE starts = {}
  BY <1>2, <1>3
<1>4. CASE starts # {}
  <2>1. starts \subseteq Nat
    BY <1>1
  <2>2. f \in starts
    <3>. HIDE DEF starts
    <3>. QED
      BY <1>4, <2>1, MinIsLeast
  <2>3. f \in 1..Len(text) /\ text[f].mark = path
    BY <1>1, <2>2
  <2>. HIDE DEF f
  <2>4. nexts \subseteq Nat
    BY <1>1
  <2>5. e \in (f + 1)..(Len(text) + 1) /\ \A i \in nexts : e <= i
    <3>1. CASE nexts = {}
      BY <1>1, <2>3, <3>1
    <3>2. CASE nexts # {}
      <4>1. e \in nexts /\ \A i \in nexts : e <= i
        <5>. HIDE DEF nexts
        <5>. QED
          BY <2>4, <3>2, MinIsLeast
      <4>. HIDE DEF e
      <4>2. e \in 1..Len(text) /\ e > f
        BY <1>1, <4>1
      <4>. QED
        BY <1>1, <2>3, <4>1, <4>2
    <3>. QED
      BY <3>1, <3>2
  <2>. HIDE DEF e
  <2>6. ASSUME NEW i \in (f + 1)..(e - 1) PROVE text[i].mark = NoMark
    <3>1. i \in 1..Len(text) /\ i > f /\ ~(e <= i)
      BY <1>1, <2>3, <2>5
    <3>2. i \notin nexts
      BY <2>5, <3>1
    <3>. QED
      BY <1>1, <3>1, <3>2
  <2>7. Section(text, path) = [k \in 1..(e - f) |-> f + k - 1]
    BY <1>2, <1>4
  <2>8. IsSection(text, path, Section(text, path), f, e)
    BY <2>3, <2>5, <2>6, <2>7 DEF IsSection
  <2>9. f \in Nat /\ e \in Nat
    BY <1>1, <2>3, <2>5
  <2>. QED
    BY <2>8, <2>9
<1>. QED
  BY <1>3, <1>4

LEMMA SectionIsSeq ==
  ASSUME NEW text, IsText(text), NEW path
  PROVE  Section(text, path) \in Seq(DOMAIN text)
<1>1. CASE Section(text, path) = <<>>
  <2>1. <<>> \in Seq(DOMAIN text)
    BY EmptySeq
  <2>. QED
    BY <1>1, <2>1
<1>2. ASSUME NEW f \in Nat, NEW e \in Nat, IsSection(text, path, Section(text, path), f, e)
      PROVE  Section(text, path) \in Seq(DOMAIN text)
  <2>1. Len(text) \in Nat /\ DOMAIN text = 1..Len(text)
    BY TextFacts
  <2>2. e - f \in Nat /\ \A k \in 1..(e - f) : f + k - 1 \in DOMAIN text
    BY <1>2, <2>1 DEF IsSection
  <2>3. Section(text, path) \in [1..(e - f) -> DOMAIN text]
    BY <1>2, <2>2 DEF IsSection
  <2>. QED
    BY <2>2, <2>3, FunctionIsSeq
<1>. QED
  BY <1>1, <1>2, SectionFacts

\* Within the budget, or one line.
Bounded(text, bin) == Chars(text, bin) <= Budget \/ Len(bin) = 1

LEMMA PartsFacts ==
  ASSUME NEW text, IsText(text), NEW section \in Seq(DOMAIN text)
  PROVE  /\ Parts(text, section) \in Seq(Seq(DOMAIN text))
         /\ Joined(Parts(text, section)) = section
         /\ \A k \in 1..Len(Parts(text, section)) : Bounded(text, Parts(text, section)[k])
<1>. DEFINE X == DOMAIN text
            lines == [k \in DOMAIN section |-> <<section[k]>>]
<1>1. lines \in Seq(Seq(X)) /\ Joined(lines) = section
  BY JoinedElements
<1>2. \A m \in DOMAIN lines : Len(lines[m]) = 1
  OBVIOUS
<1>. HIDE DEF lines
<1>3. /\ Pack(text, lines) \in Seq(Seq(X)) /\ Joined(Pack(text, lines)) = Joined(lines)
      /\ \A k \in 1..Len(Pack(text, lines)) : Fits(text, lines, Pack(text, lines)[k])
  BY <1>1, PackFacts
<1>4. Parts(text, section) = Pack(text, lines)
  BY DEF Parts, lines
<1>5. \A bin : Fits(text, lines, bin) => Bounded(text, bin)
  BY <1>2 DEF Fits, Bounded
<1>. QED
  BY <1>1, <1>3, <1>4, <1>5

\* The sections of the files to review, one after the other.
Sections(text, files) ==
  LET full == FullDiff(files)
  IN [i \in DOMAIN full |-> Section(text, full[i].path)]

\* Slicing keeps the sections as they are, and each slice within the budget
\* unless it is one line.
LEMMA SlicesFacts ==
  ASSUME NEW text, IsText(text), NEW files, NEW Y, FullDiff(files) \in Seq(Y)
  PROVE  /\ Sections(text, files) \in Seq(Seq(DOMAIN text))
         /\ Len(Sections(text, files)) = Len(FullDiff(files))
         /\ Slices(text, files) \in Seq(Seq(DOMAIN text))
         /\ Joined(Slices(text, files)) = Joined(Sections(text, files))
         /\ \A k \in 1..Len(Slices(text, files)) : Bounded(text, Slices(text, files)[k])
<1>. DEFINE X == DOMAIN text
            full == FullDiff(files)
            section(i) == Section(text, full[i].path)
            ps == [i \in DOMAIN full |-> Parts(text, section(i))]
            parts == Joined(ps)
<1>1. Len(full) \in Nat /\ DOMAIN full = 1..Len(full)
  BY LenProperties
<1>2. \A i \in 1..Len(full) : section(i) \in Seq(X)
  BY SectionIsSeq
<1>3. ASSUME NEW i \in 1..Len(full)
      PROVE  /\ Parts(text, section(i)) \in Seq(Seq(X))
             /\ Joined(Parts(text, section(i))) = section(i)
             /\ \A k \in 1..Len(Parts(text, section(i))) : Bounded(text, Parts(text, section(i))[k])
  <2>1. PICK q \in Seq(X) : q = section(i)
    BY <1>2
  <2>2. /\ Parts(text, q) \in Seq(Seq(X)) /\ Joined(Parts(text, q)) = q
        /\ \A k \in 1..Len(Parts(text, q)) : Bounded(text, Parts(text, q)[k])
    BY PartsFacts
  <2>. QED
    BY <2>1, <2>2
<1>4. ps \in [1..Len(full) -> Seq(Seq(X))] /\ \A i \in 1..Len(full) : ps[i] = Parts(text, section(i))
  BY <1>1, <1>3
<1>5. Sections(text, files) = [i \in DOMAIN full |-> section(i)]
  BY DEF Sections
<1>6. Sections(text, files) \in [1..Len(full) -> Seq(X)]
  BY <1>1, <1>2, <1>5
<1>7. \A i \in DOMAIN full : Joined(ps[i]) = section(i)
  BY <1>1, <1>3, <1>4
<1>. HIDE DEF ps, section
<1>8. ps \in Seq(Seq(Seq(X))) /\ Len(ps) = Len(full) /\ DOMAIN ps = DOMAIN full
  <2>1. ps \in Seq(Seq(Seq(X))) /\ Len(ps) = Len(full)
    BY <1>1, <1>4, FunctionIsSeq
  <2>. QED
    BY <1>1, <1>4, <2>1
<1>9. Sections(text, files) \in Seq(Seq(X)) /\ Len(Sections(text, files)) = Len(full)
  BY <1>1, <1>6, FunctionIsSeq
<1>10. Joined(parts) = Joined(Sections(text, files))
  <2>1. Joined(Joined(ps)) = Joined([i \in DOMAIN ps |-> Joined(ps[i])])
    BY <1>8, JoinedTwice
  <2>2. [i \in DOMAIN ps |-> Joined(ps[i])] = [i \in DOMAIN full |-> section(i)]
    BY <1>7, <1>8
  <2>. QED
    BY <1>5, <2>1, <2>2
<1>11. parts \in Seq(Seq(X))
  BY <1>8, JoinedIsSeq
<1>12. ASSUME NEW m \in DOMAIN parts PROVE Bounded(text, parts[m])
  <2>1. m \in 1..Len(Joined(ps)) /\ m \in Nat
    BY <1>11, LenProperties
  <2>2. \A q \in 1..Len(Joined(ps)) : \E i \in 1..Len(ps) :
          Ends(ps)[i - 1] < q /\ q <= Ends(ps)[i]
    BY <1>8, JoinedPlaces
  <2>3. PICK i \in 1..Len(ps) : Ends(ps)[i - 1] < m /\ m <= Ends(ps)[i]
    BY <2>1, <2>2
  <2>4. /\ Len(ps) \in Nat /\ Ends(ps) \in [0..Len(ps) -> Nat]
        /\ \A j \in 1..Len(ps) : Len(ps[j]) \in Nat /\ Ends(ps)[j] = Ends(ps)[j - 1] + Len(ps[j])
    BY <1>8, EndsFacts
  <2>5. \A j \in 1..Len(ps) : \A k \in 1..Len(ps[j]) : Joined(ps)[Ends(ps)[j - 1] + k] = ps[j][k]
    BY <1>8, JoinedPlaces
  <2>6. PICK a \in Nat, b \in Nat :
          a = Ends(ps)[i - 1] /\ b = Len(ps[i]) /\ Ends(ps)[i] = a + b
    <3>1. i - 1 \in 0..Len(ps)
      BY <2>4
    <3>. QED
      BY <2>4, <3>1
  <2>7. m - a \in 1..b /\ a + (m - a) = m
    BY <2>1, <2>3, <2>6
  <2>8. parts[m] = ps[i][m - a]
    BY <2>5, <2>6, <2>7
  <2>9. i \in 1..Len(full)
    BY <1>8
  <2>. QED
    BY <1>3, <1>4, <2>6, <2>7, <2>8, <2>9
<1>13. Slices(text, files) = IF parts = <<>> THEN << <<>> >> ELSE Pack(text, parts)
  BY DEF Slices, ps, section
<1>. HIDE DEF parts
<1>14. CASE parts = <<>>
  <2>1. <<>> \in Seq(X)
    BY EmptySeq
  <2>2. PICK q \in Seq(X) : q = <<>>
    BY <2>1
  <2>3. <<q>> \in Seq(Seq(X)) /\ Len(<<q>>) = 1 /\ <<q>>[1] = q
    OBVIOUS
  <2>4. Joined(<<q>>) = q
    BY JoinedOne
  <2>5. Joined(parts) = <<>>
    BY <1>14, JoinedNone
  <2>6. Bounded(text, q)
    <3>1. Weight(CharsOf(text), <<>>) = 0
      BY WeightOfNone
    <3>2. Chars(text, q) = 0
      BY <2>2, <3>1, PiecesWeigh
    <3>. QED
      BY <3>2, BudgetAssumption DEF Bounded
  <2>7. Slices(text, files) = <<q>>
    BY <1>13, <1>14, <2>2
  <2>. QED
    BY <1>9, <1>10, <2>2, <2>3, <2>4, <2>5, <2>6, <2>7
<1>15. CASE parts # <<>>
  <2>1. /\ Pack(text, parts) \in Seq(Seq(X)) /\ Joined(Pack(text, parts)) = Joined(parts)
        /\ \A k \in 1..Len(Pack(text, parts)) : Fits(text, parts, Pack(text, parts)[k])
    BY <1>11, PackFacts
  <2>2. \A bin : Fits(text, parts, bin) => Bounded(text, bin)
    BY <1>12 DEF Fits, Bounded
  <2>. QED
    BY <1>9, <1>10, <1>13, <1>15, <2>1, <2>2
<1>. QED
  BY <1>14, <1>15

-----------------------------------------------------------------------------
(* The diff of a candidate.                                                 *)

FilesOf(d) == {d[i] : i \in DOMAIN d}
LinesOf(d) == UNION {{f.lines[n] : n \in DOMAIN f.lines} : f \in FilesOf(d)}

\* The sections of the files to review, as git printed them.
Blocks(d) == [i \in DOMAIN FullDiff(d) |-> FullDiff(d)[i].lines]

LEMMA FullDiffFacts ==
  ASSUME NEW d \in Diffs
  PROVE  /\ FullDiff(d) \in Seq(FilesOf(d))
         /\ Len(FullDiff(d)) \in Nat /\ DOMAIN FullDiff(d) = 1..Len(FullDiff(d))
         /\ GitDiff(d, PathsOf(FullDiff(d))) = Joined(Blocks(d))
<1>. DEFINE I == {i \in DOMAIN d : IsFullDiff(d[i])}
            full == FullDiff(d)
            J == {i \in DOMAIN d : d[i].path \in PathsOf(full)}
<1>1. d \in Seq(FilesOf(d))
  BY DiffsAssumption DEF FilesOf
<1>2. full = At(d, I)
  BY DEF FullDiff
<1>3. /\ At(d, I) \in Seq(FilesOf(d))
      /\ {At(d, I)[k] : k \in DOMAIN At(d, I)} = {d[i] : i \in I \cap DOMAIN d}
  BY <1>1, AtFacts
<1>4. full \in Seq(FilesOf(d)) /\ {full[k] : k \in DOMAIN full} = {d[i] : i \in I}
  <2>1. I \cap DOMAIN d = I
    OBVIOUS
  <2>. QED
    BY <1>2, <1>3, <2>1
<1>5. Len(full) \in Nat /\ DOMAIN full = 1..Len(full)
  BY <1>4, LenProperties
<1>. HIDE DEF full
<1>6. PathsOf(full) = {d[i].path : i \in I}
  <2>1. ASSUME NEW k \in DOMAIN full PROVE \E i \in I : full[k] = d[i]
    BY <1>4
  <2>2. ASSUME NEW i \in I PROVE \E k \in DOMAIN full : full[k] = d[i]
    BY <1>4
  <2>. QED
    BY <2>1, <2>2 DEF PathsOf
<1>7. J = I
  <2>1. ASSUME NEW i \in DOMAIN d, NEW j \in I, d[i].path = d[j].path PROVE i \in I
    <3>1. i = j
      BY <2>1, DiffsAssumption
    <3>. QED
      BY <3>1
  <2>2. \A i \in J : i \in I
    BY <1>6, <2>1
  <2>3. \A i \in I : i \in J
    BY <1>6
  <2>. QED
    BY <2>2, <2>3
<1>8. GitDiff(d, PathsOf(full)) = Joined([i \in DOMAIN At(d, J) |-> At(d, J)[i].lines])
  BY DEF GitDiff
<1>9. GitDiff(d, PathsOf(full)) = Joined(Blocks(d))
  <2>. HIDE DEF I, J
  <2>. QED
    BY <1>2, <1>7, <1>8 DEF Blocks, full
<1>. QED
  BY <1>4, <1>5, <1>9 DEF full

LEMMA BlocksFacts ==
  ASSUME NEW d \in Diffs
  PROVE  /\ Blocks(d) \in Seq(Seq(LinesOf(d))) /\ Len(Blocks(d)) = Len(FullDiff(d))
         /\ \A i \in 1..Len(FullDiff(d)) :
              /\ Blocks(d)[i] = FullDiff(d)[i].lines /\ FullDiff(d)[i] \in FilesOf(d)
              /\ 1 \in 1..Len(Blocks(d)[i]) /\ Blocks(d)[i][1].mark # NoMark
         /\ \A l \in LinesOf(d) : IsLine(l)
<1>. DEFINE N == Len(FullDiff(d))
<1>1. /\ FullDiff(d) \in Seq(FilesOf(d))
      /\ Len(FullDiff(d)) \in Nat /\ DOMAIN FullDiff(d) = 1..Len(FullDiff(d))
      /\ GitDiff(d, PathsOf(FullDiff(d))) = Joined(Blocks(d))
  BY FullDiffFacts
<1>2. ASSUME NEW f \in FilesOf(d)
      PROVE  /\ f.lines \in Seq(LinesOf(d)) /\ 1 \in 1..Len(f.lines)
             /\ f.lines[1].mark # NoMark /\ \A n \in DOMAIN f.lines : IsLine(f.lines[n])
  <2>1. PICK i \in DOMAIN d : f = d[i]
    BY DEF FilesOf
  <2>2. IsText(f.lines) /\ f.lines # <<>> /\ f.lines[1].mark # NoMark
    BY <2>1, DiffsAssumption
  <2>3. f.lines \in Seq({f.lines[n] : n \in DOMAIN f.lines})
        /\ \A n \in DOMAIN f.lines : IsLine(f.lines[n])
    BY <2>2 DEF IsText
  <2>4. Len(f.lines) \in Nat /\ DOMAIN f.lines = 1..Len(f.lines)
    BY <2>3, LenProperties
  <2>5. \A n \in DOMAIN f.lines : f.lines[n] \in LinesOf(d)
    BY DEF LinesOf
  <2>6. f.lines \in [1..Len(f.lines) -> LinesOf(d)]
    <3>1. f.lines \in [1..Len(f.lines) -> {f.lines[n] : n \in DOMAIN f.lines}]
      BY <2>3, LenProperties
    <3>. QED
      BY <2>4, <2>5, <3>1
  <2>7. f.lines \in Seq(LinesOf(d))
    BY <2>4, <2>6, FunctionIsSeq
  <2>8. Len(f.lines) # 0
    BY <2>2, <2>7, EmptySeq
  <2>. QED
    BY <2>2, <2>3, <2>4, <2>7, <2>8
<1>3. \A i \in 1..N : FullDiff(d)[i] \in FilesOf(d)
  BY <1>1, ElementOfSeq
<1>4. Blocks(d) \in [1..N -> Seq(LinesOf(d))] /\ \A i \in 1..N : Blocks(d)[i] = FullDiff(d)[i].lines
  BY <1>1, <1>2, <1>3 DEF Blocks
<1>5. Blocks(d) \in Seq(Seq(LinesOf(d))) /\ Len(Blocks(d)) = N
  BY <1>1, <1>4, FunctionIsSeq
<1>6. ASSUME NEW l \in LinesOf(d) PROVE IsLine(l)
  <2>1. PICK f \in FilesOf(d) : \E n \in DOMAIN f.lines : l = f.lines[n]
    BY DEF LinesOf
  <2>. QED
    BY <1>2, <2>1
<1>. QED
  BY <1>2, <1>3, <1>4, <1>5, <1>6

\* The packet's diff has the lines of the blocks, made text.
LEMMA SourceFacts ==
  ASSUME NEW d \in Diffs
  PROVE  /\ IsText(SourceDiff(d)) /\ Len(SourceDiff(d)) = Len(Joined(Blocks(d)))
         /\ \A n \in 1..Len(SourceDiff(d)) :
              SourceDiff(d)[n] = [Joined(Blocks(d))[n] EXCEPT !.valid = TRUE]
<1>. DEFINE git == Joined(Blocks(d))
            text == SourceDiff(d)
<1>1. Blocks(d) \in Seq(Seq(LinesOf(d))) /\ \A l \in LinesOf(d) : IsLine(l)
  BY BlocksFacts
<1>2. git \in Seq(LinesOf(d))
  BY <1>1, JoinedIsSeq
<1>3. Len(git) \in Nat /\ DOMAIN git = 1..Len(git) /\ \A n \in 1..Len(git) : git[n] \in LinesOf(d)
  BY <1>2, LenProperties, ElementOfSeq
<1>4. text = [n \in 1..Len(git) |-> [git[n] EXCEPT !.valid = TRUE]]
  <2>1. GitDiff(d, PathsOf(FullDiff(d))) = git
    BY FullDiffFacts
  <2>. HIDE DEF git
  <2>. QED
    BY <1>3, <2>1 DEF SourceDiff, Decode
<1>. HIDE DEF git
<1>5. ASSUME NEW l, IsLine(l) PROVE IsLine([l EXCEPT !.valid = TRUE])
  <2>1. PICK m, c, b, v :
          l = [mark |-> m, chars |-> c, bytes |-> b, valid |-> v] /\ c \in Nat /\ b \in Nat
    BY <1>5 DEF IsLine
  <2>2. PICK k \in [mark : {m}, chars : {c}, bytes : {b}, valid : {TRUE}] :
          k = [l EXCEPT !.valid = TRUE]
    BY <2>1
  <2>3. k = [mark |-> k.mark, chars |-> k.chars, bytes |-> k.bytes, valid |-> k.valid]
    OBVIOUS
  <2>4. k.chars \in Nat /\ k.bytes \in Nat /\ k.valid \in BOOLEAN
    BY <2>1
  <2>. QED
    BY <2>2, <2>3, <2>4 DEF IsLine
<1>6. \A n \in 1..Len(git) : IsLine(text[n]) /\ text[n] = [git[n] EXCEPT !.valid = TRUE]
  BY <1>1, <1>3, <1>4, <1>5
<1>7. text \in [1..Len(git) -> {text[n] : n \in DOMAIN text}] /\ DOMAIN text = 1..Len(git)
  BY <1>4
<1>. HIDE DEF text
<1>8. text \in Seq({text[n] : n \in DOMAIN text}) /\ Len(text) = Len(git)
  BY <1>3, <1>7, FunctionIsSeq
<1>9. IsText(text)
  BY <1>6, <1>7, <1>8 DEF IsText
<1>. QED
  BY <1>6, <1>8, <1>9 DEF text, git

-----------------------------------------------------------------------------
(* Coverage.                                                                *)

\* The diff of d has been cut, and the reviewer goes on with it.
IsCut(d) ==
  /\ HasAllSections(SourceDiff(d), d)
  /\ Reconstructs(SourceDiff(d), Slices(SourceDiff(d), d))

\* What the comparison of the slices with the diff says of the sections.
LEMMA CutFacts ==
  ASSUME NEW d \in Diffs, IsCut(d)
  PROVE  LET text == SourceDiff(d)
             S    == Sections(text, d)
         IN /\ S \in Seq(Seq(DOMAIN text)) /\ Len(S) = Len(FullDiff(d))
            /\ Joined(S) = Whole(text) /\ Len(Joined(S)) = Len(text)
            /\ Slices(text, d) \in Seq(Seq(DOMAIN text))
            /\ Joined(Slices(text, d)) = Whole(text)
            /\ \A k \in 1..Len(Slices(text, d)) : Bounded(text, Slices(text, d)[k])
            /\ \A i \in 1..Len(S) : S[i] = Section(text, FullDiff(d)[i].path) /\ S[i] # <<>>
<1>. DEFINE text == SourceDiff(d)
            S == Sections(text, d)
<1>1. /\ FullDiff(d) \in Seq(FilesOf(d))
      /\ Len(FullDiff(d)) \in Nat /\ DOMAIN FullDiff(d) = 1..Len(FullDiff(d))
      /\ GitDiff(d, PathsOf(FullDiff(d))) = Joined(Blocks(d))
  BY FullDiffFacts
<1>2. IsText(text)
  BY SourceFacts
<1>. HIDE DEF text
<1>3. /\ S \in Seq(Seq(DOMAIN text)) /\ Len(S) = Len(FullDiff(d))
      /\ Slices(text, d) \in Seq(Seq(DOMAIN text))
      /\ Joined(Slices(text, d)) = Joined(S)
      /\ \A k \in 1..Len(Slices(text, d)) : Bounded(text, Slices(text, d)[k])
  BY <1>1, <1>2, SlicesFacts
<1>4. Joined(Slices(text, d)) = Whole(text)
  BY DEF IsCut, Reconstructs, text
<1>5. Len(text) \in Nat /\ DOMAIN text = 1..Len(text)
  BY <1>2, TextFacts
<1>6. Whole(text) \in [1..Len(text) -> DOMAIN text]
  BY <1>5 DEF Whole
<1>7. Len(Whole(text)) = Len(text)
  BY <1>5, <1>6, FunctionIsSeq
<1>8. \A i \in 1..Len(S) : S[i] = Section(text, FullDiff(d)[i].path) /\ S[i] # <<>>
  <2>1. \A i \in 1..Len(FullDiff(d)) : FullDiff(d)[i].path \in PathsOf(FullDiff(d))
    BY <1>1 DEF PathsOf
  <2>2. \A p \in PathsOf(FullDiff(d)) : Section(text, p) # <<>>
    BY DEF IsCut, HasAllSections, text
  <2>3. \A i \in 1..Len(FullDiff(d)) : S[i] = Section(text, FullDiff(d)[i].path)
    BY <1>1 DEF Sections
  <2>. QED
    BY <1>3, <2>1, <2>2, <2>3
<1>. QED
  BY <1>3, <1>4, <1>7, <1>8 DEF text

\* Section i starts right behind those before it, and no header is inside.
LEMMA SectionStarts ==
  ASSUME NEW d \in Diffs, IsCut(d)
  PROVE  LET text == SourceDiff(d)
             S    == Sections(text, d)
         IN \A i \in 1..Len(S) :
              /\ Ends(S)[i - 1] < Ends(S)[i]
              /\ \A k \in 1..Len(S[i]) : S[i][k] = Ends(S)[i - 1] + k
              /\ \A n \in (Ends(S)[i - 1] + 2)..Ends(S)[i] : text[n].mark = NoMark
<1>. DEFINE text == SourceDiff(d)
            S == Sections(text, d)
<1>1. /\ S \in Seq(Seq(DOMAIN text)) /\ Joined(S) = Whole(text)
      /\ Len(Joined(S)) = Len(text)
      /\ \A i \in 1..Len(S) : S[i] = Section(text, FullDiff(d)[i].path) /\ S[i] # <<>>
  BY CutFacts
<1>2. IsText(text) /\ Len(text) \in Nat /\ DOMAIN text = 1..Len(text)
  BY SourceFacts, TextFacts
<1>. HIDE DEF text, S
<1>3. /\ Len(S) \in Nat /\ Ends(S) \in [0..Len(S) -> Nat]
      /\ \A i \in 1..Len(S) : /\ S[i] \in Seq(DOMAIN text) /\ Len(S[i]) \in Nat
                              /\ Ends(S)[i] = Ends(S)[i - 1] + Len(S[i])
  BY <1>1, EndsFacts
<1>4. \A i \in 1..Len(S) : \A k \in 1..Len(S[i]) :
        /\ Ends(S)[i - 1] + k \in 1..Len(Joined(S))
        /\ Joined(S)[Ends(S)[i - 1] + k] = S[i][k]
  BY <1>1, JoinedPlaces
<1>5. ASSUME NEW i \in 1..Len(S)
      PROVE  /\ Ends(S)[i - 1] < Ends(S)[i]
             /\ \A k \in 1..Len(S[i]) : S[i][k] = Ends(S)[i - 1] + k
             /\ \A n \in (Ends(S)[i - 1] + 2)..Ends(S)[i] : text[n].mark = NoMark
  <2>1. PICK a \in Nat, b \in Nat :
          a = Ends(S)[i - 1] /\ b = Len(S[i]) /\ Ends(S)[i] = a + b
    <3>1. i - 1 \in 0..Len(S)
      BY <1>3
    <3>. QED
      BY <1>3, <3>1
  <2>2. ASSUME NEW k \in 1..b PROVE S[i][k] = a + k
    <3>1. a + k \in 1..Len(text) /\ Joined(S)[a + k] = S[i][k]
      BY <1>1, <1>4, <2>1
    <3>2. Joined(S)[a + k] = a + k
      BY <1>1, <1>2, <3>1 DEF Whole
    <3>. QED
      BY <3>1, <3>2
  <2>3. PICK path : S[i] = Section(text, path) /\ S[i] # <<>>
    BY <1>1
  <2>4. PICK f \in Nat, e \in Nat : IsSection(text, path, S[i], f, e)
    BY <1>2, <2>3, SectionFacts
  <2>5. /\ f \in 1..Len(text) /\ e \in (f + 1)..(Len(text) + 1)
        /\ \A n \in (f + 1)..(e - 1) : text[n].mark = NoMark
        /\ S[i] = [k \in 1..(e - f) |-> f + k - 1]
    BY <2>4 DEF IsSection
  <2>6. e - f \in Nat /\ 1 \in 1..(e - f)
    BY <1>2, <2>5
  <2>7. Len(S[i]) = e - f
    <3>1. DOMAIN S[i] = 1..(e - f)
      BY <2>5
    <3>2. DOMAIN S[i] = 1..Len(S[i]) /\ Len(S[i]) \in Nat
      BY <1>3, LenProperties
    <3>. QED
      BY <2>6, <3>1, <3>2
  <2>8. S[i][1] = f + 1 - 1
    BY <2>5, <2>6
  <2>9. f = a + 1 /\ e = a + b + 1 /\ b > 0
    BY <2>1, <2>2, <2>6, <2>7, <2>8
  <2>10. \A n \in (a + 2)..(a + b) : text[n].mark = NoMark
    <3>1. \A n \in (a + 2)..(a + b) : n \in (f + 1)..(e - 1)
      BY <2>9
    <3>. QED
      BY <2>5, <3>1
  <2>11. a < a + b
    BY <2>9
  <2>. QED
    BY <2>1, <2>2, <2>10, <2>11
<1>. QED
  BY <1>5 DEF text, S

\* The sections are the blocks git printed, however many headers the lines of
\* a block quote.
LEMMA SectionsAreBlocks ==
  ASSUME NEW d \in Diffs, IsCut(d)
  PROVE  LET S == Sections(SourceDiff(d), d)
         IN  Len(S) = Len(Blocks(d)) /\ \A n \in 0..Len(S) : Ends(Blocks(d))[n] = Ends(S)[n]
<1>. DEFINE text == SourceDiff(d)
            S == Sections(text, d)
            B == Blocks(d)
<1>1. /\ S \in Seq(Seq(DOMAIN text)) /\ Len(S) = Len(FullDiff(d)) /\ Len(Joined(S)) = Len(text)
  BY CutFacts
<1>2. \A i \in 1..Len(S) :
        /\ Ends(S)[i - 1] < Ends(S)[i]
        /\ \A k \in 1..Len(S[i]) : S[i][k] = Ends(S)[i - 1] + k
        /\ \A n \in (Ends(S)[i - 1] + 2)..Ends(S)[i] : text[n].mark = NoMark
  BY SectionStarts
<1>3. /\ IsText(text) /\ Len(text) = Len(Joined(B))
      /\ \A n \in 1..Len(text) : text[n] = [Joined(B)[n] EXCEPT !.valid = TRUE]
  BY SourceFacts
<1>4. /\ B \in Seq(Seq(LinesOf(d))) /\ Len(B) = Len(FullDiff(d))
      /\ \A i \in 1..Len(FullDiff(d)) :
           /\ B[i] = FullDiff(d)[i].lines /\ FullDiff(d)[i] \in FilesOf(d)
           /\ 1 \in 1..Len(B[i]) /\ B[i][1].mark # NoMark
      /\ \A l \in LinesOf(d) : IsLine(l)
  BY BlocksFacts
<1>. HIDE DEF text, S, B
<1>5. PICK N \in Nat : N = Len(S) /\ N = Len(B) /\ N = Len(FullDiff(d))
  BY <1>1, <1>4, LenProperties
<1>6. /\ Ends(S) \in [0..N -> Nat] /\ Ends(S)[0] = 0 /\ Len(Joined(S)) = Ends(S)[N]
  BY <1>1, <1>5, EndsFacts
<1>7. /\ Ends(B) \in [0..N -> Nat] /\ Ends(B)[0] = 0 /\ Len(Joined(B)) = Ends(B)[N]
      /\ \A i \in 1..N : Len(B[i]) \in Nat /\ Ends(B)[i] = Ends(B)[i - 1] + Len(B[i])
      /\ Joined(B) \in Seq(LinesOf(d))
  BY <1>4, <1>5, EndsFacts
<1>8. PICK e \in [0..N -> Nat] : e = Ends(S)
  BY <1>6
<1>9. PICK g \in [0..N -> Nat] : g = Ends(B)
  BY <1>7
<1>10. g[0] = 0 /\ e[0] = 0 /\ g[N] = e[N] /\ Len(text) = e[N]
  BY <1>1, <1>3, <1>6, <1>7, <1>8, <1>9
<1>11. ASSUME NEW i \in 1..N PROVE g[i - 1] < g[i] /\ e[i - 1] < e[i]
  <2>1. i - 1 \in 0..N /\ g[i - 1] \in Nat
    BY <1>5
  <2>2. Len(B[i]) \in Nat /\ g[i] = g[i - 1] + Len(B[i]) /\ Len(B[i]) >= 1
    BY <1>4, <1>5, <1>7, <1>9
  <2>. QED
    BY <1>2, <1>5, <1>8, <2>1, <2>2
<1>12. ASSUME NEW i \in 1..N PROVE \E j \in 1..N : g[i - 1] = e[j - 1]
  <2>1. PICK a \in Nat : a = g[i - 1]
    <3>1. i - 1 \in 0..N
      OBVIOUS
    <3>. QED
      BY <3>1
  <2>2. a + 1 \in 1..Len(text) /\ Joined(B)[a + 1] = B[i][1]
    <3>1. \A x \in 1..Len(B) : \A k \in 1..Len(B[x]) :
            /\ Ends(B)[x - 1] + k \in 1..Len(Joined(B))
            /\ Joined(B)[Ends(B)[x - 1] + k] = B[x][k]
      BY <1>4, JoinedPlaces
    <3>2. 1 \in 1..Len(B[i])
      BY <1>4, <1>5
    <3>. QED
      BY <1>3, <1>5, <1>9, <2>1, <3>1, <3>2
  <2>3. text[a + 1].mark # NoMark
    <3>1. PICK l \in LinesOf(d) : l = Joined(B)[a + 1]
      BY <1>3, <1>7, <2>2, ElementOfSeq
    <3>2. IsLine(l) /\ l.mark # NoMark
      BY <1>4, <1>5, <2>2, <3>1
    <3>3. [l EXCEPT !.valid = TRUE].mark = l.mark
      BY <3>2 DEF IsLine
    <3>. QED
      BY <1>3, <2>2, <3>1, <3>2, <3>3
  <2>4. PICK j \in 1..N : e[j - 1] < a + 1 /\ a + 1 <= e[j]
    <3>1. \A q \in 1..Len(Joined(S)) : \E x \in 1..Len(S) :
            Ends(S)[x - 1] < q /\ q <= Ends(S)[x]
      BY <1>1, JoinedPlaces
    <3>. QED
      BY <1>1, <1>5, <1>8, <2>2, <3>1
  <2>5. PICK b \in Nat, c \in Nat : b = e[j - 1] /\ c = e[j]
    <3>1. j - 1 \in 0..N
      OBVIOUS
    <3>. QED
      BY <3>1
  <2>6. \A n \in (b + 2)..c : text[n].mark = NoMark
    BY <1>2, <1>5, <1>8, <2>5
  <2>7. a + 1 \notin (b + 2)..c /\ b < a + 1 /\ a + 1 <= c
    BY <2>3, <2>4, <2>5, <2>6
  <2>8. a = b
    BY <2>7
  <2>. QED
    BY <2>1, <2>5, <2>8
<1>13. \A n \in 0..N : g[n] = e[n]
  BY <1>10, <1>11, <1>12, SameEnds
<1>. QED
  BY <1>5, <1>8, <1>9, <1>13 DEF text, S, B

\* A line is held by one slice.
LEMMA SlicesHold ==
  ASSUME NEW d \in Diffs, IsCut(d)
  PROVE  LET text   == SourceDiff(d)
             slices == Slices(text, d)
         IN \A q \in 1..Len(text) : \E s \in 1..Len(slices) :
              /\ Holds(slices[s], q)
              /\ \A t \in (1..Len(slices)) \ {s} : ~Holds(slices[t], q)
<1>. DEFINE text == SourceDiff(d)
            slices == Slices(text, d)
<1>1. slices \in Seq(Seq(DOMAIN text)) /\ Joined(slices) = Whole(text)
  BY CutFacts
<1>2. Len(Joined(slices)) = Len(text)
  <2>1. Len(Joined(Sections(text, d))) = Len(text) /\ Joined(Sections(text, d)) = Whole(text)
    BY CutFacts
  <2>. QED
    BY <1>1, <2>1
<1>3. IsText(text) /\ Len(text) \in Nat /\ DOMAIN text = 1..Len(text)
  BY SourceFacts, TextFacts
<1>. HIDE DEF text, slices
<1>4. /\ Len(slices) \in Nat /\ Ends(slices) \in [0..Len(slices) -> Nat]
      /\ \A i \in 1..Len(slices) :
           /\ slices[i] \in Seq(DOMAIN text) /\ Len(slices[i]) \in Nat
           /\ Ends(slices)[i] = Ends(slices)[i - 1] + Len(slices[i])
  BY <1>1, EndsFacts
<1>5. /\ \A m, n \in 0..Len(slices) : m <= n => Ends(slices)[m] <= Ends(slices)[n]
      /\ \A i \in 1..Len(slices) : \A k \in 1..Len(slices[i]) :
           /\ Ends(slices)[i - 1] + k \in 1..Len(Joined(slices))
           /\ Joined(slices)[Ends(slices)[i - 1] + k] = slices[i][k]
      /\ \A q \in 1..Len(Joined(slices)) : \E i \in 1..Len(slices) :
           Ends(slices)[i - 1] < q /\ q <= Ends(slices)[i]
  BY <1>1, JoinedPlaces
<1>6. PICK M \in Nat : M = Len(slices)
  BY <1>4
<1>7. PICK e \in [0..M -> Nat] : e = Ends(slices)
  BY <1>4, <1>6
<1>8. ASSUME NEW i \in 1..M
      PROVE  /\ e[i - 1] \in Nat /\ e[i] \in Nat /\ Len(slices[i]) \in Nat
             /\ e[i] = e[i - 1] + Len(slices[i])
             /\ DOMAIN slices[i] = 1..Len(slices[i])
             /\ \A k \in 1..Len(slices[i]) : slices[i][k] = e[i - 1] + k
  <2>1. i - 1 \in 0..M /\ i \in 0..M
    OBVIOUS
  <2>2. ASSUME NEW k \in 1..Len(slices[i]) PROVE slices[i][k] = e[i - 1] + k
    <3>1. e[i - 1] + k \in 1..Len(text) /\ Joined(slices)[e[i - 1] + k] = slices[i][k]
      BY <1>2, <1>5, <1>6, <1>7
    <3>2. Joined(slices)[e[i - 1] + k] = e[i - 1] + k
      BY <1>1, <1>3, <3>1 DEF Whole
    <3>. QED
      BY <3>1, <3>2
  <2>3. slices[i] \in Seq(DOMAIN text)
    BY <1>4, <1>6
  <2>4. DOMAIN slices[i] = 1..Len(slices[i])
    BY <2>3, LenProperties
  <2>. QED
    BY <1>4, <1>6, <1>7, <2>1, <2>2, <2>4
<1>9. ASSUME NEW i \in 1..M, NEW q \in Nat
      PROVE  Holds(slices[i], q) <=> (e[i - 1] < q /\ q <= e[i])
  <2>1. PICK a \in Nat, b \in Nat : a = e[i - 1] /\ b = Len(slices[i]) /\ e[i] = a + b
    BY <1>8
  <2>2. DOMAIN slices[i] = 1..b /\ \A k \in 1..b : slices[i][k] = a + k
    BY <1>8, <2>1
  <2>3. Holds(slices[i], q) <=> \E k \in 1..b : a + k = q
    BY <2>2 DEF Holds
  <2>4. ASSUME a < q, q <= a + b PROVE q - a \in 1..b /\ a + (q - a) = q
    BY <2>4
  <2>5. (\E k \in 1..b : a + k = q) <=> (a < q /\ q <= a + b)
    BY <2>4
  <2>. QED
    BY <2>1, <2>3, <2>5
<1>10. ASSUME NEW q \in 1..Len(text)
       PROVE  \E s \in 1..M : /\ Holds(slices[s], q)
                              /\ \A t \in (1..M) \ {s} : ~Holds(slices[t], q)
  <2>1. PICK s \in 1..M : e[s - 1] < q /\ q <= e[s]
    BY <1>2, <1>5, <1>6, <1>7
  <2>2. q \in Nat
    BY <1>3
  <2>3. ASSUME NEW t \in (1..M) \ {s}, e[t - 1] < q, q <= e[t] PROVE FALSE
    <3>1. CASE t < s
      <4>1. t \in 0..M /\ s - 1 \in 0..M /\ t <= s - 1
        BY <3>1
      <4>2. e[t] <= e[s - 1]
        BY <1>5, <1>6, <1>7, <4>1
      <4>3. e[t] \in Nat /\ e[s - 1] \in Nat
        BY <4>1
      <4>. QED
        BY <2>1, <2>2, <2>3, <4>2, <4>3
    <3>2. CASE s < t
      <4>1. s \in 0..M /\ t - 1 \in 0..M /\ s <= t - 1
        BY <3>2
      <4>2. e[s] <= e[t - 1]
        BY <1>5, <1>6, <1>7, <4>1
      <4>3. e[s] \in Nat /\ e[t - 1] \in Nat
        BY <4>1
      <4>. QED
        BY <2>1, <2>2, <2>3, <4>2, <4>3
    <3>. QED
      BY <3>1, <3>2
  <2>. QED
    BY <1>9, <2>1, <2>2, <2>3
<1>. QED
  BY <1>6, <1>10 DEF text, slices

\* Every line of every file to review is in one slice, under the file's path.
LEMMA CutCovers ==
  ASSUME NEW d \in Diffs, IsCut(d)
  PROVE  LET text   == SourceDiff(d)
             slices == Slices(text, d)
         IN \A i \in DOMAIN FullDiff(d) : \A n \in DOMAIN FullDiff(d)[i].lines :
              \E s \in 1..Len(slices) :
                /\ Holds(slices[s], Ends(Blocks(d))[i - 1] + n)
                /\ FullDiff(d)[i].path \in SlicePaths(text, d, slices[s])
                /\ \A t \in (1..Len(slices)) \ {s} :
                     ~Holds(slices[t], Ends(Blocks(d))[i - 1] + n)
<1>. DEFINE text == SourceDiff(d)
            slices == Slices(text, d)
            S == Sections(text, d)
            B == Blocks(d)
<1>1. \A q \in 1..Len(text) : \E s \in 1..Len(slices) :
        /\ Holds(slices[s], q)
        /\ \A t \in (1..Len(slices)) \ {s} : ~Holds(slices[t], q)
  BY SlicesHold
<1>2. /\ S \in Seq(Seq(DOMAIN text)) /\ Len(S) = Len(FullDiff(d)) /\ Len(Joined(S)) = Len(text)
      /\ \A i \in 1..Len(S) : S[i] = Section(text, FullDiff(d)[i].path) /\ S[i] # <<>>
  BY CutFacts
<1>3. \A i \in 1..Len(S) : \A k \in 1..Len(S[i]) : S[i][k] = Ends(S)[i - 1] + k
  BY SectionStarts
<1>4. Len(S) = Len(B) /\ \A n \in 0..Len(S) : Ends(B)[n] = Ends(S)[n]
  BY SectionsAreBlocks
<1>5. /\ B \in Seq(Seq(LinesOf(d)))
      /\ \A i \in 1..Len(FullDiff(d)) : B[i] = FullDiff(d)[i].lines
  BY BlocksFacts
<1>6. Len(FullDiff(d)) \in Nat /\ DOMAIN FullDiff(d) = 1..Len(FullDiff(d))
  BY FullDiffFacts
<1>. HIDE DEF text, slices, S, B
<1>7. PICK N \in Nat : N = Len(S) /\ N = Len(B) /\ N = Len(FullDiff(d))
  BY <1>2, <1>4, <1>6
<1>8. ASSUME NEW i \in 1..N, NEW n \in DOMAIN FullDiff(d)[i].lines
      PROVE  \E s \in 1..Len(slices) :
               /\ Holds(slices[s], Ends(B)[i - 1] + n)
               /\ FullDiff(d)[i].path \in SlicePaths(text, d, slices[s])
               /\ \A t \in (1..Len(slices)) \ {s} : ~Holds(slices[t], Ends(B)[i - 1] + n)
  <2>1. /\ Ends(S) \in [0..N -> Nat]
        /\ \A x \in 1..N : S[x] \in Seq(DOMAIN text) /\ Len(S[x]) \in Nat
                           /\ Ends(S)[x] = Ends(S)[x - 1] + Len(S[x])
    BY <1>2, <1>7, EndsFacts
  <2>2. \A x \in 1..N : B[x] \in Seq(LinesOf(d)) /\ Len(B[x]) \in Nat
                        /\ Ends(B)[x] = Ends(B)[x - 1] + Len(B[x])
    BY <1>5, <1>7, EndsFacts
  <2>3. i - 1 \in 0..N /\ i \in 0..N
    OBVIOUS
  <2>4. PICK a \in Nat : a = Ends(S)[i - 1] /\ a = Ends(B)[i - 1]
    BY <1>4, <1>7, <2>1, <2>3
  <2>5. Len(S[i]) = Len(B[i])
    <3>1. PICK x \in Nat, y \in Nat : x = Len(S[i]) /\ y = Len(B[i])
      BY <2>1, <2>2
    <3>2. Ends(S)[i] = a + x /\ Ends(B)[i] = a + y
      BY <2>1, <2>2, <2>4, <3>1
    <3>3. a + x = a + y
      BY <1>4, <1>7, <2>3, <3>2
    <3>. QED
      BY <3>1, <3>3
  <2>6. n \in 1..Len(S[i])
    <3>1. DOMAIN B[i] = 1..Len(B[i])
      BY <2>2, LenProperties
    <3>. QED
      BY <1>5, <1>7, <2>5, <3>1
  <2>7. S[i][n] = a + n
    BY <1>3, <1>7, <2>4, <2>6
  <2>8. a + n \in 1..Len(text)
    <3>1. \A x \in 1..Len(S) : \A k \in 1..Len(S[x]) :
            /\ Ends(S)[x - 1] + k \in 1..Len(Joined(S))
            /\ Joined(S)[Ends(S)[x - 1] + k] = S[x][k]
      BY <1>2, JoinedPlaces
    <3>. QED
      BY <1>2, <1>7, <2>4, <2>6, <3>1
  <2>9. PICK s \in 1..Len(slices) :
          /\ Holds(slices[s], a + n)
          /\ \A t \in (1..Len(slices)) \ {s} : ~Holds(slices[t], a + n)
    BY <1>1, <2>8
  <2>10. FullDiff(d)[i].path \in SlicePaths(text, d, slices[s])
    <3>1. FullDiff(d)[i].path \in PathsOf(FullDiff(d))
      BY <1>6, <1>7 DEF PathsOf
    <3>2. DOMAIN S[i] = 1..Len(S[i])
      BY <2>1, LenProperties
    <3>3. S[i] = Section(text, FullDiff(d)[i].path)
      BY <1>2, <1>7
    <3>. QED
      BY <2>6, <2>7, <2>9, <3>1, <3>2, <3>3 DEF SlicePaths
  <2>. QED
    BY <2>4, <2>9, <2>10
<1>. QED
  BY <1>6, <1>7, <1>8 DEF text, slices, B

-----------------------------------------------------------------------------
(* The gate's accounting.                                                   *)

\* The records of a cut follow one another and add up to the diff.
LEMMA CutIsContiguous ==
  ASSUME NEW d \in Diffs, IsCut(d), FullDiff(d) # <<>>, NEW answers, NEW r,
         r.slices = Records(SourceDiff(d), d, Slices(SourceDiff(d), d), answers),
         r.total = Bytes(SourceDiff(d), Whole(SourceDiff(d)))
  PROVE  Contiguous(r)
<1>. DEFINE text == SourceDiff(d)
            slices == Slices(text, d)
            w == BytesOf(text)
            v == [i \in DOMAIN slices |-> Weight(w, slices[i])]
<1>1. slices \in Seq(Seq(DOMAIN text)) /\ Joined(slices) = Whole(text)
  BY CutFacts
<1>2. IsText(text) /\ Len(text) \in Nat /\ DOMAIN text = 1..Len(text) /\ w \in [DOMAIN text -> Nat]
  BY SourceFacts, TextFacts
<1>3. \A q \in 1..Len(text) : \E s \in 1..Len(slices) : Holds(slices[s], q)
  BY SlicesHold
<1>4. Len(text) # 0
  <2>1. Len(FullDiff(d)) \in Nat /\ FullDiff(d) \in Seq(FilesOf(d))
    BY FullDiffFacts
  <2>2. Len(FullDiff(d)) # 0
    BY <2>1, EmptySeq
  <2>3. /\ Blocks(d) \in Seq(Seq(LinesOf(d))) /\ Len(Blocks(d)) = Len(FullDiff(d))
        /\ \A i \in 1..Len(FullDiff(d)) : 1 \in 1..Len(Blocks(d)[i])
    BY BlocksFacts
  <2>4. 1 \in 1..Len(Blocks(d)) /\ 1 \in 1..Len(Blocks(d)[1])
    BY <2>1, <2>2, <2>3
  <2>5. Ends(Blocks(d))[1 - 1] + 1 \in 1..Len(Joined(Blocks(d)))
    <3>1. \A x \in 1..Len(Blocks(d)) : \A k \in 1..Len(Blocks(d)[x]) :
            /\ Ends(Blocks(d))[x - 1] + k \in 1..Len(Joined(Blocks(d)))
            /\ Joined(Blocks(d))[Ends(Blocks(d))[x - 1] + k] = Blocks(d)[x][k]
      BY <2>3, JoinedPlaces
    <3>. QED
      BY <2>4, <3>1
  <2>6. Len(text) = Len(Joined(Blocks(d)))
    BY SourceFacts
  <2>. QED
    BY <2>5, <2>6
<1>5. /\ r.slices = [i \in DOMAIN slices |->
                       [paths  |-> SlicePaths(text, d, slices[i]),
                        start  |-> Bytes(text, Joins(slices)[i - 1]),
                        bytes  |-> Bytes(text, slices[i]),
                        status |-> answers[i].status, abstained |-> answers[i].abstained,
                        lines  |-> slices[i], response |-> answers[i]]]
      /\ r.total = Bytes(text, Whole(text))
  BY DEF Records, BytesBefore
<1>. HIDE DEF text, slices, w
<1>6. PICK M \in Nat : M = Len(slices)
  BY <1>1, LenProperties
<1>7. DOMAIN slices = 1..M /\ \A i \in 1..M : slices[i] \in Seq(DOMAIN text)
  BY <1>1, <1>6, LenProperties, ElementOfSeq
<1>8. /\ v \in Seq(Nat)
      /\ \A n \in 0..Len(slices) : Weight(w, Joins(slices)[n]) = Sums(v)[n]
  BY <1>1, <1>2, WeightOfJoined
<1>9. \A i \in 1..M : v[i] = Weight(w, slices[i])
  BY <1>7
<1>10. Len(v) = M
  <2>1. v \in [1..M -> Nat]
    <3>1. DOMAIN v = 1..M
      BY <1>7
    <3>2. DOMAIN v = 1..Len(v) /\ v \in [1..Len(v) -> Nat]
      BY <1>8, LenProperties
    <3>. QED
      BY <3>1, <3>2
  <2>. HIDE DEF v
  <2>. QED
    BY <2>1, FunctionIsSeq
<1>. HIDE DEF v
<1>11. \A n \in 0..M : Joins(slices)[n] \in Seq(DOMAIN text)
  <2>1. Joins(slices) \in [0..Len(slices) -> Seq(DOMAIN text)]
    BY <1>1, JoinsFacts
  <2>. QED
    BY <1>6, <2>1
<1>12. \A piece \in Seq(DOMAIN text) : Bytes(text, piece) = Weight(w, piece)
  <2>1. ASSUME NEW piece \in Seq(DOMAIN text) PROVE Bytes(text, piece) = Weight(w, piece)
    <3>1. Chars(text, piece) = Weight(CharsOf(text), piece) /\ Bytes(text, piece) = Weight(BytesOf(text), piece)
      BY PiecesWeigh
    <3>. QED
      BY <3>1 DEF w
  <2>. QED
    BY <2>1
<1>13. ASSUME NEW i \in 1..M
       PROVE  r.slices[i].start = Sums(v)[i - 1] /\ r.slices[i].bytes = v[i]
  <2>1. i - 1 \in 0..M
    OBVIOUS
  <2>2. /\ r.slices[i].start = Bytes(text, Joins(slices)[i - 1])
        /\ r.slices[i].bytes = Bytes(text, slices[i])
    BY <1>5, <1>7
  <2>. QED
    BY <1>6, <1>7, <1>8, <1>9, <1>11, <1>12, <2>1, <2>2
<1>14. /\ Sums(v)[0] = 0 /\ Sums(v) \in [0..M -> Nat]
       /\ \A n \in 1..M : Sums(v)[n] = Sums(v)[n - 1] + v[n]
  <2>1. /\ Sums(v) \in [0..Len(v) -> Nat] /\ Sums(v)[0] = 0
        /\ \A n \in 1..Len(v) : Sums(v)[n] = Sums(v)[n - 1] + v[n]
    BY <1>8, SumsFacts
  <2>. QED
    BY <1>10, <2>1
<1>15. DOMAIN r.slices = 1..M
  BY <1>5, <1>7
<1>16. Len(r.slices) = M
  <2>1. r.slices \in [1..M -> {r.slices[i] : i \in 1..M}]
    BY <1>5, <1>7
  <2>. QED
    BY <2>1, FunctionIsSeq
<1>17. M # 0
  BY <1>2, <1>3, <1>4, <1>6
<1>18. Total([i \in DOMAIN r.slices |-> r.slices[i].bytes]) = r.total
  <2>1. [i \in DOMAIN r.slices |-> r.slices[i].bytes] = v
    <3>1. DOMAIN v = 1..M /\ v = [i \in DOMAIN v |-> v[i]]
      BY <1>8, <1>10, LenProperties
    <3>. QED
      BY <1>13, <1>15, <3>1
  <2>2. Total(v) = Sums(v)[M]
    BY <1>10 DEF Total
  <2>3. Sums(v)[M] = Weight(w, Joins(slices)[M])
    BY <1>6, <1>8
  <2>4. Joins(slices)[M] = Whole(text)
    BY <1>1, <1>6 DEF Joined
  <2>5. Weight(w, Whole(text)) = Bytes(text, Whole(text))
    BY <1>11, <1>12, <2>4
  <2>. QED
    BY <1>5, <2>1, <2>2, <2>3, <2>4, <2>5
<1>19. r.slices # <<>> /\ r.slices[1].start = 0
  <2>1. 1 \in 1..M /\ 1 - 1 = 0
    BY <1>17
  <2>2. r.slices[1].start = Sums(v)[1 - 1]
    BY <1>13, <2>1
  <2>3. r.slices # <<>>
    BY <1>15, <2>1
  <2>. QED
    BY <1>14, <2>1, <2>2, <2>3
<1>20. ASSUME NEW i \in 1..(Len(r.slices) - 1)
       PROVE  r.slices[i + 1].start = r.slices[i].start + r.slices[i].bytes
  <2>1. i \in 1..M /\ i + 1 \in 1..M /\ (i + 1) - 1 = i
    BY <1>16
  <2>2. r.slices[i + 1].start = Sums(v)[i]
    BY <1>13, <2>1
  <2>. QED
    BY <1>13, <1>14, <2>1, <2>2
<1>. QED
  BY <1>18, <1>19, <1>20 DEF Contiguous

-----------------------------------------------------------------------------
(* Every receipt is of a cut.                                               *)

Cutting == {"asking", "verdict", "signed"}

\* r records the cut of its head's diff, and a valid answer for every slice.
RecordsCut(r) ==
  LET d      == diff[r.head]
      text   == Packet(r.head)
      slices == Slices(text, d)
  IN /\ r.head \in Heads /\ IsCut(d)
     /\ r.aggregate = text /\ r.total = Bytes(text, Whole(text))
     /\ \E answers \in [1..Len(slices) -> SliceAnswers] :
          /\ r.slices = Records(text, d, slices, answers)
          /\ r.verdict = "APPROVE" => ~Blocked(answers, r)

CutInv ==
  /\ diff \in [Heads -> Diffs]
  /\ review.head \in Heads
  /\ review.answers \in Seq(SliceAnswers)
  /\ review.step \in Cutting =>
       /\ IsCut(diff[review.head])
       /\ review.slices = Slices(Packet(review.head), diff[review.head])
  /\ \A r \in receipts : RecordsCut(r)

LEMMA CutInit == Init => CutInv
<1>. SUFFICES ASSUME Init PROVE CutInv
  OBVIOUS
<1>1. review.answers = <<>> /\ review.step = "idle" /\ review.head \in Heads
  BY DEF Init
<1>2. <<>> \in Seq(SliceAnswers)
  BY EmptySeq
<1>. QED
  BY <1>1, <1>2 DEF Init, CutInv, Cutting

\* Receipts are judged by the diffs, and those do not change.
LEMMA RecordsStay ==
  ASSUME CutInv, UNCHANGED diff
  PROVE  \A r \in receipts : RecordsCut(r)'
<1>1. ASSUME NEW r, RecordsCut(r) PROVE RecordsCut(r)'
  BY <1>1 DEF RecordsCut, Packet
<1>. QED
  BY <1>1 DEF CutInv

\* A step after which the reviewer has no slices.
LEMMA UncutKeeps ==
  ASSUME CutInv, UNCHANGED <<diff, receipts>>, review'.step \notin Cutting,
         review'.head \in Heads, review'.answers \in Seq(SliceAnswers)
  PROVE  CutInv'
<1>1. \A r \in receipts : RecordsCut(r)'
  BY RecordsStay
<1>2. \A r \in receipts' : RecordsCut(r)'
  BY <1>1
<1>. QED
  BY <1>2 DEF CutInv

\* A step that keeps the slices.
LEMMA CutStays ==
  ASSUME CutInv, UNCHANGED diff, review.step \in Cutting,
         review'.head = review.head, review'.slices = review.slices,
         review'.answers \in Seq(SliceAnswers), \A r \in receipts' : RecordsCut(r)'
  PROVE  CutInv'
  BY DEF CutInv, Packet

LEMMA BuildPacketCuts ==
  ASSUME CutInv, NEW h \in Heads, BuildPacket(h)
  PROVE  CutInv'
<1>1. review'.step = "packed" /\ review'.head = h /\ review'.answers = <<>>
  BY DEF BuildPacket
<1>2. <<>> \in Seq(SliceAnswers)
  BY EmptySeq
<1>3. UNCHANGED <<diff, receipts>>
  BY DEF BuildPacket
<1>. QED
  BY <1>1, <1>2, <1>3, UncutKeeps DEF Cutting

LEMMA CutSlicesCuts == IInv /\ CutInv /\ CutSlices => CutInv'
<1>. SUFFICES ASSUME IInv, CutInv, CutSlices PROVE CutInv'
  OBVIOUS
<1>. DEFINE d == diff[review.head]
            text == Packet(review.head)
            slices == Slices(text, d)
<1>1. DOMAIN review = ReviewFields /\ UNCHANGED <<diff, receipts>>
  BY DEF IInv, CutSlices
<1>2. CASE /\ HasAllSections(text, d) /\ Reconstructs(text, slices)
           /\ review' = [review EXCEPT !.step = "asking", !.slices = slices]
  <2>1. /\ review'.step = "asking" /\ review'.slices = slices
        /\ review'.head = review.head /\ review'.answers = review.answers
    BY <1>1, <1>2 DEF ReviewFields
  <2>2. IsCut(d)
    BY <1>2 DEF IsCut, Packet
  <2>3. \A r \in receipts' : RecordsCut(r)'
    BY <1>1, RecordsStay
  <2>4. IsCut(diff[review.head])' /\ review'.slices = Slices(Packet(review.head), diff[review.head])'
    BY <1>1, <2>1, <2>2 DEF Packet, IsCut
  <2>. QED
    BY <1>1, <2>1, <2>3, <2>4 DEF CutInv
<1>3. CASE review' = [review EXCEPT !.step = "failed"]
  <2>1. /\ review'.step = "failed"
        /\ review'.head = review.head /\ review'.answers = review.answers
    BY <1>1, <1>3 DEF ReviewFields
  <2>2. review'.head \in Heads /\ review'.answers \in Seq(SliceAnswers)
    BY <2>1 DEF CutInv
  <2>. QED
    BY <1>1, <2>1, <2>2, UncutKeeps DEF Cutting
<1>. QED
  BY <1>2, <1>3 DEF CutSlices

LEMMA AskSliceCuts == IInv /\ CutInv /\ AskSlice => CutInv'
<1>. SUFFICES ASSUME IInv, CutInv, AskSlice PROVE CutInv'
  OBVIOUS
<1>1. PICK a \in SliceAnswers : review' = [review EXCEPT !.answers = Append(review.answers, a)]
  BY DEF AskSlice
<1>2. /\ review.step = "asking" /\ review'.slices = review.slices
      /\ review'.head = review.head /\ review'.answers = Append(review.answers, a)
  BY <1>1 DEF AskSlice, IInv, ReviewFields
<1>3. review.answers \in Seq(SliceAnswers)
  BY DEF CutInv
<1>4. review'.answers \in Seq(SliceAnswers)
  BY <1>2, <1>3, AppendProperties
<1>5. UNCHANGED <<diff, receipts>>
  BY DEF AskSlice
<1>6. \A r \in receipts' : RecordsCut(r)'
  BY <1>5, RecordsStay
<1>. QED
  BY <1>2, <1>4, <1>5, <1>6, CutStays DEF Cutting

LEMMA SynthesizeCuts == IInv /\ CutInv /\ Synthesize => CutInv'
<1>. SUFFICES ASSUME IInv, CutInv, Synthesize PROVE CutInv'
  OBVIOUS
<1>1. PICK final \in FinalAnswers :
        \/ review' = [review EXCEPT !.step = "verdict", !.final = final]
        \/ review' = [review EXCEPT !.step = "failed"]
  BY DEF Synthesize
<1>2. /\ review.step = "asking" /\ review'.slices = review.slices
      /\ review'.head = review.head /\ review'.answers = review.answers
  BY <1>1 DEF Synthesize, IInv, ReviewFields
<1>3. review'.answers \in Seq(SliceAnswers)
  BY <1>2 DEF CutInv
<1>4. UNCHANGED <<diff, receipts>>
  BY DEF Synthesize
<1>5. \A r \in receipts' : RecordsCut(r)'
  BY <1>4, RecordsStay
<1>. QED
  BY <1>2, <1>3, <1>4, <1>5, CutStays DEF Cutting

LEMMA FailReviewCuts == IInv /\ CutInv /\ FailReview => CutInv'
<1>. SUFFICES ASSUME IInv, CutInv, FailReview PROVE CutInv'
  OBVIOUS
<1>1. /\ review'.step = "failed"
      /\ review'.head = review.head /\ review'.answers = review.answers
  BY DEF FailReview, IInv, ReviewFields
<1>2. review'.head \in Heads /\ review'.answers \in Seq(SliceAnswers)
  BY <1>1 DEF CutInv
<1>. QED
  BY <1>1, <1>2, UncutKeeps DEF Cutting, FailReview

\* What is signed is the cut, with the answers that were given.
LEMMA SignReceiptCuts == IInv /\ CutInv /\ SignReceipt => CutInv'
<1>. SUFFICES ASSUME IInv, CutInv, SignReceipt PROVE CutInv'
  OBVIOUS
<1>. DEFINE d == diff[review.head]
            text == Packet(review.head)
            slices == Slices(text, d)
<1>1. /\ review.step = "verdict" /\ review'.slices = review.slices
      /\ review'.head = review.head /\ review'.answers = review.answers
  BY DEF SignReceipt, IInv, ReviewFields
<1>2. /\ IsCut(d) /\ review.slices = slices /\ review.head \in Heads
      /\ review.answers \in Seq(SliceAnswers)
  BY <1>1 DEF CutInv, Cutting
<1>3. /\ Len(review.answers) = Len(slices)
      /\ review.final.verdict = "APPROVE" => ~Blocked(review.answers, review.final)
  BY <1>1, <1>2 DEF IInv, VerdictStands, Reviewed
<1>4. review.answers \in [1..Len(slices) -> SliceAnswers]
  BY <1>2, <1>3, LenProperties
<1>5. /\ Receipt.head = review.head /\ Receipt.verdict = review.final.verdict
      /\ Receipt.abstained = review.final.abstained
      /\ Receipt.findings = review.final.findings
      /\ Receipt.aggregate = text /\ Receipt.total = Bytes(text, Whole(text))
      /\ Receipt.slices = Records(text, d, review.slices, review.answers)
  BY DEF Receipt
<1>6. Receipt.verdict = "APPROVE" => ~Blocked(review.answers, Receipt)
  BY <1>3, <1>5 DEF Blocked
<1>7. RecordsCut(Receipt)
  <2>1. Receipt.slices = Records(text, d, slices, review.answers)
    BY <1>2, <1>5
  <2>. HIDE DEF slices
  <2>. QED
    BY <1>2, <1>4, <1>5, <1>6, <2>1 DEF RecordsCut, slices
<1>8. UNCHANGED diff /\ receipts' = receipts \cup {Receipt}
  BY DEF SignReceipt
<1>9. \A r \in receipts' : RecordsCut(r)'
  <2>1. PICK q : q = Receipt
    OBVIOUS
  <2>2. RecordsCut(q)'
    <3>1. RecordsCut(q)
      BY <1>7, <2>1
    <3>. QED
      BY <1>8, <3>1 DEF RecordsCut, Packet
  <2>3. \A r \in receipts : RecordsCut(r)'
    BY <1>8, RecordsStay
  <2>. QED
    BY <1>8, <2>1, <2>2, <2>3
<1>10. review'.answers \in Seq(SliceAnswers) /\ review.step \in Cutting
  BY <1>1, <1>2 DEF Cutting
<1>. QED
  BY <1>1, <1>8, <1>9, <1>10, CutStays

\* Everybody else leaves the reviewer alone.
LEMMA OthersCut ==
  ASSUME CutInv, UNCHANGED <<diff, reviewer>>
  PROVE  CutInv'
<1>1. \A r \in receipts' : RecordsCut(r)'
  BY RecordsStay DEF reviewer
<1>. QED
  BY <1>1 DEF CutInv, reviewer, Packet

\* Every signed receipt records the cut of its own head's diff and an answer
\* for every slice of it, and an approval is not blocked by any of them.
THEOREM CutInductive == Spec => []CutInv
<1>1. IInv /\ CutInv /\ [Next]_vars => CutInv'
  <2>. SUFFICES ASSUME IInv, CutInv, [Next]_vars PROVE CutInv'
    OBVIOUS
  <2>1. CASE ReviewStep
    BY <2>1, CutSlicesCuts, AskSliceCuts, SynthesizeCuts, SignReceiptCuts, FailReviewCuts
       DEF ReviewStep
  <2>2. CASE AdmissionStep
    BY <2>2, OthersCut
       DEF AdmissionStep, VerifyHead, Admit, Publish, PublishTimesOut, DenyDispatch, reviewer
  <2>3. ASSUME NEW h \in Heads, BuildPacket(h) PROVE CutInv'
    BY <2>3, BuildPacketCuts
  <2>4. ASSUME NEW h \in Heads, MovePr(h) PROVE CutInv'
    BY <2>4, OthersCut DEF MovePr, reviewer
  <2>5. ASSUME NEW h \in Heads, NEW r \in receipts, Dispatch(r, h) PROVE CutInv'
    BY <2>5, OthersCut DEF Dispatch, reviewer
  <2>6. ASSUME NEW c \in late, LatePublish(c) PROVE CutInv'
    BY <2>6, OthersCut DEF LatePublish, reviewer
  <2>7. CASE UNCHANGED vars
    BY <2>7, OthersCut DEF vars, reviewer
  <2>. QED
    BY <2>1, <2>2, <2>3, <2>4, <2>5, <2>6, <2>7 DEF Next
<1>. QED
  BY <1>1, CutInit, Inductive, PTL DEF Spec

\* A receipt that records a cut, and what it records of it.
LEMMA ReceiptFacts ==
  ASSUME CutInv, NEW r \in receipts
  PROVE  LET d      == diff[r.head]
             text   == SourceDiff(d)
             slices == Slices(text, d)
         IN /\ d \in Diffs /\ IsCut(d)
            /\ r.aggregate = text /\ r.total = Bytes(text, Whole(text))
            /\ DOMAIN r.slices = 1..Len(slices)
            /\ \A s \in 1..Len(slices) :
                 /\ r.slices[s].lines = slices[s]
                 /\ r.slices[s].paths = SlicePaths(text, d, slices[s])
            /\ \E answers \in [1..Len(slices) -> SliceAnswers] :
                 /\ r.slices = Records(text, d, slices, answers)
                 /\ r.verdict = "APPROVE" => ~Blocked(answers, r)
<1>. DEFINE d == diff[r.head]
            text == SourceDiff(d)
            slices == Slices(text, d)
<1>1. /\ r.head \in Heads /\ IsCut(d)
      /\ r.aggregate = text /\ r.total = Bytes(text, Whole(text))
      /\ \E answers \in [1..Len(slices) -> SliceAnswers] :
           /\ r.slices = Records(text, d, slices, answers)
           /\ r.verdict = "APPROVE" => ~Blocked(answers, r)
  BY DEF CutInv, RecordsCut, Packet
<1>2. d \in Diffs
  BY <1>1 DEF CutInv
<1>3. slices \in Seq(Seq(DOMAIN text))
  BY <1>1, <1>2, CutFacts
<1>. HIDE DEF slices, text
<1>4. DOMAIN slices = 1..Len(slices)
  BY <1>3, LenProperties
<1>5. PICK answers \in [1..Len(slices) -> SliceAnswers] :
        r.slices = Records(text, d, slices, answers)
  BY <1>1
<1>6. /\ DOMAIN r.slices = 1..Len(slices)
      /\ \A s \in 1..Len(slices) : /\ r.slices[s].lines = slices[s]
                                   /\ r.slices[s].paths = SlicePaths(text, d, slices[s])
  BY <1>4, <1>5 DEF Records
<1>. QED
  BY <1>1, <1>2, <1>6 DEF slices, text

\* Only a single line is ever shown to the model beyond the budget.
THEOREM OversizedIsOneLine == Spec => []OverflowIsOneLine
<1>1. CutInv => OverflowIsOneLine
  <2>. SUFFICES ASSUME CutInv, NEW r \in receipts, NEW s \in DOMAIN r.slices,
                       Chars(r.aggregate, r.slices[s].lines) > Budget
                PROVE  Len(r.slices[s].lines) = 1
    BY DEF OverflowIsOneLine
  <2>. DEFINE d == diff[r.head]
              text == SourceDiff(d)
              slices == Slices(text, d)
  <2>1. /\ d \in Diffs /\ IsCut(d) /\ r.aggregate = text
        /\ DOMAIN r.slices = 1..Len(slices)
        /\ \A k \in 1..Len(slices) : r.slices[k].lines = slices[k]
    BY ReceiptFacts
  <2>2. /\ slices \in Seq(Seq(DOMAIN text))
        /\ \A k \in 1..Len(slices) : Bounded(text, slices[k])
    BY <2>1, CutFacts
  <2>3. CharsOf(text) \in [DOMAIN text -> Nat]
    BY <2>1, SourceFacts, TextFacts
  <2>. HIDE DEF text, slices
  <2>4. PICK piece \in Seq(DOMAIN text) : piece = slices[s]
    BY <2>1, <2>2, ElementOfSeq
  <2>5. Chars(text, piece) \in Nat
    <3>1. Weight(CharsOf(text), piece) \in Nat
      BY <2>3, WeightsAreNat
    <3>. QED
      BY <3>1, PiecesWeigh
  <2>6. Chars(text, piece) > Budget /\ Bounded(text, piece)
    BY <2>1, <2>2, <2>4
  <2>. QED
    BY <2>1, <2>4, <2>5, <2>6, BudgetAssumption DEF Bounded
<1>. QED
  BY <1>1, CutInductive, PTL

\* Every line of every file to review was in exactly one slice the model was
\* shown, recorded under the file's path, whatever headers the lines quote.
THEOREM CoverageTruthful == Spec => []CoverageIsTruthful
<1>1. CutInv => CoverageIsTruthful
  <2>. SUFFICES ASSUME CutInv, NEW r \in receipts,
                       NEW i \in DOMAIN FullDiff(diff[r.head]),
                       NEW n \in DOMAIN FullDiff(diff[r.head])[i].lines
                PROVE  \E s \in DOMAIN r.slices :
                         /\ Holds(r.slices[s].lines, Len(Joins(Blocks(diff[r.head]))[i - 1]) + n)
                         /\ FullDiff(diff[r.head])[i].path \in r.slices[s].paths
                         /\ \A t \in DOMAIN r.slices \ {s} :
                              ~Holds(r.slices[t].lines,
                                     Len(Joins(Blocks(diff[r.head]))[i - 1]) + n)
    BY DEF CoverageIsTruthful, Blocks
  <2>. DEFINE d == diff[r.head]
              text == SourceDiff(d)
              slices == Slices(text, d)
  <2>1. /\ d \in Diffs /\ IsCut(d)
        /\ DOMAIN r.slices = 1..Len(slices)
        /\ \A s \in 1..Len(slices) :
             /\ r.slices[s].lines = slices[s]
             /\ r.slices[s].paths = SlicePaths(text, d, slices[s])
    BY ReceiptFacts
  <2>2. \A x \in DOMAIN FullDiff(d) : \A k \in DOMAIN FullDiff(d)[x].lines :
          \E s \in 1..Len(slices) :
            /\ Holds(slices[s], Ends(Blocks(d))[x - 1] + k)
            /\ FullDiff(d)[x].path \in SlicePaths(text, d, slices[s])
            /\ \A t \in (1..Len(slices)) \ {s} : ~Holds(slices[t], Ends(Blocks(d))[x - 1] + k)
    BY <2>1, CutCovers
  <2>3. Len(Joins(Blocks(d))[i - 1]) = Ends(Blocks(d))[i - 1]
    <3>1. /\ Len(FullDiff(d)) \in Nat /\ DOMAIN FullDiff(d) = 1..Len(FullDiff(d))
          /\ Len(Blocks(d)) = Len(FullDiff(d))
      BY <2>1, FullDiffFacts, BlocksFacts
    <3>2. i - 1 \in 0..Len(Blocks(d))
      BY <3>1
    <3>. QED
      BY <3>2 DEF Ends
  <2>. HIDE DEF d, text, slices
  <2>4. PICK s \in 1..Len(slices) :
          /\ Holds(slices[s], Ends(Blocks(d))[i - 1] + n)
          /\ FullDiff(d)[i].path \in SlicePaths(text, d, slices[s])
          /\ \A t \in (1..Len(slices)) \ {s} : ~Holds(slices[t], Ends(Blocks(d))[i - 1] + n)
    BY <2>2 DEF d
  <2>. QED
    BY <2>1, <2>3, <2>4 DEF d
<1>. QED
  BY <1>1, CutInductive, PTL

\* The answers behind the records of an approval do not object.
LEMMA AnswersBehind ==
  ASSUME CutInv, NEW r \in receipts, r.verdict = "APPROVE", NEW s \in DOMAIN r.slices
  PROVE  ~Objects(r.slices[s].response)
<1>. DEFINE d == diff[r.head]
            text == SourceDiff(d)
            slices == Slices(text, d)
<1>1. /\ d \in Diffs /\ IsCut(d)
      /\ \E answers \in [1..Len(slices) -> SliceAnswers] :
           /\ r.slices = Records(text, d, slices, answers)
           /\ r.verdict = "APPROVE" => ~Blocked(answers, r)
  BY ReceiptFacts
<1>2. slices \in Seq(Seq(DOMAIN text))
  BY <1>1, CutFacts
<1>. HIDE DEF text, slices, d
<1>3. DOMAIN slices = 1..Len(slices)
  BY <1>2, LenProperties
<1>4. PICK answers \in [1..Len(slices) -> SliceAnswers] :
        r.slices = Records(text, d, slices, answers) /\ ~Blocked(answers, r)
  BY <1>1
<1>5. s \in DOMAIN answers /\ r.slices[s].response = answers[s]
  BY <1>3, <1>4 DEF Records
<1>6. answers[s] \in Answered(answers)
  BY <1>5 DEF Answered
<1>7. answers[s].findings \subseteq SliceFindings(answers)
  BY <1>6 DEF SliceFindings
<1>8. ~Objects(answers[s])
  BY <1>4, <1>6, <1>7 DEF Blocked, High, Objects
<1>. QED
  BY <1>5, <1>8

\* Under a successful check every line of its head that is to be reviewed was
\* put to the model, and no answer of that review objected: the reviewer keeps
\* no approval against one, and the gate lets only the head's own diff through.
THEOREM NothingObjected == Spec => []NoObjectionIsLost
<1>1. IInv /\ CutInv /\ CoverageIsTruthful => NoObjectionIsLost
  <2>. SUFFICES ASSUME IInv, CutInv, CoverageIsTruthful, NEW c \in checks
                PROVE  LET r    == c.receipt
                           full == FullDiff(diff[c.head])
                       IN /\ \A s \in DOMAIN r.slices : ~Objects(r.slices[s].response)
                          /\ \A i \in DOMAIN full : \A n \in DOMAIN full[i].lines :
                               LET before == Len(Joins([j \in DOMAIN full |-> full[j].lines])[i - 1])
                               IN \E s \in DOMAIN r.slices : Holds(r.slices[s].lines, before + n)
    BY DEF NoObjectionIsLost
  <2>1. c.receipt \in receipts /\ c.receipt.head = c.head /\ c.receipt.verdict = "APPROVE"
    BY DEF IInv, ChecksPassed, Passed, Admissible
  <2>2. \A s \in DOMAIN c.receipt.slices : ~Objects(c.receipt.slices[s].response)
    BY <2>1, AnswersBehind
  <2>. QED
    BY <2>1, <2>2 DEF CoverageIsTruthful
<1>. QED
  BY <1>1, Inductive, CutInductive, CoverageTruthful, PTL

\* A diff that is all text is decoded to itself.
LEMMA DecodedToItself ==
  ASSUME NEW d \in Diffs, \A f \in DOMAIN d : \A n \in DOMAIN d[f].lines : d[f].lines[n].valid
  PROVE  SourceDiff(d) = Joined(Blocks(d))
<1>. DEFINE git == Joined(Blocks(d))
            text == SourceDiff(d)
<1>1. Blocks(d) \in Seq(Seq(LinesOf(d))) /\ \A l \in LinesOf(d) : IsLine(l)
  BY BlocksFacts
<1>2. git \in Seq(LinesOf(d))
  BY <1>1, JoinedIsSeq
<1>3. /\ IsText(text) /\ Len(text) = Len(git)
      /\ \A n \in 1..Len(text) : text[n] = [git[n] EXCEPT !.valid = TRUE]
  BY SourceFacts
<1>4. \A l \in LinesOf(d) : l.valid
  <2>1. \A f \in FilesOf(d) : \A n \in DOMAIN f.lines : f.lines[n].valid
    BY DEF FilesOf
  <2>. QED
    BY <2>1 DEF LinesOf
<1>5. ASSUME NEW l \in LinesOf(d) PROVE [l EXCEPT !.valid = TRUE] = l
  <2>1. IsLine(l) /\ l.valid
    BY <1>1, <1>4
  <2>2. l.valid \in {TRUE}
    BY <2>1 DEF IsLine
  <2>. DEFINE Like == [mark : {l.mark}, chars : {l.chars}, bytes : {l.bytes}, valid : {TRUE}]
              k == [l EXCEPT !.valid = TRUE]
  <2>3. l = [mark |-> l.mark, chars |-> l.chars, bytes |-> l.bytes, valid |-> l.valid]
    BY <2>1 DEF IsLine
  <2>4. l \in Like
    BY <2>2, <2>3
  <2>5. k \in Like
    BY <2>4
  <2>6. k = [mark |-> k.mark, chars |-> k.chars, bytes |-> k.bytes, valid |-> k.valid]
    <3>1. ASSUME NEW m \in Like
          PROVE  m = [mark |-> m.mark, chars |-> m.chars, bytes |-> m.bytes, valid |-> m.valid]
      BY <3>1
    <3>. HIDE DEF Like, k
    <3>. QED
      BY <2>5, <3>1
  <2>7. k.mark = l.mark /\ k.chars = l.chars /\ k.bytes = l.bytes
    BY <2>5
  <2>8. k.valid \in {TRUE}
    BY <2>5
  <2>. HIDE DEF k
  <2>9. k.valid = l.valid
    BY <2>2, <2>8
  <2>10. k = l
    BY <2>3, <2>6, <2>7, <2>9
  <2>. QED
    BY <2>10 DEF k
<1>6. DOMAIN text = 1..Len(text) /\ text = [n \in 1..Len(text) |-> text[n]]
  BY <1>3, LenProperties DEF IsText
<1>7. DOMAIN git = 1..Len(git) /\ git = [n \in 1..Len(git) |-> git[n]]
  BY <1>2, LenProperties
<1>. HIDE DEF text, git
<1>8. \A n \in 1..Len(git) : text[n] = git[n]
  BY <1>2, <1>3, <1>5, ElementOfSeq
<1>9. text = git
  BY <1>3, <1>6, <1>7, <1>8
<1>. QED
  BY <1>9 DEF text, git

\* An approval of a diff of text, with something to review, passes the gate's
\* independent accounting: the reviewer and the gate agree.
THEOREM ApprovalAdmittable == Spec => []ApprovalIsAdmittable
<1>1. CutInv => ApprovalIsAdmittable
  <2>. SUFFICES ASSUME CutInv, NEW r \in receipts,
                       r.verdict = "APPROVE", FullDiff(diff[r.head]) # <<>>,
                       \A f \in DOMAIN diff[r.head] : \A n \in DOMAIN diff[r.head][f].lines :
                         diff[r.head][f].lines[n].valid
                PROVE  Accepts(r, r.head)
    BY DEF ApprovalIsAdmittable
  <2>. DEFINE d == diff[r.head]
              text == SourceDiff(d)
              slices == Slices(text, d)
              named == UNION {r.slices[i].paths : i \in DOMAIN r.slices}
  <2>1. /\ d \in Diffs /\ IsCut(d)
        /\ r.aggregate = text /\ r.total = Bytes(text, Whole(text))
        /\ DOMAIN r.slices = 1..Len(slices)
        /\ \A s \in 1..Len(slices) :
             /\ r.slices[s].lines = slices[s]
             /\ r.slices[s].paths = SlicePaths(text, d, slices[s])
        /\ \E answers \in [1..Len(slices) -> SliceAnswers] :
             /\ r.slices = Records(text, d, slices, answers)
             /\ r.verdict = "APPROVE" => ~Blocked(answers, r)
    BY ReceiptFacts
  <2>2. PICK answers \in [1..Len(slices) -> SliceAnswers] :
          r.slices = Records(text, d, slices, answers) /\ ~Blocked(answers, r)
    BY <2>1
  <2>3. Contiguous(r)
    BY <2>1, <2>2, CutIsContiguous
  <2>4. /\ Blocks(d) \in Seq(Seq(LinesOf(d)))
        /\ \A i \in 1..Len(FullDiff(d)) :
             /\ Blocks(d)[i] = FullDiff(d)[i].lines
             /\ 1 \in 1..Len(Blocks(d)[i]) /\ Len(Blocks(d)) = Len(FullDiff(d))
    BY <2>1, BlocksFacts
  <2>5. /\ FullDiff(d) \in Seq(FilesOf(d)) /\ Len(FullDiff(d)) \in Nat
        /\ DOMAIN FullDiff(d) = 1..Len(FullDiff(d))
        /\ GitDiff(d, PathsOf(FullDiff(d))) = Joined(Blocks(d))
    BY <2>1, FullDiffFacts
  <2>6. \A x \in DOMAIN FullDiff(d) : \A k \in DOMAIN FullDiff(d)[x].lines :
          \E s \in 1..Len(slices) :
            /\ Holds(slices[s], Ends(Blocks(d))[x - 1] + k)
            /\ FullDiff(d)[x].path \in SlicePaths(text, d, slices[s])
            /\ \A t \in (1..Len(slices)) \ {s} : ~Holds(slices[t], Ends(Blocks(d))[x - 1] + k)
    BY <2>1, CutCovers
  <2>7. SourceDiff(d) = Joined(Blocks(d))
    BY <2>1, DecodedToItself
  <2>. HIDE DEF d, text, slices, named
  <2>8. \A x \in DOMAIN FullDiff(d) : FullDiff(d)[x].path \in named
    <3>1. ASSUME NEW x \in DOMAIN FullDiff(d) PROVE 1 \in DOMAIN FullDiff(d)[x].lines
      <4>1. PICK q \in Seq(LinesOf(d)) : q = Blocks(d)[x]
        BY <2>4, <2>5, <3>1, ElementOfSeq
      <4>2. DOMAIN q = 1..Len(q)
        BY LenProperties
      <4>. QED
        BY <2>4, <2>5, <3>1, <4>1, <4>2
    <3>2. ASSUME NEW x \in DOMAIN FullDiff(d)
          PROVE  \E s \in 1..Len(slices) : FullDiff(d)[x].path \in SlicePaths(text, d, slices[s])
      BY <2>6, <3>1, <3>2
    <3>. QED
      BY <2>1, <3>2 DEF named
  <2>9. named = PathsOf(FullDiff(d))
    <3>1. \A s \in 1..Len(slices) : SlicePaths(text, d, slices[s]) \subseteq PathsOf(FullDiff(d))
      BY DEF SlicePaths
    <3>2. named \subseteq PathsOf(FullDiff(d))
      BY <2>1, <3>1 DEF named
    <3>. QED
      BY <2>8, <3>2 DEF PathsOf
  <2>10. named # {}
    <3>1. Len(FullDiff(d)) # 0
      BY <2>5, EmptySeq DEF d
    <3>2. 1 \in DOMAIN FullDiff(d)
      BY <2>5, <3>1
    <3>. QED
      BY <2>8, <3>2
  <2>11. r.aggregate = ClaimedDiff(r, r.head)
    <3>1. ClaimedDiff(r, r.head) = GitDiff(d, IF named = {} THEN PathsOf(d) ELSE named)
      BY DEF ClaimedDiff, d, named
    <3>. QED
      BY <2>1, <2>5, <2>7, <2>9, <2>10, <3>1 DEF text
  <2>12. Admissible(r)
    <3>1. ~r.abstained /\ High(r.findings) = {}
      BY <2>2 DEF Blocked
    <3>2. ASSUME NEW i \in DOMAIN r.slices
          PROVE  r.slices[i].status # "FAIL" /\ ~r.slices[i].abstained
      <4>1. DOMAIN answers = 1..Len(slices) /\ i \in DOMAIN answers
        BY <2>1
      <4>2. answers[i] \in Answered(answers)
        BY <4>1 DEF Answered
      <4>3. answers[i].status # "FAIL" /\ ~answers[i].abstained
        BY <2>2, <4>2 DEF Blocked
      <4>4. i \in DOMAIN slices
        BY <2>2 DEF Records
      <4>5. r.slices[i].status = answers[i].status /\ r.slices[i].abstained = answers[i].abstained
        BY <2>2, <4>4 DEF Records
      <4>. QED
        BY <4>3, <4>5
    <3>. QED
      BY <3>1, <3>2 DEF Admissible
  <2>. QED
    BY <2>3, <2>11, <2>12 DEF Accepts
<1>. QED
  BY <1>1, CutInductive, PTL


-----------------------------------------------------------------------------
(* Types.                                                                   *)

Unasked == review.step = "packed" => review.answers = <<>>

LEMMA CutIsSeq ==
  ASSUME CutInv, review.step \in Cutting
  PROVE  Len(review.slices) \in Nat
<1>. DEFINE d == diff[review.head]
            text == Packet(review.head)
<1>1. d \in Diffs /\ review.slices = Slices(text, d) /\ text = SourceDiff(d)
  BY DEF CutInv, Packet
<1>2. IsText(text) /\ FullDiff(d) \in Seq(FilesOf(d))
  BY <1>1, SourceFacts, FullDiffFacts
<1>3. Slices(text, d) \in Seq(Seq(DOMAIN text))
  <2>1. PICK t : t = text
    OBVIOUS
  <2>2. Slices(t, d) \in Seq(Seq(DOMAIN t))
    BY <1>2, <2>1, SlicesFacts
  <2>. QED
    BY <2>1, <2>2
<1>. QED
  BY <1>1, <1>3, LenProperties

\* What the reviewer has, of its review and of its receipts.
ReviewTypes ==
  /\ review.step \in ReviewSteps /\ review.head \in Heads
  /\ Len(review.answers) <= Len(review.slices)
  /\ review.final = NoReceipt \/ review.final \in FinalAnswers
  /\ Unasked

DispatchTypes ==
  /\ dispatch.step \in DispatchSteps /\ dispatch.head \in Heads
  /\ dispatch.receipt = NoReceipt \/ dispatch.receipt \in receipts
  /\ \A c \in checks \cup late : c.head \in Heads /\ c.receipt \in receipts

LEMMA ReviewerKeepsTypes ==
  ASSUME IInv, CutInv, ReviewTypes, ReviewStep
  PROVE  ReviewTypes'
<1>1. DOMAIN review = ReviewFields /\ review.answers \in Seq(SliceAnswers)
  BY DEF IInv, CutInv
<1>2. CASE CutSlices
  <2>1. review.step = "packed" /\ review.answers = <<>>
    BY <1>2 DEF CutSlices, ReviewTypes, Unasked
  <2>2. PICK s \in {"asking", "failed"} :
          /\ review'.step = s /\ review'.head = review.head
          /\ review'.final = review.final /\ review'.answers = <<>>
    BY <1>1, <1>2, <2>1 DEF CutSlices, ReviewFields
  <2>3. review'.slices = review.slices \/ review'.step = "asking"
    BY <1>1, <1>2 DEF CutSlices, ReviewFields
  <2>4. CutInv'
    BY <1>2, CutSlicesCuts
  <2>5. review'.step = "asking" => Len(review'.slices) \in Nat
    <3>1. (CutInv /\ review.step \in Cutting => Len(review.slices) \in Nat)'
      BY CutIsSeq, PTL
    <3>. QED
      BY <2>4, <3>1 DEF Cutting
  <2>6. Len(review'.answers) <= Len(review'.slices)
    BY <2>1, <2>2, <2>3, <2>5, EmptySeq DEF ReviewTypes
  <2>. QED
    BY <2>2, <2>6 DEF ReviewTypes, ReviewSteps, Unasked
<1>3. CASE AskSlice
  <2>1. PICK a \in SliceAnswers : review' = [review EXCEPT !.answers = Append(review.answers, a)]
    BY <1>3 DEF AskSlice
  <2>2. /\ review.step = "asking" /\ Len(review.answers) < Len(review.slices)
        /\ review'.step = review.step /\ review'.head = review.head
        /\ review'.final = review.final /\ review'.slices = review.slices
        /\ review'.answers = Append(review.answers, a)
    BY <1>1, <1>3, <2>1 DEF AskSlice, ReviewFields
  <2>3. Len(review.slices) \in Nat
    BY <2>2, CutIsSeq DEF Cutting
  <2>4. Len(review.answers) \in Nat /\ Len(review'.answers) = Len(review.answers) + 1
    BY <1>1, <2>2, LenProperties, AppendProperties
  <2>. QED
    BY <2>2, <2>3, <2>4 DEF ReviewTypes, Unasked
<1>4. CASE Synthesize
  <2>1. /\ review'.step \in {"verdict", "failed"} /\ review'.head = review.head
        /\ review'.answers = review.answers /\ review'.slices = review.slices
        /\ review'.final = review.final \/ review'.final \in FinalAnswers
    BY <1>1, <1>4 DEF Synthesize, ReviewFields
  <2>. QED
    BY <2>1 DEF ReviewTypes, ReviewSteps, Unasked
<1>5. CASE SignReceipt \/ FailReview
  <2>1. /\ review'.step \in {"signed", "failed"} /\ review'.head = review.head
        /\ review'.answers = review.answers /\ review'.slices = review.slices
        /\ review'.final = review.final
    BY <1>1, <1>5 DEF SignReceipt, FailReview, ReviewFields
  <2>. QED
    BY <2>1 DEF ReviewTypes, ReviewSteps, Unasked
<1>. QED
  BY <1>2, <1>3, <1>4, <1>5 DEF ReviewStep

LEMMA WorkflowKeepsTypes ==
  ASSUME IInv, DispatchTypes, AdmissionStep
  PROVE  DispatchTypes'
<1>1. DOMAIN dispatch = DispatchFields /\ UNCHANGED receipts
  BY DEF IInv, AdmissionStep, VerifyHead, Admit, Publish, PublishTimesOut, DenyDispatch,
         reviewer
<1>2. /\ dispatch'.step \in DispatchSteps
      /\ dispatch'.head = dispatch.head /\ dispatch'.receipt = dispatch.receipt
  BY <1>1 DEF AdmissionStep, VerifyHead, Admit, Publish, PublishTimesOut, DenyDispatch,
              DispatchFields, DispatchSteps
<1>3. \A c \in (checks \cup late)' : c \in checks \cup late \/ c = Check
  BY DEF AdmissionStep, VerifyHead, Admit, Publish, PublishTimesOut, DenyDispatch
<1>4. dispatch.step = "publish" \/ UNCHANGED <<checks, late>>
  BY DEF AdmissionStep, VerifyHead, Admit, Publish, PublishTimesOut, DenyDispatch
<1>5. dispatch.step = "publish" => dispatch.receipt \in receipts
  BY DEF IInv, ChecksPassed, Passed
<1>6. Check.head = dispatch.head /\ Check.receipt = dispatch.receipt
  BY DEF Check
<1>. QED
  BY <1>1, <1>2, <1>3, <1>4, <1>5, <1>6 DEF DispatchTypes

\* Every variable of reviewer and workflow keeps its type, and there are never
\* more answers than slices.
THEOREM TypeCorrect == Spec => []TypeOK
<1>. DEFINE Types == prHead \in Heads /\ ReviewTypes /\ DispatchTypes
<1>1. Init => Types
  <2>1. Len(<<>>) <= Len(<<>>)
    BY EmptySeq
  <2>. QED
    BY <2>1 DEF Init, ReviewTypes, DispatchTypes, ReviewSteps, DispatchSteps, Unasked
<1>2. IInv /\ CutInv /\ Types /\ [Next]_vars => Types'
  <2>. SUFFICES ASSUME IInv, CutInv, Types, [Next]_vars PROVE Types'
    OBVIOUS
  <2>1. CASE ReviewStep
    <3>1. receipts \subseteq receipts' /\ UNCHANGED <<prHead, dispatch, checks, late>>
      <4>1. CASE CutSlices \/ AskSlice
        BY <4>1 DEF CutSlices, AskSlice, workflow
      <4>2. CASE Synthesize \/ FailReview
        BY <4>2 DEF Synthesize, FailReview, workflow
      <4>3. CASE SignReceipt
        BY <4>3 DEF SignReceipt, workflow
      <4>. QED
        BY <2>1, <4>1, <4>2, <4>3 DEF ReviewStep
    <3>2. DispatchTypes'
      BY <3>1 DEF DispatchTypes
    <3>. QED
      BY <2>1, <3>1, <3>2, ReviewerKeepsTypes
  <2>2. CASE AdmissionStep
    <3>1. UNCHANGED <<prHead, review>>
      BY <2>2 DEF AdmissionStep, VerifyHead, Admit, Publish, PublishTimesOut, DenyDispatch,
                  reviewer
    <3>2. ReviewTypes'
      BY <3>1 DEF ReviewTypes, Unasked
    <3>. QED
      BY <2>2, <3>1, <3>2, WorkflowKeepsTypes
  <2>3. ASSUME NEW h \in Heads, BuildPacket(h) PROVE Types'
    <3>1. /\ review'.step = "packed" /\ review'.head = h /\ review'.slices = <<>>
          /\ review'.answers = <<>> /\ review'.final = NoReceipt
          /\ UNCHANGED <<prHead, receipts, dispatch, checks, late>>
      BY <2>3 DEF BuildPacket, workflow
    <3>2. Len(<<>>) <= Len(<<>>)
      BY EmptySeq
    <3>3. ReviewTypes'
      BY <3>1, <3>2 DEF ReviewTypes, ReviewSteps, Unasked
    <3>. QED
      BY <3>1, <3>3 DEF DispatchTypes
  <2>4. ASSUME NEW h \in Heads, MovePr(h) PROVE Types'
    BY <2>4 DEF MovePr, reviewer, workflow, ReviewTypes, DispatchTypes, Unasked
  <2>5. ASSUME NEW h \in Heads, NEW r \in receipts, Dispatch(r, h) PROVE Types'
    BY <2>5 DEF Dispatch, reviewer, ReviewTypes, DispatchTypes, DispatchSteps, Unasked
  <2>6. ASSUME NEW c \in late, LatePublish(c) PROVE Types'
    BY <2>6 DEF LatePublish, reviewer, ReviewTypes, DispatchTypes, Unasked
  <2>7. CASE UNCHANGED vars
    BY <2>7 DEF vars, ReviewTypes, DispatchTypes, Unasked
  <2>. QED
    BY <2>1, <2>2, <2>3, <2>4, <2>5, <2>6, <2>7 DEF Next
<1>3. Types => TypeOK
  BY DEF ReviewTypes, DispatchTypes, TypeOK
<1>. QED
  BY <1>1, <1>2, <1>3, Inductive, CutInductive, PTL DEF Spec

=============================================================================
