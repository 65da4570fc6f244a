----------------------------- MODULE MCLocalReview -----------------------------
(* Small candidates and small vocabularies of answers for LocalReview.      *)
EXTENDS LocalReview, SequencesExt

Line(mark, chars, bytes) ==
  [mark |-> mark, chars |-> chars, bytes |-> bytes, valid |-> TRUE]
Header(path) == Line(path, 2, 2)
Short == Line(NoMark, 1, 1)
Wide  == Line(NoMark, 2, 3)          \* two characters, three bytes
Long  == Line(NoMark, 6, 6)          \* longer than the budget of 5
Latin == [Short EXCEPT !.valid = FALSE]
Bodies(n) == BoundedSeq({Short, Wide, Long}, n)

Reviewed(path, body) ==
  [path |-> path, class |-> "FULL_DIFF_REVIEWED", lines |-> <<Header(path)>> \o body]
Bound(path) ==
  [path |-> path, class |-> "HASH_BOUND_GENERATED_ARTIFACT",
   lines |-> <<Header(path), Short>>]

\* Two reviewed files of up to four and two lines, with a generated file
\* between them or without.
PlainDiffs ==
  {<<Reviewed("a", x), Reviewed("c", y)>> : x \in Bodies(3), y \in Bodies(1)}
    \cup {<<Reviewed("a", x), Bound("b"), Reviewed("c", y)>> :
            x \in Bodies(1), y \in Bodies(2)}

\* A line of content that quotes the header of another file, of the same
\* file or of none; a header git quotes; a line that is not UTF-8; nothing to
\* review in full; no change.
OddDiffs ==
  {<<Reviewed("a", <<Line(m, 1, 1)>> \o x), Reviewed("c", <<Short>>)>> :
      m \in {"a", "c", "elsewhere"}, x \in Bodies(1)}
    \cup {<<Reviewed("a", <<Short>>), Reviewed("c", <<Line("a", 1, 1)>>)>>,
          <<[Reviewed("a", <<Short>>) EXCEPT !.lines[1] = Line("quoted", 2, 2)]>>,
          <<Reviewed("a", <<Latin>>)>>,
          <<Bound("b")>>,
          <<>>}

SlicingDiffs == PlainDiffs \cup OddDiffs

\* Three slices, one of them over the budget; two candidates that differ in a line.
ThreeSlices == {<<Reviewed("a", <<Short, Long>>), Reviewed("c", <<Wide>>)>>}
TwoCandidates == {<<Reviewed("a", <<Short>>)>>,
                  <<Reviewed("a", <<Wide>>), Bound("b")>>}

Finding(severity, path, title) ==
  [severity |-> severity, path |-> path, title |-> title]
Answer(status, abstained, findings) ==
  [status |-> status, abstained |-> abstained, findings |-> findings]
Final(verdict, abstained, findings) ==
  [verdict |-> verdict, abstained |-> abstained, findings |-> findings]

\* Each field the fail-closed rules read, on its own and next to others.
Minor == Finding("INFO", "c", "two")
Major == Finding("P1", "a", "one")
MixedSlices == {Answer("PASS", FALSE, {Minor}), Answer("PASS", TRUE, {}),
                Answer("FAIL", FALSE, {}), Answer("CONCERN", FALSE, {Major, Minor})}
MixedFinals == {Final("APPROVE", FALSE, {}), Final("APPROVE", TRUE, {}),
                Final("APPROVE", FALSE, {Major}), Final("REQUEST_CHANGES", FALSE, {Major}),
                Final("REJECT", FALSE, {Minor})}

FewSlices == {Answer("PASS", FALSE, {}),
              Answer("FAIL", FALSE, {Finding("P0", "a", "one")})}
FewFinals == {Final("APPROVE", FALSE, {}),
              Final("REQUEST_CHANGES", FALSE, {Finding("P0", "a", "one")})}

=============================================================================
