------------------------------ MODULE DiffSlicing ------------------------------
(***************************************************************************)
(* How the local reviewer cuts a review packet's diff into bounded slices:  *)
(* LocalLlamaCppBackend.review (review_backends), steps 1 to 3, and the     *)
(* classification and diff of build_review_packet (review_packet).          *)
(*                                                                         *)
(* A changed file is [path, class, lines]; a line of a diff is              *)
(* [mark, chars, bytes, valid].  "mark" names the path whose diff header    *)
(* begins in the line, NoMark if none does.  A header that git quotes names *)
(* the path of no file, yet it is not NoMark; a line of content may quote a *)
(* header too.  "valid" says that the line is UTF-8.  A piece of a diff is  *)
(* the sequence of its line numbers, so that the same words at two places   *)
(* are two pieces.                                                          *)
(***************************************************************************)
EXTENDS Naturals, Sequences, FiniteSetsExt, SeqFunctions

CONSTANTS
  NoMark,   \* a line in which no diff header begins
  Budget    \* max_slice_chars

ASSUME BudgetAssumption == Budget \in Nat \ {0}

IsFullDiff(file) == file.class = "FULL_DIFF_REVIEWED"
FullDiff(files) == At(files, {i \in DOMAIN files : IsFullDiff(files[i])})
PathsOf(files) == {files[i].path : i \in DOMAIN files}

\* git diff base head -- paths: the sections of the named files, in order.
GitDiff(files, paths) ==
  LET named == At(files, {i \in DOMAIN files : files[i].path \in paths})
  IN Joined([i \in DOMAIN named |-> named[i].lines])

\* stdout.decode("utf-8", errors="replace")
Decode(text) == [i \in DOMAIN text |-> [text[i] EXCEPT !.valid = TRUE]]

\* The packet's source_diff.
SourceDiff(files) == Decode(GitDiff(files, PathsOf(FullDiff(files))))

Chars(text, piece) == Total([k \in DOMAIN piece |-> text[piece[k]].chars])
Bytes(text, piece) == Total([k \in DOMAIN piece |-> text[piece[k]].bytes])
Whole(text) == [i \in DOMAIN text |-> i]

\* From the first header of the path to the next header of any path; <<>> when
\* the header is not found.
Section(text, path) ==
  LET starts == {i \in DOMAIN text : text[i].mark = path}
      first  == Min(starts)
      nexts  == {i \in DOMAIN text : i > first /\ text[i].mark # NoMark}
      end    == IF nexts = {} THEN Len(text) + 1 ELSE Min(nexts)
  IN IF starts = {} THEN <<>> ELSE [k \in 1..(end - first) |-> first + k - 1]

\* Mutant: the piece that overflows the budget is still taken in.
AddOverflowing(text, bins, piece) ==
  IF bins.open # <<>> /\ Chars(text, bins.open) > Budget
  THEN [closed |-> Append(bins.closed, bins.open), open |-> piece]
  ELSE [bins EXCEPT !.open = @ \o piece]

\* A piece that no longer fits opens a new bin.
Add(text, bins, piece) ==
  IF bins.open # <<>> /\ Chars(text, bins.open) + Chars(text, piece) > Budget
  THEN [closed |-> Append(bins.closed, bins.open), open |-> piece]
  ELSE [bins EXCEPT !.open = @ \o piece]

\* The bins after each of the pieces.
Bins(text, pieces) ==
  LET bins[n \in 0..Len(pieces)] ==
        IF n = 0 THEN [closed |-> <<>>, open |-> <<>>]
        ELSE Add(text, bins[n - 1], pieces[n])
  IN  bins

\* Greedy packing, in order: a piece alone in its bin is accepted whatever its
\* size.
Pack(text, pieces) ==
  LET end == Bins(text, pieces)[Len(pieces)]
  IN IF end.open = <<>> THEN end.closed ELSE Append(end.closed, end.open)

\* A section over the budget is broken into parts at line ends.  (One within
\* the budget packs into a single part.)
Parts(text, section) == Pack(text, [k \in DOMAIN section |-> <<section[k]>>])

\* The slices of a packet; one empty slice when there is nothing to review.
Slices(text, files) ==
  LET full  == FullDiff(files)
      parts == Joined([i \in DOMAIN full |-> Parts(text, Section(text, full[i].path))])
  IN IF parts = <<>> THEN << <<>> >> ELSE Pack(text, parts)

Holds(slice, i) == \E k \in DOMAIN slice : slice[k] = i

\* The paths a slice is recorded under, without their [part n] suffix.
SlicePaths(text, files, slice) ==
  {p \in PathsOf(FullDiff(files)) :
     \E k \in DOMAIN Section(text, p) : Holds(slice, Section(text, p)[k])}

\* DIFF_COVERAGE_INCOMPLETE
HasAllSections(text, files) ==
  \A p \in PathsOf(FullDiff(files)) : Section(text, p) # <<>>

\* Mutant: the concatenation of the slices is not compared with the diff.
ReconstructsSome(text, slices) == Joined(slices) # <<>>

\* DIFF_RECONSTRUCTION_MISMATCH
Reconstructs(text, slices) == Joined(slices) = Whole(text)
=============================================================================
