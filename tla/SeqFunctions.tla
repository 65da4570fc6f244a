------------------------------ MODULE SeqFunctions ------------------------------
(***************************************************************************)
(* Loops over a sequence, as functions of how many of its elements the loop *)
(* has passed: sum(...), "".join(...) and [x for x in s if ...].            *)
(***************************************************************************)
EXTENDS Naturals, Sequences

\* Sums(s)[n]: the sum of the first n numbers.
Sums(s) ==
  LET sum[n \in 0..Len(s)] == IF n = 0 THEN 0 ELSE sum[n - 1] + s[n]
  IN  sum
Total(s) == Sums(s)[Len(s)]

\* Joins(s)[n]: the first n sequences, one after the other.
Joins(s) ==
  LET join[n \in 0..Len(s)] == IF n = 0 THEN <<>> ELSE join[n - 1] \o s[n]
  IN  join
Joined(s) == Joins(s)[Len(s)]

\* The elements at the positions in I, in order: Picks(s, I)[n] those of the
\* first n.
Picks(s, I) ==
  LET pick[n \in 0..Len(s)] ==
        IF n = 0 THEN <<>>
        ELSE IF n \in I THEN Append(pick[n - 1], s[n]) ELSE pick[n - 1]
  IN  pick
At(s, I) == Picks(s, I)[Len(s)]
=============================================================================
