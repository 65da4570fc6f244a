----------------------------- MODULE SequenceLemmas -----------------------------
(***************************************************************************)
(* Facts about numbers and sequences that several proofs need.  The least   *)
(* number of a set comes from the well-foundedness of <, and induction from *)
(* the least number: to prove P for every number, Induction is given the    *)
(* set of the numbers for which P holds.                                    *)
(***************************************************************************)
EXTENDS Integers, Sequences, FiniteSetsExt, SeqFunctions, SequenceTheorems,
        WellFoundedInduction, TLAPS

\* A set of natural numbers has a least element.
LEMMA LeastNumber ==
  ASSUME NEW S, S \subseteq Nat, S # {}
  PROVE  \E x \in S : \A y \in S : x <= y
<1>. DEFINE R == OpToRel(<, Nat)
<1>1. IsWellFoundedOn(R, Nat)
  BY NatLessThanWellFounded
<1>2. \A x, y \in Nat : y < x => <<y, x>> \in R
  BY DEF OpToRel
<1>. HIDE DEF R
<1>3. PICK x \in S : \A y \in S : ~(<<y, x>> \in R)
  BY <1>1, WFMin
<1>4. ASSUME NEW y \in S PROVE x <= y
  <2>1. x \in Nat /\ y \in Nat
    OBVIOUS
  <2>2. ~(y < x)
    BY <1>2, <1>3, <2>1
  <2>. QED
    BY <2>1, <2>2
<1>. QED
  BY <1>4

\* Induction over the natural numbers, for the set of those that are as claimed.
LEMMA Induction ==
  ASSUME NEW S, 0 \in S, \A n \in Nat : n \in S => n + 1 \in S
  PROVE  \A n \in Nat : n \in S
<1>. SUFFICES ASSUME Nat \ S # {} PROVE FALSE
  OBVIOUS
<1>1. PICK x \in Nat \ S : \A y \in Nat \ S : x <= y
  <2>1. Nat \ S \subseteq Nat
    OBVIOUS
  <2>. QED
    BY <2>1, LeastNumber
<1>2. x # 0 /\ x - 1 \in Nat /\ x - 1 + 1 = x
  BY <1>1
<1>3. x - 1 \in S
  BY <1>1, <1>2
<1>. QED
  BY <1>1, <1>2, <1>3

\* The Min of some numbers is the least of them.
LEMMA MinIsLeast ==
  ASSUME NEW S, S \subseteq Nat, S # {}
  PROVE  Min(S) \in S /\ \A y \in S : Min(S) <= y
<1>1. PICK x \in S : \A y \in S : x <= y
  BY LeastNumber
<1>. QED
  BY <1>1 DEF Min

\* The Max of some numbers below a bound is the largest of them.
LEMMA MaxIsLargest ==
  ASSUME NEW n \in Nat, NEW S, S \subseteq 0..n, S # {}
  PROVE  Max(S) \in S /\ \A y \in S : y <= Max(S)
<1>. DEFINE T == {n - x : x \in S}
<1>1. T \subseteq Nat /\ T # {}
  <2>1. \A x \in S : n - x \in Nat
    OBVIOUS
  <2>2. PICK x \in S : TRUE
    OBVIOUS
  <2>3. n - x \in T
    OBVIOUS
  <2>. QED
    BY <2>1, <2>3
<1>2. PICK t \in T : \A u \in T : t <= u
  BY <1>1, LeastNumber
<1>3. PICK x \in S : t = n - x
  BY <1>2
<1>4. \A y \in S : x >= y
  BY <1>2, <1>3
<1>. QED
  BY <1>4 DEF Max

\* Induction up to a bound.
LEMMA BoundedInduction ==
  ASSUME NEW N \in Nat, NEW S, 0 \in S, \A n \in 1..N : n - 1 \in S => n \in S
  PROVE  \A n \in 0..N : n \in S
<1>. DEFINE T == {n \in Nat : n <= N => n \in S}
<1>1. 0 \in T
  OBVIOUS
<1>2. \A n \in Nat : n \in T => n + 1 \in T
  <2>1. ASSUME NEW n \in Nat, n \in T, n + 1 <= N PROVE n + 1 \in S
    <3>1. n \in S /\ n + 1 \in 1..N /\ (n + 1) - 1 = n
      BY <2>1
    <3>. QED
      BY <3>1
  <2>. QED
    BY <2>1
<1>. HIDE DEF T
<1>3. \A n \in Nat : n \in T
  BY <1>1, <1>2, Induction
<1>. QED
  BY <1>3 DEF T

\* f starts with base and goes on, n times, as step says.
Loops(f, n, base, step) ==
  f[0] = base /\ \A i \in 1..n : f[i] = step[i][f[i - 1]]

\* A loop has a result.
LEMMA Recursion ==
  ASSUME NEW S, NEW N \in Nat, NEW base \in S, NEW step \in [1..N -> [S -> S]]
  PROVE  \E f : f \in [0..N -> S] /\ Loops(f, N, base, step)
<1>. DEFINE Loop(f, m) == /\ f \in [0..m -> S] /\ f[0] = base
                          /\ \A n \in 1..m : f[n] = step[n][f[n - 1]]
            T == {m \in 0..N : \E f : Loop(f, m)}
<1>1. 0 \in T
  <2>. DEFINE f == [n \in 0..0 |-> base]
  <2>1. f \in [0..0 -> S] /\ f[0] = base /\ 1..0 = {}
    OBVIOUS
  <2>2. Loop(f, 0)
    BY <2>1
  <2>. HIDE DEF Loop, f
  <2>. QED
    BY <2>2
<1>2. ASSUME NEW m \in 1..N, m - 1 \in T PROVE m \in T
  <2>1. PICK f : Loop(f, m - 1)
    BY <1>2
  <2>. DEFINE g == [n \in 0..m |-> IF n = m THEN step[m][f[m - 1]] ELSE f[n]]
  <2>2. f[m - 1] \in S
    BY <2>1
  <2>3. g \in [0..m -> S] /\ g[0] = base
    BY <2>1, <2>2
  <2>4. ASSUME NEW n \in 1..m PROVE g[n] = step[n][g[n - 1]]
    <3>1. CASE n = m
      <4>1. n - 1 # m /\ n - 1 \in 0..m
        BY <3>1
      <4>. QED
        BY <3>1, <4>1
    <3>2. CASE n # m
      <4>1. n \in 1..(m - 1) /\ n - 1 # m /\ n - 1 \in 0..m
        BY <3>2
      <4>2. g[n] = f[n] /\ g[n - 1] = f[n - 1]
        BY <3>2, <4>1
      <4>. HIDE DEF g
      <4>. QED
        BY <2>1, <4>1, <4>2
    <3>. QED
      BY <3>1, <3>2
  <2>5. Loop(g, m)
    BY <2>3, <2>4
  <2>. HIDE DEF Loop, g
  <2>. QED
    BY <2>5
<1>3. N \in T
  <2>. HIDE DEF T
  <2>1. \A n \in 0..N : n \in T
    BY <1>1, <1>2, BoundedInduction
  <2>. QED
    BY <2>1
<1>. QED
  BY <1>3 DEF Loops

-----------------------------------------------------------------------------
(* Sums.                                                                    *)

LEMMA SumsFacts ==
  ASSUME NEW s \in Seq(Nat)
  PROVE  /\ Sums(s) \in [0..Len(s) -> Nat] /\ Sums(s)[0] = 0
         /\ \A n \in 1..Len(s) : Sums(s)[n] = Sums(s)[n - 1] + s[n]
<1>1. Len(s) \in Nat /\ \A n \in 1..Len(s) : s[n] \in Nat
  BY LenProperties, ElementOfSeq
<1>. DEFINE Body(f) == [n \in 0..Len(s) |-> IF n = 0 THEN 0 ELSE f[n - 1] + s[n]]
<1>2. \E f : f = Body(f)
  <2>. DEFINE step == [n \in 1..Len(s) |-> [m \in Nat |-> m + s[n]]]
  <2>1. step \in [1..Len(s) -> [Nat -> Nat]]
    BY <1>1
  <2>2. \A n \in 1..Len(s), m \in Nat : step[n][m] = m + s[n]
    OBVIOUS
  <2>. HIDE DEF step
  <2>3. PICK f : f \in [0..Len(s) -> Nat] /\ Loops(f, Len(s), 0, step)
    BY <1>1, <2>1, Recursion
  <2>4. ASSUME NEW n \in 1..Len(s) PROVE f[n] = f[n - 1] + s[n]
    <3>1. n - 1 \in 0..Len(s)
      BY <1>1
    <3>2. f[n - 1] \in Nat
      BY <2>3, <3>1
    <3>. QED
      BY <2>2, <2>3, <3>2 DEF Loops
  <2>5. f = Body(f)
    BY <2>3, <2>4 DEF Loops
  <2>. QED
    BY <2>5
<1>3. Sums(s) = Body(Sums(s))
  BY <1>2 DEF Sums
<1>. DEFINE T == {n \in 0..Len(s) : Sums(s)[n] \in Nat}
<1>4. \A n \in 0..Len(s) : Sums(s)[n] = IF n = 0 THEN 0 ELSE Sums(s)[n - 1] + s[n]
  BY <1>3
<1>5. DOMAIN Sums(s) = 0..Len(s) /\ Sums(s) = [n \in 0..Len(s) |-> Sums(s)[n]]
  BY <1>3
<1>6. 0 \in T
  BY <1>1, <1>4
<1>7. \A n \in 1..Len(s) : n - 1 \in T => n \in T
  BY <1>1, <1>4
<1>8. \A n \in 0..Len(s) : n \in T
  <2>. HIDE DEF T
  <2>. QED
    BY <1>1, <1>6, <1>7, BoundedInduction
<1>9. Sums(s) \in [0..Len(s) -> Nat]
  BY <1>5, <1>8
<1>10. 0 \in 0..Len(s) /\ \A n \in 1..Len(s) : n # 0 /\ n \in 0..Len(s)
  BY <1>1
<1>. QED
  BY <1>4, <1>9, <1>10

LEMMA TotalIsNat ==
  ASSUME NEW s \in Seq(Nat)
  PROVE  Total(s) \in Nat
<1>1. Len(s) \in 0..Len(s)
  BY LenProperties
<1>. QED
  BY <1>1, SumsFacts DEF Total

\* Two sequences that agree so far have the same sums so far.
LEMMA SumsAgree ==
  ASSUME NEW s \in Seq(Nat), NEW t \in Seq(Nat), NEW N \in Nat,
         N <= Len(s), N <= Len(t), \A n \in 1..N : s[n] = t[n]
  PROVE  \A n \in 0..N : Sums(s)[n] = Sums(t)[n]
<1>. DEFINE T == {n \in 0..N : Sums(s)[n] = Sums(t)[n]}
<1>1. Len(s) \in Nat /\ Len(t) \in Nat
  BY LenProperties
<1>2. 0 \in T
  BY SumsFacts
<1>3. ASSUME NEW n \in 1..N, n - 1 \in T PROVE n \in T
  <2>1. n \in 1..Len(s) /\ n \in 1..Len(t)
    BY <1>1
  <2>2. Sums(s)[n] = Sums(s)[n - 1] + s[n] /\ Sums(t)[n] = Sums(t)[n - 1] + t[n]
    BY <2>1, SumsFacts
  <2>. QED
    BY <1>3, <2>2
<1>. HIDE DEF T
<1>4. \A n \in 0..N : n \in T
  BY <1>2, <1>3, BoundedInduction
<1>. QED
  BY <1>4 DEF T

\* The sum of two sequences is that of both, one after the other.
LEMMA TotalOfBoth ==
  ASSUME NEW s \in Seq(Nat), NEW t \in Seq(Nat)
  PROVE  Total(s \o t) = Total(s) + Total(t)
<1>. DEFINE u == s \o t
            T == {n \in 0..Len(t) : Sums(u)[Len(s) + n] = Total(s) + Sums(t)[n]}
<1>1. /\ Len(s) \in Nat /\ Len(t) \in Nat /\ u \in Seq(Nat) /\ Len(u) = Len(s) + Len(t)
      /\ \A n \in 1..Len(s) : u[n] = s[n]
      /\ \A n \in 1..Len(t) : u[Len(s) + n] = t[n]
  BY LenProperties, ConcatProperties
<1>. HIDE DEF u
<1>2. 0 \in T
  <2>1. Sums(u)[Len(s)] = Sums(s)[Len(s)]
    <3>1. \A n \in 0..Len(s) : Sums(u)[n] = Sums(s)[n]
      <4>1. Len(s) <= Len(u) /\ Len(s) <= Len(s)
        BY <1>1
      <4>. QED
        BY <1>1, <4>1, SumsAgree
    <3>. QED
      BY <1>1, <3>1
  <2>2. Total(s) \in Nat /\ Sums(t)[0] = 0
    BY TotalIsNat, SumsFacts
  <2>. QED
    BY <1>1, <2>1, <2>2 DEF Total
<1>3. ASSUME NEW n \in 1..Len(t), n - 1 \in T PROVE n \in T
  <2>1. Len(s) + n \in 1..Len(u) /\ (Len(s) + n) - 1 = Len(s) + (n - 1) /\ n - 1 \in 0..Len(t)
    BY <1>1
  <2>2. Sums(u)[Len(s) + n] = Sums(u)[Len(s) + (n - 1)] + u[Len(s) + n]
    BY <1>1, <2>1, SumsFacts
  <2>3. Sums(t)[n] = Sums(t)[n - 1] + t[n]
    BY SumsFacts
  <2>4. Sums(u)[Len(s) + (n - 1)] = Total(s) + Sums(t)[n - 1]
    BY <1>3
  <2>5. t[n] \in Nat /\ Total(s) \in Nat /\ Sums(t)[n - 1] \in Nat
    BY <1>1, <2>1, TotalIsNat, SumsFacts, ElementOfSeq
  <2>6. Sums(u)[Len(s) + n] = Total(s) + Sums(t)[n]
    BY <1>1, <2>2, <2>3, <2>4, <2>5
  <2>. QED
    BY <1>1, <2>6
<1>4. Len(t) \in T
  <2>. HIDE DEF T
  <2>1. \A n \in 0..Len(t) : n \in T
    BY <1>1, <1>2, <1>3, BoundedInduction
  <2>. QED
    BY <1>1, <2>1
<1>. QED
  BY <1>1, <1>4 DEF Total, u

-----------------------------------------------------------------------------
(* Joins and picks.                                                         *)

LEMMA JoinsFacts ==
  ASSUME NEW X, NEW s \in Seq(Seq(X))
  PROVE  /\ Joins(s) \in [0..Len(s) -> Seq(X)] /\ Joins(s)[0] = <<>>
         /\ \A n \in 1..Len(s) : Joins(s)[n] = Joins(s)[n - 1] \o s[n]
<1>1. Len(s) \in Nat /\ \A n \in 1..Len(s) : s[n] \in Seq(X)
  BY LenProperties, ElementOfSeq
<1>. DEFINE Body(f) == [n \in 0..Len(s) |-> IF n = 0 THEN <<>> ELSE f[n - 1] \o s[n]]
<1>2. \E f : f = Body(f)
  <2>. DEFINE step == [n \in 1..Len(s) |-> [q \in Seq(X) |-> q \o s[n]]]
  <2>1. step \in [1..Len(s) -> [Seq(X) -> Seq(X)]]
    BY <1>1, ConcatProperties
  <2>2. \A n \in 1..Len(s), q \in Seq(X) : step[n][q] = q \o s[n]
    OBVIOUS
  <2>. HIDE DEF step
  <2>3. PICK f : f \in [0..Len(s) -> Seq(X)] /\ Loops(f, Len(s), <<>>, step)
    BY <1>1, <2>1, EmptySeq, Recursion
  <2>4. ASSUME NEW n \in 1..Len(s) PROVE f[n] = f[n - 1] \o s[n]
    <3>1. n - 1 \in 0..Len(s)
      BY <1>1
    <3>2. f[n - 1] \in Seq(X)
      BY <2>3, <3>1
    <3>. QED
      BY <2>2, <2>3, <3>2 DEF Loops
  <2>5. ASSUME NEW n \in 0..Len(s)
        PROVE  f[n] = IF n = 0 THEN <<>> ELSE f[n - 1] \o s[n]
    <3>1. n = 0 \/ (n \in 1..Len(s) /\ n # 0)
      BY <1>1
    <3>2. f[0] = <<>>
      BY <2>3 DEF Loops
    <3>. QED
      BY <2>4, <3>1, <3>2
  <2>6. f = Body(f)
    BY <2>3, <2>5
  <2>. QED
    BY <2>6
<1>3. Joins(s) = Body(Joins(s))
  BY <1>2 DEF Joins
<1>4. /\ Joins(s)[0] = <<>>
      /\ \A n \in 1..Len(s) : Joins(s)[n] = Joins(s)[n - 1] \o s[n]
  <2>1. \A n \in 0..Len(s) :
          Joins(s)[n] = IF n = 0 THEN <<>> ELSE Joins(s)[n - 1] \o s[n]
    BY <1>3
  <2>2. 0 \in 0..Len(s) /\ \A n \in 1..Len(s) : n # 0 /\ n \in 0..Len(s)
    BY <1>1
  <2>. HIDE DEF Body
  <2>. QED
    BY <2>1, <2>2
<1>5. DOMAIN Joins(s) = 0..Len(s) /\ Joins(s) = [n \in 0..Len(s) |-> Joins(s)[n]]
  BY <1>3
<1>. HIDE DEF Body
<1>. DEFINE T == {n \in 0..Len(s) : Joins(s)[n] \in Seq(X)}
<1>6. 0 \in T
  <2>1. 0 \in 0..Len(s)
    BY <1>1
  <2>2. Joins(s)[0] \in Seq(X)
    BY <1>4, EmptySeq, Zenon
  <2>. QED
    BY <2>1, <2>2
<1>7. ASSUME NEW n \in 1..Len(s), n - 1 \in T PROVE n \in T
  <2>1. Joins(s)[n - 1] \o s[n] \in Seq(X)
    BY <1>1, <1>7, ConcatProperties
  <2>2. n \in 0..Len(s)
    BY <1>1
  <2>. QED
    BY <1>4, <2>1, <2>2, Zenon
<1>8. \A n \in 0..Len(s) : n \in T
  <2>. HIDE DEF T
  <2>. QED
    BY <1>1, <1>6, <1>7, BoundedInduction
<1>9. Joins(s) \in [0..Len(s) -> Seq(X)]
  BY <1>5, <1>8
<1>. QED
  BY <1>4, <1>9

LEMMA PicksFacts ==
  ASSUME NEW X, NEW s \in Seq(X), NEW I
  PROVE  /\ Picks(s, I) \in [0..Len(s) -> Seq(X)] /\ Picks(s, I)[0] = <<>>
         /\ \A n \in 1..Len(s) :
              Picks(s, I)[n] = IF n \in I THEN Append(Picks(s, I)[n - 1], s[n])
                                          ELSE Picks(s, I)[n - 1]
<1>1. Len(s) \in Nat /\ \A n \in 1..Len(s) : s[n] \in X
  BY LenProperties, ElementOfSeq
<1>. DEFINE Next(n, q) == IF n \in I THEN Append(q, s[n]) ELSE q
            Body(f) == [n \in 0..Len(s) |-> IF n = 0 THEN <<>> ELSE Next(n, f[n - 1])]
<1>a. ASSUME NEW n \in 1..Len(s), NEW q \in Seq(X) PROVE Next(n, q) \in Seq(X)
  BY <1>1, AppendProperties
<1>2. \E f : f = Body(f)
  <2>. DEFINE step == [n \in 1..Len(s) |-> [q \in Seq(X) |-> Next(n, q)]]
  <2>. HIDE DEF Next
  <2>1. step \in [1..Len(s) -> [Seq(X) -> Seq(X)]]
    BY <1>a
  <2>2. \A n \in 1..Len(s), q \in Seq(X) : step[n][q] = Next(n, q)
    OBVIOUS
  <2>. HIDE DEF step
  <2>3. PICK f : f \in [0..Len(s) -> Seq(X)] /\ Loops(f, Len(s), <<>>, step)
    BY <1>1, <2>1, EmptySeq, Recursion
  <2>4. ASSUME NEW n \in 1..Len(s) PROVE f[n] = Next(n, f[n - 1])
    <3>1. n - 1 \in 0..Len(s)
      BY <1>1
    <3>2. f[n - 1] \in Seq(X)
      BY <2>3, <3>1
    <3>. QED
      BY <2>2, <2>3, <3>2 DEF Loops
  <2>5. \A n \in 0..Len(s) : f[n] = IF n = 0 THEN <<>> ELSE Next(n, f[n - 1])
    BY <1>1, <2>3, <2>4 DEF Loops
  <2>6. f = Body(f)
    BY <2>3, <2>5
  <2>. QED
    BY <2>6
<1>3. Picks(s, I) = Body(Picks(s, I))
  BY <1>2 DEF Picks
<1>. HIDE DEF Next
<1>4. /\ Picks(s, I)[0] = <<>>
      /\ \A n \in 1..Len(s) : Picks(s, I)[n] = Next(n, Picks(s, I)[n - 1])
  <2>1. \A n \in 0..Len(s) :
          Picks(s, I)[n] = IF n = 0 THEN <<>> ELSE Next(n, Picks(s, I)[n - 1])
    BY <1>3
  <2>2. 0 \in 0..Len(s) /\ \A n \in 1..Len(s) : n # 0 /\ n \in 0..Len(s)
    BY <1>1
  <2>. HIDE DEF Body
  <2>. QED
    BY <2>1, <2>2
<1>5. DOMAIN Picks(s, I) = 0..Len(s) /\ Picks(s, I) = [n \in 0..Len(s) |-> Picks(s, I)[n]]
  BY <1>3
<1>. HIDE DEF Body
<1>. DEFINE T == {n \in 0..Len(s) : Picks(s, I)[n] \in Seq(X)}
<1>6. 0 \in T
  <2>1. 0 \in 0..Len(s)
    BY <1>1
  <2>2. Picks(s, I)[0] \in Seq(X)
    BY <1>4, EmptySeq, Zenon
  <2>. QED
    BY <2>1, <2>2
<1>7. ASSUME NEW n \in 1..Len(s), n - 1 \in T PROVE n \in T
  <2>1. Next(n, Picks(s, I)[n - 1]) \in Seq(X)
    BY <1>a, <1>7
  <2>2. n \in 0..Len(s)
    BY <1>1
  <2>. QED
    BY <1>4, <2>1, <2>2, Zenon
<1>8. \A n \in 0..Len(s) : n \in T
  <2>. HIDE DEF T
  <2>. QED
    BY <1>1, <1>6, <1>7, BoundedInduction
<1>9. Picks(s, I) \in [0..Len(s) -> Seq(X)]
  BY <1>5, <1>8
<1>. QED
  BY <1>4, <1>9 DEF Next

\* A function on 1..n is a sequence.
LEMMA FunctionIsSeq ==
  ASSUME NEW S, NEW n \in Nat, NEW f \in [1..n -> S]
  PROVE  f \in Seq(S) /\ Len(f) = n
<1>1. f \in Seq(S)
  OBVIOUS
<1>2. DOMAIN f = 1..n /\ DOMAIN f = 1..Len(f) /\ Len(f) \in Nat
  BY <1>1, LenProperties
<1>. QED
  BY <1>1, <1>2

LEMMA JoinedIsSeq ==
  ASSUME NEW X, NEW s \in Seq(Seq(X))
  PROVE  Joined(s) \in Seq(X)
<1>1. Len(s) \in 0..Len(s)
  BY LenProperties
<1>. QED
  BY <1>1, JoinsFacts DEF Joined

\* Two sequences that agree so far are joined to the same so far.
LEMMA JoinsAgree ==
  ASSUME NEW X, NEW s \in Seq(Seq(X)), NEW t \in Seq(Seq(X)), NEW N \in Nat,
         N <= Len(s), N <= Len(t), \A n \in 1..N : s[n] = t[n]
  PROVE  \A n \in 0..N : Joins(s)[n] = Joins(t)[n]
<1>. DEFINE T == {n \in 0..N : Joins(s)[n] = Joins(t)[n]}
<1>1. Len(s) \in Nat /\ Len(t) \in Nat
  BY LenProperties
<1>2. 0 \in T
  <2>1. Joins(s)[0] = <<>> /\ Joins(t)[0] = <<>>
    BY JoinsFacts
  <2>. QED
    BY <2>1
<1>3. ASSUME NEW n \in 1..N, n - 1 \in T PROVE n \in T
  <2>1. n \in 1..Len(s) /\ n \in 1..Len(t) /\ n \in 0..N
    BY <1>1
  <2>2. Joins(s)[n] = Joins(s)[n - 1] \o s[n] /\ Joins(t)[n] = Joins(t)[n - 1] \o t[n]
    BY <2>1, JoinsFacts
  <2>3. Joins(s)[n] = Joins(t)[n]
    BY <1>3, <2>2
  <2>. QED
    BY <2>1, <2>3
<1>. HIDE DEF T
<1>4. \A n \in 0..N : n \in T
  BY <1>2, <1>3, BoundedInduction
<1>. QED
  BY <1>4 DEF T

JoinsAssociatively(S) == \A p, q, r \in S : (p \o q) \o r = p \o (q \o r)

LEMMA Regroup == \A X : JoinsAssociatively(Seq(X))
<1>. SUFFICES ASSUME NEW X, NEW p \in Seq(X), NEW q \in Seq(X), NEW r \in Seq(X)
              PROVE  (p \o q) \o r = p \o (q \o r)
  BY DEF JoinsAssociatively
<1>. QED
  BY ConcatAssociative

\* Two lists of sequences, one after the other, are joined to what each is.
LEMMA JoinedBoth ==
  ASSUME NEW X, NEW s \in Seq(Seq(X)), NEW t \in Seq(Seq(X))
  PROVE  Joined(s \o t) = Joined(s) \o Joined(t)
<1>. DEFINE u == s \o t
            T == {n \in 0..Len(t) : Joins(u)[Len(s) + n] = Joined(s) \o Joins(t)[n]}
<1>1. /\ Len(s) \in Nat /\ Len(t) \in Nat /\ u \in Seq(Seq(X)) /\ Len(u) = Len(s) + Len(t)
      /\ \A n \in 1..Len(s) : u[n] = s[n]
      /\ \A n \in 1..Len(t) : u[Len(s) + n] = t[n]
  BY LenProperties, ConcatProperties
<1>2. Joined(s) \in Seq(X) /\ \A n \in 0..Len(t) : Joins(t)[n] \in Seq(X)
  BY JoinedIsSeq, JoinsFacts
<1>. HIDE DEF u
<1>3. 0 \in T
  <2>1. \A n \in 0..Len(s) : Joins(u)[n] = Joins(s)[n]
    <3>1. Len(s) <= Len(u) /\ Len(s) <= Len(s)
      BY <1>1
    <3>. QED
      BY <1>1, <3>1, JoinsAgree
  <2>2. Joins(u)[Len(s)] = Joined(s)
    BY <1>1, <2>1 DEF Joined
  <2>3. Joined(s) \o Joins(t)[0] = Joined(s)
    BY <1>2, JoinsFacts, ConcatEmptySeq
  <2>. QED
    BY <1>1, <2>2, <2>3
<1>4. ASSUME NEW n \in 1..Len(t), n - 1 \in T PROVE n \in T
  <2>1. Len(s) + n \in 1..Len(u) /\ (Len(s) + n) - 1 = Len(s) + (n - 1) /\ n \in 0..Len(t)
        /\ n - 1 \in 0..Len(t)
    BY <1>1
  <2>2. Joins(u)[Len(s) + n] = Joins(u)[Len(s) + (n - 1)] \o u[Len(s) + n]
    BY <1>1, <2>1, JoinsFacts
  <2>3. Joins(t)[n] = Joins(t)[n - 1] \o t[n] /\ t[n] \in Seq(X) /\ u[Len(s) + n] = t[n]
    BY <1>1, JoinsFacts, ElementOfSeq
  <2>4. Joins(u)[Len(s) + (n - 1)] = Joined(s) \o Joins(t)[n - 1]
    BY <1>4
  <2>5. (Joined(s) \o Joins(t)[n - 1]) \o t[n] = Joined(s) \o (Joins(t)[n - 1] \o t[n])
    <3>1. Joins(t)[n - 1] \in Seq(X) /\ t[n] \in Seq(X)
      BY <1>2, <2>1, <2>3
    <3>2. JoinsAssociatively(Seq(X))
      BY Regroup
    <3>3. \A p, q, r \in Seq(X) : (p \o q) \o r = p \o (q \o r)
      BY <3>2 DEF JoinsAssociatively
    <3>. QED
      BY <1>2, <3>1, <3>3
  <2>6. Joins(u)[Len(s) + n] = Joined(s) \o Joins(t)[n]
    BY <2>2, <2>3, <2>4, <2>5
  <2>. QED
    BY <2>1, <2>6
<1>5. Len(t) \in T
  <2>. HIDE DEF T
  <2>1. \A n \in 0..Len(t) : n \in T
    BY <1>1, <1>3, <1>4, BoundedInduction
  <2>. QED
    BY <1>1, <2>1
<1>. QED
  BY <1>1, <1>5 DEF Joined, u

\* A list of one sequence is joined to that sequence.
LEMMA JoinedOne ==
  ASSUME NEW X, NEW q \in Seq(X)
  PROVE  Joined(<<q>>) = q
<1>1. <<q>> \in Seq(Seq(X)) /\ Len(<<q>>) = 1 /\ <<q>>[1] = q
  OBVIOUS
<1>2. Joins(<<q>>)[1] = Joins(<<q>>)[0] \o q /\ Joins(<<q>>)[0] = <<>>
  <2>1. PICK s \in Seq(Seq(X)) : s = <<q>> /\ Len(s) = 1 /\ s[1] = q
    BY <1>1
  <2>2. Joins(s)[0] = <<>> /\ \A n \in 1..Len(s) : Joins(s)[n] = Joins(s)[n - 1] \o s[n]
    BY JoinsFacts
  <2>3. 1 \in 1..Len(s) /\ 1 - 1 = 0
    BY <2>1
  <2>4. Joins(s)[1] = Joins(s)[1 - 1] \o s[1]
    BY <2>2, <2>3, Zenon
  <2>5. Joins(s)[1] = Joins(s)[0] \o q
    BY <2>1, <2>3, <2>4
  <2>. QED
    BY <2>1, <2>2, <2>5
<1>3. <<>> \o q = q
  BY ConcatEmptySeq
<1>4. Joined(<<q>>) = Joins(<<q>>)[1]
  BY <1>1 DEF Joined
<1>. QED
  BY <1>2, <1>3, <1>4

LEMMA JoinedAppend ==
  ASSUME NEW X, NEW s \in Seq(Seq(X)), NEW q \in Seq(X)
  PROVE  Joined(Append(s, q)) = Joined(s) \o q
<1>1. Append(s, q) = s \o <<q>> /\ <<q>> \in Seq(Seq(X))
  BY AppendIsConcat
<1>2. PICK t \in Seq(Seq(X)) : t = <<q>>
  BY <1>1
<1>3. Joined(s \o t) = Joined(s) \o Joined(t)
  BY JoinedBoth
<1>4. Joined(t) = q
  BY <1>2, JoinedOne
<1>. QED
  BY <1>1, <1>2, <1>3, <1>4

LEMMA JoinedNone == Joined(<<>>) = <<>>
<1>1. <<>> \in Seq(Seq({})) /\ Len(<<>>) = 0
  BY EmptySeq
<1>. QED
  BY <1>1, JoinsFacts DEF Joined

\* What has been joined stays where it is.
LEMMA JoinsPrefix ==
  ASSUME NEW X, NEW s \in Seq(Seq(X)), NEW m \in 0..Len(s)
  PROVE  \A n \in 0..Len(s) : m <= n =>
           /\ Len(Joins(s)[m]) <= Len(Joins(s)[n])
           /\ \A k \in 1..Len(Joins(s)[m]) : Joins(s)[n][k] = Joins(s)[m][k]
<1>. DEFINE P(n) ==
              /\ Len(Joins(s)[m]) <= Len(Joins(s)[n])
                    /\ \A k \in 1..Len(Joins(s)[m]) : Joins(s)[n][k] = Joins(s)[m][k]
            T == {n \in 0..Len(s) : m <= n => P(n)}
<1>1. /\ Len(s) \in Nat
      /\ \A n \in 0..Len(s) : Joins(s)[n] \in Seq(X) /\ Len(Joins(s)[n]) \in Nat
  <2>1. Len(s) \in Nat
    BY LenProperties
  <2>2. \A n \in 0..Len(s) : Joins(s)[n] \in Seq(X)
    BY JoinsFacts
  <2>. QED
    BY <2>1, <2>2, LenProperties
<1>2. P(m)
  BY <1>1
<1>3. ASSUME NEW n \in 1..Len(s), n - 1 \in T PROVE n \in T
  <2>1. CASE m = n
    BY <1>1, <1>2, <2>1
  <2>2. CASE m < n
    <3>1. m <= n - 1 /\ n - 1 \in 0..Len(s) /\ n \in 0..Len(s)
      BY <1>1, <2>2
    <3>2. P(n - 1)
      BY <1>3, <3>1
    <3>3. s[n] \in Seq(X) /\ Len(s[n]) \in Nat
      BY ElementOfSeq, LenProperties
    <3>4. Joins(s)[n] = Joins(s)[n - 1] \o s[n]
      BY JoinsFacts
    <3>5. /\ Len(Joins(s)[n]) = Len(Joins(s)[n - 1]) + Len(s[n])
          /\ \A k \in 1..Len(Joins(s)[n - 1]) : Joins(s)[n][k] = Joins(s)[n - 1][k]
      <4>1. PICK p \in Seq(X), q \in Seq(X) : p = Joins(s)[n - 1] /\ q = s[n]
        BY <1>1, <3>1, <3>3
      <4>2. Len(p \o q) = Len(p) + Len(q) /\ \A k \in 1..Len(p) : (p \o q)[k] = p[k]
        BY ConcatProperties, LenProperties
      <4>. QED
        BY <3>4, <4>1, <4>2
    <3>6. \A k \in 1..Len(Joins(s)[m]) : k \in 1..Len(Joins(s)[n - 1])
      BY <1>1, <3>1, <3>2
    <3>7. Len(Joins(s)[m]) <= Len(Joins(s)[n])
      <4>1. PICK a \in Nat, b \in Nat, c \in Nat :
              a = Len(Joins(s)[m]) /\ b = Len(Joins(s)[n - 1]) /\ c = Len(s[n])
        BY <1>1, <3>1, <3>3
      <4>2. a <= b
        BY <3>2, <4>1
      <4>3. a <= b + c
        BY <4>2
      <4>4. Len(Joins(s)[n]) = b + c
        BY <3>5, <4>1
      <4>. QED
        BY <4>1, <4>3, <4>4
    <3>8. P(n)
      BY <3>2, <3>5, <3>6, <3>7
    <3>. QED
      BY <3>1, <3>8
  <2>3. CASE n < m
    BY <1>1, <2>3
  <2>. QED
    BY <1>1, <2>1, <2>2, <2>3
<1>4. 0 \in T
  <2>1. m <= 0 => m = 0
    BY <1>1
  <2>. QED
    BY <1>1, <1>2, <2>1
<1>5. \A n \in 0..Len(s) : n \in T
  <2>. HIDE DEF T
  <2>. QED
    BY <1>1, <1>3, <1>4, BoundedInduction
<1>. QED
  BY <1>5

\* Where each of the joined sequences ends.
Ends(s) == [n \in 0..Len(s) |-> Len(Joins(s)[n])]

LEMMA EndsFacts ==
  ASSUME NEW X, NEW s \in Seq(Seq(X))
  PROVE  /\ Len(s) \in Nat /\ Ends(s) \in [0..Len(s) -> Nat] /\ Ends(s)[0] = 0
         /\ \A i \in 1..Len(s) : /\ s[i] \in Seq(X) /\ Len(s[i]) \in Nat
                                 /\ Ends(s)[i] = Ends(s)[i - 1] + Len(s[i])
         /\ Joined(s) \in Seq(X) /\ Len(Joined(s)) = Ends(s)[Len(s)]
<1>1. Len(s) \in Nat /\ Joined(s) \in Seq(X)
  BY LenProperties, JoinedIsSeq
<1>2. \A i \in 1..Len(s) : s[i] \in Seq(X)
  BY ElementOfSeq
<1>3. /\ Joins(s) \in [0..Len(s) -> Seq(X)] /\ Joins(s)[0] = <<>>
      /\ \A n \in 1..Len(s) : Joins(s)[n] = Joins(s)[n - 1] \o s[n]
  BY JoinsFacts
<1>4. PICK J \in [0..Len(s) -> Seq(X)] : J = Joins(s)
  BY <1>3
<1>5. J[0] = <<>> /\ \A n \in 1..Len(s) : J[n] = J[n - 1] \o s[n]
  BY <1>3, <1>4
<1>6. \A q \in Seq(X) : Len(q) \in Nat
  BY LenProperties
<1>7. Ends(s) = [n \in 0..Len(s) |-> Len(J[n])]
  BY <1>4 DEF Ends
<1>8. ASSUME NEW i \in 1..Len(s)
      PROVE  /\ s[i] \in Seq(X) /\ Len(s[i]) \in Nat
             /\ Ends(s)[i] = Ends(s)[i - 1] + Len(s[i])
  <2>1. i - 1 \in 0..Len(s) /\ i \in 0..Len(s)
    BY <1>1
  <2>2. PICK p \in Seq(X), q \in Seq(X) : p = J[i - 1] /\ q = s[i] /\ J[i] = p \o q
    BY <1>2, <1>5, <2>1
  <2>3. Len(p \o q) = Len(p) + Len(q)
    BY ConcatProperties
  <2>4. Ends(s)[i] = Len(J[i]) /\ Ends(s)[i - 1] = Len(J[i - 1])
    BY <1>7, <2>1
  <2>. QED
    BY <1>6, <2>2, <2>3, <2>4
<1>9. 0 \in 0..Len(s) /\ Len(s) \in 0..Len(s)
  BY <1>1
<1>10. Len(Joined(s)) = Ends(s)[Len(s)]
  BY <1>4, <1>7, <1>9 DEF Joined
<1>11. Ends(s)[0] = 0 /\ Ends(s) \in [0..Len(s) -> Nat]
  BY <1>5, <1>6, <1>7, <1>9
<1>. QED
  BY <1>1, <1>8, <1>10, <1>11

\* Steps that never go down cut a stretch of numbers into intervals.
LEMMA Intervals ==
  ASSUME NEW N \in Nat, NEW e \in [0..N -> Nat], e[0] = 0,
         \A i \in 1..N : e[i - 1] <= e[i]
  PROVE  /\ \A m, n \in 0..N : m <= n => e[m] <= e[n]
         /\ \A q \in 1..e[N] : \E i \in 1..N : e[i - 1] < q /\ q <= e[i]
<1>1. ASSUME NEW m \in 0..N PROVE \A n \in 0..N : m <= n => e[m] <= e[n]
  <2>. DEFINE T == {n \in 0..N : m <= n => e[m] <= e[n]}
  <2>1. 0 \in T
    OBVIOUS
  <2>2. ASSUME NEW n \in 1..N, n - 1 \in T PROVE n \in T
    <3>1. n \in 0..N /\ n - 1 \in 0..N /\ (m <= n => m = n \/ m <= n - 1)
      OBVIOUS
    <3>2. PICK a \in Nat, b \in Nat, c \in Nat : a = e[m] /\ b = e[n - 1] /\ c = e[n]
      BY <3>1
    <3>3. m <= n - 1 => a <= b
      BY <2>2, <3>2
    <3>4. b <= c
      BY <3>2
    <3>5. m <= n => a <= c
      BY <3>1, <3>2, <3>3, <3>4
    <3>. QED
      BY <3>1, <3>2, <3>5
  <2>. HIDE DEF T
  <2>3. \A n \in 0..N : n \in T
    BY <2>1, <2>2, BoundedInduction
  <2>. QED
    BY <2>3 DEF T
<1>2. ASSUME NEW q \in 1..e[N] PROVE \E i \in 1..N : e[i - 1] < q /\ q <= e[i]
  <2>. DEFINE past == {n \in 0..N : q <= e[n]}
  <2>1. N \in past /\ past \subseteq Nat /\ e[N] \in Nat
    OBVIOUS
  <2>2. PICK i \in past : \A n \in past : i <= n
    BY <2>1, LeastNumber
  <2>3. i \in 1..N /\ i - 1 \in 0..N /\ i - 1 \notin past
    BY <2>1, <2>2
  <2>4. e[i - 1] < q
    BY <2>1, <2>3
  <2>. QED
    BY <2>2, <2>3, <2>4
<1>. QED
  BY <1>1, <1>2

\* The ends of the joined sequences: where each of their elements is found, and
\* that nothing else is.
LEMMA JoinedPlaces ==
  ASSUME NEW X, NEW s \in Seq(Seq(X))
  PROVE  /\ \A m, n \in 0..Len(s) : m <= n => Ends(s)[m] <= Ends(s)[n]
         /\ \A i \in 1..Len(s) : \A k \in 1..Len(s[i]) :
              /\ Ends(s)[i - 1] + k \in 1..Len(Joined(s))
              /\ Joined(s)[Ends(s)[i - 1] + k] = s[i][k]
         /\ \A q \in 1..Len(Joined(s)) : \E i \in 1..Len(s) :
              Ends(s)[i - 1] < q /\ q <= Ends(s)[i]
<1>1. /\ Len(s) \in Nat /\ Ends(s) \in [0..Len(s) -> Nat] /\ Ends(s)[0] = 0
      /\ \A i \in 1..Len(s) : /\ s[i] \in Seq(X) /\ Len(s[i]) \in Nat
                              /\ Ends(s)[i] = Ends(s)[i - 1] + Len(s[i])
      /\ Joined(s) \in Seq(X) /\ Len(Joined(s)) = Ends(s)[Len(s)]
  BY EndsFacts
<1>a. PICK N \in Nat : N = Len(s)
  BY <1>1
<1>b. PICK e \in [0..N -> Nat] : e = Ends(s)
  BY <1>1, <1>a
<1>2. N = Len(s) /\ e = Ends(s)
  BY <1>a, <1>b
<1>3. ASSUME NEW i \in 1..N
      PROVE  /\ i - 1 \in 0..N /\ i \in 0..N /\ Len(s[i]) \in Nat
             /\ e[i] = e[i - 1] + Len(s[i]) /\ e[i - 1] <= e[i]
  <2>1. i - 1 \in 0..N /\ i \in 0..N
    OBVIOUS
  <2>2. Len(s[i]) \in Nat /\ e[i] = e[i - 1] + Len(s[i]) /\ e[i - 1] \in Nat
    BY <1>1, <1>2, <2>1
  <2>. QED
    BY <2>1, <2>2
<1>4. /\ \A m, n \in 0..N : m <= n => e[m] <= e[n]
      /\ \A q \in 1..e[N] : \E i \in 1..N : e[i - 1] < q /\ q <= e[i]
  <2>1. e[0] = 0
    BY <1>1, <1>2
  <2>. QED
    BY <1>3, <2>1, Intervals
<1>5. ASSUME NEW i \in 1..N, NEW k \in 1..Len(s[i])
      PROVE  e[i - 1] + k \in 1..e[N] /\ Joined(s)[e[i - 1] + k] = s[i][k]
  <2>a. PICK a \in Nat, b \in Nat, c \in Nat, d \in Nat :
          a = e[i - 1] /\ b = Len(s[i]) /\ c = e[i] /\ d = e[N]
    <3>1. N \in 0..N
      OBVIOUS
    <3>. QED
      BY <1>3, <3>1
  <2>b. k \in 1..b /\ c = a + b
    BY <1>3, <2>a
  <2>c. c <= d
    <3>1. i <= N /\ N \in 0..N
      OBVIOUS
    <3>. QED
      BY <1>3, <1>4, <2>a, <3>1
  <2>d. a + k \in 1..c /\ a + k \in 1..d /\ ~(a + k <= a) /\ (a + k) - a = k
    BY <2>b, <2>c
  <2>1. e[i - 1] + k \in 1..e[i] /\ e[i - 1] + k \in 1..e[N]
    BY <2>a, <2>d
  <2>2. /\ Joins(s) \in [0..Len(s) -> Seq(X)]
        /\ \A n \in 1..Len(s) : Joins(s)[n] = Joins(s)[n - 1] \o s[n]
    BY JoinsFacts
  <2>3. PICK p \in Seq(X), q \in Seq(X) :
          p = Joins(s)[i - 1] /\ q = s[i] /\ Joins(s)[i] = p \o q
    BY <1>1, <1>2, <1>3, <2>2
  <2>4. \A n \in 1..(Len(p) + Len(q)) :
          (p \o q)[n] = IF n <= Len(p) THEN p[n] ELSE q[n - Len(p)]
    BY ConcatProperties
  <2>5. Len(p) = e[i - 1] /\ Len(Joins(s)[i]) = e[i] /\ e[i - 1] \in Nat
    BY <1>2, <1>3, <2>3 DEF Ends
  <2>6. Joins(s)[i][e[i - 1] + k] = s[i][k]
    <3>1. Len(p) = a /\ Len(q) = b
      BY <2>3, <2>5, <2>a
    <3>2. a + k \in 1..(Len(p) + Len(q)) /\ ~(a + k <= Len(p)) /\ (a + k) - Len(p) = k
      BY <2>b, <2>d, <3>1
    <3>3. (p \o q)[a + k] = q[k]
      BY <2>4, <3>2, Zenon
    <3>. QED
      BY <2>3, <2>a, <3>3
  <2>7. \A m \in 0..Len(s) : \A n \in 0..Len(s) : m <= n =>
           /\ Len(Joins(s)[m]) <= Len(Joins(s)[n])
           /\ \A j \in 1..Len(Joins(s)[m]) : Joins(s)[n][j] = Joins(s)[m][j]
    BY JoinsPrefix
  <2>8. \A j \in 1..Len(Joins(s)[i]) : Joins(s)[N][j] = Joins(s)[i][j]
    <3>1. i \in 0..Len(s) /\ N \in 0..Len(s) /\ i <= N
      BY <1>2
    <3>. QED
      BY <2>7, <3>1
  <2>9. Joined(s)[e[i - 1] + k] = s[i][k]
    BY <1>2, <2>1, <2>5, <2>6, <2>8 DEF Joined
  <2>. QED
    BY <2>1, <2>9
<1>6. Len(Joined(s)) = e[N]
  BY <1>1, <1>2
<1>. QED
  BY <1>2, <1>4, <1>5, <1>6

\* Lists of lists: joined twice, or each joined and then all of them.
LEMMA JoinedTwice ==
  ASSUME NEW X, NEW ss \in Seq(Seq(Seq(X)))
  PROVE  Joined(Joined(ss)) = Joined([i \in DOMAIN ss |-> Joined(ss[i])])
<1>. DEFINE m == [i \in DOMAIN ss |-> Joined(ss[i])]
            T == {n \in 0..Len(ss) : Joined(Joins(ss)[n]) = Joins(m)[n]}
<1>1. Len(ss) \in Nat /\ DOMAIN ss = 1..Len(ss)
  BY LenProperties
<1>2. \A i \in 1..Len(ss) : ss[i] \in Seq(Seq(X))
  BY ElementOfSeq
<1>3. \A i \in 1..Len(ss) : Joined(ss[i]) \in Seq(X)
  BY <1>2, JoinedIsSeq
<1>4. m \in Seq(Seq(X)) /\ Len(m) = Len(ss) /\ \A i \in 1..Len(ss) : m[i] = Joined(ss[i])
  <2>1. m \in [1..Len(ss) -> Seq(X)]
    BY <1>1, <1>3
  <2>. HIDE DEF m
  <2>2. m \in Seq(Seq(X)) /\ Len(m) = Len(ss)
    BY <1>1, <2>1, FunctionIsSeq
  <2>. QED
    BY <1>1, <2>2 DEF m
<1>. HIDE DEF m
<1>5. /\ Joins(ss) \in [0..Len(ss) -> Seq(Seq(X))] /\ Joins(ss)[0] = <<>>
      /\ \A n \in 1..Len(ss) : Joins(ss)[n] = Joins(ss)[n - 1] \o ss[n]
  BY JoinsFacts
<1>6. /\ Joins(m) \in [0..Len(m) -> Seq(X)] /\ Joins(m)[0] = <<>>
      /\ \A n \in 1..Len(m) : Joins(m)[n] = Joins(m)[n - 1] \o m[n]
  BY <1>4, JoinsFacts
<1>7. 0 \in T
  BY <1>1, <1>5, <1>6, JoinedNone
<1>8. ASSUME NEW n \in 1..Len(ss), n - 1 \in T PROVE n \in T
  <2>1. n - 1 \in 0..Len(ss) /\ n \in 0..Len(ss)
    BY <1>1
  <2>2. PICK p \in Seq(Seq(X)), q \in Seq(Seq(X)) :
          p = Joins(ss)[n - 1] /\ q = ss[n] /\ Joins(ss)[n] = p \o q
    BY <1>2, <1>5, <2>1
  <2>3. Joined(p \o q) = Joined(p) \o Joined(q)
    BY JoinedBoth
  <2>4. Joined(p) = Joins(m)[n - 1] /\ Joined(q) = m[n]
    BY <1>4, <1>8, <2>2
  <2>5. Joins(m)[n] = Joins(m)[n - 1] \o m[n]
    BY <1>4, <1>6
  <2>6. Joined(Joins(ss)[n]) = Joins(m)[n]
    BY <2>2, <2>3, <2>4, <2>5
  <2>. QED
    BY <2>1, <2>6
<1>9. Len(ss) \in T
  <2>. HIDE DEF T
  <2>1. \A n \in 0..Len(ss) : n \in T
    BY <1>1, <1>7, <1>8, BoundedInduction
  <2>. QED
    BY <1>1, <2>1
<1>. QED
  BY <1>4, <1>9 DEF Joined, m

\* A sequence taken apart into its elements.
LEMMA JoinedElements ==
  ASSUME NEW X, NEW q \in Seq(X)
  PROVE  /\ [k \in DOMAIN q |-> <<q[k]>>] \in Seq(Seq(X))
         /\ Joined([k \in DOMAIN q |-> <<q[k]>>]) = q
<1>. DEFINE m == [k \in DOMAIN q |-> <<q[k]>>]
<1>1. Len(q) \in Nat /\ DOMAIN q = 1..Len(q) /\ \A k \in 1..Len(q) : q[k] \in X
  BY LenProperties, ElementOfSeq
<1>2. \A k \in 1..Len(q) : <<q[k]>> \in Seq(X) /\ Len(<<q[k]>>) = 1 /\ <<q[k]>>[1] = q[k]
  BY <1>1
<1>3. /\ m \in Seq(Seq(X)) /\ Len(m) = Len(q)
      /\ \A k \in 1..Len(q) : Len(m[k]) = 1 /\ m[k][1] = q[k]
  <2>1. m \in [1..Len(q) -> Seq(X)]
    BY <1>1, <1>2
  <2>2. \A k \in 1..Len(q) : m[k] = <<q[k]>>
    BY <1>1
  <2>. HIDE DEF m
  <2>3. m \in Seq(Seq(X)) /\ Len(m) = Len(q)
    BY <1>1, <2>1, FunctionIsSeq
  <2>. QED
    BY <1>2, <2>2, <2>3
<1>. HIDE DEF m
<1>4. /\ Ends(m) \in [0..Len(m) -> Nat] /\ Ends(m)[0] = 0
      /\ \A i \in 1..Len(m) : Ends(m)[i] = Ends(m)[i - 1] + Len(m[i])
      /\ Joined(m) \in Seq(X) /\ Len(Joined(m)) = Ends(m)[Len(m)]
  BY <1>3, EndsFacts
<1>5. \A n \in 0..Len(q) : Ends(m)[n] = n
  <2>. DEFINE T == {n \in 0..Len(q) : Ends(m)[n] = n}
  <2>1. 0 \in T
    BY <1>1, <1>4
  <2>2. ASSUME NEW n \in 1..Len(q), n - 1 \in T PROVE n \in T
    <3>1. n \in 0..Len(q) /\ n \in 1..Len(m) /\ Ends(m)[n - 1] = n - 1
      BY <1>1, <1>3, <2>2
    <3>2. Ends(m)[n] = Ends(m)[n - 1] + Len(m[n]) /\ Len(m[n]) = 1
      BY <1>3, <1>4, <3>1
    <3>3. Ends(m)[n] = n
      BY <3>1, <3>2
    <3>. QED
      BY <3>1, <3>3
  <2>. HIDE DEF T
  <2>3. \A n \in 0..Len(q) : n \in T
    BY <1>1, <2>1, <2>2, BoundedInduction
  <2>. QED
    BY <2>3 DEF T
<1>6. Len(Joined(m)) = Len(q)
  <2>1. Ends(m)[Len(q)] = Len(q)
    BY <1>1, <1>5
  <2>. QED
    BY <1>3, <1>4, <2>1
<1>7. \A i \in 1..Len(m) : \A k \in 1..Len(m[i]) : Joined(m)[Ends(m)[i - 1] + k] = m[i][k]
  BY <1>3, JoinedPlaces
<1>8. ASSUME NEW n \in 1..Len(q) PROVE Joined(m)[n] = q[n]
  <2>1. Ends(m)[n - 1] = n - 1 /\ (n - 1) + 1 = n /\ 1 \in 1..Len(m[n])
    BY <1>1, <1>3, <1>5
  <2>. QED
    BY <1>3, <1>7, <2>1
<1>9. Joined(m) = q
  BY <1>4, <1>6, <1>8, SeqEqual
<1>. QED
  BY <1>3, <1>9 DEF m

-----------------------------------------------------------------------------
(* The weight of a sequence whose elements have weights.                    *)

Weight(w, piece) == Total([k \in DOMAIN piece |-> w[piece[k]]])

LEMMA WeightsAreNat ==
  ASSUME NEW X, NEW w \in [X -> Nat], NEW p \in Seq(X)
  PROVE  /\ [k \in DOMAIN p |-> w[p[k]]] \in Seq(Nat)
         /\ Len([k \in DOMAIN p |-> w[p[k]]]) = Len(p)
         /\ Weight(w, p) \in Nat
<1>. DEFINE v == [k \in DOMAIN p |-> w[p[k]]]
<1>1. Len(p) \in Nat /\ DOMAIN p = 1..Len(p) /\ \A k \in 1..Len(p) : p[k] \in X
  BY LenProperties, ElementOfSeq
<1>2. v \in [1..Len(p) -> Nat]
  BY <1>1
<1>. HIDE DEF v
<1>3. v \in Seq(Nat) /\ Len(v) = Len(p)
  BY <1>1, <1>2, FunctionIsSeq
<1>4. Total(v) \in Nat
  BY <1>3, TotalIsNat
<1>. QED
  BY <1>3, <1>4 DEF v, Weight

LEMMA WeightOfNone ==
  ASSUME NEW w
  PROVE  Weight(w, <<>>) = 0
<1>. DEFINE v == [k \in DOMAIN <<>> |-> w[<<>>[k]]]
<1>1. v \in Seq(Nat) /\ Len(v) = 0
  OBVIOUS
<1>. HIDE DEF v
<1>2. Sums(v)[0] = 0
  BY <1>1, SumsFacts
<1>. QED
  BY <1>1, <1>2 DEF v, Weight, Total

LEMMA WeightOfBoth ==
  ASSUME NEW X, NEW w \in [X -> Nat], NEW p \in Seq(X), NEW q \in Seq(X)
  PROVE  Weight(w, p \o q) = Weight(w, p) + Weight(w, q)
<1>. DEFINE r == p \o q
            vp == [k \in DOMAIN p |-> w[p[k]]]
            vq == [k \in DOMAIN q |-> w[q[k]]]
            vr == [k \in DOMAIN r |-> w[r[k]]]
<1>1. /\ Len(p) \in Nat /\ DOMAIN p = 1..Len(p) /\ Len(q) \in Nat /\ DOMAIN q = 1..Len(q)
      /\ r \in Seq(X) /\ Len(r) = Len(p) + Len(q)
      /\ \A k \in 1..(Len(p) + Len(q)) : r[k] = IF k <= Len(p) THEN p[k] ELSE q[k - Len(p)]
  BY LenProperties, ConcatProperties
<1>. HIDE DEF r
<1>2. DOMAIN r = 1..Len(r)
  BY <1>1, LenProperties
<1>3. vp \in Seq(Nat) /\ Len(vp) = Len(p) /\ vq \in Seq(Nat) /\ Len(vq) = Len(q)
  BY WeightsAreNat
<1>4. vr \in Seq(Nat) /\ Len(vr) = Len(r)
  BY <1>1, WeightsAreNat
<1>5. /\ \A k \in 1..Len(p) : vp[k] = w[p[k]]
      /\ \A k \in 1..Len(q) : vq[k] = w[q[k]]
      /\ \A k \in 1..(Len(p) + Len(q)) : vr[k] = w[r[k]]
  BY <1>1, <1>2
<1>. HIDE DEF vp, vq, vr
<1>6. /\ vp \o vq \in Seq(Nat) /\ Len(vp \o vq) = Len(vp) + Len(vq)
      /\ \A k \in 1..(Len(vp) + Len(vq)) :
           (vp \o vq)[k] = IF k <= Len(vp) THEN vp[k] ELSE vq[k - Len(vp)]
  BY <1>3, ConcatProperties
<1>7. ASSUME NEW k \in 1..Len(vr) PROVE vr[k] = (vp \o vq)[k]
  <2>1. k \in 1..(Len(p) + Len(q))
    BY <1>1, <1>4
  <2>2. CASE k <= Len(p)
    <3>1. k \in 1..Len(p)
      BY <1>1, <2>1, <2>2
    <3>. QED
      BY <1>1, <1>3, <1>5, <1>6, <2>1, <2>2, <3>1
  <2>3. CASE ~(k <= Len(p))
    <3>1. k - Len(p) \in 1..Len(q)
      BY <1>1, <2>1, <2>3
    <3>2. vr[k] = w[q[k - Len(p)]]
      BY <1>1, <1>5, <2>1, <2>3
    <3>3. (vp \o vq)[k] = vq[k - Len(p)]
      BY <1>3, <1>6, <2>1, <2>3
    <3>. QED
      BY <1>5, <3>1, <3>2, <3>3
  <2>. QED
    BY <2>2, <2>3
<1>8. vr = vp \o vq
  <2>1. Len(vr) = Len(vp \o vq)
    BY <1>1, <1>3, <1>4, <1>6
  <2>. QED
    BY <1>4, <1>6, <1>7, <2>1, SeqEqual
<1>9. Total(vp \o vq) = Total(vp) + Total(vq)
  BY <1>3, TotalOfBoth
<1>. QED
  BY <1>8, <1>9 DEF Weight, vp, vq, vr, r

\* What is joined weighs as much as the parts do.
LEMMA WeightOfJoined ==
  ASSUME NEW X, NEW w \in [X -> Nat], NEW s \in Seq(Seq(X))
  PROVE  /\ [i \in DOMAIN s |-> Weight(w, s[i])] \in Seq(Nat)
         /\ \A n \in 0..Len(s) :
              Weight(w, Joins(s)[n]) = Sums([i \in DOMAIN s |-> Weight(w, s[i])])[n]
<1>. DEFINE v == [i \in DOMAIN s |-> Weight(w, s[i])]
            T == {n \in 0..Len(s) : Weight(w, Joins(s)[n]) = Sums(v)[n]}
<1>1. Len(s) \in Nat /\ DOMAIN s = 1..Len(s)
  BY LenProperties
<1>2. \A i \in 1..Len(s) : s[i] \in Seq(X)
  BY ElementOfSeq
<1>3. \A q \in Seq(X) : Weight(w, q) \in Nat
  BY WeightsAreNat
<1>4. v \in Seq(Nat) /\ Len(v) = Len(s) /\ \A i \in 1..Len(s) : v[i] = Weight(w, s[i])
  <2>1. v \in [1..Len(s) -> Nat] /\ \A i \in 1..Len(s) : v[i] = Weight(w, s[i])
    BY <1>1, <1>2, <1>3
  <2>. HIDE DEF v
  <2>2. v \in Seq(Nat) /\ Len(v) = Len(s)
    BY <1>1, <2>1, FunctionIsSeq
  <2>. QED
    BY <2>1, <2>2
<1>. HIDE DEF v
<1>5. /\ Joins(s) \in [0..Len(s) -> Seq(X)] /\ Joins(s)[0] = <<>>
      /\ \A n \in 1..Len(s) : Joins(s)[n] = Joins(s)[n - 1] \o s[n]
  BY JoinsFacts
<1>6. /\ Sums(v) \in [0..Len(v) -> Nat] /\ Sums(v)[0] = 0
      /\ \A n \in 1..Len(v) : Sums(v)[n] = Sums(v)[n - 1] + v[n]
  BY <1>4, SumsFacts
<1>7. 0 \in T
  <2>1. Weight(w, <<>>) = 0
    BY WeightOfNone
  <2>. QED
    BY <1>1, <1>5, <1>6, <2>1
<1>8. ASSUME NEW n \in 1..Len(s), n - 1 \in T PROVE n \in T
  <2>1. n - 1 \in 0..Len(s) /\ n \in 0..Len(s)
    BY <1>1
  <2>2. PICK p \in Seq(X), q \in Seq(X) :
          p = Joins(s)[n - 1] /\ q = s[n] /\ Joins(s)[n] = p \o q
    BY <1>2, <1>5, <2>1
  <2>3. Weight(w, p \o q) = Weight(w, p) + Weight(w, q)
    BY WeightOfBoth
  <2>4. Weight(w, p) = Sums(v)[n - 1] /\ Weight(w, q) = v[n]
    BY <1>4, <1>8, <2>2
  <2>5. Sums(v)[n] = Sums(v)[n - 1] + v[n]
    BY <1>4, <1>6
  <2>6. Weight(w, Joins(s)[n]) = Sums(v)[n]
    BY <2>2, <2>3, <2>4, <2>5
  <2>. QED
    BY <2>1, <2>6
<1>9. \A n \in 0..Len(s) : n \in T
  <2>. HIDE DEF T
  <2>. QED
    BY <1>1, <1>7, <1>8, BoundedInduction
<1>. QED
  BY <1>4, <1>9 DEF v

-----------------------------------------------------------------------------
\* The elements at some positions are the elements at those positions.
LEMMA AtFacts ==
  ASSUME NEW X, NEW s \in Seq(X), NEW I
  PROVE  /\ At(s, I) \in Seq(X)
         /\ {At(s, I)[k] : k \in DOMAIN At(s, I)} = {s[i] : i \in I \cap DOMAIN s}
<1>. DEFINE Elements(q) == {q[k] : k \in DOMAIN q}
            T == {n \in 0..Len(s) : Elements(Picks(s, I)[n]) = {s[i] : i \in I \cap 1..n}}
<1>1. Len(s) \in Nat /\ DOMAIN s = 1..Len(s) /\ \A n \in 1..Len(s) : s[n] \in X
  BY LenProperties, ElementOfSeq
<1>2. /\ Picks(s, I) \in [0..Len(s) -> Seq(X)] /\ Picks(s, I)[0] = <<>>
      /\ \A n \in 1..Len(s) :
           Picks(s, I)[n] = IF n \in I THEN Append(Picks(s, I)[n - 1], s[n])
                                       ELSE Picks(s, I)[n - 1]
  BY PicksFacts
<1>3. 0 \in T
  <2>1. Elements(<<>>) = {} /\ 1..0 = {}
    OBVIOUS
  <2>. QED
    BY <1>1, <1>2, <2>1
<1>4. ASSUME NEW p \in Seq(X), NEW x \in X
      PROVE  Elements(Append(p, x)) = Elements(p) \cup {x}
  <2>1. Len(p) \in Nat /\ DOMAIN p = 1..Len(p)
    BY LenProperties
  <2>2. /\ Append(p, x) \in Seq(X) /\ Len(Append(p, x)) = Len(p) + 1
        /\ \A k \in 1..Len(p) : Append(p, x)[k] = p[k]
        /\ Append(p, x)[Len(p) + 1] = x
    BY AppendProperties
  <2>3. DOMAIN Append(p, x) = 1..(Len(p) + 1)
    BY <2>2, LenProperties
  <2>4. 1..(Len(p) + 1) = (1..Len(p)) \cup {Len(p) + 1}
    BY <2>1
  <2>. QED
    BY <2>1, <2>2, <2>3, <2>4
<1>5. ASSUME NEW n \in 1..Len(s), n - 1 \in T PROVE n \in T
  <2>1. n - 1 \in 0..Len(s) /\ n \in 0..Len(s) /\ 1..n = (1..(n - 1)) \cup {n}
    BY <1>1
  <2>2. PICK p \in Seq(X) : p = Picks(s, I)[n - 1]
    BY <1>2, <2>1
  <2>3. Elements(p) = {s[i] : i \in I \cap 1..(n - 1)}
    BY <1>5, <2>2
  <2>. HIDE DEF Elements
  <2>4. CASE n \in I
    <3>1. Picks(s, I)[n] = Append(p, s[n])
      BY <1>2, <2>2, <2>4
    <3>2. Elements(Append(p, s[n])) = Elements(p) \cup {s[n]}
      BY <1>1, <1>4
    <3>3. {s[i] : i \in I \cap 1..n} = {s[i] : i \in I \cap 1..(n - 1)} \cup {s[n]}
      BY <2>1, <2>4
    <3>. QED
      BY <2>1, <2>3, <3>1, <3>2, <3>3
  <2>5. CASE n \notin I
    <3>1. Picks(s, I)[n] = p
      BY <1>2, <2>2, <2>5
    <3>2. I \cap 1..n = I \cap 1..(n - 1)
      BY <2>1, <2>5
    <3>. QED
      BY <2>1, <2>3, <3>1, <3>2
  <2>. QED
    BY <2>4, <2>5
<1>6. Len(s) \in T
  <2>. HIDE DEF T
  <2>1. \A n \in 0..Len(s) : n \in T
    BY <1>1, <1>3, <1>5, BoundedInduction
  <2>. QED
    BY <1>1, <2>1
<1>7. Len(s) \in 0..Len(s)
  BY <1>1
<1>. QED
  BY <1>1, <1>2, <1>6, <1>7 DEF At

Increases(f, N) == \A i, j \in 1..N : i < j => f[i] < f[j]

\* N increasing numbers among N increasing numbers are the same.
LEMMA SameNumbers ==
  ASSUME NEW N \in Nat, NEW b \in [1..N -> Nat], NEW f \in [1..N -> Nat],
         Increases(b, N), Increases(f, N),
         \A i \in 1..N : \E j \in 1..N : b[i] = f[j]
  PROVE  \A i \in 1..N : b[i] = f[i]
<1>1. ASSUME NEW i \in 1..N, NEW j \in 1..N, f[i] < f[j] PROVE i < j
  <2>1. CASE j < i
    <3>1. f[j] < f[i]
      BY <2>1 DEF Increases
    <3>2. f[i] \in Nat /\ f[j] \in Nat
      OBVIOUS
    <3>. QED
      BY <1>1, <3>1, <3>2
  <2>2. CASE j = i
    <3>1. f[i] \in Nat
      OBVIOUS
    <3>. QED
      BY <1>1, <2>2, <3>1
  <2>. QED
    BY <2>1, <2>2
<1>2. ASSUME NEW i \in 1..N, NEW j \in 1..N, i <= j PROVE f[i] <= f[j]
  <2>1. CASE i < j
    <3>1. f[i] < f[j] /\ f[i] \in Nat /\ f[j] \in Nat
      BY <2>1 DEF Increases
    <3>. QED
      BY <3>1
  <2>2. CASE i = j
    <3>1. f[i] \in Nat
      OBVIOUS
    <3>. QED
      BY <2>2, <3>1
  <2>. QED
    BY <1>2, <2>1, <2>2
<1>3. \A i \in 1..N : f[i] <= b[i]
  <2>. DEFINE T == {n \in 0..N : n # 0 => f[n] <= b[n]}
  <2>1. 0 \in T
    OBVIOUS
  <2>2. ASSUME NEW n \in 1..N, n - 1 \in T PROVE n \in T
    <3>1. PICK j \in 1..N : b[n] = f[j]
      OBVIOUS
    <3>2. CASE n = 1
      <4>1. f[n] <= f[j]
        BY <1>2, <3>2
      <4>. QED
        BY <3>1, <4>1
    <3>3. CASE n # 1
      <4>1. n - 1 \in 1..N /\ n - 1 < n
        BY <3>3
      <4>2. f[n - 1] <= b[n - 1]
        BY <2>2, <4>1
      <4>3. b[n - 1] < b[n]
        BY <4>1 DEF Increases
      <4>4. PICK x \in Nat, y \in Nat, z \in Nat : x = f[n - 1] /\ y = b[n - 1] /\ z = b[n]
        BY <4>1
      <4>5. x < z
        <5>1. x <= y
          BY <4>2, <4>4
        <5>2. y < z
          BY <4>3, <4>4
        <5>. QED
          BY <5>1, <5>2
      <4>6. f[n - 1] < f[j]
        BY <3>1, <4>4, <4>5
      <4>7. n - 1 < j
        BY <1>1, <4>1, <4>6
      <4>8. n <= j
        BY <4>7
      <4>9. f[n] <= f[j]
        BY <1>2, <4>8
      <4>. QED
        BY <3>1, <4>9
    <3>. QED
      BY <3>2, <3>3
  <2>. HIDE DEF T
  <2>3. \A n \in 0..N : n \in T
    BY <2>1, <2>2, BoundedInduction
  <2>4. \A n \in 1..N : n \in 0..N /\ n # 0
    OBVIOUS
  <2>. QED
    BY <2>3, <2>4 DEF T
<1>4. \A i \in 1..N : b[i] <= f[i]
  <2>. DEFINE T == {m \in 0..N : m # N => b[N - m] <= f[N - m]}
  <2>1. 0 \in T
    <3>1. CASE N = 0
      BY <3>1
    <3>2. CASE N # 0
      <4>1. N \in 1..N /\ N - 0 = N
        BY <3>2
      <4>2. PICK j \in 1..N : b[N] = f[j]
        BY <4>1
      <4>3. f[j] <= f[N]
        BY <1>2, <4>1
      <4>. QED
        BY <4>1, <4>2, <4>3
    <3>. QED
      BY <3>1, <3>2
  <2>2. ASSUME NEW m \in 1..N, m - 1 \in T PROVE m \in T
    <3>1. CASE m = N
      BY <3>1
    <3>2. CASE m # N
      <4>1. PICK i \in 1..N : i = N - m /\ i + 1 = N - (m - 1) /\ i + 1 \in 1..N /\ m - 1 # N
        BY <3>2
      <4>2. PICK j \in 1..N : b[i] = f[j]
        OBVIOUS
      <4>3. b[i] < b[i + 1]
        <5>1. i < i + 1 /\ i + 1 \in 1..N
          BY <4>1
        <5>. QED
          BY <5>1 DEF Increases
      <4>4. b[i + 1] <= f[i + 1]
        BY <2>2, <4>1
      <4>5. PICK x \in Nat, y \in Nat, z \in Nat : x = b[i] /\ y = b[i + 1] /\ z = f[i + 1]
        BY <4>1
      <4>6. x < z
        <5>1. x < y
          BY <4>3, <4>5
        <5>2. y <= z
          BY <4>4, <4>5
        <5>. QED
          BY <5>1, <5>2
      <4>a. f[j] < f[i + 1]
        BY <4>2, <4>5, <4>6
      <4>b. j < i + 1
        BY <1>1, <4>1, <4>a
      <4>c. j <= i
        BY <4>b
      <4>7. f[j] <= f[i]
        BY <1>2, <4>c
      <4>8. b[N - m] <= f[N - m]
        BY <4>1, <4>2, <4>7
      <4>. QED
        BY <4>8
    <3>. QED
      BY <3>1, <3>2
  <2>. HIDE DEF T
  <2>3. \A m \in 0..N : m \in T
    BY <2>1, <2>2, BoundedInduction
  <2>4. ASSUME NEW i \in 1..N PROVE b[i] <= f[i]
    <3>1. N - i \in 0..N /\ N - i # N /\ N - (N - i) = i
      OBVIOUS
    <3>2. N - i \in T
      BY <2>3, <3>1
    <3>. QED
      BY <3>1, <3>2 DEF T
  <2>. QED
    BY <2>4
<1>5. ASSUME NEW i \in 1..N PROVE b[i] = f[i]
  <2>1. b[i] \in Nat /\ f[i] \in Nat /\ f[i] <= b[i] /\ b[i] <= f[i]
    BY <1>3, <1>4
  <2>. QED
    BY <2>1
<1>. QED
  BY <1>5

\* Two ways to cut a stretch into as many intervals are one way, if each of the
\* first way's starts is a start of the second.
LEMMA SameEnds ==
  ASSUME NEW N \in Nat, NEW g \in [0..N -> Nat], NEW e \in [0..N -> Nat],
         g[0] = 0, e[0] = 0, g[N] = e[N],
         \A i \in 1..N : g[i - 1] < g[i] /\ e[i - 1] < e[i],
         \A i \in 1..N : \E j \in 1..N : g[i - 1] = e[j - 1]
  PROVE  \A n \in 0..N : g[n] = e[n]
<1>1. ASSUME NEW h \in [0..N -> Nat], h[0] = 0, \A i \in 1..N : h[i - 1] < h[i]
      PROVE  Increases([i \in 1..N |-> h[i - 1]], N)
  <2>1. \A i \in 1..N : h[i - 1] <= h[i]
    <3>1. ASSUME NEW i \in 1..N PROVE h[i - 1] <= h[i]
      <4>1. h[i - 1] \in Nat /\ h[i] \in Nat /\ h[i - 1] < h[i]
        BY <1>1
      <4>. QED
        BY <4>1
    <3>. QED
      BY <3>1
  <2>2. \A m, n \in 0..N : m <= n => h[m] <= h[n]
    BY <1>1, <2>1, Intervals
  <2>3. ASSUME NEW i \in 1..N, NEW j \in 1..N, i < j PROVE h[i - 1] < h[j - 1]
    <3>1. i \in 0..N /\ j - 1 \in 0..N /\ i <= j - 1 /\ i - 1 \in 0..N
      BY <2>3
    <3>2. h[i - 1] < h[i] /\ h[i] <= h[j - 1]
      BY <1>1, <2>2, <3>1
    <3>3. h[i - 1] \in Nat /\ h[i] \in Nat /\ h[j - 1] \in Nat
      BY <3>1
    <3>. QED
      BY <3>2, <3>3
  <2>. QED
    BY <2>3 DEF Increases
<1>. DEFINE b == [i \in 1..N |-> g[i - 1]]
            f == [i \in 1..N |-> e[i - 1]]
<1>2. b \in [1..N -> Nat] /\ f \in [1..N -> Nat]
  <2>1. \A i \in 1..N : i - 1 \in 0..N
    OBVIOUS
  <2>. QED
    BY <2>1
<1>3. Increases(b, N) /\ Increases(f, N)
  BY <1>1
<1>4. \A i \in 1..N : \E j \in 1..N : b[i] = f[j]
  OBVIOUS
<1>5. \A i \in 1..N : b[i] = g[i - 1] /\ f[i] = e[i - 1]
  OBVIOUS
<1>. HIDE DEF b, f
<1>6. \A i \in 1..N : b[i] = f[i]
  BY <1>2, <1>3, <1>4, SameNumbers
<1>7. ASSUME NEW n \in 0..N PROVE g[n] = e[n]
  <2>1. CASE n = N
    BY <2>1
  <2>2. CASE n # N
    <3>1. PICK i \in 1..N : i - 1 = n
      <4>1. n + 1 \in 1..N /\ (n + 1) - 1 = n
        BY <2>2
      <4>. QED
        BY <4>1
    <3>2. b[i] = g[n] /\ f[i] = e[n]
      BY <1>5, <3>1
    <3>. QED
      BY <1>6, <3>2
  <2>. QED
    BY <2>1, <2>2
<1>. QED
  BY <1>7

=============================================================================
