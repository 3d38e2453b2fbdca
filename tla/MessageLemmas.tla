---------------------------- MODULE MessageLemmas ----------------------------
(***************************************************************************)
(* Facts about the messages in a sequence that the proofs about both kinds *)
(* of relay use: what appending, splitting and taking the head do to the   *)
(* set of them, how many there are, and how a set of lost messages grows.  *)
(***************************************************************************)
EXTENDS Naturals, Sequences, FiniteSets, Functions,
        SequenceTheorems, FiniteSetTheorems, TLAPS

LEMMA AppendAdds ==
  ASSUME NEW S, NEW s \in Seq(S), NEW m \in S
  PROVE  Range(Append(s, m)) = Range(s) \cup {m}
<1>1. /\ Len(s) \in Nat
      /\ Append(s, m) \in Seq(S)
      /\ Len(Append(s, m)) = Len(s) + 1
      /\ \A i \in 1 .. Len(s) : Append(s, m)[i] = s[i]
      /\ Append(s, m)[Len(s) + 1] = m
  BY LenProperties, AppendProperties
<1>2. Range(s) = {s[i] : i \in 1 .. Len(s)}
  BY RangeEquality
<1>3. Range(Append(s, m)) = {Append(s, m)[i] : i \in 1 .. (Len(s) + 1)}
  BY <1>1, RangeEquality
<1>4. 1 .. (Len(s) + 1) = (1 .. Len(s)) \cup {Len(s) + 1}
  BY <1>1
<1> QED BY <1>1, <1>2, <1>3, <1>4

LEMMA SplitKeeps ==
  ASSUME NEW S, NEW s \in Seq(S), NEW n \in 0 .. Len(s)
  PROVE  /\ SubSeq(s, 1, n) \in Seq(S) /\ Len(SubSeq(s, 1, n)) = n
         /\ SubSeq(s, n + 1, Len(s)) \in Seq(S)
         /\ Len(SubSeq(s, n + 1, Len(s))) = Len(s) - n
         /\ Range(s) = Range(SubSeq(s, 1, n)) \cup Range(SubSeq(s, n + 1, Len(s)))
<1> DEFINE a == SubSeq(s, 1, n)
           b == SubSeq(s, n + 1, Len(s))
<1>1. Len(s) \in Nat /\ n \in Nat /\ n <= Len(s) /\ \A i \in 1 .. Len(s) : s[i] \in S
  BY LenProperties, ElementOfSeq
<1>2. a \in Seq(S) /\ Len(a) = n /\ \A i \in 1 .. n : a[i] = s[i]
  <2>1. \A i \in 1 .. n : s[i] \in S
    BY <1>1
  <2>2. Len(a) = IF 1 <= n THEN n - 1 + 1 ELSE 0
    BY <1>1, <2>1, SubSeqProperties
  <2>3. a \in Seq(S) /\ \A i \in 1 .. (n - 1 + 1) : a[i] = s[1 + i - 1]
    BY <1>1, <2>1, SubSeqProperties
  <2>4. n - 1 + 1 = n /\ \A i \in 1 .. n : 1 + i - 1 = i
    BY <1>1
  <2> QED BY <1>1, <2>2, <2>3, <2>4
<1>3. /\ b \in Seq(S) /\ Len(b) = Len(s) - n
      /\ \A i \in 1 .. (Len(s) - n) : b[i] = s[i + n]
  <2>1. \A i \in (n + 1) .. Len(s) : s[i] \in S
    BY <1>1
  <2>2. /\ b \in Seq(S)
        /\ Len(b) = IF n + 1 <= Len(s) THEN Len(s) - (n + 1) + 1 ELSE 0
        /\ \A i \in 1 .. (Len(s) - (n + 1) + 1) : b[i] = s[(n + 1) + i - 1]
    BY <1>1, <2>1, SubSeqProperties
  <2>3. /\ Len(s) - (n + 1) + 1 = Len(s) - n
        /\ \A i \in 1 .. (Len(s) - n) : (n + 1) + i - 1 = i + n
    BY <1>1
  <2>4. Len(b) = Len(s) - n
    BY <1>1, <2>2
  <2>5. \A i \in 1 .. (Len(s) - n) : b[i] = s[i + n]
    <3> HIDE DEF b
    <3> QED BY <2>2, <2>3
  <2> QED BY <2>2, <2>4, <2>5
<1> HIDE DEF a, b
<1>4. Range(a) = {a[i] : i \in 1 .. n}
  BY <1>2, RangeEquality
<1>5. Range(b) = {b[i] : i \in 1 .. (Len(s) - n)}
  BY <1>3, RangeEquality
<1>6. Range(s) = {s[i] : i \in 1 .. Len(s)}
  BY RangeEquality
<1>7. Range(s) \subseteq Range(a) \cup Range(b)
  <2> SUFFICES ASSUME NEW i \in 1 .. Len(s) PROVE s[i] \in Range(a) \cup Range(b)
    BY <1>6
  <2>1. CASE i <= n
    BY <1>1, <1>2, <1>4, <2>1
  <2>2. CASE i > n
    <3>1. i - n \in 1 .. (Len(s) - n) /\ (i - n) + n = i
      BY <1>1, <2>2
    <3> QED BY <1>3, <1>5, <3>1
  <2> QED BY <1>1, <2>1, <2>2
<1>8. Range(a) \subseteq Range(s)
  BY <1>1, <1>2, <1>4, <1>6
<1>9. Range(b) \subseteq Range(s)
  <2>1. \A i \in 1 .. (Len(s) - n) : i + n \in 1 .. Len(s)
    BY <1>1
  <2> QED BY <1>3, <1>5, <1>6, <2>1
<1> QED BY <1>2, <1>3, <1>7, <1>8, <1>9 DEF a, b

\* Where the elements of the second part come from.
LEMMA SplitShifts ==
  ASSUME NEW S, NEW s \in Seq(S), NEW n \in 0 .. Len(s)
  PROVE  \A i \in 1 .. (Len(s) - n) : SubSeq(s, n + 1, Len(s))[i] = s[i + n]
<1>1. Len(s) \in Nat /\ n \in Nat /\ n <= Len(s) /\ \A i \in 1 .. Len(s) : s[i] \in S
  BY LenProperties, ElementOfSeq
<1> DEFINE b == SubSeq(s, n + 1, Len(s))
<1>2. \A i \in (n + 1) .. Len(s) : s[i] \in S
  BY <1>1
<1>3. \A i \in 1 .. (Len(s) - (n + 1) + 1) : b[i] = s[(n + 1) + i - 1]
  BY <1>1, <1>2, SubSeqProperties
<1>4. /\ Len(s) - (n + 1) + 1 = Len(s) - n
      /\ \A i \in 1 .. (Len(s) - n) : (n + 1) + i - 1 = i + n
  BY <1>1
<1>5. \A i \in 1 .. (Len(s) - n) : b[i] = s[i + n]
  <2> HIDE DEF b
  <2> QED BY <1>3, <1>4
<1> QED BY <1>5 DEF b

LEMMA HeadAndTail ==
  ASSUME NEW S, NEW s \in Seq(S), s # <<>>
  PROVE  /\ Head(s) \in S /\ Tail(s) \in Seq(S) /\ Len(Tail(s)) = Len(s) - 1
         /\ Range(s) = {Head(s)} \cup Range(Tail(s))
<1> DEFINE t == Tail(s)
<1>1. /\ Len(s) \in Nat /\ Len(s) > 0 /\ Len(t) = Len(s) - 1 /\ t \in Seq(S)
      /\ \A i \in 1 .. Len(t) : t[i] = s[i + 1]
      /\ Head(s) = s[1] /\ Head(s) \in S
  BY LenProperties, HeadTailProperties, EmptySeq
<1> HIDE DEF t
<1>2. Range(s) = {s[i] : i \in 1 .. Len(s)} /\ Range(t) = {t[i] : i \in 1 .. Len(t)}
  BY <1>1, RangeEquality
<1>3. \A i \in 1 .. Len(t) : i + 1 \in 1 .. Len(s)
  BY <1>1
<1>4. \A i \in 1 .. Len(s) : i = 1 \/ (i - 1 \in 1 .. Len(t) /\ (i - 1) + 1 = i)
  BY <1>1
<1>5. Range(s) \subseteq {Head(s)} \cup Range(t)
  <2> SUFFICES ASSUME NEW i \in 1 .. Len(s) PROVE s[i] \in {Head(s)} \cup Range(t)
    BY <1>2
  <2>1. CASE i = 1
    BY <1>1, <2>1
  <2>2. CASE i - 1 \in 1 .. Len(t) /\ (i - 1) + 1 = i
    BY <1>1, <1>2, <2>2
  <2> QED BY <1>4, <2>1, <2>2
<1>6. {Head(s)} \cup Range(t) \subseteq Range(s)
  BY <1>1, <1>2, <1>3
<1> QED BY <1>1, <1>5, <1>6 DEF t

LEMMA NoMessages == Range(<<>>) = {}
BY EmptySeq DEF Range

\* A sequence holds at most as many messages as it is long.
LEMMA FewMessages ==
  ASSUME NEW S, NEW s \in Seq(S)
  PROVE  IsFiniteSet(Range(s)) /\ Cardinality(Range(s)) <= Len(s)
<1>1. Len(s) \in Nat /\ s \in [1 .. Len(s) -> S]
  BY LenProperties
<1>2. Range(s) = {s[i] : i \in 1 .. Len(s)}
  BY RangeEquality
<1>3. s \in Surjection(1 .. Len(s), Range(s))
  BY <1>1, <1>2 DEF Surjection
<1>4. IsFiniteSet(1 .. Len(s)) /\ Cardinality(1 .. Len(s)) = Len(s)
  BY <1>1, FS_Interval
<1> QED BY <1>3, <1>4, FS_Surjection

\* Messages that are lost in a step add to those lost before.
LEMMA LossGrows ==
  ASSUME NEW L, NEW E, NEW M, IsFiniteSet(L), IsFiniteSet(E), M \subseteq L \cup E,
         NEW b \in Nat, NEW e \in Nat, Cardinality(L) <= b, Cardinality(E) <= e
  PROVE  IsFiniteSet(M) /\ Cardinality(M) <= b + e
<1>1. /\ IsFiniteSet(L \cup E)
      /\ Cardinality(L \cup E) = Cardinality(L) + Cardinality(E) - Cardinality(L \cap E)
  BY FS_Union
<1>2. IsFiniteSet(L \cap E)
  BY FS_Intersection
<1>3. /\ Cardinality(L) \in Nat /\ Cardinality(E) \in Nat
      /\ Cardinality(L \cap E) \in Nat /\ Cardinality(L \cup E) \in Nat
  BY <1>1, <1>2, FS_CardinalityType
<1>4. IsFiniteSet(M) /\ Cardinality(M) <= Cardinality(L \cup E) /\ Cardinality(M) \in Nat
  BY <1>1, FS_Subset, FS_CardinalityType
<1> QED BY <1>1, <1>3, <1>4

-----------------------------------------------------------------------------
(* Sequences cut and joined.                                               *)

\* A sequence without some elements in a row, neither the first nor the last.
Shortened(t, u) ==
  \E i, j \in 2 .. Len(t) - 1 :
    i <= j /\ u = SubSeq(t, 1, i - 1) \o SubSeq(t, j + 1, Len(t))

\* Losing the middle part of a sequence.
LEMMA WithoutMiddle ==
  ASSUME NEW S, NEW a \in Seq(S), NEW b \in Seq(S), NEW c \in Seq(S),
         a # <<>>, b # <<>>, c # <<>>
  PROVE  Shortened((a \o b) \o c, a \o c)
<1> DEFINE t == (a \o b) \o c
           ab == a \o b
           i == Len(a) + 1
           j == Len(a) + Len(b)
<1>1. /\ Len(a) \in Nat /\ Len(b) \in Nat /\ Len(c) \in Nat
      /\ Len(a) > 0 /\ Len(b) > 0 /\ Len(c) > 0
  BY LenProperties, EmptySeq
<1>2. /\ ab \in Seq(S) /\ Len(ab) = Len(a) + Len(b)
      /\ b \o c \in Seq(S) /\ t = a \o (b \o c)
  BY ConcatProperties, ConcatAssociative
<1>3. t \in Seq(S) /\ Len(t) = Len(a) + Len(b) + Len(c)
  BY <1>1, <1>2, ConcatProperties
<1>4. SubSeq(t, 1, i - 1) = a
  <2>1. SubSeq(a \o (b \o c), 1, Len(a)) = SubSeq(a, 1, Len(a))
    BY <1>1, <1>2, SubSeqOfConcat1
  <2>2. SubSeq(a, 1, Len(a)) = a
    BY SubSeqFull
  <2>3. i - 1 = Len(a)
    BY <1>1
  <2> QED
    BY <1>2, <2>1, <2>2, <2>3
<1>5. SubSeq(t, j + 1, Len(t)) = c
  <2> HIDE DEF ab
  <2>1. SubSeq(ab \o c, Len(ab) + 1, Len(ab) + Len(c)) = SubSeq(c, (Len(ab) + 1) - Len(ab), (Len(ab) + Len(c)) - Len(ab))
    BY <1>1, <1>2, SubSeqOfConcat2
  <2>2. (Len(ab) + 1) - Len(ab) = 1 /\ (Len(ab) + Len(c)) - Len(ab) = Len(c)
    BY <1>1, <1>2
  <2>3. SubSeq(c, 1, Len(c)) = c
    BY SubSeqFull
  <2>4. SubSeq(ab \o c, Len(ab) + 1, Len(ab) + Len(c)) = c
    BY <2>1, <2>2, <2>3
  <2> QED
    BY <1>1, <1>2, <1>3, <2>4 DEF ab
<1>6. i \in 2 .. Len(t) - 1 /\ j \in 2 .. Len(t) - 1 /\ i <= j
  BY <1>1, <1>3
<1>7. a \o c = SubSeq(t, 1, i - 1) \o SubSeq(t, j + 1, Len(t))
  BY <1>4, <1>5
<1> HIDE DEF t, i, j
<1>8. Shortened(t, a \o c)
  BY <1>6, <1>7 DEF Shortened
<1> QED
  BY <1>8 DEF t

\* The first part of a concatenation.
LEMMA FirstPart ==
  ASSUME NEW S, NEW a \in Seq(S), NEW b \in Seq(S), a # <<>>
  PROVE  SubSeq(a \o b, 1, Len(a)) = a
<1>1. Len(a) \in Nat /\ Len(a) > 0
  BY LenProperties, EmptySeq
<1>2. SubSeq(a \o b, 1, Len(a)) = SubSeq(a, 1, Len(a))
  BY <1>1, SubSeqOfConcat1
<1> QED
  BY <1>2, SubSeqFull

\* A sequence is its first element, then the rest.
LEMMA HeadThenTail ==
  ASSUME NEW S, NEW s \in Seq(S), s # <<>>
  PROVE  s = <<Head(s)>> \o Tail(s) /\ Head(s) \in S /\ Tail(s) \in Seq(S)
<1>1. Len(s) \in Nat /\ Len(s) > 0 /\ Tail(s) \in Seq(S) /\ Head(s) \in S
  BY LenProperties, HeadTailProperties, EmptySeq
<1>2. s = <<Head(s)>> \o Tail(s)
  BY <1>1
<1> QED
  BY <1>1, <1>2

LEMMA TailOfConcat ==
  ASSUME NEW S, NEW e \in S, NEW s \in Seq(S)
  PROVE  Tail(<<e>> \o s) = s
OBVIOUS

\* A sequence cut in two.
LEMMA CutInTwo ==
  ASSUME NEW S, NEW s \in Seq(S), NEW n \in 0 .. Len(s)
  PROVE  /\ SubSeq(s, 1, n) \in Seq(S) /\ SubSeq(s, n + 1, Len(s)) \in Seq(S)
         /\ s = SubSeq(s, 1, n) \o SubSeq(s, n + 1, Len(s))
<1>1. /\ 1 \in 1 .. Len(s) + 1
      /\ n \in 1 - 1 .. Len(s)
      /\ Len(s) \in n .. Len(s)
  <2>1. Len(s) \in Nat
    BY LenProperties
  <2> QED
    BY <2>1
<1>2. SubSeq(s, 1, n) \o SubSeq(s, n + 1, Len(s)) = SubSeq(s, 1, Len(s))
  BY <1>1, ConcatAdjacentSubSeq
<1>3. SubSeq(s, 1, Len(s)) = s
  BY SubSeqFull
<1> QED
  BY <1>2, <1>3, SplitKeeps
=============================================================================
