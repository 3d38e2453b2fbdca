-------------------------- MODULE ViewChangesProofs --------------------------
(***************************************************************************)
(* How often a change of a rate can make the client change its mind, for   *)
(* any number of senders, rates, messages, commands and failures.          *)
(***************************************************************************)
EXTENDS ViewChanges, WorkshopProofs

-----------------------------------------------------------------------------
(* How often a sequence changes from one element to the next.              *)

ChangesAt(t) == {i \in 1 .. Len(t) - 1 : t[i] # t[i + 1]}
Changes(t) == Cardinality(ChangesAt(t))
Final(t) == t[Len(t)]
Differ(x, y) == IF x = y THEN 0 ELSE 1

LEMMA ChangesFinite ==
  ASSUME NEW S, NEW t \in Seq(S)
  PROVE  IsFiniteSet(ChangesAt(t)) /\ Changes(t) \in Nat
<1>1. Len(t) \in Nat
  BY LenProperties
<1>2. IsFiniteSet(1 .. Len(t) - 1)
  BY <1>1, FS_Interval
<1>3. ChangesAt(t) \in SUBSET (1 .. Len(t) - 1)
  BY DEF ChangesAt
<1> QED
  BY <1>2, <1>3, FS_Subset, FS_CardinalityType DEF Changes

\* What a concatenation is made of.
LEMMA EndsOfJoin ==
  ASSUME NEW S, NEW a \in Seq(S), NEW b \in Seq(S)
  PROVE  /\ a # <<>> => (a \o b)[1] = a[1]
         /\ b # <<>> => Final(a \o b) = Final(b)
         /\ b = <<>> => a \o b = a
<1>1. /\ Len(a) \in Nat /\ Len(b) \in Nat
      /\ a # <<>> => Len(a) > 0
      /\ b # <<>> => Len(b) > 0
  BY LenProperties, EmptySeq
<1>2. /\ Len(a \o b) = Len(a) + Len(b)
      /\ \A i \in 1 .. Len(a) + Len(b) : (a \o b)[i] = IF i <= Len(a) THEN a[i] ELSE b[i - Len(a)]
  BY ConcatProperties
<1>3. ASSUME b # <<>> PROVE Final(a \o b) = Final(b)
  <2>1. Len(a) + Len(b) \in 1 .. Len(a) + Len(b) /\ ~(Len(a) + Len(b) <= Len(a))
        /\ (Len(a) + Len(b)) - Len(a) = Len(b)
    BY <1>1, <1>3
  <2> QED
    BY <1>2, <2>1 DEF Final
<1>4. ASSUME a # <<>> PROVE (a \o b)[1] = a[1]
  <2>1. 1 \in 1 .. Len(a) + Len(b) /\ 1 <= Len(a)
    BY <1>1, <1>4
  <2> QED
    BY <1>2, <2>1
<1> QED
  BY <1>3, <1>4, ConcatEmptySeq

\* A concatenation changes where its parts do, and perhaps where they meet.
LEMMA ChangesOfJoin ==
  ASSUME NEW S, NEW a \in Seq(S), NEW b \in Seq(S), a # <<>>, b # <<>>
  PROVE  Changes(a \o b) = Changes(a) + Differ(Final(a), b[1]) + Changes(b)
<1> DEFINE n == Len(a)
           ab == a \o b
           first == ChangesAt(a)
           second == ChangesAt(b)
           shifted == {i + n : i \in second}
           seam == IF Final(a) = b[1] THEN {} ELSE {n}
<1>1. n \in Nat \ {0} /\ Len(b) \in Nat \ {0}
  BY LenProperties, EmptySeq
<1>2. /\ ab \in Seq(S) /\ Len(ab) = n + Len(b)
      /\ \A i \in 1 .. n + Len(b) : ab[i] = IF i <= n THEN a[i] ELSE b[i - n]
  BY ConcatProperties
<1>3. IsFiniteSet(first) /\ IsFiniteSet(second) /\ first \subseteq 1 .. n - 1 /\ second \subseteq 1 .. Len(b) - 1
  BY ChangesFinite DEF ChangesAt
<1> HIDE DEF ab
<1>4. ChangesAt(ab) = (first \cup seam) \cup shifted
  <2>1. ASSUME NEW i \in 1 .. n - 1 PROVE i \in ChangesAt(ab) <=> i \in first
    <3>1. /\ i \in 1 .. n + Len(b) /\ i + 1 \in 1 .. n + Len(b)
          /\ i \in 1 .. (n + Len(b)) - 1 /\ i <= n /\ i + 1 <= n
      BY <1>1, <2>1
    <3>2. ab[i] = a[i] /\ ab[i + 1] = a[i + 1]
      BY <1>2, <3>1
    <3> QED
      BY <1>2, <2>1, <3>1, <3>2 DEF ChangesAt
  <2>2. n \in ChangesAt(ab) <=> n \in seam
    <3>1. /\ n \in 1 .. n + Len(b) /\ n + 1 \in 1 .. n + Len(b) /\ n \in 1 .. (n + Len(b)) - 1
          /\ n <= n /\ ~(n + 1 <= n) /\ (n + 1) - n = 1
      BY <1>1
    <3>2. ab[n] = Final(a) /\ ab[n + 1] = b[1]
      BY <1>2, <3>1 DEF Final
    <3> QED
      BY <1>2, <3>1, <3>2 DEF ChangesAt
  <2>3. ASSUME NEW j \in 1 .. Len(b) - 1 PROVE j + n \in ChangesAt(ab) <=> j \in second
    <3>1. /\ j + n \in 1 .. n + Len(b) /\ (j + n) + 1 \in 1 .. n + Len(b)
          /\ j + n \in 1 .. (n + Len(b)) - 1 /\ ~(j + n <= n) /\ ~((j + n) + 1 <= n)
          /\ (j + n) - n = j /\ ((j + n) + 1) - n = j + 1
      BY <1>1, <2>3
    <3>2. ab[j + n] = b[j] /\ ab[(j + n) + 1] = b[j + 1]
      BY <1>2, <3>1
    <3> QED
      BY <1>2, <2>3, <3>1, <3>2 DEF ChangesAt
  <2>4. ASSUME NEW i \in ChangesAt(ab) PROVE i \in (first \cup seam) \cup shifted
    <3>1. i \in 1 .. (n + Len(b)) - 1
      BY <1>2, <2>4 DEF ChangesAt
    <3>2. i \in 1 .. n - 1 \/ i = n \/ (i - n \in 1 .. Len(b) - 1 /\ i = (i - n) + n)
      BY <1>1, <3>1
    <3>3. CASE i - n \in 1 .. Len(b) - 1 /\ i = (i - n) + n
      <4>1. i - n \in second
        BY <2>3, <2>4, <3>3
      <4> QED
        BY <3>3, <4>1
    <3> QED
      BY <2>1, <2>2, <2>4, <3>2, <3>3
  <2>5. ASSUME NEW i \in (first \cup seam) \cup shifted PROVE i \in ChangesAt(ab)
    <3>1. CASE i \in first
      BY <1>3, <2>1, <3>1
    <3>2. CASE i \in seam
      <4>1. i = n
        BY <3>2
      <4> QED
        BY <2>2, <3>2, <4>1
    <3>3. CASE i \in shifted
      <4>1. PICK j \in second : i = j + n
        BY <3>3
      <4> QED
        BY <1>3, <2>3, <4>1
    <3> QED
      BY <2>5, <3>1, <3>2, <3>3
  <2> HIDE DEF first, shifted, seam
  <2> QED
    BY <2>4, <2>5
<1>5. IsFiniteSet(shifted) /\ Cardinality(shifted) = Cardinality(second)
  <2> DEFINE f == [j \in second |-> j + n]
  <2>1. \A j \in second : j \in Int
    BY <1>1, <1>3
  <2>2. f \in [second -> shifted] /\ \A x, y \in second : f[x] = f[y] => x = y
    BY <1>1, <2>1
  <2>3. \A c \in shifted : \E j \in second : f[j] = c
    OBVIOUS
  <2> HIDE DEF f, second, shifted
  <2>4. f \in Bijection(second, shifted)
    BY <2>2, <2>3 DEF Bijection, Injection, Surjection, IsInjective
  <2>5. ExistsBijection(second, shifted)
    BY <2>4 DEF ExistsBijection
  <2> QED
    BY <1>3, <2>5, FS_Bijection
<1>6. IsFiniteSet(seam) /\ Cardinality(seam) = Differ(Final(a), b[1])
  BY FS_EmptySet, FS_Singleton DEF Differ
<1>7. first \cap seam = {} /\ (first \cup seam) \cap shifted = {}
  <2>1. n \notin first /\ \A i \in first : i < n
    BY <1>1, <1>3
  <2>2. \A i \in shifted : i > n
    BY <1>1, <1>3
  <2>3. seam \subseteq {n}
    OBVIOUS
  <2> HIDE DEF first, shifted, seam
  <2>4. ASSUME NEW i \in first \cup seam, i \in shifted PROVE FALSE
    <3>1. CASE i \in first
      <4>1. i \in Nat
        BY <1>1, <1>3, <3>1
      <4> QED
        BY <1>1, <2>1, <2>2, <2>4, <3>1, <4>1
    <3>2. CASE i \in seam
      <4>1. i = n
        BY <2>3, <3>2
      <4> QED
        BY <1>1, <2>2, <2>4, <4>1
    <3> QED
      BY <2>4, <3>1, <3>2
  <2> QED
    BY <2>1, <2>3, <2>4
<1> HIDE DEF first, second, shifted, seam
<1>8. IsFiniteSet(first \cup seam) /\ Cardinality(first \cup seam) = Cardinality(first) + Cardinality(seam)
  <2>1. Cardinality(first \cup seam) = Cardinality(first) + Cardinality(seam) - Cardinality(first \cap seam)
        /\ IsFiniteSet(first \cup seam)
    BY <1>3, <1>6, FS_Union
  <2>2. Cardinality(first \cap seam) = 0
    BY <1>7, FS_EmptySet
  <2>3. Cardinality(first) \in Nat /\ Cardinality(seam) \in Nat
    BY <1>3, <1>6, FS_CardinalityType
  <2> QED
    BY <2>1, <2>2, <2>3
<1>9. Cardinality((first \cup seam) \cup shifted) = Cardinality(first \cup seam) + Cardinality(shifted)
  <2>1. Cardinality((first \cup seam) \cup shifted)
          = Cardinality(first \cup seam) + Cardinality(shifted) - Cardinality((first \cup seam) \cap shifted)
    BY <1>5, <1>8, FS_Union
  <2>2. Cardinality(first \cup seam) \in Nat /\ Cardinality(shifted) \in Nat
    BY <1>5, <1>8, FS_CardinalityType
  <2>3. Cardinality((first \cup seam) \cap shifted) = 0
    BY <1>7, FS_EmptySet
  <2> QED
    BY <2>1, <2>2, <2>3
<1> QED
  BY <1>4, <1>5, <1>6, <1>8, <1>9 DEF Changes, first, second, ab

\* A sequence that ends as it does not begin changes somewhere: else the positions of
\* its first element would be as many as their successors, which are the same
\* positions without the first.
LEMMA EndsDiffer ==
  ASSUME NEW S, NEW t \in Seq(S), t # <<>>
  PROVE  Differ(t[1], Final(t)) <= Changes(t)
<1>1. Changes(t) \in Nat /\ IsFiniteSet(ChangesAt(t)) /\ Len(t) \in Nat \ {0}
  BY ChangesFinite, LenProperties, EmptySeq
<1>2. CASE t[1] = Final(t)
  BY <1>1, <1>2 DEF Differ
<1>3. CASE ChangesAt(t) # {}
  <2>1. Changes(t) # 0
    BY <1>1, <1>3, FS_EmptySet DEF Changes
  <2> QED
    BY <1>1, <2>1 DEF Differ
<1>4. CASE t[1] # Final(t) /\ ChangesAt(t) = {}
  <2> DEFINE like == {i \in 1 .. Len(t) : t[i] = t[1]}
             f == [i \in like |-> i + 1]
  <2>1. IsFiniteSet(like) /\ Cardinality(like) \in Nat /\ 1 \in like
    <3>1. IsFiniteSet(1 .. Len(t)) /\ like \in SUBSET (1 .. Len(t))
      BY <1>1, FS_Interval
    <3>2. IsFiniteSet(like)
      BY <3>1, FS_Subset
    <3> QED
      BY <1>1, <3>2, FS_CardinalityType
  <2>2. ASSUME NEW i \in like PROVE i + 1 \in like \ {1}
    <3>1. i \in 1 .. Len(t) - 1
      BY <1>1, <1>4 DEF Final
    <3>2. t[i] = t[i + 1]
      BY <1>4, <3>1 DEF ChangesAt
    <3> QED
      BY <1>1, <3>1, <3>2
  <2>3. \A x, y \in like : x + 1 = y + 1 => x = y
    BY <1>1
  <2>4. IsFiniteSet(like \ {1}) /\ Cardinality(like \ {1}) = Cardinality(like) - 1
    BY <2>1, FS_RemoveElement
  <2> HIDE DEF like
  <2>5. f \in Injection(like, like \ {1})
    BY <2>2, <2>3 DEF Injection, IsInjective
  <2> HIDE DEF f
  <2>6. Cardinality(like) <= Cardinality(like \ {1})
    BY <2>4, <2>5, FS_Injection
  <2> QED
    BY <2>1, <2>4, <2>6
<1> QED
  BY <1>2, <1>3, <1>4

\* Forgetting a middle or last part saves the changes it made, at least one when
\* the sequence ends with another element afterwards.
LEMMA ForgettingSaves ==
  ASSUME NEW S, NEW a \in Seq(S), NEW b \in Seq(S), NEW c \in Seq(S), a # <<>>
  PROVE  Changes(a \o c) + Differ(Final(a \o c), Final((a \o b) \o c)) <= Changes((a \o b) \o c)
<1> DEFINE ab == a \o b
<1>1. Changes(a) \in Nat /\ Changes(b) \in Nat /\ Changes(c) \in Nat /\ ab \in Seq(S)
  BY ChangesFinite, ConcatProperties
<1>2. \A x, y : Differ(x, y) \in {0, 1} /\ Differ(x, x) = 0
  BY DEF Differ
<1>3. \A x, y, z : Differ(x, z) <= Differ(x, y) + Differ(y, z)
  BY DEF Differ
<1>4. CASE b = <<>>
  <2>1. ab = a /\ Changes(a \o c) \in Nat
    BY <1>4, EndsOfJoin, ChangesFinite, ConcatProperties
  <2> QED
    BY <1>2, <2>1
<1>5. CASE b # <<>> /\ c = <<>>
  <2>1. a \o c = a /\ ab \o c = ab
    BY <1>1, <1>5, EndsOfJoin
  <2>2. Final(ab) = Final(b) /\ Changes(ab) = Changes(a) + Differ(Final(a), b[1]) + Changes(b)
    BY <1>5, EndsOfJoin, ChangesOfJoin
  <2>3. Differ(b[1], Final(b)) <= Changes(b)
    BY <1>5, EndsDiffer
  <2>4. Differ(Final(a), Final(b)) <= Differ(Final(a), b[1]) + Differ(b[1], Final(b))
    BY <1>3
  <2> HIDE DEF ab
  <2>5. /\ Differ(Final(a), Final(b)) \in {0, 1} /\ Differ(Final(a), b[1]) \in {0, 1}
        /\ Differ(b[1], Final(b)) \in {0, 1}
    BY <1>2
  <2>6. Changes(a \o c) + Differ(Final(a \o c), Final(ab \o c)) <= Changes(ab \o c)
    BY <1>1, <2>1, <2>2, <2>3, <2>4, <2>5
  <2> QED
    BY <2>6 DEF ab
<1>6. CASE b # <<>> /\ c # <<>>
  <2>1. ab # <<>> /\ Final(ab) = Final(b)
    BY <1>6, EndsOfJoin, ConcatEqualIffEmpty
  <2>2. Changes(ab) = Changes(a) + Differ(Final(a), b[1]) + Changes(b)
    BY <1>6, ChangesOfJoin
  <2>3. Changes(ab \o c) = Changes(ab) + Differ(Final(b), c[1]) + Changes(c)
    <3> HIDE DEF ab
    <3> QED
      BY <1>1, <1>6, <2>1, ChangesOfJoin
  <2>4. Changes(a \o c) = Changes(a) + Differ(Final(a), c[1]) + Changes(c)
    BY <1>6, ChangesOfJoin
  <2>5. Final(a \o c) = Final(c) /\ Final(ab \o c) = Final(c)
    BY <1>1, <1>6, EndsOfJoin
  <2>6. Differ(b[1], Final(b)) <= Changes(b)
    BY <1>6, EndsDiffer
  <2>7. /\ Differ(Final(a), c[1]) <= Differ(Final(a), Final(b)) + Differ(Final(b), c[1])
        /\ Differ(Final(a), Final(b)) <= Differ(Final(a), b[1]) + Differ(b[1], Final(b))
    BY <1>3
  <2> HIDE DEF ab
  <2>8. /\ Differ(Final(a), Final(b)) \in {0, 1} /\ Differ(Final(a), b[1]) \in {0, 1}
        /\ Differ(b[1], Final(b)) \in {0, 1} /\ Differ(Final(a), c[1]) \in {0, 1}
        /\ Differ(Final(b), c[1]) \in {0, 1} /\ Differ(Final(c), Final(c)) = 0
    BY <1>2
  <2>9. Changes(a \o c) + Differ(Final(a \o c), Final(ab \o c)) <= Changes(ab \o c)
    <3>1. Differ(Final(a \o c), Final(ab \o c)) = 0
      BY <2>5, <2>8
    <3>2. Differ(Final(a), c[1]) <= Differ(Final(a), b[1]) + Changes(b) + Differ(Final(b), c[1])
      BY <1>1, <2>6, <2>7, <2>8
    <3>3. Changes(ab \o c) = Changes(a) + Differ(Final(a), b[1]) + Changes(b)
                            + Differ(Final(b), c[1]) + Changes(c)
      BY <2>2, <2>3
    <3> DEFINE d == Differ(Final(a), c[1])
               e == Differ(Final(a), b[1]) + Changes(b) + Differ(Final(b), c[1])
    <3>4. d \in Int /\ e \in Int /\ d <= e
      BY <1>1, <2>8, <3>2
    <3>5. Changes(a \o c) = Changes(a) + d + Changes(c)
      BY <2>4
    <3>6. Changes(ab \o c) = Changes(a) + e + Changes(c)
      BY <1>1, <2>8, <3>3
    <3> HIDE DEF d, e
    <3>7. Changes(a \o c) \in Int /\ Changes(a \o c) <= Changes(ab \o c)
      BY <1>1, <3>4, <3>5, <3>6
    <3> QED
      BY <3>1, <3>7
  <2> QED
    BY <2>9 DEF ab
<1> QED
  BY <1>4, <1>5, <1>6

-----------------------------------------------------------------------------
(* What a rate may still cost: the changes on the way to the client and    *)
(* those that the reports being built can bring about.                     *)

Number == Cardinality(Senders)
Limit == 2 * Number - 1

\* Each report being built that is stale can take the view back and have the next
\* one correct it.  Without a fresh one among them the last correction is to come.
ToCome(last, flag, held) ==
  IF last = flag THEN 2 * held
  ELSE IF held = Number THEN 2 * held - 1 ELSE 2 * held + 1

Owed(t, flag, held) == Changes(t) + ToCome(Final(t), flag, held)

LEMMA ToComeTyped ==
  ASSUME Number \in Nat \ {0}, NEW held \in 0 .. Number, NEW last, NEW flag
  PROVE  ToCome(last, flag, held) \in 0 .. 2 * Number
BY DEF ToCome

LEMMA OwedTyped ==
  ASSUME Number \in Nat \ {0}, NEW held \in 0 .. Number, NEW flag, NEW t \in Seq(Flags)
  PROVE  Owed(t, flag, held) \in Nat
<1>1. Changes(t) \in Nat /\ ToCome(Final(t), flag, held) \in 0 .. 2 * Number
  BY ChangesFinite, ToComeTyped
<1> QED
  BY <1>1 DEF Owed

\* Reports are forgotten, of those being built perhaps some.
LEMMA OwedForgets ==
  ASSUME Number \in Nat \ {0}, NEW held \in 0 .. Number, NEW less \in 0 .. held, NEW flag,
         NEW a \in Seq(Flags), NEW b \in Seq(Flags), NEW c \in Seq(Flags), a # <<>>
  PROVE  Owed(a \o c, flag, less) <= Owed((a \o b) \o c, flag, held)
<1> DEFINE t == (a \o b) \o c
           u == a \o c
<1>1. Changes(u) + Differ(Final(u), Final(t)) <= Changes(t)
  BY ForgettingSaves
<1>2. Changes(u) \in Nat /\ Changes(t) \in Nat
  <2>1. u \in Seq(Flags) /\ t \in Seq(Flags)
    BY ConcatProperties
  <2> QED
    BY <2>1, ChangesFinite
<1> HIDE DEF t, u
<1>3. ToCome(Final(u), flag, less) <= ToCome(Final(u), flag, held)
  BY DEF ToCome
<1>4. ToCome(Final(u), flag, held) <= ToCome(Final(t), flag, held) + Differ(Final(u), Final(t))
  BY DEF ToCome, Differ
<1>5. /\ ToCome(Final(u), flag, less) \in Int /\ ToCome(Final(u), flag, held) \in Int
      /\ ToCome(Final(t), flag, held) \in Int /\ Differ(Final(u), Final(t)) \in Int
  BY DEF ToCome, Differ
<1>6. Owed(u, flag, less) <= Owed(t, flag, held)
  BY <1>1, <1>2, <1>3, <1>4, <1>5 DEF Owed
<1> QED
  BY <1>6 DEF t, u

\* The flag changes.
LEMMA OwedSwitches ==
  ASSUME Number \in Nat \ {0}, NEW held \in 0 .. Number, NEW other \in 0 .. Number,
         NEW flag \in Flags, NEW to \in Flags, to # flag, NEW t \in Seq(Flags), t # <<>>
  PROVE  Owed(t, to, other) <= Owed(t, flag, held) + Limit
<1>1. Changes(t) \in Nat
  BY ChangesFinite
<1>2. Final(t) \in Flags
  BY LenProperties, ElementOfSeq, EmptySeq DEF Final
<1>3. ToCome(Final(t), to, other) <= ToCome(Final(t), flag, held) + Limit
  <2>1. CASE Final(t) = to
    BY <2>1 DEF ToCome, Limit
  <2>2. CASE Final(t) = flag
    BY <2>2 DEF ToCome, Limit
  <2> QED
    BY <1>2, <2>1, <2>2 DEF Flags
<1>4. /\ ToCome(Final(t), to, other) \in Int /\ ToCome(Final(t), flag, held) \in Int /\ Limit \in Int
  BY DEF ToCome, Limit
<1> QED
  BY <1>1, <1>3, <1>4 DEF Owed

\* A report is sent that shows the flag, while not all of those being built are stale.
LEMMA OwedSendsFresh ==
  ASSUME Number \in Nat \ {0}, NEW held \in 0 .. Number, held # Number,
         NEW flag \in Flags, NEW t \in Seq(Flags), t # <<>>
  PROVE  Owed(t \o <<flag>>, flag, held) <= Owed(t, flag, held)
<1> DEFINE one == <<flag>>
<1>1. one \in Seq(Flags) /\ one # <<>> /\ one[1] = flag /\ Final(one) = flag /\ Changes(one) = 0
  <2>1. ChangesAt(one) = {}
    BY DEF ChangesAt
  <2> QED
    BY <2>1, OneTyped, FS_EmptySet DEF Final, Changes
<1> HIDE DEF one
<1>2. Changes(t \o one) = Changes(t) + Differ(Final(t), flag) /\ Final(t \o one) = flag
  <2>1. Changes(t \o one) = Changes(t) + Differ(Final(t), flag) + 0
    BY <1>1, ChangesOfJoin
  <2>2. Final(t \o one) = flag
    BY <1>1, EndsOfJoin
  <2> QED
    BY <2>1, <2>2, ChangesFinite DEF Differ
<1>3. Changes(t) \in Nat
  BY ChangesFinite
<1>4. Owed(t \o one, flag, held) <= Owed(t, flag, held)
  BY <1>2, <1>3 DEF Owed, ToCome, Differ
<1> QED
  BY <1>4 DEF one

\* A stale report is sent.
LEMMA OwedSendsStale ==
  ASSUME Number \in Nat \ {0}, NEW held \in 1 .. Number,
         NEW flag \in Flags, NEW x \in Flags, x # flag, NEW t \in Seq(Flags), t # <<>>
  PROVE  Owed(t \o <<x>>, flag, held - 1) <= Owed(t, flag, held)
<1> DEFINE one == <<x>>
<1>1. one \in Seq(Flags) /\ one # <<>> /\ one[1] = x /\ Final(one) = x /\ Changes(one) = 0
  <2>1. ChangesAt(one) = {}
    BY DEF ChangesAt
  <2> QED
    BY <2>1, OneTyped, FS_EmptySet DEF Final, Changes
<1> HIDE DEF one
<1>2. Changes(t \o one) = Changes(t) + Differ(Final(t), x) /\ Final(t \o one) = x
  <2>1. Changes(t \o one) = Changes(t) + Differ(Final(t), x) + 0
    BY <1>1, ChangesOfJoin
  <2>2. Final(t \o one) = x
    BY <1>1, EndsOfJoin
  <2> QED
    BY <2>1, <2>2, ChangesFinite DEF Differ
<1>3. Changes(t) \in Nat /\ (Final(t) = x \/ Final(t) = flag)
  <2>1. Final(t) \in Flags
    BY LenProperties, ElementOfSeq, EmptySeq DEF Final
  <2> QED
    BY <2>1, ChangesFinite DEF Flags
<1>4. Owed(t \o one, flag, held - 1) <= Owed(t, flag, held)
  BY <1>2, <1>3 DEF Owed, ToCome, Differ
<1> QED
  BY <1>4 DEF one

\* The client shows what comes next.
LEMMA OwedShows ==
  ASSUME Number \in Nat \ {0}, NEW held \in 0 .. Number, NEW flag,
         NEW shown \in Flags, NEW next \in Flags, NEW rest \in Seq(Flags)
  PROVE  Differ(shown, next) + Owed(<<next>> \o rest, flag, held)
           = Owed(<<shown>> \o (<<next>> \o rest), flag, held)
<1> DEFINE one == <<shown>>
           t == <<next>> \o rest
<1>1. one \in Seq(Flags) /\ one # <<>> /\ Final(one) = shown /\ Changes(one) = 0
  <2>1. ChangesAt(one) = {}
    BY DEF ChangesAt
  <2> QED
    BY <2>1, OneTyped, FS_EmptySet DEF Final, Changes
<1>2. t \in Seq(Flags) /\ t # <<>> /\ t[1] = next
  <2>1. <<next>> \in Seq(Flags) /\ <<next>> # <<>>
    BY OneTyped
  <2> QED
    BY <2>1, EndsOfJoin, ConcatProperties, ConcatEqualIffEmpty
<1> HIDE DEF one, t
<1>3. Changes(one \o t) = 0 + Differ(shown, next) + Changes(t) /\ Final(one \o t) = Final(t)
  BY <1>1, <1>2, ChangesOfJoin, EndsOfJoin
<1>4. Changes(t) \in Nat /\ ToCome(Final(t), flag, held) \in Int /\ Differ(shown, next) \in Int
  BY <1>2, ChangesFinite DEF ToCome, Differ
<1>5. Differ(shown, next) + Owed(t, flag, held) = Owed(one \o t, flag, held)
  BY <1>3, <1>4 DEF Owed
<1> QED
  BY <1>5 DEF one, t

-----------------------------------------------------------------------------
(* What a step of the workshop costs.                                      *)

Way(r) == <<ask[r] # 0>> \o Of(r, Line)
Spent(r) == Owed(Way(r), isActive[r], Cardinality(M!StaleHeld(r)))

LEMMA SameStaleHeld ==
  ASSUME NEW r
  PROVE  M!StaleHeld(r) = MP!StaleHeld(r) /\ M!StaleHeld(r)' = MP!StaleHeld(r)'
BY DEF M!StaleHeld, MP!StaleHeld, M!Stale, MP!Stale

LEMMA SomeHeld ==
  ASSUME Senders # {}, NEW S \in SUBSET Senders
  PROVE  IsFiniteSet(S) /\ Cardinality(S) \in 0 .. Number /\ Number \in Nat \ {0}
<1>1. IsFiniteSet(Senders) /\ Number \in Nat /\ Number # 0
  BY GeneratorAssumption, FS_CardinalityType, FS_EmptySet DEF Number
<1>2. IsFiniteSet(S) /\ Cardinality(S) <= Number
  BY <1>1, FS_Subset DEF Number
<1>3. Cardinality(S) \in Nat
  BY <1>2, FS_CardinalityType
<1> QED
  BY <1>1, <1>2, <1>3

LEMMA StaleHeldTyped ==
  ASSUME Senders # {}, NEW r
  PROVE  /\ Cardinality(M!StaleHeld(r)) \in 0 .. Number
         /\ Cardinality(M!StaleHeld(r)') \in 0 .. Number
         /\ M!StaleHeld(r)' \subseteq M!StaleHeld(r)
              => Cardinality(M!StaleHeld(r)') \in 0 .. Cardinality(M!StaleHeld(r))
<1>1. M!StaleHeld(r) \in SUBSET Senders /\ M!StaleHeld(r)' \in SUBSET Senders
  BY DEF M!StaleHeld
<1>2. /\ IsFiniteSet(M!StaleHeld(r)) /\ Cardinality(M!StaleHeld(r)) \in 0 .. Number
      /\ Cardinality(M!StaleHeld(r)') \in 0 .. Number /\ Number \in Nat
  BY <1>1, SomeHeld
<1>3. ASSUME M!StaleHeld(r)' \subseteq M!StaleHeld(r)
      PROVE  Cardinality(M!StaleHeld(r)') <= Cardinality(M!StaleHeld(r))
  BY <1>2, <1>3, FS_Subset
<1> QED
  BY <1>2, <1>3

LEMMA WayTyped ==
  ASSUME Flow, NEW r \in Rates
  PROVE  Way(r) \in Seq(Flags) /\ Way(r) # <<>> /\ Of(r, Line) \in Seq(Flags) /\ isActive[r] \in Flags
<1>1. Line \in Seq(Reports) /\ isActive[r] \in Flags
  BY FlowLine DEF Flow, M!TypeOK, Rates, Flags
<1>2. Of(r, Line) \in Seq(Flags) /\ <<ask[r] # 0>> \in Seq(Flags) /\ <<ask[r] # 0>> # <<>>
  BY <1>1, OfTyped, ShownTyped
<1> QED
  BY <1>1, <1>2, ConcatProperties, ConcatEqualIffEmpty DEF Way

LEMMA WayNext ==
  ASSUME NEW r
  PROVE  Way(r)' = <<ask'[r] # 0>> \o Of(r, Line')
BY DEF Way, Of

\* Reports are forgotten or stay, while the flag changes or nothing becomes stale.
LEMMA SpentForgets ==
  ASSUME Flow, Senders # {}, NEW r \in Rates, Forgets, ask' = ask, isActive'[r] \in Flags,
         isActive'[r] # isActive[r] \/ M!StaleHeld(r)' \subseteq M!StaleHeld(r)
  PROVE  Spent(r)' <= Spent(r) + Limit * Differ(isActive[r], isActive'[r])
<1> DEFINE p == <<ask[r] # 0>>
           flag == isActive[r]
           to == isActive'[r]
           held == Cardinality(M!StaleHeld(r))
           less == Cardinality(M!StaleHeld(r)')
<1>1. PICK x \in Seq(Flags), y \in Seq(Flags), z \in Seq(Flags) :
        Of(r, Line) = (x \o y) \o z /\ Of(r, Line') = x \o z
  BY OfForgets
<1>2. p \in Seq(Flags) /\ p # <<>> /\ flag \in Flags /\ to \in Flags
  BY ShownTyped, WayTyped
<1>3. /\ Number \in Nat \ {0} /\ held \in 0 .. Number /\ less \in 0 .. Number
      /\ M!StaleHeld(r)' \subseteq M!StaleHeld(r) => less \in 0 .. held
  BY StaleHeldTyped, SomeHeld
<1>4. Way(r) = Joint(p, Joint(Joint(x, y), z)) /\ Way(r)' = Joint(p, Joint(x, z))
  BY <1>1, WayNext DEF Way, Joint
<1>5. Spent(r) = Owed(Way(r), flag, held) /\ Spent(r)' = Owed(Way(r)', to, less)
  BY DEF Spent, Owed, Changes, ChangesAt, Final, ToCome, Number
<1> HIDE DEF p, flag, to, held, less
<1> DEFINE a == Joint(p, x)
<1>6. Way(r) = Joint(Joint(a, y), z) /\ Way(r)' = Joint(a, z) /\ a \in Seq(Flags) /\ a # <<>>
  BY <1>1, <1>2, <1>4, Grouped, NotEmpty
<1> HIDE DEF a
<1>7. /\ Way(r) = (a \o y) \o z /\ Way(r)' = a \o z
      /\ Way(r) \in Seq(Flags) /\ Way(r)' \in Seq(Flags) /\ Way(r)' # <<>>
  BY <1>6, Grouped, NotEmpty DEF Joint
<1>8. /\ Owed(Way(r), flag, held) \in Nat /\ Owed(Way(r)', flag, held) \in Nat
      /\ Owed(Way(r)', flag, less) \in Nat /\ Owed(Way(r)', to, less) \in Nat
  BY <1>3, <1>7, OwedTyped
<1>9. Owed(Way(r)', flag, held) <= Owed(Way(r), flag, held)
  <2>1. held \in 0 .. held
    BY <1>3
  <2> QED
    BY <1>3, <1>6, <1>7, <2>1, OwedForgets
<1>10. Limit \in Nat
  BY <1>3 DEF Limit
<1>11. CASE to # flag
  <2>1. Owed(Way(r)', to, less) <= Owed(Way(r)', flag, held) + Limit
    BY <1>2, <1>3, <1>7, <1>11, OwedSwitches
  <2>2. Limit * Differ(flag, to) = Limit
    BY <1>10, <1>11 DEF Differ
  <2>3. Owed(Way(r)', to, less) <= Owed(Way(r), flag, held) + Limit * Differ(flag, to)
    BY <1>8, <1>9, <1>10, <2>1, <2>2
  <2> QED
    BY <1>5, <2>3 DEF flag, to
<1>12. CASE to = flag
  <2>1. less \in 0 .. held
    BY <1>3, <1>12 DEF flag, to
  <2>2. Owed(Way(r)', flag, less) <= Owed(Way(r), flag, held)
    BY <1>3, <1>6, <1>7, <2>1, OwedForgets
  <2>3. Limit * Differ(flag, to) = 0
    BY <1>10, <1>12 DEF Differ
  <2>4. Owed(Way(r)', to, less) <= Owed(Way(r), flag, held) + Limit * Differ(flag, to)
    BY <1>8, <1>12, <2>2, <2>3
  <2> QED
    BY <1>5, <2>4 DEF flag, to
<1> QED
  BY <1>11, <1>12

\* A report is sent: it takes its place on the way, stale or not, or it is lost.
LEMMA SpentSends ==
  ASSUME Flow, Senders # {}, NEW r \in Rates, NEW s \in Senders, M!SendReport(s),
         UNCHANGED <<ask, feed, batch>>
  PROVE  Spent(r)' <= Spent(r) + Limit * Differ(isActive[r], isActive'[r])
<1> DEFINE list == sender[s].ratesList
           flag == isActive[r]
           held == Cardinality(M!StaleHeld(r))
           less == Cardinality(M!StaleHeld(r)')
           t == Way(r)
<1>1. /\ list \in Reports /\ Len(list) = NRates
      /\ \/ Line' = Line
         \/ Line' = Line \o <<list>>
  BY SendAppends DEF M!SendReport
<1>2. UNCHANGED isActive /\ sender' = [sender EXCEPT ![s] = M!IdleSender]
  BY DEF M!SendReport, M!rateCollection
<1>3. r \in 1 .. NRates /\ list[r] \in Flags /\ flag \in Flags
  BY <1>1, WayTyped DEF Rates, M!Rates, Reports, Flags
<1>4. s \in M!StaleHeld(r) <=> list[r] # flag
  BY <1>1, <1>3 DEF M!StaleHeld, M!Stale
<1>5. M!StaleHeld(r)' = M!StaleHeld(r) \ {s}
  <2>1. Len(M!IdleSender.ratesList) = 0
    BY EmptySeq DEF M!IdleSender
  <2>2. sender'[s] = M!IdleSender /\ \A k \in Senders : k # s => sender'[k] = sender[k]
    BY <1>2 DEF Flow, M!TypeOK
  <2>3. s \notin M!StaleHeld(r)'
    BY <1>3, <2>1, <2>2 DEF M!StaleHeld
  <2>4. \A k \in Senders : k # s => (k \in M!StaleHeld(r)' <=> k \in M!StaleHeld(r))
    BY <1>2, <2>2 DEF M!StaleHeld, M!Stale
  <2>5. M!StaleHeld(r)' \subseteq Senders /\ M!StaleHeld(r) \subseteq Senders
    BY DEF M!StaleHeld
  <2> QED
    BY <2>3, <2>4, <2>5
<1>6. CASE Line' = Line
  <2>1. Forgets
    BY <1>6, FlowLine, KeptLine
  <2> QED
    BY <1>2, <1>3, <1>5, <2>1, SpentForgets
<1>7. CASE Line' = Line \o <<list>>
  <2>1. Way(r)' = t \o <<list[r]>>
    <3> DEFINE one == <<list>>
               p == <<ask[r] # 0>>
    <3>1. one \in Seq(Reports) /\ Line \in Seq(Reports) /\ Of(r, one) = <<list[r]>>
      BY <1>1, FlowLine DEF Of
    <3>2. Of(r, Line') = Of(r, Line) \o Of(r, one)
      BY <1>7, <3>1, OfConcat
    <3>3. p \in Seq(Flags) /\ Of(r, Line) \in Seq(Flags) /\ Of(r, one) \in Seq(Flags)
      BY <3>1, OfTyped, ShownTyped
    <3>4. Way(r)' = p \o Of(r, Line') /\ t = p \o Of(r, Line)
      BY WayNext DEF Way
    <3> HIDE DEF one, p, t
    <3>5. (p \o Of(r, Line)) \o Of(r, one) = p \o (Of(r, Line) \o Of(r, one))
      BY <3>3, ConcatAssociative
    <3> QED
      BY <3>1, <3>2, <3>4, <3>5
  <2>2. t \in Seq(Flags) /\ t # <<>> /\ Number \in Nat \ {0} /\ held \in 0 .. Number
    BY WayTyped, StaleHeldTyped, SomeHeld
  <2>3. Spent(r) = Owed(t, flag, held) /\ Spent(r)' = Owed(t \o <<list[r]>>, flag, less)
    BY <1>2, <2>1 DEF Spent, Owed, Changes, ChangesAt, Final, ToCome, Number
  <2>4. Owed(t, flag, held) \in Nat /\ Limit * Differ(isActive[r], isActive'[r]) = 0
    BY <1>2, <2>2, OwedTyped DEF Differ, Limit
  <2>5. Owed(t \o <<list[r]>>, flag, less) <= Owed(t, flag, held)
    <3>1. IsFiniteSet(M!StaleHeld(r)) /\ M!StaleHeld(r) \subseteq Senders
      BY SomeHeld DEF M!StaleHeld
    <3>2. CASE list[r] = flag
      <4>1. M!StaleHeld(r)' = M!StaleHeld(r) /\ M!StaleHeld(r) # Senders
        BY <1>4, <1>5, <3>2
      <4>2. held # Number
        BY <3>1, <4>1, FS_Subset, GeneratorAssumption DEF Number
      <4> HIDE DEF t, flag, held, list
      <4>3. Owed(t \o <<flag>>, flag, held) <= Owed(t, flag, held)
        BY <1>3, <2>2, <4>2, OwedSendsFresh
      <4> QED
        BY <3>2, <4>1, <4>3 DEF held
    <3>3. CASE list[r] # flag
      <4>1. s \in M!StaleHeld(r)
        BY <1>4, <3>3
      <4>2. less = held - 1 /\ held # 0
        BY <1>5, <3>1, <4>1, FS_RemoveElement, FS_EmptySet
      <4>3. held \in 1 .. Number
        BY <2>2, <4>2
      <4> HIDE DEF t, flag, held, less, list
      <4> QED
        BY <1>3, <2>2, <3>3, <4>2, <4>3, OwedSendsStale
    <3> QED
      BY <3>2, <3>3
  <2> HIDE DEF t, flag, held, less, list
  <2>6. Spent(r)' <= Spent(r) /\ Spent(r) \in Nat
    BY <2>3, <2>4, <2>5
  <2> QED
    BY <2>4, <2>6
<1> QED
  BY <1>1, <1>6, <1>7

\* The client shows the oldest report: a change of the view is one less on the way.
LEMMA SpentShows ==
  ASSUME Flow, Senders # {}, NEW r \in Rates, feed # <<>>, feed' = Tail(feed),
         UNCHANGED <<batch, queue, sender, isActive>>, (ask'[r] # 0) <=> Head(feed)[r]
  PROVE  Differ(ask[r] # 0, ask'[r] # 0) + Spent(r)' = Spent(r)
<1> DEFINE e == Head(feed)
           shown == ask[r] # 0
           next == e[r]
           o == Of(r, Line')
           flag == isActive[r]
           held == Cardinality(M!StaleHeld(r))
<1>1. e \in Reports /\ Line' \in Seq(Reports) /\ Line = <<e>> \o Line'
  BY OldestFirst
<1>2. Of(r, Line) = <<next>> \o o
  <2>1. <<e>> \in Seq(Reports)
    BY <1>1
  <2>2. Of(r, <<e>> \o Line') = Of(r, <<e>>) \o o
    BY <1>1, <2>1, OfConcat
  <2>3. Of(r, <<e>>) = <<next>>
    BY DEF Of
  <2> QED
    BY <1>1, <2>2, <2>3
<1>3. shown \in Flags /\ next \in Flags /\ o \in Seq(Flags)
  BY <1>1, OfTyped DEF Flags, Reports
<1>4. (ask'[r] # 0) = next
  BY <1>3 DEF Flags
<1>5. Way(r) = <<shown>> \o (<<next>> \o o) /\ Way(r)' = <<next>> \o o
  BY <1>2, <1>4, WayNext DEF Way
<1>6. M!StaleHeld(r)' = M!StaleHeld(r)
  BY DEF M!StaleHeld, M!Stale
<1>7. Spent(r) = Owed(Way(r), flag, held) /\ Spent(r)' = Owed(Way(r)', flag, held)
  BY <1>6 DEF Spent, Owed, Changes, ChangesAt, Final, ToCome, Number
<1>8. held \in 0 .. Number /\ Number \in Nat \ {0}
  BY StaleHeldTyped, SomeHeld
<1> HIDE DEF shown, next, o, flag, held
<1>9. Differ(shown, next) + Owed(<<next>> \o o, flag, held) = Owed(<<shown>> \o (<<next>> \o o), flag, held)
  BY <1>3, <1>8, OwedShows
<1>10. Differ(shown, next) + Spent(r)' = Spent(r)
  BY <1>5, <1>7, <1>9
<1> QED
  BY <1>4, <1>10 DEF shown

\* A step that leaves the reports alone, on the way and being built.
LEMMA SpentStays ==
  ASSUME Flow, Senders # {}, NEW r \in Rates, UNCHANGED <<ask, sender, feed, batch, queue>>,
         isActive'[r] \in Flags
  PROVE  Spent(r)' <= Spent(r) + Limit * Differ(isActive[r], isActive'[r])
<1>1. Forgets
  BY FlowLine, KeptLine DEF Line
<1>2. isActive'[r] = isActive[r] => M!StaleHeld(r)' = M!StaleHeld(r)
  BY DEF M!StaleHeld, M!Stale
<1> QED
  BY <1>1, <1>2, SpentForgets

\* The steps of the generator, and what the relay takes of its queue.
LEMMA SpentByGenerator ==
  ASSUME Flow, Senders # {}, NEW r \in Rates, M!TypeOK', UNCHANGED <<ask, feed, batch>>, M!Next
  PROVE  Spent(r)' <= Spent(r) + Limit * Differ(isActive[r], isActive'[r])
<1>1. isActive'[r] \in Flags
  BY DEF M!TypeOK, Rates, Flags
<1>2. ASSUME M!Exit, queue' \in {queue, <<>>}
      PROVE  Spent(r)' <= Spent(r) + Limit * Differ(isActive[r], isActive'[r])
  <2>1. Forgets
    <3>1. CASE queue' = queue
      BY <3>1, FlowLine, KeptLine DEF Line
    <3>2. CASE queue' = <<>>
      BY <3>2, PurgeForgets
    <3> QED
      BY <1>2, <3>1, <3>2
  <2>2. M!StaleHeld(r)' = {}
    <3>1. r \in 1 .. NRates /\ NRates \in Nat
      BY GeneratorAssumption DEF Rates, M!Rates
    <3>2. \A s \in Senders : Len(sender'[s].ratesList) = 0
      BY <1>2, EmptySeq DEF M!Exit, M!IdleSender
    <3> QED
      BY <3>1, <3>2 DEF M!StaleHeld
  <2> QED
    BY <1>1, <2>1, <2>2, SpentForgets
<1>3. ASSUME UNCHANGED <<sender, queue>>
      PROVE  Spent(r)' <= Spent(r) + Limit * Differ(isActive[r], isActive'[r])
  BY <1>1, <1>3, SpentStays
<1>4. ASSUME UNCHANGED <<sender, isActive>>, M!Purged \/ M!NotPurged
      PROVE  Spent(r)' <= Spent(r) + Limit * Differ(isActive[r], isActive'[r])
  <2>1. CASE M!NotPurged
    BY <1>3, <1>4, <2>1 DEF M!NotPurged
  <2>2. CASE M!Purged
    <3>1. M!StaleHeld(r)' = M!StaleHeld(r)
      BY <1>4 DEF M!StaleHeld, M!Stale
    <3> QED
      BY <1>1, <2>2, <3>1, PurgeForgets, SpentForgets DEF M!Purged
  <2> QED
    BY <1>4, <2>1, <2>2
<1>5. CASE M!Main
  <2>1. CASE M!ReadConfig \/ M!Connect \/ M!LoadRates \/ M!SetRateTimer
    BY <1>3, <2>1 DEF M!ReadConfig, M!Connect, M!LoadRates, M!SetRateTimer
  <2>2. CASE M!PurgeAtStart
    BY <1>4, <2>2 DEF M!PurgeAtStart
  <2>3. CASE M!RejectConfig \/ M!FailToConnect \/ M!RejectInterval
    BY <1>2, <2>3 DEF M!RejectConfig, M!FailToConnect, M!RejectInterval
  <2> QED
    BY <1>5, <2>1, <2>2, <2>3 DEF M!Main
<1>6. CASE M!Subscribe \/ M!Restart
  BY <1>3, <1>6 DEF M!Subscribe, M!Restart, M!rateCollection
<1>7. CASE M!Crash
  BY <1>2, <1>7 DEF M!Crash
<1>8. CASE M!Consume
  <2>1. UNCHANGED <<sender, isActive>>
    BY <1>8 DEF M!Consume, M!process, M!rateCollection
  <2>2. M!StaleHeld(r)' = M!StaleHeld(r)
    BY <2>1 DEF M!StaleHeld, M!Stale
  <2> QED
    BY <1>1, <1>8, <2>2, ConsumeForgets, SpentForgets
<1>9. ASSUME NEW s \in Senders, M!Elapsed(s) \/ M!ReadRate(s)
      PROVE  Spent(r)' <= Spent(r) + Limit * Differ(isActive[r], isActive'[r])
  <2>1. MP!Elapsed(s) \/ MP!ReadRate(s)
    BY <1>9 DEF M!Elapsed, MP!Elapsed, M!ReadRate, MP!ReadRate, M!startup, MP!startup,
                M!rateCollection, MP!rateCollection
  <2>2. MP!TypeOK /\ MP!Quiet /\ r \in MP!Rates
    BY SameType DEF Flow, Rates, M!Rates, MP!Rates
  <2>3. MP!Framed(r)
    BY <2>1, <2>2, MP!ReadEffect, GeneratorAssumption DEF MP!IsFiniteSet, IsFiniteSet
  <2>4. M!StaleHeld(r)' \subseteq M!StaleHeld(r) /\ UNCHANGED queue
    BY <2>3, SameStaleHeld DEF MP!Framed
  <2>5. Forgets
    BY <2>4, FlowLine, KeptLine DEF Line
  <2> QED
    BY <1>1, <2>4, <2>5, SpentForgets
<1>10. ASSUME NEW s \in Senders, M!SendReport(s)
       PROVE  Spent(r)' <= Spent(r) + Limit * Differ(isActive[r], isActive'[r])
  BY <1>10, SpentSends
<1>11. ASSUME NEW h \in Handlers, M!Receive(h) \/ M!Handle(h)
       PROVE  Spent(r)' <= Spent(r) + Limit * Differ(isActive[r], isActive'[r])
  <2>1. CASE M!PurgeAfterSet(h)
    BY <1>4, <2>1 DEF M!PurgeAfterSet
  <2>2. CASE \/ M!Receive(h) \/ M!SetRate(h) \/ M!RejectSet(h)
             \/ M!StartRate(h) \/ M!StartTooEarly(h) \/ M!Respond(h)
    BY <1>3, <2>2 DEF M!Receive, M!SetRate, M!RejectSet, M!StartRate, M!StartTooEarly, M!Respond
  <2> QED
    BY <1>11, <2>1, <2>2 DEF M!Handle
<1> QED
  BY <1>5, <1>6, <1>7, <1>8, <1>9, <1>10, <1>11 DEF M!Next

AllSpent == \A r \in Rates : Spent(r) \in Nat

LEMMA SpentTyped == Senders # {} /\ Flow => AllSpent
<1> SUFFICES ASSUME Senders # {}, Flow, NEW r \in Rates PROVE Spent(r) \in Nat
  BY DEF AllSpent
<1>1. Cardinality(M!StaleHeld(r)) \in 0 .. Number /\ Number \in Nat \ {0}
  BY StaleHeldTyped, SomeHeld
<1>2. Way(r) \in Seq(Flags)
  BY WayTyped
<1> QED
  BY <1>1, <1>2, OwedTyped DEF Spent

LEMMA SpentTypedNext == (Senders # {} /\ Flow)' => AllSpent'
BY SpentTyped, PTL

\* What the client changes of its view is saved up before: a change of the rate pays it.
LEMMA SpentStep ==
  ASSUME Flow, Flow', Senders # {}, NEW r \in Rates, [Next]_vars
  PROVE  Differ(ask[r] # 0, ask'[r] # 0) + Spent(r)'
           <= Spent(r) + Limit * Differ(isActive[r], isActive'[r])
<1>1. isActive'[r] \in Flags
  BY DEF Flow, M!TypeOK, Rates, Flags
<1>2. /\ Spent(r) \in Nat /\ Spent(r)' \in Nat /\ Limit \in Nat
      /\ Differ(isActive[r], isActive'[r]) \in {0, 1}
  <2>1. Spent(r) \in Nat /\ Limit \in Nat
    BY SpentTyped, SomeHeld DEF AllSpent, Limit
  <2>2. Spent(r)' \in Nat
    BY SpentTypedNext DEF AllSpent
  <2> QED
    BY <2>1, <2>2 DEF Differ
<1>3. ASSUME UNCHANGED ask, Spent(r)' <= Spent(r) + Limit * Differ(isActive[r], isActive'[r])
      PROVE  Differ(ask[r] # 0, ask'[r] # 0) + Spent(r)'
               <= Spent(r) + Limit * Differ(isActive[r], isActive'[r])
  <2>1. Differ(ask[r] # 0, ask'[r] # 0) = 0
    BY <1>3 DEF Differ
  <2> QED
    BY <1>2, <1>3, <2>1
<1>4. CASE Generator
  <2>1. M!Next /\ UNCHANGED <<ask, feed, batch>> /\ M!TypeOK'
    BY <1>4 DEF Generator, M!Next, relay, client, Flow
  <2> QED
    BY <1>3, <2>1, SpentByGenerator
<1>5. CASE Relay
  <2>1. UNCHANGED <<ask, sender, isActive>>
    BY <1>5 DEF Relay, generator, client
  <2>2. M!StaleHeld(r)' = M!StaleHeld(r)
    BY <2>1 DEF M!StaleHeld, M!Stale
  <2> QED
    BY <1>1, <1>3, <1>5, <2>1, <2>2, RelayForgets, SpentForgets
<1>6. CASE OnMessage
  <2>1. feed # <<>> /\ feed' = Tail(feed) /\ UNCHANGED <<batch, queue, sender, isActive>>
    BY <1>6 DEF OnMessage, generator, relay
  <2>2. CASE C!Age
    <3>1. M!StaleHeld(r)' = M!StaleHeld(r) /\ UNCHANGED ask
      BY <2>1, <2>2 DEF M!StaleHeld, M!Stale, C!Age, C!page
    <3> QED
      BY <1>1, <1>3, <2>1, <3>1, OldestForgets, SpentForgets
  <2>3. CASE C!OnMessage
    <3>1. Differ(ask[r] # 0, ask'[r] # 0) + Spent(r)' = Spent(r)
      BY <2>1, <2>3, ShownIsOldest, SpentShows
    <3>2. Differ(isActive[r], isActive'[r]) = 0
      BY <2>1 DEF Differ
    <3> QED
      BY <1>2, <3>1, <3>2
  <2> QED
    BY <1>6, <2>2, <2>3 DEF OnMessage
<1>7. CASE Page
  <2>1. UNCHANGED ask
    BY <1>7 DEF Page, C!Open, C!Close, C!StartStopRate, C!SetSelectedItem, C!page
  <2> QED
    BY <1>1, <1>3, <1>7, <2>1, SpentStays DEF Page, generator, relay
<1>8. CASE Commands
  <2>1. UNCHANGED <<ask, sender, feed, batch, queue>>
    BY <1>8
    DEF Commands, Delivered, NotDelivered, StartDelivered,
        M!Receive, M!rateCollection, C!Leave, C!page, generator, relay, client
  <2> QED
    BY <1>1, <1>3, <2>1, SpentStays
<1>9. CASE UNCHANGED vars
  BY <1>1, <1>3, <1>9, SpentStays DEF vars, generator, relay, client
<1> QED
  BY <1>4, <1>5, <1>6, <1>7, <1>8, <1>9 DEF Next

-----------------------------------------------------------------------------
\* What the client changed already and what it may still change was paid.
Paid ==
  /\ shows \in [Rates -> Nat] /\ switches \in [Rates -> Nat]
  /\ \A r \in Rates : shows[r] + Spent(r) <= Limit * switches[r]

LEMMA PaidInit == Senders # {} /\ CountedInit => Paid
<1> SUFFICES ASSUME Senders # {}, CountedInit PROVE Paid
  OBVIOUS
<1>1. /\ shows \in [Rates -> Nat] /\ switches \in [Rates -> Nat]
      /\ \A r \in Rates : shows[r] = 0 /\ switches[r] = 0
  BY DEF CountedInit
<1>2. Flow
  BY FlowInit DEF CountedInit
<1>3. ASSUME NEW r \in Rates PROVE Spent(r) = 0
  <2>1. /\ ask[r] = 0 /\ isActive[r] = FALSE /\ feed = <<>> /\ batch = <<>> /\ queue = <<>>
        /\ \A s \in Senders : sender[s].ratesList = <<>>
    BY <1>3 DEF CountedInit, Init, M!Init, C!Init, M!IdleSender, C!None, C!Rates, Rates, M!Rates
  <2>2. Way(r) = <<FALSE>>
    <3>1. Of(r, Line) = <<>> /\ (ask[r] # 0) = FALSE
      BY <2>1 DEF Of, Line
    <3>2. <<FALSE>> \o <<>> = <<FALSE>>
      BY ConcatEmptySeq, OneTyped DEF Flags
    <3> QED
      BY <3>1, <3>2 DEF Way
  <2> DEFINE t == Way(r)
             held == Cardinality(M!StaleHeld(r))
  <2>3. Changes(t) = 0 /\ Final(t) = FALSE
    <3>1. ChangesAt(t) = {}
      BY <2>2 DEF ChangesAt
    <3> QED
      BY <2>2, <3>1, FS_EmptySet DEF Changes, Final
  <2>4. held = 0
    <3>1. r \in 1 .. NRates /\ \A s \in Senders : Len(sender[s].ratesList) = 0
      BY <1>3, <2>1, EmptySeq DEF Rates, M!Rates
    <3>2. M!StaleHeld(r) = {}
      BY <3>1, GeneratorAssumption DEF M!StaleHeld
    <3> QED
      BY <3>2, FS_EmptySet
  <2>5. Spent(r) = Changes(t) + ToCome(Final(t), isActive[r], held)
    BY DEF Spent, Owed
  <2> HIDE DEF t, held
  <2>6. Final(t) = isActive[r]
    BY <2>1, <2>3, Zenon
  <2>7. ToCome(Final(t), isActive[r], held) = 0
    BY <2>4, <2>6 DEF ToCome
  <2> QED
    BY <2>3, <2>5, <2>7
<1>4. Limit \in Nat
  BY SomeHeld DEF Limit
<1> QED
  BY <1>1, <1>3, <1>4 DEF Paid

LEMMA PaidStep ==
  Senders # {} /\ Flow /\ Flow' /\ Paid /\ [CountedNext]_<<vars, shows, switches>> => Paid'
<1> SUFFICES ASSUME Senders # {}, Flow, Flow', Paid, [CountedNext]_<<vars, shows, switches>>
             PROVE  Paid'
  OBVIOUS
<1>1. [Next]_vars
  BY DEF CountedNext
<1>2. /\ shows' \in [Rates -> Nat] /\ switches' \in [Rates -> Nat]
      /\ \A r \in Rates : /\ shows'[r] <= shows[r] + Differ(ask[r] # 0, ask'[r] # 0)
                          /\ switches'[r] = switches[r] + Differ(isActive[r], isActive'[r])
  <2>1. CASE CountedNext
    BY <2>1 DEF CountedNext, Counted, Shown, Paid, Differ
  <2>2. CASE UNCHANGED <<vars, shows, switches>>
    BY <2>2 DEF Paid, Differ, vars, client, generator
  <2> QED
    BY <2>1, <2>2
<1>3. ASSUME NEW r \in Rates PROVE shows'[r] + Spent(r)' <= Limit * switches'[r]
  <2> DEFINE changed == Differ(ask[r] # 0, ask'[r] # 0)
             switched == Differ(isActive[r], isActive'[r])
  <2>1. changed + Spent(r)' <= Spent(r) + Limit * switched
    BY <1>1, <1>3, SpentStep
  <2>2. Spent(r) \in Nat /\ Spent(r)' \in Nat /\ Limit \in Nat
    BY <1>3, SpentTyped, SpentTypedNext, SomeHeld DEF AllSpent, Limit
  <2>3. /\ changed \in {0, 1} /\ switched \in {0, 1}
        /\ shows[r] \in Nat /\ shows'[r] \in Nat /\ switches[r] \in Nat
        /\ shows[r] + Spent(r) <= Limit * switches[r]
    BY <1>3, <1>2 DEF Paid, Differ
  <2>4. shows'[r] <= shows[r] + changed /\ switches'[r] = switches[r] + switched
    BY <1>2, <1>3
  <2> HIDE DEF changed, switched
  <2>5. Limit * (switches[r] + switched) = Limit * switches[r] + Limit * switched
    BY <2>2, <2>3
  <2>6. Limit * switches[r] \in Nat /\ Limit * switched \in Nat
    BY <2>2, <2>3
  <2> QED
    BY <2>1, <2>2, <2>3, <2>4, <2>5, <2>6
<1> QED
  BY <1>2, <1>3 DEF Paid

\* However many sends overlap, and whatever is purged, lost, retried, killed or
\* restarted on the way, a change of a rate makes the client change what it shows of
\* it at most 2n - 1 times for n senders, whatever MaxSwitches (Manager.cs:219-247 and
\* 286-287, the relays' loops, ratesListener).  (Without a sender nothing is reported.)
THEOREM FlickerBound == ASSUME Senders # {} PROVE CountedSpec => []NoFlicker
<1>1. CountedInit => Flow /\ Paid
  BY FlowInit, PaidInit DEF CountedInit
<1>2. Flow /\ Paid /\ [CountedNext]_<<vars, shows, switches>> => (Flow /\ Paid)'
  <2> SUFFICES ASSUME Flow, Paid, [CountedNext]_<<vars, shows, switches>> PROVE Flow' /\ Paid'
    OBVIOUS
  <2>1. [Next]_vars
    BY DEF CountedNext
  <2>2. Flow'
    BY <2>1, FlowStep
  <2> QED
    BY <2>2, PaidStep
<1>3. Flow /\ Paid => NoFlicker
  <2> SUFFICES ASSUME Flow, Paid, NEW r \in Rates
               PROVE  shows[r] <= Limit * switches[r]
    BY DEF NoFlicker, Limit, Number
  <2>1. Spent(r) \in Nat /\ Limit \in Nat
    BY SpentTyped, SomeHeld DEF AllSpent, Limit
  <2>2. shows[r] \in Nat /\ switches[r] \in Nat /\ shows[r] + Spent(r) <= Limit * switches[r]
    BY DEF Paid
  <2>3. Limit * switches[r] \in Nat
    BY <2>1, <2>2
  <2> QED
    BY <2>1, <2>2, <2>3
<1> QED
  BY <1>1, <1>2, <1>3, PTL DEF CountedSpec
=============================================================================
