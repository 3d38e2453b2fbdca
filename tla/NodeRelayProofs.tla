--------------------------- MODULE NodeRelayProofs ---------------------------
(***************************************************************************)
(* The Node.js relay stores no message twice, whatever the batch size and  *)
(* whatever fails: a message is at one place, the queue (once), under way, *)
(* or in the store.  And a stop of its loop loses at most the rest of one  *)
(* batch, an end of its process at most what was under way then.           *)
(***************************************************************************)
EXTENDS NodeRelay, MessageLemmas, SequenceTheorems, TLAPS

Distinct(s) == \A i, j \in 1 .. Len(s) : s[i] = s[j] => i = j

OnePlace ==
  /\ Distinct(queue)
  /\ Range(queue) \cap (inFlight \cup Range(store)) = {}
  /\ inFlight \cap Range(store) = {}

IInv == TypeOK /\ OnePlace

-----------------------------------------------------------------------------
(* What sequences hold.                                                    *)

LEMMA RangeIs ==
  ASSUME NEW S, NEW s \in Seq(S)
  PROVE  /\ Range(s) = {s[i] : i \in 1 .. Len(s)}
         /\ Range(s) \subseteq S
         /\ Len(s) \in Nat
<1>1. Len(s) \in Nat /\ s \in [1 .. Len(s) -> S] /\ DOMAIN s = 1 .. Len(s)
  BY LenProperties
<1> QED BY <1>1 DEF Range

LEMMA WiderMessages ==
  ASSUME NEW a \in Nat, NEW s \in Seq(1 .. a)
  PROVE  s \in Seq(1 .. (a + 1))
<1>1. s \in [1 .. Len(s) -> 1 .. a] /\ Len(s) \in Nat
  BY LenProperties
<1> QED BY <1>1, SeqDef

LEMMA NothingHeld == Len(<<>>) = 0 /\ Range(<<>>) = {} /\ Distinct(<<>>)
<1>1. Len(<<>>) = 0 /\ <<>> \in Seq({})
  BY EmptySeq
<1>2. \A s \in Seq({}) : Range(s) \subseteq {}
  BY RangeIs
<1>3. Distinct(<<>>)
  BY <1>1 DEF Distinct
<1> QED BY <1>1, <1>2, <1>3

LEMMA AppendHolds ==
  ASSUME NEW S, NEW s \in Seq(S), NEW m \in S
  PROVE  /\ Append(s, m) \in Seq(S)
         /\ Range(Append(s, m)) = Range(s) \cup {m}
         /\ Distinct(s) /\ m \notin Range(s) => Distinct(Append(s, m))
<1> DEFINE t == Append(s, m)
<1>1. /\ t \in Seq(S) /\ Len(t) = Len(s) + 1 /\ Len(s) \in Nat
      /\ \A i \in 1 .. Len(s) : t[i] = s[i]
      /\ t[Len(s) + 1] = m
  BY AppendProperties, LenProperties
<1> HIDE DEF t
<1>2. \A i \in 1 .. Len(t) : i \in 1 .. Len(s) \/ i = Len(s) + 1
  BY <1>1
<1>3. (1 .. Len(s)) \subseteq 1 .. Len(t) /\ Len(s) + 1 \in 1 .. Len(t)
  BY <1>1
<1>4. Range(s) = {s[i] : i \in 1 .. Len(s)} /\ Range(t) = {t[i] : i \in 1 .. Len(t)}
  BY <1>1, RangeIs
<1>5. Range(t) = Range(s) \cup {m}
  BY <1>1, <1>2, <1>3, <1>4
<1>6. ASSUME Distinct(s), m \notin Range(s), NEW i \in 1 .. Len(t), NEW j \in 1 .. Len(t),
             t[i] = t[j]
      PROVE  i = j
  BY <1>1, <1>2, <1>4, <1>6 DEF Distinct
<1>7. Distinct(s) /\ m \notin Range(s) => Distinct(t)
  BY <1>6 DEF Distinct
<1> QED BY <1>1, <1>5, <1>7 DEF t

\* What the broker hands out and what it keeps are apart.
LEMMA Split ==
  ASSUME TypeOK, Distinct(queue), NEW n \in 0 .. Len(queue), NEW k \in 0 .. n
  PROVE  /\ Left(n) \in Seq(1 .. published) /\ Distinct(Left(n))
         /\ Range(Left(n)) \subseteq Range(queue)
         /\ Taken(k) \subseteq Range(queue)
         /\ Taken(k) \cap Range(Left(n)) = {}
<1>1. /\ queue \in Seq(1 .. published) /\ Len(queue) \in Nat
      /\ n \in Nat /\ k \in Nat /\ k <= n /\ n <= Len(queue)
      /\ Range(queue) = {queue[i] : i \in 1 .. Len(queue)}
      /\ \A i \in 1 .. Len(queue) : queue[i] \in 1 .. published
  BY RangeIs, ElementOfSeq DEF TypeOK
<1> DEFINE a == SubSeq(queue, 1, k)
           b == SubSeq(queue, n + 1, Len(queue))
<1>2. /\ a \in Seq(1 .. published) /\ Len(a) = k
      /\ \A i \in 1 .. k : i \in 1 .. Len(queue) /\ a[i] = queue[i]
  <2>1. \A i \in 1 .. k : queue[i] \in 1 .. published
    BY <1>1
  <2>2. 1 \in Int /\ k \in Int
    BY <1>1
  <2>3. a \in Seq(1 .. published)
    BY <2>1, <2>2, SubSeqProperties
  <2>4. Len(a) = k /\ \A i \in 1 .. k : a[i] = queue[i]
    BY <1>1, SubSeqProperties
  <2> QED BY <1>1, <2>3, <2>4
<1>3. /\ b \in Seq(1 .. published) /\ Len(b) = Len(queue) - n
      /\ \A i \in 1 .. (Len(queue) - n) : i + n \in 1 .. Len(queue) /\ b[i] = queue[i + n]
  <2>1. \A i \in (n + 1) .. Len(queue) : queue[i] \in 1 .. published
    BY <1>1
  <2>2. n + 1 \in Int /\ Len(queue) \in Int
    BY <1>1
  <2>3. b \in Seq(1 .. published)
    BY <2>1, <2>2, SubSeqProperties
  <2>4. Len(b) = Len(queue) - n /\ \A i \in 1 .. (Len(queue) - n) : b[i] = queue[i + n]
    BY <1>1, SubSeqProperties
  <2> QED BY <1>1, <2>3, <2>4
<1> HIDE DEF a, b
<1>4. Range(a) = {a[i] : i \in 1 .. k} /\ Range(b) = {b[i] : i \in 1 .. (Len(queue) - n)}
  BY <1>2, <1>3, RangeIs
<1>5. Range(a) \subseteq Range(queue) /\ Range(b) \subseteq Range(queue)
  BY <1>1, <1>2, <1>3, <1>4
<1>6. Distinct(b)
  <2> SUFFICES ASSUME NEW i \in 1 .. Len(b), NEW j \in 1 .. Len(b), b[i] = b[j]
               PROVE  i = j
    BY DEF Distinct
  <2>1. i + n = j + n
    BY <1>3 DEF Distinct
  <2> QED BY <1>1, <1>3, <2>1
<1>7. Range(a) \cap Range(b) = {}
  <2> SUFFICES ASSUME NEW i \in 1 .. k, NEW j \in 1 .. (Len(queue) - n), a[i] = b[j]
               PROVE  FALSE
    BY <1>4
  <2>1. i = j + n
    BY <1>2, <1>3 DEF Distinct
  <2> QED BY <1>1, <2>1
<1> QED BY <1>3, <1>5, <1>6, <1>7 DEF a, b, Taken, Left

LEMMA StopTypes ==
  ASSUME TypeOK, Stop
  PROVE  /\ process' \in {"looping", "stopped", "ended"}
         /\ stops' \in Nat /\ ends' \in Nat /\ stops' + ends' <= MaxStops
         /\ exposed' \in Nat
BY BoundsAssumption DEF TypeOK, Stop, CanFail

\* The sends under way can be counted.
LEMMA UnderWay ==
  ASSUME TypeOK
  PROVE  IsFiniteSet(inFlight) /\ Cardinality(inFlight) \in Nat
<1>1. IsFiniteSet(1 .. published) /\ inFlight \subseteq 1 .. published
  BY BoundsAssumption, FS_Interval DEF TypeOK
<1> QED BY <1>1, FS_Subset, FS_CardinalityType

LEMMA BatchesInQueue ==
  ASSUME TypeOK
  PROVE  Batches \subseteq 0 .. Len(queue) /\ 0 \in 0 .. Len(queue)
<1>1. Len(queue) \in Nat /\ MaxBatch \in Nat
  BY BatchAssumption, LenProperties DEF TypeOK
<1> QED BY <1>1 DEF Batches

-----------------------------------------------------------------------------
LEMMA IInvInit == Init => IInv
<1>1. \A S : <<>> \in Seq(S)
  BY EmptySeq
<1>2. MaxPublished \in Nat /\ MaxStops \in Nat
  BY BoundsAssumption
<1> QED BY <1>1, <1>2, NothingHeld DEF Init, IInv, TypeOK, OnePlace

\* Messages leave the queue: those of sends are under way, others are gone.
LEMMA TakeStep ==
  ASSUME IInv, UNCHANGED <<published, store>>,
         NEW n \in 0 .. Len(queue), NEW k \in 0 .. n,
         queue' = Left(n),
         inFlight' \in {inFlight, inFlight \cup Taken(k)}
  PROVE  /\ queue' \in Seq(1 .. published') /\ inFlight' \subseteq 1 .. published'
         /\ OnePlace'
<1> USE DEF IInv, OnePlace
<1>1. /\ Left(n) \in Seq(1 .. published) /\ Distinct(Left(n))
      /\ Range(Left(n)) \subseteq Range(queue)
      /\ Taken(k) \subseteq Range(queue)
      /\ Taken(k) \cap Range(Left(n)) = {}
  BY Split
<1>2. Range(queue) \subseteq 1 .. published
  BY RangeIs DEF TypeOK
<1>3. inFlight' \subseteq 1 .. published
  BY <1>1, <1>2 DEF TypeOK
<1>4. Distinct(queue')
  BY <1>1
<1>5. /\ Range(queue') \cap (inFlight' \cup Range(store)) = {}
      /\ inFlight' \cap Range(store) = {}
  <2> HIDE DEF Distinct, Range, Taken, Left
  <2>1. \A q, l, t, f, s, g :
          /\ q \cap (f \cup s) = {} /\ f \cap s = {}
          /\ l \subseteq q /\ t \subseteq q /\ t \cap l = {}
          /\ g \in {f, f \cup t}
          => l \cap (g \cup s) = {} /\ g \cap s = {}
    OBVIOUS
  <2> QED BY <1>1, <2>1
<1> QED BY <1>1, <1>3, <1>4, <1>5 DEF Distinct

LEMMA IInvStep == IInv /\ [Next]_vars => IInv'
<1> SUFFICES ASSUME IInv, [Next]_vars PROVE IInv'
  OBVIOUS
<1>0. /\ TypeOK /\ OnePlace
      /\ published \in Nat /\ MaxPublished \in Nat /\ MaxStops \in Nat
      /\ Len(queue) \in Nat
      /\ Range(queue) \subseteq 1 .. published /\ Range(store) \subseteq 1 .. published
  BY BoundsAssumption, RangeIs DEF IInv, TypeOK
<1>1. CASE Publish
  <2> DEFINE m == published + 1
  <2>1. /\ published' = m /\ m \in 1 .. m /\ m \in 0 .. MaxPublished
        /\ 1 .. published \subseteq 1 .. m /\ m \notin 1 .. published
    BY <1>0, <1>1 DEF Publish, count
  <2>2. /\ queue \in Seq(1 .. m) /\ store \in Seq(1 .. m)
        /\ queue' = Append(queue, m) /\ UNCHANGED <<process, inFlight, store, excused, stops, ends, exposed>>
    BY <1>0, <1>1, WiderMessages DEF Publish, count, TypeOK
  <2> HIDE DEF m
  <2>3. /\ queue' \in Seq(1 .. m) /\ Range(queue') = Range(queue) \cup {m}
        /\ Distinct(queue')
    <3>1. m \notin Range(queue) /\ Distinct(queue)
      BY <1>0, <2>1 DEF OnePlace
    <3> QED BY <2>1, <2>2, <3>1, AppendHolds
  <2>4. TypeOK'
    BY <1>0, <2>1, <2>2, <2>3 DEF TypeOK
  <2>5. m \notin inFlight /\ m \notin Range(store)
    BY <1>0, <2>1 DEF TypeOK
  <2>6. OnePlace'
    BY <1>0, <2>2, <2>3, <2>5 DEF OnePlace
  <2> QED BY <2>4, <2>6 DEF IInv
<1>2. CASE Purge
  <2>1. queue' = <<>> /\ queue' \in Seq(1 .. published) /\ Range(queue') = {} /\ Distinct(queue')
    BY <1>2, EmptySeq, NothingHeld DEF Purge, count
  <2>2. TypeOK'
    BY <1>0, <1>2, <2>1 DEF Purge, count, TypeOK
  <2>3. OnePlace'
    BY <1>0, <1>2, <2>1 DEF Purge, count, OnePlace
  <2> QED BY <2>2, <2>3 DEF IInv
<1>3. CASE Rerun \/ UNCHANGED vars
  <2>1. UNCHANGED <<published, queue, inFlight, store, excused, stops, ends, exposed>>
    BY <1>3 DEF Rerun, vars, count
  <2>2. process' \in {"looping", "stopped", "ended"}
    BY <1>0, <1>3 DEF Rerun, vars, TypeOK
  <2>3. TypeOK'
    BY <1>0, <2>1, <2>2 DEF TypeOK
  <2>4. OnePlace'
    BY <1>0, <2>1 DEF OnePlace, Distinct
  <2> QED BY <2>3, <2>4 DEF IInv
<1>9. CASE ProcessEnds
  <2>1. /\ UNCHANGED <<published, queue, store, excused, stops>>
        /\ inFlight' \subseteq inFlight
    BY <1>9 DEF ProcessEnds
  <2>2. /\ process' \in {"looping", "stopped", "ended"}
        /\ ends' \in Nat /\ stops + ends' <= MaxStops /\ exposed' \in Nat
    BY <1>0, <1>9, UnderWay DEF ProcessEnds, CanFail, TypeOK
  <2>3. TypeOK'
    BY <1>0, <2>1, <2>2 DEF TypeOK
  <2>4. OnePlace'
    BY <1>0, <2>1 DEF OnePlace, Distinct
  <2> QED BY <2>3, <2>4 DEF IInv
<1>4. CASE Receive
  <2>1. PICK n \in Batches : queue' = Left(n) /\ inFlight' = inFlight \cup Taken(n)
    BY <1>4 DEF Receive, count
  <2>2. n \in 0 .. Len(queue) /\ n \in 0 .. n
    BY <1>0, BatchesInQueue
  <2>3. /\ queue' \in Seq(1 .. published') /\ inFlight' \subseteq 1 .. published'
        /\ OnePlace'
    BY <1>4, <2>1, <2>2, TakeStep DEF Receive, count
  <2> QED BY <1>0, <1>4, <2>3 DEF Receive, count, IInv, TypeOK
<1>5. CASE SendThrows
  <2>1. PICK n \in Batches : \E k \in 1 .. n :
          /\ queue' = Left(n)
          /\ inFlight' = inFlight \cup Taken(k - 1)
          /\ excused' = excused \cup {queue[k]}
    BY <1>5 DEF SendThrows
  <2>2. PICK k \in 1 .. n : /\ queue' = Left(n)
                            /\ inFlight' = inFlight \cup Taken(k - 1)
                            /\ excused' = excused \cup {queue[k]}
    BY <2>1
  <2>3. n \in 0 .. Len(queue) /\ k - 1 \in 0 .. n /\ k \in 1 .. Len(queue)
    BY <1>0, BatchesInQueue
  <2>4. /\ queue' \in Seq(1 .. published') /\ inFlight' \subseteq 1 .. published'
        /\ OnePlace'
    BY <1>5, <2>2, <2>3, TakeStep DEF SendThrows
  <2>5. queue[k] \in 1 .. published
    BY <1>0, <2>3, ElementOfSeq DEF TypeOK
  <2>6. /\ process' \in {"looping", "stopped", "ended"}
        /\ stops' \in Nat /\ ends' \in Nat /\ stops' + ends' <= MaxStops
        /\ exposed' \in Nat
    BY <1>0, <1>5, StopTypes DEF SendThrows
  <2> QED BY <1>0, <1>5, <2>2, <2>4, <2>5, <2>6 DEF SendThrows, IInv, TypeOK
<1>6. CASE ReceiveFails
  <2>1. PICK n \in Batches \cup {0} : queue' = Left(n) /\ excused' = excused \cup Taken(n)
    BY <1>6 DEF ReceiveFails
  <2>2. n \in 0 .. Len(queue) /\ n \in 0 .. n
    BY <1>0, BatchesInQueue
  <2>3. /\ queue' \in Seq(1 .. published') /\ inFlight' \subseteq 1 .. published'
        /\ OnePlace'
    BY <1>6, <2>1, <2>2, TakeStep DEF ReceiveFails
  <2>4. Taken(n) \subseteq 1 .. published
    BY <1>0, <2>2, Split DEF OnePlace
  <2>5. /\ process' \in {"looping", "stopped", "ended"}
        /\ stops' \in Nat /\ ends' \in Nat /\ stops' + ends' <= MaxStops
        /\ exposed' \in Nat
    BY <1>0, <1>6, StopTypes DEF ReceiveFails
  <2> QED BY <1>0, <1>6, <2>1, <2>3, <2>4, <2>5 DEF ReceiveFails, IInv, TypeOK
<1>7. ASSUME NEW m \in inFlight, Arrive(m)
      PROVE  IInv'
  <2>1. /\ m \in 1 .. published /\ store \in Seq(1 .. published)
        /\ inFlight' = inFlight \ {m} /\ store' = Append(store, m)
        /\ UNCHANGED <<published, queue, process, excused, stops, ends, exposed>>
    BY <1>0, <1>7 DEF Arrive, count, TypeOK
  <2>2. store' \in Seq(1 .. published) /\ Range(store') = Range(store) \cup {m}
    <3> DEFINE S == 1 .. published
    <3>1. store \in Seq(S) /\ m \in S /\ store' = Append(store, m)
      BY <2>1
    <3> HIDE DEF S
    <3>2. store' \in Seq(S) /\ Range(store') = Range(store) \cup {m}
      BY <3>1, AppendHolds
    <3> QED BY <3>2 DEF S
  <2>3. TypeOK'
    BY <1>0, <2>1, <2>2 DEF TypeOK
  <2>4. OnePlace'
    BY <1>0, <2>1, <2>2 DEF OnePlace, Distinct
  <2> QED BY <2>3, <2>4 DEF IInv
<1>8. ASSUME NEW m \in inFlight, Drop(m)
      PROVE  IInv'
  <2>1. /\ m \in 1 .. published /\ inFlight' = inFlight \ {m} /\ excused' = excused \cup {m}
        /\ UNCHANGED <<published, queue, process, store, stops, ends, exposed>>
    BY <1>0, <1>8 DEF Drop, count, TypeOK
  <2> QED BY <1>0, <2>1 DEF IInv, TypeOK, OnePlace, Distinct
<1> QED BY <1>1, <1>2, <1>3, <1>4, <1>5, <1>6, <1>7, <1>8, <1>9 DEF Next

LEMMA IInvHolds == Spec => []IInv
BY IInvInit, IInvStep, PTL DEF Spec

-----------------------------------------------------------------------------
\* Every variable keeps its type (index.js:7-42).
THEOREM TypeCorrect == Spec => []TypeOK
<1>1. IInv => TypeOK
  BY DEF IInv
<1> QED BY <1>1, IInvHolds, PTL

\* To the abstract specification a step is a publication, a delivery of a
\* message that is not stored yet, or nothing.
LEMMA StepImplements ==
  IInv /\ [Next]_vars => [Abstract!Next]_<<published, store>>
<1> SUFFICES ASSUME IInv, [Next]_vars
             PROVE  Abstract!Publish \/ Abstract!Deliver \/ UNCHANGED <<published, store>>
  BY DEF Abstract!Next
<1>1. CASE Publish
  BY <1>1 DEF Publish, Abstract!Publish
<1>2. CASE \/ Purge \/ Rerun \/ Receive \/ SendThrows \/ ReceiveFails \/ ProcessEnds
           \/ UNCHANGED vars \/ \E m \in inFlight : Drop(m)
  BY <1>2 DEF Purge, Rerun, Receive, SendThrows, ReceiveFails, ProcessEnds, Drop, vars
<1>3. ASSUME NEW m \in inFlight, Arrive(m)
      PROVE  Abstract!Deliver
  <2>1. m \in 1 .. published /\ m \notin Range(store)
    BY DEF IInv, TypeOK, OnePlace
  <2> QED BY <1>3, <2>1 DEF Arrive, Abstract!Deliver, Range, Abstract!Range
<1> QED BY <1>1, <1>2, <1>3 DEF Next

\* The relay stores no message twice, whatever the batch size, and however
\* receives, sends and failures interleave (index.js:13-42).
THEOREM ImplementsAtMostOnce == Spec => Implements
<1>1. Init => Abstract!Init
  BY DEF Init, Abstract!Init
<1> QED BY <1>1, IInvInit, IInvStep, StepImplements, PTL
        DEF Spec, Implements, Abstract!Spec

-----------------------------------------------------------------------------
(* What is lost.                                                           *)

Lost == Missing \ excused

\* A step loses nothing, or it stops the loop and loses fewer messages than a
\* batch holds, or it ends the process and loses sends under way.
Harmless == Lost' \subseteq Lost /\ stops' \in {stops, stops + 1} /\ exposed' = exposed
DropsRest == /\ stops' = stops + 1 /\ exposed' = exposed
             /\ \E E : /\ Lost' \subseteq Lost \cup E /\ IsFiniteSet(E)
                      /\ Cardinality(E) <= MaxBatch - 1
DropsSends == /\ stops' = stops /\ exposed' = exposed + Cardinality(inFlight)
              /\ Lost' \subseteq Lost \cup inFlight

LEMMA TakenIs ==
  ASSUME NEW S, NEW s \in Seq(S), NEW n \in 0 .. Len(s)
  PROVE  Range(SubSeq(s, 1, n)) = {s[i] : i \in 1 .. n}
<1> DEFINE a == SubSeq(s, 1, n)
<1>1. Len(s) \in Nat /\ n \in Nat /\ n <= Len(s) /\ \A i \in 1 .. Len(s) : s[i] \in S
  BY LenProperties, ElementOfSeq
<1>2. a \in Seq(S) /\ Len(a) = n
  BY SplitKeeps
<1>3. \A i \in 1 .. n : a[i] = s[i]
  BY <1>1, SubSeqProperties
<1> HIDE DEF a
<1>4. Range(a) = {a[i] : i \in 1 .. n}
  BY <1>2, RangeIs
<1> QED BY <1>3, <1>4 DEF a

\* A stretch of the queue holds at most as many messages as it is long.
LEMMA FewInStretch ==
  ASSUME NEW s, NEW k \in Nat, NEW n \in Nat, k <= n
  PROVE  /\ IsFiniteSet({s[i] : i \in (k + 1) .. n})
         /\ Cardinality({s[i] : i \in (k + 1) .. n}) <= n - k
<1> DEFINE I == (k + 1) .. n
           E == {s[i] : i \in I}
           f == [i \in I |-> s[i]]
<1>1. IsFiniteSet(I) /\ Cardinality(I) = n - k
  <2>1. IsFiniteSet(I) /\ Cardinality(I) = IF k + 1 > n THEN 0 ELSE n - (k + 1) + 1
    BY FS_Interval
  <2> QED BY <2>1
<1>2. f \in Surjection(I, E)
  BY DEF Surjection
<1> HIDE DEF I, E, f
<1>3. IsFiniteSet(E) /\ Cardinality(E) <= Cardinality(I)
  BY <1>1, <1>2, FS_Surjection
<1> QED BY <1>1, <1>3 DEF E, I

\* The messages of a reply whose k-th send throws.
LEMMA ThrowLoses ==
  ASSUME TypeOK, NEW n \in Batches, NEW k \in 1 .. n
  PROVE  /\ Taken(n) \subseteq Taken(k - 1) \cup {queue[k]} \cup {queue[i] : i \in (k + 1) .. n}
         /\ IsFiniteSet({queue[i] : i \in (k + 1) .. n})
         /\ Cardinality({queue[i] : i \in (k + 1) .. n}) <= MaxBatch - 1
<1>1. queue \in Seq(1 .. published) /\ Len(queue) \in Nat /\ MaxBatch \in Nat
  BY BatchAssumption, LenProperties DEF TypeOK
<1>2. /\ n \in 0 .. Len(queue) /\ k - 1 \in 0 .. Len(queue)
      /\ n \in Nat /\ k \in Nat /\ k <= n /\ k >= 1 /\ n <= MaxBatch
  BY <1>1 DEF Batches
<1>3. Taken(n) = {queue[i] : i \in 1 .. n} /\ Taken(k - 1) = {queue[i] : i \in 1 .. (k - 1)}
  <2> DEFINE S == 1 .. published
  <2>1. queue \in Seq(S)
    BY <1>1
  <2> HIDE DEF S
  <2>2. Range(SubSeq(queue, 1, n)) = {queue[i] : i \in 1 .. n}
    BY <1>2, <2>1, TakenIs
  <2>3. Range(SubSeq(queue, 1, k - 1)) = {queue[i] : i \in 1 .. (k - 1)}
    BY <1>2, <2>1, TakenIs
  <2> QED BY <2>2, <2>3 DEF Taken
<1>4. \A i \in 1 .. n : i \in 1 .. (k - 1) \/ i = k \/ i \in (k + 1) .. n
  BY <1>2
<1>5. Taken(n) \subseteq Taken(k - 1) \cup {queue[k]} \cup {queue[i] : i \in (k + 1) .. n}
  BY <1>3, <1>4
<1> DEFINE E == {queue[i] : i \in (k + 1) .. n}
<1>6. IsFiniteSet(E) /\ Cardinality(E) <= n - k
  BY <1>2, FewInStretch
<1> HIDE DEF E
<1>7. Cardinality(E) \in Nat
  BY <1>6, FS_CardinalityType
<1>8. Cardinality(E) <= MaxBatch - 1
  BY <1>1, <1>2, <1>6, <1>7
<1> QED BY <1>5, <1>6, <1>8 DEF E

\* What is handed out and what is left make up the queue.
LEMMA SplitOfQueue ==
  ASSUME TypeOK, NEW n \in Batches \cup {0}
  PROVE  Range(queue) = Taken(n) \cup Range(Left(n))
<1> DEFINE S == 1 .. published
<1>1. n \in 0 .. Len(queue) /\ queue \in Seq(S)
  BY BatchesInQueue DEF TypeOK
<1> HIDE DEF S
<1> QED BY <1>1, SplitKeeps DEF Taken, Left

LEMMA StepLoses ==
  ASSUME TypeOK, [Next]_vars PROVE Harmless \/ DropsRest \/ DropsSends
<1>1. CASE Publish
  <2> DEFINE m == published + 1
  <2>1. /\ published' = m /\ queue' = Append(queue, m)
        /\ UNCHANGED <<inFlight, store, excused, stops, exposed>>
    BY <1>1 DEF Publish, count
  <2>2. m \in 1 .. m /\ queue \in Seq(1 .. m) /\ 1 .. m = (1 .. published) \cup {m}
    <3>1. published \in Nat /\ queue \in Seq(1 .. published)
      BY BoundsAssumption DEF TypeOK
    <3> QED BY <3>1, WiderMessages
  <2>3. Range(queue') = Range(queue) \cup {m}
    BY <2>1, <2>2, AppendHolds
  <2>4. Lost' \subseteq Lost
    <3> HIDE DEF m
    <3> QED BY <2>1, <2>2, <2>3 DEF Lost, Missing
  <2> QED BY <2>1, <2>4 DEF Harmless
<1>2. CASE Purge
  <2>1. Lost' \subseteq Lost
    BY <1>2, NothingHeld DEF Purge, Lost, Missing
  <2> QED BY <1>2, <2>1 DEF Purge, count, Harmless
<1>3. CASE Rerun \/ UNCHANGED vars
  <2>1. UNCHANGED <<published, queue, inFlight, store, excused, stops, exposed>>
    BY <1>3 DEF Rerun, vars, count
  <2>2. Lost' = Lost
    BY <2>1 DEF Lost, Missing
  <2> QED BY <2>1, <2>2 DEF Harmless
<1>9. CASE ProcessEnds
  <2>1. UNCHANGED <<published, queue, store, excused, stops>>
    BY <1>9 DEF ProcessEnds
  <2>2. Lost' \subseteq Lost \cup inFlight
    BY <2>1 DEF Lost, Missing
  <2> QED BY <1>9, <2>1, <2>2 DEF ProcessEnds, DropsSends
<1>4. CASE Receive
  <2>1. PICK n \in Batches : queue' = Left(n) /\ inFlight' = inFlight \cup Taken(n)
    BY <1>4 DEF Receive
  <2>2. Range(queue) = Taken(n) \cup Range(queue')
    BY <2>1, SplitOfQueue
  <2>3. Lost' \subseteq Lost
    BY <1>4, <2>1, <2>2 DEF Receive, Lost, Missing
  <2> QED BY <1>4, <2>3 DEF Receive, count, Harmless
<1>5. CASE SendThrows
  <2>1. PICK n \in Batches : \E k \in 1 .. n :
          /\ queue' = Left(n)
          /\ inFlight' = inFlight \cup Taken(k - 1)
          /\ excused' = excused \cup {queue[k]}
    BY <1>5 DEF SendThrows
  <2>2. PICK k \in 1 .. n : /\ queue' = Left(n)
                            /\ inFlight' = inFlight \cup Taken(k - 1)
                            /\ excused' = excused \cup {queue[k]}
    BY <2>1
  <2> DEFINE E == {queue[i] : i \in (k + 1) .. n}
  <2>3. /\ Taken(n) \subseteq Taken(k - 1) \cup {queue[k]} \cup E
        /\ IsFiniteSet(E) /\ Cardinality(E) <= MaxBatch - 1
    BY ThrowLoses
  <2> HIDE DEF E
  <2>4. Range(queue) = Taken(n) \cup Range(queue')
    BY <2>2, SplitOfQueue
  <2>5. UNCHANGED <<published, store, exposed>> /\ stops' = stops + 1
    BY <1>5 DEF SendThrows, Stop
  <2>6. Lost' \subseteq Lost \cup E
    BY <2>2, <2>3, <2>4, <2>5 DEF Lost, Missing
  <2> QED BY <2>3, <2>5, <2>6 DEF DropsRest
<1>6. CASE ReceiveFails
  <2>1. PICK n \in Batches \cup {0} : queue' = Left(n) /\ excused' = excused \cup Taken(n)
    BY <1>6 DEF ReceiveFails
  <2>2. Range(queue) = Taken(n) \cup Range(queue')
    BY <2>1, SplitOfQueue
  <2>3. Lost' \subseteq Lost
    BY <1>6, <2>1, <2>2 DEF ReceiveFails, Lost, Missing
  <2> QED BY <1>6, <2>3 DEF ReceiveFails, Stop, Harmless
<1>7. ASSUME NEW m \in inFlight, Arrive(m)
      PROVE  Harmless
  <2>1. m \in 1 .. published /\ store \in Seq(1 .. published)
    BY DEF TypeOK
  <2>2. Range(store') = Range(store) \cup {m}
    <3> DEFINE S == 1 .. published
    <3>1. store \in Seq(S) /\ m \in S /\ store' = Append(store, m)
      BY <1>7, <2>1 DEF Arrive
    <3> HIDE DEF S
    <3> QED BY <3>1, AppendHolds
  <2>3. Lost' \subseteq Lost
    BY <1>7, <2>2 DEF Arrive, Lost, Missing
  <2> QED BY <1>7, <2>3 DEF Arrive, count, Harmless
<1>8. ASSUME NEW m \in inFlight, Drop(m)
      PROVE  Harmless
  <2>1. Lost' \subseteq Lost
    BY <1>8 DEF Drop, Lost, Missing
  <2> QED BY <1>8, <2>1 DEF Drop, count, Harmless
<1> QED BY <1>1, <1>2, <1>3, <1>4, <1>5, <1>6, <1>7, <1>8, <1>9 DEF Next

LEMMA LossStep ==
  ASSUME TypeOK, TypeOK', LossBounded, [Next]_vars PROVE LossBounded'
<1> DEFINE b == (MaxBatch - 1) * stops + exposed
           d == (MaxBatch - 1) * stops' + exposed'
<1>1. /\ MaxBatch - 1 \in Nat /\ stops \in Nat /\ exposed \in Nat /\ published \in Nat
      /\ (MaxBatch - 1) * stops \in Nat
      /\ (MaxBatch - 1) * (stops + 1) = (MaxBatch - 1) * stops + (MaxBatch - 1)
  BY BatchAssumption, BoundsAssumption DEF TypeOK
<1>2. b \in Nat
  BY <1>1
<1>3. Cardinality(Lost) <= b
  BY DEF LossBounded, Lost
<1>4. IsFiniteSet(Lost)
  <2>1. Lost \subseteq 1 .. published
    BY DEF Lost, Missing
  <2>2. IsFiniteSet(1 .. published)
    BY <1>1, FS_Interval
  <2> QED BY <2>1, <2>2, FS_Subset
<1>5. SUFFICES \E E : \E e \in Nat : /\ Lost' \subseteq Lost \cup E /\ IsFiniteSet(E)
                                    /\ Cardinality(E) <= e /\ b + e <= d
  <2>1. PICK E : \E e \in Nat : /\ Lost' \subseteq Lost \cup E /\ IsFiniteSet(E)
                               /\ Cardinality(E) <= e /\ b + e <= d
    BY <1>5
  <2>2. PICK e \in Nat : /\ Lost' \subseteq Lost \cup E /\ IsFiniteSet(E)
                         /\ Cardinality(E) <= e /\ b + e <= d
    BY <2>1
  <2>3. d \in Int
    BY BatchAssumption DEF TypeOK
  <2> HIDE DEF b, d
  <2>4. IsFiniteSet(Lost') /\ Cardinality(Lost') <= b + e
    BY <1>2, <1>3, <1>4, <2>2, LossGrows
  <2>5. Cardinality(Lost') \in Nat
    BY <2>4, FS_CardinalityType
  <2>6. Cardinality(Lost') <= d
    BY <1>2, <2>2, <2>3, <2>4, <2>5
  <2> QED BY <2>6 DEF LossBounded, Lost, d
<1>6. CASE Harmless
  <2>1. b + 0 <= d
    BY <1>1, <1>6 DEF Harmless
  <2>2. Lost' \subseteq Lost \cup {} /\ IsFiniteSet({}) /\ Cardinality({}) <= 0
    BY <1>6, FS_EmptySet DEF Harmless
  <2> QED BY <2>1, <2>2
<1>7. CASE DropsRest
  <2>1. b + (MaxBatch - 1) <= d
    BY <1>1, <1>7 DEF DropsRest
  <2> QED BY <1>1, <1>7, <2>1 DEF DropsRest
<1>8. CASE DropsSends
  <2>1. IsFiniteSet(inFlight) /\ Cardinality(inFlight) \in Nat
    BY UnderWay
  <2>2. b + Cardinality(inFlight) <= d
    BY <1>1, <1>8, <2>1 DEF DropsSends
  <2> QED BY <1>8, <2>1, <2>2 DEF DropsSends
<1> QED BY <1>6, <1>7, <1>8, StepLoses

\* A stop of the loop loses, besides the message at fault, the rest of one batch at
\* most, and an end of the process the sends under way, for every batch size and
\* number of failures; otherwise every message that left the queue was sent
\* (index.js:23-41).
THEOREM LossIsBounded == Spec => []LossBounded
<1>1. Init => LossBounded
  <2> SUFFICES ASSUME Init PROVE LossBounded
    OBVIOUS
  <2>1. Missing \ excused = {}
    BY DEF Init, Missing
  <2>2. (MaxBatch - 1) * stops + exposed = 0
    BY BatchAssumption DEF Init
  <2> QED BY <2>1, <2>2, FS_EmptySet DEF LossBounded
<1>2. IInv /\ IInv' /\ LossBounded /\ [Next]_vars => LossBounded'
  BY LossStep DEF IInv
<1> QED BY <1>1, <1>2, IInvHolds, PTL DEF Spec
=============================================================================
