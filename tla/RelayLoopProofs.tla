--------------------------- MODULE RelayLoopProofs ---------------------------
(***************************************************************************)
(* Every synchronous relay implements FifoAtMostOnce, whatever its batch   *)
(* size and whatever fails: what is stored, what the relay holds and what  *)
(* is queued are one increasing sequence of messages.  And it loses, apart *)
(* from messages whose own send or receive went wrong, at most the rest of *)
(* one batch for each exit or caught exception.                            *)
(***************************************************************************)
EXTENDS RelayLoop, MessageLemmas, SequenceTheorems, TLAPS

Sorted(s) == \A i, j \in 1 .. Len(s) : i < j => s[i] < s[j]
Before(s, t) == \A i \in 1 .. Len(s), j \in 1 .. Len(t) : s[i] < t[j]

Messages == /\ queue \in Seq(1 .. published)
            /\ batch \in Seq(1 .. published)
            /\ store \in Seq(1 .. published)

Ordered == /\ Sorted(store) /\ Sorted(batch) /\ Sorted(queue)
           /\ Before(store, batch) /\ Before(store, queue) /\ Before(batch, queue)

-----------------------------------------------------------------------------
(* Sequences of messages.                                                  *)

LEMMA NothingOrdered ==
  ASSUME NEW s
  PROVE  Sorted(<<>>) /\ Before(<<>>, s) /\ Before(s, <<>>)
<1>1. Len(<<>>) = 0
  BY EmptySeq
<1> QED BY <1>1 DEF Sorted, Before

LEMMA AppendOrdered ==
  ASSUME NEW s \in Seq(Nat), NEW m \in Nat, Sorted(s),
         \A i \in 1 .. Len(s) : s[i] < m
  PROVE  Sorted(Append(s, m))
<1>1. Len(s) \in Nat
  BY LenProperties
<1>2. /\ Len(Append(s, m)) = Len(s) + 1
      /\ \A i \in 1 .. Len(s) : Append(s, m)[i] = s[i]
      /\ Append(s, m)[Len(s) + 1] = m
  BY AppendProperties
<1> DEFINE t == Append(s, m)
<1> HIDE DEF t
<1>3. SUFFICES ASSUME NEW i \in 1 .. Len(t), NEW j \in 1 .. Len(t), i < j
               PROVE  t[i] < t[j]
  BY DEF Sorted, t
<1>4. i \in 1 .. Len(s)
  BY <1>1, <1>2, <1>3 DEF t
<1>5. CASE j \in 1 .. Len(s)
  BY <1>2, <1>3, <1>4, <1>5 DEF Sorted, t
<1>6. CASE j = Len(s) + 1
  BY <1>2, <1>4, <1>6 DEF t
<1> QED BY <1>1, <1>2, <1>5, <1>6 DEF t

LEMMA AppendBefore ==
  ASSUME NEW s \in Seq(Nat), NEW t \in Seq(Nat), NEW m \in Nat
  PROVE  /\ Before(s, t) /\ (\A j \in 1 .. Len(t) : m < t[j]) => Before(Append(s, m), t)
         /\ Before(s, t) /\ (\A i \in 1 .. Len(s) : s[i] < m) => Before(s, Append(t, m))
<1>1. Len(s) \in Nat /\ Len(t) \in Nat
  BY LenProperties
<1>2. /\ Len(Append(s, m)) = Len(s) + 1
      /\ \A i \in 1 .. Len(s) : Append(s, m)[i] = s[i]
      /\ Append(s, m)[Len(s) + 1] = m
  BY AppendProperties
<1>3. /\ Len(Append(t, m)) = Len(t) + 1
      /\ \A i \in 1 .. Len(t) : Append(t, m)[i] = t[i]
      /\ Append(t, m)[Len(t) + 1] = m
  BY AppendProperties
<1>4. \A i \in 1 .. (Len(s) + 1) : i \in 1 .. Len(s) \/ i = Len(s) + 1
  BY <1>1
<1>5. \A i \in 1 .. (Len(t) + 1) : i \in 1 .. Len(t) \/ i = Len(t) + 1
  BY <1>1
<1> DEFINE a == Append(s, m)
           b == Append(t, m)
<1> HIDE DEF a, b
<1>6. Before(s, t) /\ (\A j \in 1 .. Len(t) : m < t[j]) => Before(a, t)
  BY <1>2, <1>4 DEF Before, a
<1>7. Before(s, t) /\ (\A i \in 1 .. Len(s) : s[i] < m) => Before(s, b)
  BY <1>3, <1>5 DEF Before, b
<1> QED BY <1>6, <1>7 DEF a, b

\* A stretch of an increasing sequence keeps its order, also towards others.
LEMMA StretchOrdered ==
  ASSUME NEW s \in Seq(Nat), NEW m \in 1 .. Len(s) + 1, NEW n \in Int, m - 1 <= n, n <= Len(s)
  PROVE  /\ SubSeq(s, m, n) \in Seq(Nat)
         /\ Len(SubSeq(s, m, n)) = n - m + 1
         /\ \A i \in 1 .. (n - m + 1) : /\ i + m - 1 \in 1 .. Len(s)
                                        /\ SubSeq(s, m, n)[i] = s[i + m - 1]
BY LenProperties, SubSeqProperties

LEMMA SplitOrdered ==
  ASSUME NEW s \in Seq(Nat), Sorted(s), NEW n \in 0 .. Len(s),
         NEW r \in Seq(Nat), Before(r, s)
  PROVE  LET a == SubSeq(s, 1, n)
             b == SubSeq(s, n + 1, Len(s))
         IN  Sorted(a) /\ Sorted(b) /\ Before(a, b) /\ Before(r, a) /\ Before(r, b)
<1> DEFINE a == SubSeq(s, 1, n)
           b == SubSeq(s, n + 1, Len(s))
<1>1. Len(s) \in Nat /\ n \in Nat /\ n <= Len(s) /\ Len(r) \in Nat
  BY LenProperties
<1>2. Len(a) = n /\ \A i \in 1 .. n : i \in 1 .. Len(s) /\ a[i] = s[i]
  BY <1>1, StretchOrdered
<1>3. /\ Len(b) = Len(s) - n
      /\ \A i \in 1 .. (Len(s) - n) : i + n \in 1 .. Len(s) /\ b[i] = s[i + n]
  <2>1. /\ n + 1 \in 1 .. Len(s) + 1 /\ Len(s) \in Int
        /\ (n + 1) - 1 <= Len(s) /\ Len(s) <= Len(s)
    BY <1>1
  <2>2. /\ Len(b) = Len(s) - (n + 1) + 1
        /\ \A i \in 1 .. (Len(s) - (n + 1) + 1) : /\ i + (n + 1) - 1 \in 1 .. Len(s)
                                                 /\ b[i] = s[i + (n + 1) - 1]
    BY <2>1, StretchOrdered
  <2>3. Len(s) - (n + 1) + 1 = Len(s) - n /\ \A i \in Int : i + (n + 1) - 1 = i + n
    BY <1>1
  <2>4. \A i \in 1 .. (Len(s) - n) : i \in Int
    BY <1>1
  <2> QED BY <2>2, <2>3, <2>4
<1> HIDE DEF a, b
<1>4. Sorted(a)
  BY <1>1, <1>2 DEF Sorted
<1>5. Sorted(b)
  <2> SUFFICES ASSUME NEW i \in 1 .. Len(b), NEW j \in 1 .. Len(b), i < j
               PROVE  b[i] < b[j]
    BY DEF Sorted
  <2>1. i \in 1 .. (Len(s) - n) /\ j \in 1 .. (Len(s) - n)
    BY <1>3
  <2>2. /\ i + n \in 1 .. Len(s) /\ b[i] = s[i + n]
        /\ j + n \in 1 .. Len(s) /\ b[j] = s[j + n]
    BY <1>3, <2>1
  <2>3. i + n < j + n
    BY <1>1, <2>1
  <2>4. s[i + n] < s[j + n]
    BY <2>2, <2>3 DEF Sorted
  <2> QED BY <2>2, <2>4
<1>6. Before(a, b)
  <2> SUFFICES ASSUME NEW i \in 1 .. Len(a), NEW j \in 1 .. Len(b)
               PROVE  a[i] < b[j]
    BY DEF Before
  <2>1. i \in 1 .. Len(s) /\ j + n \in 1 .. Len(s) /\ i < j + n
    BY <1>1, <1>2, <1>3
  <2>2. s[i] < s[j + n]
    BY <2>1 DEF Sorted
  <2> QED BY <1>2, <1>3, <2>2
<1>7. Before(r, a) /\ Before(r, b)
  BY <1>1, <1>2, <1>3 DEF Before
<1> QED BY <1>4, <1>5, <1>6, <1>7 DEF a, b

\* Taking the head of an increasing sequence: it precedes the rest.
LEMMA HeadOrdered ==
  ASSUME NEW s \in Seq(Nat), s # <<>>, Sorted(s)
  PROVE  /\ Head(s) \in Nat /\ Head(s) = s[1] /\ 1 \in 1 .. Len(s)
         /\ Tail(s) \in Seq(Nat) /\ Sorted(Tail(s))
         /\ \A i \in 1 .. Len(Tail(s)) : Head(s) < Tail(s)[i]
         /\ \A r \in Seq(Nat) : /\ Before(s, r) => Before(Tail(s), r)
                                /\ Before(r, s) => Before(r, Tail(s))
<1> DEFINE t == Tail(s)
<1>1. /\ Len(s) \in Nat /\ Len(s) > 0 /\ Len(t) = Len(s) - 1 /\ t \in Seq(Nat)
      /\ \A i \in 1 .. Len(t) : t[i] = s[i + 1]
      /\ Head(s) = s[1] /\ Head(s) \in Nat
  BY LenProperties, HeadTailProperties, EmptySeq
<1> HIDE DEF t
<1>2. \A i \in 1 .. Len(t) : i + 1 \in 1 .. Len(s) /\ 1 < i + 1
  BY <1>1
<1>3. 1 \in 1 .. Len(s)
  BY <1>1
<1>4. Sorted(t)
  <2> SUFFICES ASSUME NEW i \in 1 .. Len(t), NEW j \in 1 .. Len(t), i < j
               PROVE  t[i] < t[j]
    BY DEF Sorted
  <2>1. i + 1 < j + 1
    BY <1>1
  <2>2. s[i + 1] < s[j + 1]
    BY <1>2, <2>1 DEF Sorted
  <2> QED BY <1>1, <2>2
<1>5. \A i \in 1 .. Len(t) : Head(s) < t[i]
  BY <1>1, <1>2, <1>3 DEF Sorted
<1>6. \A r \in Seq(Nat) : /\ Before(s, r) => Before(t, r)
                          /\ Before(r, s) => Before(r, t)
  BY <1>1, <1>2 DEF Before
<1> QED BY <1>1, <1>3, <1>4, <1>5, <1>6 DEF t

-----------------------------------------------------------------------------
(* The moves of the loop on the three sequences.                           *)

Chain == published \in Nat /\ Messages /\ Ordered
Holding == pc = "send" => batch # <<>>
IInv == Chain /\ Holding

LEMMA WiderMessages ==
  ASSUME NEW a \in Nat, NEW s \in Seq(1 .. a)
  PROVE  /\ s \in Seq(Nat) /\ s \in Seq(1 .. (a + 1))
         /\ \A i \in 1 .. Len(s) : s[i] \in 1 .. a
<1>1. s \in [1 .. Len(s) -> 1 .. a] /\ Len(s) \in Nat
  BY LenProperties
<1> QED BY <1>1, SeqDef

\* A new message, at the end of the queue.
LEMMA PublishStep == Chain /\ Publish => Chain'
<1> SUFFICES ASSUME Chain, Publish PROVE Chain'
  OBVIOUS
<1> DEFINE m == published + 1
<1>1. /\ published \in Nat /\ published' = m /\ m \in Nat
      /\ queue' = Append(queue, m) /\ UNCHANGED <<batch, store>>
  BY DEF Chain, Publish
<1>2. /\ queue \in Seq(Nat) /\ queue \in Seq(1 .. m) /\ \A i \in 1 .. Len(queue) : queue[i] < m
      /\ batch \in Seq(Nat) /\ batch \in Seq(1 .. m) /\ \A i \in 1 .. Len(batch) : batch[i] < m
      /\ store \in Seq(Nat) /\ store \in Seq(1 .. m) /\ \A i \in 1 .. Len(store) : store[i] < m
  <2>1. \A i \in 1 .. published : i < m
    BY <1>1
  <2> QED BY <1>1, <2>1, WiderMessages DEF Chain, Messages
<1>3. m \in 1 .. m
  BY <1>1
<1> HIDE DEF m
<1>4. queue' \in Seq(1 .. m)
  BY <1>1, <1>2, <1>3, AppendProperties
<1>5. Messages'
  BY <1>1, <1>2, <1>4 DEF Messages
<1>6. Sorted(queue')
  BY <1>1, <1>2, AppendOrdered DEF Chain, Ordered
<1>7. Before(store, queue') /\ Before(batch, queue')
  BY <1>1, <1>2, AppendBefore DEF Chain, Ordered
<1>8. Ordered'
  BY <1>1, <1>6, <1>7 DEF Chain, Ordered, Sorted, Before
<1> QED BY <1>1, <1>5, <1>8 DEF Chain

\* The queue or the batch is emptied.
LEMMA ForgetStep ==
  ASSUME Chain, UNCHANGED <<published, store>>,
         queue' \in {queue, <<>>}, batch' \in {batch, <<>>}
  PROVE  Chain'
<1>1. Messages'
  BY EmptySeq DEF Chain, Messages
<1>2. /\ Sorted(store) /\ Sorted(batch') /\ Sorted(queue')
      /\ Before(store, batch') /\ Before(store, queue') /\ Before(batch', queue')
  BY NothingOrdered DEF Chain, Ordered
<1> QED BY <1>1, <1>2 DEF Chain, Ordered, Sorted, Before

\* The relay takes the first n messages, and holds them or loses them.
LEMMA TakeStep ==
  ASSUME Chain, UNCHANGED <<published, store>>, NEW n \in 0 .. Len(queue),
         queue' = Left(n), batch' = <<>> \/ batch' = Taken(n)
  PROVE  Chain'
<1>1. queue \in Seq(Nat) /\ store \in Seq(Nat) /\ published \in Nat
  BY WiderMessages DEF Chain, Messages
<1>2. /\ Sorted(Taken(n)) /\ Sorted(Left(n)) /\ Before(Taken(n), Left(n))
      /\ Before(store, Taken(n)) /\ Before(store, Left(n))
  BY <1>1, SplitOrdered DEF Chain, Ordered, Taken, Left
<1>3. /\ Sorted(store) /\ Sorted(batch') /\ Sorted(queue')
      /\ Before(store, batch') /\ Before(store, queue') /\ Before(batch', queue')
  BY <1>2, NothingOrdered DEF Chain, Ordered
<1>4. Taken(n) \in Seq(1 .. published) /\ Left(n) \in Seq(1 .. published)
  <2>1. Len(queue) \in Nat /\ \A i \in 1 .. Len(queue) : queue[i] \in 1 .. published
    BY <1>1, WiderMessages, LenProperties DEF Chain, Messages
  <2>2. 1 \in Int /\ n \in Int /\ n + 1 \in Int /\ Len(queue) \in Int
    BY <2>1
  <2>3. \A i \in 1 .. n : queue[i] \in 1 .. published
    BY <2>1
  <2>4. \A i \in (n + 1) .. Len(queue) : queue[i] \in 1 .. published
    BY <2>1
  <2> QED BY <2>2, <2>3, <2>4, SubSeqProperties DEF Taken, Left
<1>5. Messages'
  BY <1>4, EmptySeq DEF Chain, Messages
<1> QED BY <1>3, <1>5 DEF Chain, Ordered, Sorted, Before

\* The head of the batch is stored, or not, and the rest kept or forgotten.
LEMMA SendStep ==
  ASSUME Chain, UNCHANGED broker, batch # <<>>, batch' \in {Tail(batch), <<>>},
         store' \in {store, Append(store, Head(batch))}
  PROVE  Chain'
<1> DEFINE m == Head(batch)
           t == Tail(batch)
           u == Append(store, m)
<1>1. /\ published \in Nat /\ queue \in Seq(Nat) /\ batch \in Seq(Nat) /\ store \in Seq(Nat)
      /\ UNCHANGED <<published, queue>>
  BY WiderMessages DEF Chain, Messages, broker
<1>2. /\ m \in Nat /\ m = batch[1] /\ 1 \in 1 .. Len(batch)
      /\ t \in Seq(Nat) /\ Sorted(t) /\ \A i \in 1 .. Len(t) : m < t[i]
      /\ Before(t, queue) /\ Before(store, t)
  BY <1>1, HeadOrdered DEF Chain, Ordered
<1>3. m \in 1 .. published /\ t \in Seq(1 .. published)
  BY HeadTailProperties DEF Chain, Messages
<1>4. u \in Seq(1 .. published)
  BY <1>3, AppendProperties DEF Chain, Messages
<1>5. (\A i \in 1 .. Len(store) : store[i] < m) /\ (\A i \in 1 .. Len(queue) : m < queue[i])
  BY <1>2 DEF Chain, Ordered, Before
<1> HIDE DEF m, t
<1>6. Sorted(u)
  BY <1>1, <1>2, <1>5, AppendOrdered DEF Chain, Ordered
<1>7. Before(u, t) /\ Before(u, queue)
  BY <1>1, <1>2, <1>5, AppendBefore DEF Chain, Ordered
<1> HIDE DEF u
<1>8. batch' \in {t, <<>>} /\ store' \in {store, u}
  BY DEF m, t, u
<1>9. Messages'
  BY <1>1, <1>3, <1>4, <1>8, EmptySeq DEF Chain, Messages
<1>10. /\ Sorted(store') /\ Sorted(batch') /\ Sorted(queue)
       /\ Before(store', batch') /\ Before(store', queue) /\ Before(batch', queue)
  BY <1>2, <1>6, <1>7, <1>8, NothingOrdered DEF Chain, Ordered
<1> QED BY <1>1, <1>9, <1>10 DEF Chain, Ordered, Sorted, Before

LEMMA IInvInit == Init => IInv
BY EmptySeq, NothingOrdered DEF Init, IInv, Chain, Holding, Messages, Ordered

LEMMA ChainStep == IInv /\ [Next]_vars => Chain'
<1> SUFFICES ASSUME Chain, Holding, [Next]_vars PROVE Chain'
  BY DEF IInv
<1> USE DEF broker, history
<1>0. Len(queue) \in Nat /\ MaxBatch \in Nat
  BY LenProperties, BatchAssumption DEF Chain, Messages
<1>1. CASE Publish
  BY <1>1, PublishStep
<1>2. CASE Purge \/ Rerun \/ Setup \/ SetupFails \/ ReceiveAnswersError \/ UNCHANGED vars
  BY <1>2, ForgetStep DEF Purge, Rerun, Setup, SetupFails, ReceiveAnswersError, Exit, vars
<1>3. CASE Receive
  <2>1. PICK n \in 1 .. Min(MaxBatch, Len(queue)) : queue' = Left(n) /\ batch' = Taken(n)
    BY <1>3 DEF Receive
  <2>2. n \in 0 .. Len(queue)
    BY <1>0 DEF Min
  <2> QED BY <1>3, <2>1, <2>2, TakeStep DEF Receive
<1>4. CASE ReceiveThrows
  <2>1. PICK n \in 0 .. Min(MaxBatch, Len(queue)) : queue' = Left(n)
    BY <1>4 DEF ReceiveThrows
  <2>2. n \in 0 .. Len(queue)
    BY <1>0 DEF Min
  <2> QED BY <1>4, <2>1, <2>2, TakeStep DEF ReceiveThrows, Exit, Catch
<1>5. CASE Send \/ SendThrows
  BY <1>5, SendStep DEF Send, SendThrows, Stored, NotStored, NextMessage, Exit, Catch, Holding
<1> QED BY <1>1, <1>2, <1>3, <1>4, <1>5 DEF Next, Program

\* While it sends, the relay holds a message.
LEMMA HoldingStep == IInv /\ [Next]_vars => Holding'
<1> SUFFICES ASSUME Chain, Holding, [Next]_vars PROVE Holding'
  BY DEF IInv
<1> USE DEF Holding
<1>1. CASE Publish \/ Purge \/ UNCHANGED vars
  BY <1>1 DEF Publish, Purge, vars
<1>2. CASE Rerun \/ Setup \/ SetupFails \/ ReceiveAnswersError \/ ReceiveThrows
  BY <1>2 DEF Rerun, Setup, SetupFails, ReceiveAnswersError, ReceiveThrows, Exit, Catch
<1>3. CASE Receive
  <2>1. PICK n \in 1 .. Min(MaxBatch, Len(queue)) : batch' = Taken(n)
    BY <1>3 DEF Receive
  <2>2. queue \in Seq(Nat) /\ Len(queue) \in Nat /\ MaxBatch \in Nat
    BY WiderMessages, LenProperties, BatchAssumption DEF Chain, Messages
  <2>3. n \in Nat /\ n >= 1 /\ n <= Len(queue)
    BY <2>2 DEF Min
  <2>4. Len(Taken(n)) = n
    BY <2>2, <2>3, StretchOrdered DEF Taken
  <2> QED BY <2>1, <2>3, <2>4, EmptySeq
<1>4. CASE Send \/ SendThrows
  BY <1>4 DEF Send, SendThrows, NextMessage, Exit, Catch
<1> QED BY <1>1, <1>2, <1>3, <1>4 DEF Next, Program

\* A step of the relay is a delivery, a publication, or nothing to the abstract
\* specification.
LEMMA StepImplements ==
  IInv /\ [Next]_vars => [Abstract!Next]_<<published, store>>
<1> SUFFICES ASSUME Chain, Holding, [Next]_vars
             PROVE  Abstract!Publish \/ Abstract!Deliver \/ UNCHANGED <<published, store>>
  BY DEF IInv, Abstract!Next
<1> USE DEF broker
<1>1. CASE Publish
  BY <1>1 DEF Publish, Abstract!Publish
<1>2. CASE Purge \/ Rerun \/ Setup \/ SetupFails \/ Receive \/ ReceiveAnswersError
           \/ ReceiveThrows \/ UNCHANGED vars
  BY <1>2 DEF Purge, Rerun, Setup, SetupFails, Receive, ReceiveAnswersError,
              ReceiveThrows, vars
<1>3. CASE Send \/ SendThrows
  <2>1. batch # <<>> /\ UNCHANGED published
        /\ (store' = store \/ store' = Append(store, Head(batch)))
    BY <1>3 DEF Send, SendThrows, Stored, NotStored, Holding
  <2>2. /\ batch \in Seq(Nat) /\ store \in Seq(Nat) /\ Len(store) \in Nat
        /\ Head(batch) = batch[1] /\ 1 \in 1 .. Len(batch)
    BY <2>1, WiderMessages, HeadOrdered, LenProperties DEF Chain, Messages, Ordered
  <2>3. Head(batch) \in 1 .. published
    BY <2>1, HeadTailProperties DEF Chain, Messages
  <2>4. Abstract!Last < Head(batch) /\ Abstract!Last \in Nat
    <3>1. CASE store = <<>>
      BY <2>3, <3>1 DEF Abstract!Last, Chain
    <3>2. CASE store # <<>>
      <4>1. Len(store) \in 1 .. Len(store)
        BY <2>2, <3>2, EmptySeq
      <4>2. store[Len(store)] < batch[1] /\ store[Len(store)] \in Nat
        BY <2>2, <4>1, ElementOfSeq DEF Chain, Ordered, Before
      <4> QED BY <2>2, <3>2, <4>2 DEF Abstract!Last
    <3> QED BY <3>1, <3>2
  <2>5. Head(batch) \in (Abstract!Last + 1) .. published
    BY <2>3, <2>4 DEF Chain
  <2> QED BY <2>1, <2>5 DEF Abstract!Deliver
<1> QED BY <1>1, <1>2, <1>3 DEF Next, Program

\* Every synchronous relay stores messages in their order and none twice,
\* whatever its policy, its batch size and the failures (Program.cs:45-76,
\* main.go:27-56, App.java:33-63, main.py:59-73).
THEOREM ImplementsFifo == Spec => Implements
<1>1. Init => Abstract!Init
  BY DEF Init, Abstract!Init
<1>2. IInv /\ [Next]_vars => IInv'
  BY ChainStep, HoldingStep DEF IInv
<1> QED BY <1>1, <1>2, IInvInit, StepImplements, PTL DEF Spec, Implements, Abstract!Spec

-----------------------------------------------------------------------------
(* Types.                                                                  *)

LEMMA TypeInit == Init => TypeOK
BY EmptySeq, BoundsAssumption DEF Init, TypeOK

\* The n messages handed out and the ones that stay, for a reply of n messages.
LEMMA Reply ==
  ASSUME TypeOK, NEW n \in 0 .. Min(MaxBatch, Len(queue))
  PROVE  /\ n \in 0 .. Len(queue) /\ n <= MaxBatch
         /\ Taken(n) \in Seq(1 .. published) /\ Len(Taken(n)) = n
         /\ Left(n) \in Seq(1 .. published)
         /\ Range(queue) = Range(Taken(n)) \cup Range(Left(n))
<1>1. queue \in Seq(1 .. published) /\ Len(queue) \in Nat /\ MaxBatch \in Nat
  BY LenProperties, BatchAssumption DEF TypeOK
<1>2. n \in 0 .. Len(queue) /\ n <= MaxBatch
  BY <1>1 DEF Min
<1> DEFINE S == 1 .. published
<1>3. queue \in Seq(S)
  BY <1>1
<1> HIDE DEF S
<1>4. /\ SubSeq(queue, 1, n) \in Seq(S) /\ Len(SubSeq(queue, 1, n)) = n
      /\ SubSeq(queue, n + 1, Len(queue)) \in Seq(S)
      /\ Range(queue) = Range(SubSeq(queue, 1, n)) \cup Range(SubSeq(queue, n + 1, Len(queue)))
  BY <1>2, <1>3, SplitKeeps
<1> QED BY <1>2, <1>4 DEF Taken, Left, S

\* Ending the program and catching an exception count as one failure each.
LEMMA Failure ==
  ASSUME TypeOK, Exit \/ Catch
  PROVE  /\ batch' = <<>> /\ pc' \in {"receive", "exited"}
         /\ exits' \in Nat /\ caught' \in Nat
         /\ exits' + caught' = exits + caught + 1 /\ exits' + caught' <= MaxFailures
<1>1. exits \in Nat /\ caught \in Nat /\ MaxFailures \in Nat
  BY BoundsAssumption DEF TypeOK
<1>2. CASE Exit
  BY <1>1, <1>2 DEF Exit, CanFail
<1>3. CASE Catch
  BY <1>1, <1>3 DEF Catch, CanFail
<1> QED BY <1>2, <1>3

LEMMA SendType ==
  ASSUME TypeOK, Send \/ SendThrows PROVE TypeOK'
<1> DEFINE m == Head(batch)
           t == Tail(batch)
           u == Append(store, m)
           x == excused \cup {m}
<1> USE DEF broker
<1>1. batch # <<>> /\ pc = "send"
  BY DEF Send, SendThrows, TypeOK
<1>2. m \in 1 .. published /\ t \in Seq(1 .. published)
  BY <1>1, HeadAndTail DEF TypeOK
<1>3. u \in Seq(1 .. published) /\ x \subseteq 1 .. published
  BY <1>2, AppendProperties DEF TypeOK
<1> HIDE DEF m, t, u, x
<1>4. /\ UNCHANGED <<published, queue, language>>
      /\ store' \in {store, u} /\ excused' \in {excused, x}
  BY DEF Send, SendThrows, Stored, NotStored, m, u, x
<1>5. \/ batch' = t /\ pc' = (IF t = <<>> THEN "receive" ELSE "send") /\ UNCHANGED <<exits, caught>>
      \/ Exit \/ Catch
  BY DEF Send, SendThrows, NextMessage, t
<1>6. store' \in Seq(1 .. published') /\ excused' \subseteq 1 .. published'
  BY <1>3, <1>4 DEF TypeOK
<1>7. batch' \in Seq(1 .. published') /\ (pc' = "send" <=> batch' # <<>>)
      /\ pc' \in {"setup", "broken", "receive", "send", "exited"}
  BY <1>2, <1>4, <1>5, Failure, EmptySeq
<1>8. exits' \in Nat /\ caught' \in Nat /\ exits' + caught' <= MaxFailures
  BY <1>5, Failure DEF TypeOK
<1> QED BY <1>4, <1>6, <1>7, <1>8 DEF TypeOK

LEMMA TypeStep == TypeOK /\ [Next]_vars => TypeOK'
<1> SUFFICES ASSUME TypeOK, [Next]_vars PROVE TypeOK'
  OBVIOUS
<1> USE DEF broker, history
<1>1. CASE Publish
  <2> DEFINE m == published + 1
  <2>1. published \in Nat /\ m \in 0 .. MaxPublished /\ published' = m
    BY <1>1, BoundsAssumption DEF Publish, TypeOK
  <2>2. /\ queue \in Seq(1 .. m) /\ batch \in Seq(1 .. m) /\ store \in Seq(1 .. m)
    BY <2>1, WiderMessages DEF TypeOK
  <2>3. Append(queue, m) \in Seq(1 .. m)
    BY <2>1, <2>2, AppendProperties
  <2>4. excused \subseteq 1 .. m
    BY <2>1 DEF TypeOK
  <2> QED BY <1>1, <2>1, <2>2, <2>3, <2>4 DEF Publish, TypeOK
<1>2. CASE Purge
  BY <1>2, RangeOfSeq, EmptySeq DEF Purge, TypeOK
<1>3. CASE Rerun \/ Setup \/ UNCHANGED vars
  BY <1>3 DEF Rerun, Setup, vars, TypeOK
<1>4. CASE SetupFails \/ ReceiveAnswersError
  <2>1. pc # "send" /\ batch = <<>>
    BY <1>4 DEF SetupFails, ReceiveAnswersError, TypeOK
  <2>2. UNCHANGED <<published, queue, language, store, excused>>
    BY <1>4 DEF SetupFails, ReceiveAnswersError
  <2>3. CASE Exit
    BY <2>2, <2>3, Failure, EmptySeq DEF TypeOK
  <2>4. CASE pc' = "broken" /\ UNCHANGED <<batch, exits, caught>>
    BY <2>1, <2>2, <2>4 DEF TypeOK
  <2> QED BY <1>4, <2>3, <2>4 DEF SetupFails, ReceiveAnswersError
<1>5. CASE Receive
  <2>1. PICK n \in 1 .. Min(MaxBatch, Len(queue)) : queue' = Left(n) /\ batch' = Taken(n)
    BY <1>5 DEF Receive
  <2>2. n \in 0 .. Min(MaxBatch, Len(queue)) /\ n >= 1
    BY LenProperties, BatchAssumption DEF TypeOK, Min
  <2>3. queue' \in Seq(1 .. published) /\ batch' \in Seq(1 .. published) /\ Len(batch') = n
    BY <2>1, <2>2, Reply
  <2>4. batch' # <<>>
    BY <2>2, <2>3, EmptySeq
  <2> QED BY <1>5, <2>3, <2>4 DEF Receive, TypeOK
<1>6. CASE ReceiveThrows
  <2>1. PICK n \in 0 .. Min(MaxBatch, Len(queue)) :
          queue' = Left(n) /\ excused' = excused \cup Range(Taken(n))
    BY <1>6 DEF ReceiveThrows
  <2>2. queue' \in Seq(1 .. published) /\ Range(Taken(n)) \subseteq 1 .. published
    BY <2>1, Reply, RangeOfSeq
  <2>3. (Exit \/ Catch) /\ UNCHANGED <<published, language, store>>
    BY <1>6 DEF ReceiveThrows
  <2>4. excused' \subseteq 1 .. published
    BY <2>1, <2>2 DEF TypeOK
  <2> QED BY <2>2, <2>3, <2>4, Failure, EmptySeq DEF TypeOK
<1>7. CASE Send \/ SendThrows
  BY <1>7, SendType
<1> QED BY <1>1, <1>2, <1>3, <1>4, <1>5, <1>6, <1>7 DEF Next, Program

\* Type correctness, for all programs, batch sizes and bounds.
THEOREM TypeCorrect == Spec => []TypeOK
<1> QED BY TypeInit, TypeStep, PTL DEF Spec

-----------------------------------------------------------------------------
(* What is lost.                                                           *)

Lost == Missing \ excused

ShortBatch == Len(batch) <= MaxBatch

LInv == TypeOK /\ ShortBatch /\ LossBounded

\* A step loses nothing, or it ends the program or the batch and loses what
\* follows the message in hand.
Harmless == Lost' \subseteq Lost /\ exits' + caught' \in {exits + caught, exits + caught + 1}
DropsRest == /\ batch # <<>>
             /\ Lost' \subseteq Lost \cup Range(Tail(batch))
             /\ exits' + caught' = exits + caught + 1

LEMMA SendLoses ==
  ASSUME TypeOK, Send \/ SendThrows PROVE Harmless \/ DropsRest
<1> DEFINE m == Head(batch)
           t == Tail(batch)
<1> USE DEF broker
<1>1. batch # <<>> /\ UNCHANGED <<published, queue>>
  BY DEF Send, SendThrows, TypeOK
<1>2. Range(batch) = {m} \cup Range(t)
  BY <1>1, HeadAndTail DEF TypeOK
<1>3. m \in 1 .. published
  BY <1>1, HeadAndTail DEF TypeOK
<1>4. Range(Append(store, m)) = Range(store) \cup {m}
  BY <1>3, AppendAdds DEF TypeOK
<1> HIDE DEF m, t
<1>5. \/ Range(store') = Range(store) \cup {m} /\ excused' = excused
      \/ store' = store /\ excused' = excused \cup {m}
  BY <1>4 DEF Send, SendThrows, Stored, NotStored, m
<1>6. \/ batch' = t /\ UNCHANGED <<exits, caught>>
      \/ batch' = <<>> /\ exits' + caught' = exits + caught + 1
  <2>1. (batch' = t /\ UNCHANGED <<exits, caught>>) \/ Exit \/ Catch
    BY DEF Send, SendThrows, NextMessage, t
  <2> QED BY <2>1, Failure
<1>7. CASE batch' = t /\ UNCHANGED <<exits, caught>>
  <2>1. Lost' \subseteq Lost
    BY <1>1, <1>2, <1>5, <1>7 DEF Lost, Missing
  <2> QED BY <1>7, <2>1 DEF Harmless
<1>8. CASE batch' = <<>> /\ exits' + caught' = exits + caught + 1
  <2>1. Lost' \subseteq Lost \cup Range(t)
    BY <1>1, <1>2, <1>5, <1>8 DEF Lost, Missing
  <2> QED BY <1>1, <1>8, <2>1 DEF DropsRest, t
<1> QED BY <1>6, <1>7, <1>8

LEMMA StepLoses ==
  ASSUME TypeOK, [Next]_vars PROVE Harmless \/ DropsRest
<1> USE DEF broker, history
<1>1. CASE Publish
  <2>1. /\ published' = published + 1 /\ published \in Nat
        /\ queue' = Append(queue, published + 1)
        /\ UNCHANGED <<batch, store, excused, exits, caught>>
    BY <1>1 DEF Publish, TypeOK
  <2>2. queue \in Seq(1 .. (published + 1)) /\ published + 1 \in 1 .. (published + 1)
    BY <2>1, WiderMessages DEF TypeOK
  <2>3. Range(queue') = Range(queue) \cup {published + 1}
    BY <2>1, <2>2, AppendAdds
  <2>4. Lost' \subseteq Lost
    BY <2>1, <2>3 DEF Lost, Missing
  <2> QED BY <2>1, <2>4 DEF Harmless
<1>2. CASE Purge
  BY <1>2, NoMessages DEF Purge, Harmless, Lost, Missing
<1>3. CASE Rerun \/ Setup \/ UNCHANGED vars
  BY <1>3 DEF Rerun, Setup, vars, Harmless, Lost, Missing
<1>4. CASE SetupFails \/ ReceiveAnswersError
  <2>1. batch = <<>> /\ batch' = <<>> /\ UNCHANGED <<published, queue, store, excused>>
    BY <1>4 DEF SetupFails, ReceiveAnswersError, Exit, TypeOK
  <2>2. Lost' = Lost
    BY <2>1 DEF Lost, Missing
  <2>3. exits' + caught' \in {exits + caught, exits + caught + 1}
    <3>1. Exit \/ UNCHANGED <<exits, caught>>
      BY <1>4 DEF SetupFails, ReceiveAnswersError
    <3> QED BY <3>1, Failure
  <2> QED BY <2>2, <2>3 DEF Harmless
<1>5. CASE Receive
  <2>1. PICK n \in 1 .. Min(MaxBatch, Len(queue)) : queue' = Left(n) /\ batch' = Taken(n)
    BY <1>5 DEF Receive
  <2>2. n \in 0 .. Min(MaxBatch, Len(queue))
    BY LenProperties, BatchAssumption DEF TypeOK, Min
  <2>3. Range(queue) = Range(batch') \cup Range(queue')
    BY <2>1, <2>2, Reply
  <2>4. batch = <<>> /\ UNCHANGED <<published, store, excused, exits, caught>>
    BY <1>5 DEF Receive, TypeOK
  <2>5. Lost' \subseteq Lost
    BY <2>3, <2>4, NoMessages DEF Lost, Missing
  <2> QED BY <2>4, <2>5 DEF Harmless
<1>6. CASE ReceiveThrows
  <2>1. PICK n \in 0 .. Min(MaxBatch, Len(queue)) :
          queue' = Left(n) /\ excused' = excused \cup Range(Taken(n))
    BY <1>6 DEF ReceiveThrows
  <2>2. Range(queue) = Range(Taken(n)) \cup Range(queue')
    BY <2>1, Reply
  <2>3. /\ batch = <<>> /\ batch' = <<>> /\ UNCHANGED <<published, store>>
        /\ exits' + caught' = exits + caught + 1
    <3>1. Exit \/ Catch
      BY <1>6 DEF ReceiveThrows
    <3> QED BY <1>6, <3>1, Failure DEF ReceiveThrows, TypeOK
  <2>4. Lost' \subseteq Lost
    BY <2>1, <2>2, <2>3 DEF Lost, Missing
  <2> QED BY <2>3, <2>4 DEF Harmless
<1>7. CASE Send \/ SendThrows
  BY <1>7, SendLoses
<1> QED BY <1>1, <1>2, <1>3, <1>4, <1>5, <1>6, <1>7 DEF Next, Program

LEMMA ShortStep ==
  ASSUME TypeOK, ShortBatch, [Next]_vars PROVE ShortBatch'
<1> USE DEF ShortBatch, broker, history
<1>1. MaxBatch \in Nat /\ Len(<<>>) = 0
  BY BatchAssumption, EmptySeq
<1>2. CASE Receive
  <2>1. PICK n \in 1 .. Min(MaxBatch, Len(queue)) : batch' = Taken(n)
    BY <1>2 DEF Receive
  <2>2. n \in 0 .. Min(MaxBatch, Len(queue))
    BY LenProperties, BatchAssumption DEF TypeOK, Min
  <2> QED BY <2>1, <2>2, Reply
<1>3. CASE Send \/ SendThrows
  <2>1. batch # <<>> /\ batch' \in {Tail(batch), <<>>}
    BY <1>3 DEF Send, SendThrows, NextMessage, Catch, Exit, TypeOK
  <2>2. Len(Tail(batch)) = Len(batch) - 1 /\ Len(batch) \in Nat
    BY <2>1, HeadAndTail, LenProperties DEF TypeOK
  <2> QED BY <1>1, <2>1, <2>2
<1>4. CASE Publish \/ Purge \/ Rerun \/ Setup \/ SetupFails \/ ReceiveAnswersError
           \/ ReceiveThrows \/ UNCHANGED vars
  BY <1>1, <1>4 DEF Publish, Purge, Rerun, Setup, SetupFails, ReceiveAnswersError,
                    ReceiveThrows, Exit, Catch, vars
<1> QED BY <1>2, <1>3, <1>4 DEF Next, Program

LEMMA LossStep ==
  ASSUME LInv, [Next]_vars PROVE LossBounded'
<1> DEFINE k == exits + caught
           kn == exits' + caught'
           b == (MaxBatch - 1) * k
<1>1. /\ TypeOK /\ TypeOK' /\ ShortBatch
      /\ Cardinality(Lost) <= b
  BY TypeStep DEF LInv, LossBounded, Lost
<1>2. MaxBatch \in Nat /\ MaxBatch - 1 \in Nat /\ k \in Nat /\ published \in Nat
  BY <1>1, BatchAssumption DEF TypeOK
<1>3. b \in Nat /\ (MaxBatch - 1) * (k + 1) = b + (MaxBatch - 1)
  BY <1>2
<1>4. IsFiniteSet(Lost)
  <2>1. Lost \subseteq 1 .. published
    BY DEF Lost, Missing
  <2>2. IsFiniteSet(1 .. published)
    BY <1>2, FS_Interval
  <2> QED BY <2>1, <2>2, FS_Subset
<1>5. SUFFICES Cardinality(Lost') <= (MaxBatch - 1) * kn
  BY DEF LossBounded, Lost
<1> HIDE DEF b, k, kn
<1>6. CASE Harmless
  <2>1. Cardinality(Lost') <= b + 0
    <3>1. IsFiniteSet({}) /\ Cardinality({}) <= 0 /\ Lost' \subseteq Lost \cup {} /\ 0 \in Nat
      BY <1>6, FS_EmptySet DEF Harmless
    <3> QED BY <1>1, <1>3, <1>4, <3>1, LossGrows
  <2>2. IsFiniteSet(Lost')
    BY <1>4, <1>6, FS_Subset DEF Harmless
  <2>3. Cardinality(Lost') \in Nat
    BY <2>2, FS_CardinalityType
  <2>4. kn = k \/ kn = k + 1
    BY <1>6 DEF Harmless, k, kn
  <2>5. CASE kn = k
    <3>1. (MaxBatch - 1) * kn = b
      BY <2>5 DEF b
    <3> QED BY <1>3, <2>1, <2>3, <3>1
  <2>6. CASE kn = k + 1
    <3>1. (MaxBatch - 1) * kn = b + (MaxBatch - 1)
      BY <1>3, <2>6
    <3> QED BY <1>2, <1>3, <2>1, <2>3, <3>1
  <2> QED BY <2>4, <2>5, <2>6
<1>7. CASE DropsRest
  <2> DEFINE E == Range(Tail(batch))
  <2>1. /\ Tail(batch) \in Seq(1 .. published) /\ Len(Tail(batch)) = Len(batch) - 1
        /\ Len(batch) \in Nat /\ Len(Tail(batch)) \in Nat
    BY <1>1, <1>7, HeadAndTail, LenProperties DEF DropsRest, TypeOK
  <2>2. IsFiniteSet(E) /\ Cardinality(E) <= Len(batch) - 1
    BY <2>1, FewMessages
  <2>3. Cardinality(E) \in Nat
    BY <2>2, FS_CardinalityType
  <2>4. Cardinality(E) <= MaxBatch - 1
    BY <1>1, <1>2, <2>1, <2>2, <2>3 DEF ShortBatch
  <2>5. Lost' \subseteq Lost \cup E /\ kn = k + 1
    BY <1>7 DEF DropsRest, k, kn
  <2> HIDE DEF E
  <2>6. Cardinality(Lost') <= b + (MaxBatch - 1)
    BY <1>1, <1>2, <1>3, <1>4, <2>2, <2>4, <2>5, LossGrows
  <2> QED BY <1>3, <2>5, <2>6
<1> QED BY <1>1, <1>6, <1>7, StepLoses

\* What an exit or a caught exception loses, apart from messages whose own send
\* or receive went wrong, is the rest of one batch: for every language, batch
\* size and number of failures (Program.cs:57-75, main.go:39-51).
THEOREM LossIsBounded == Spec => []LossBounded
<1>1. Init => LInv
  <2> SUFFICES ASSUME Init PROVE LInv
    OBVIOUS
  <2>1. TypeOK
    BY TypeInit
  <2>2. ShortBatch
    BY BatchAssumption, EmptySeq DEF Init, ShortBatch
  <2>3. Missing = {} /\ Missing \ excused = {}
    BY DEF Init, Missing
  <2>4. exits + caught = 0 /\ (MaxBatch - 1) * 0 = 0
    BY BatchAssumption DEF Init
  <2>5. LossBounded
    BY <2>3, <2>4, FS_EmptySet DEF LossBounded
  <2> QED BY <2>1, <2>2, <2>5 DEF LInv
<1>2. LInv /\ [Next]_vars => LInv'
  BY TypeStep, ShortStep, LossStep DEF LInv
<1>3. LInv => LossBounded
  BY DEF LInv
<1> QED BY <1>1, <1>2, <1>3, PTL DEF Spec

-----------------------------------------------------------------------------
(* The programs that do not catch around the batch.                        *)

\* They catch no exception that would make them forget one.
LEMMA OthersCatchNone ==
  ASSUME TypeOK, [Next]_vars, language # "csharp"
  PROVE  caught' = caught
<1> USE DEF broker, history
<1>1. Policy.receive = "exit" /\ "abandon" \notin Policy.send
  <2>1. language \in {"go", "java", "python"}
    BY LanguageAssumption DEF TypeOK
  <2> QED BY <2>1 DEF Policy, Go, Java, Python
<1>2. CASE ReceiveThrows \/ Send \/ SendThrows
  BY <1>1, <1>2 DEF ReceiveThrows, Send, SendThrows, NextMessage, Exit
<1>3. CASE \/ Publish \/ Purge \/ Rerun \/ Setup \/ SetupFails \/ Receive
           \/ ReceiveAnswersError \/ UNCHANGED vars
  BY <1>3 DEF Publish, Purge, Rerun, Setup, SetupFails, Receive, ReceiveAnswersError,
              Exit, vars
<1> QED BY <1>2, <1>3 DEF Next, Program

EndedCounts == pc = "exited" => exits # 0

\* The program ends by Exit only, which counts it; another one runs after that only.
LEMMA EndsCounted ==
  ASSUME TypeOK, EndedCounts, [Next]_vars
  PROVE  /\ EndedCounts' /\ (exits' = 0 => exits = 0)
         /\ exits' = 0 => language' = language
<1> USE DEF broker, history, EndedCounts
<1>1. exits \in Nat
  BY DEF TypeOK
<1>2. Exit => exits' # 0
  BY <1>1 DEF Exit
<1>3. CASE Rerun
  BY <1>1, <1>3 DEF Rerun
<1>4. CASE ReceiveThrows \/ SetupFails \/ ReceiveAnswersError \/ SendThrows
  <2>1. UNCHANGED language
    BY <1>4 DEF ReceiveThrows, SetupFails, ReceiveAnswersError, SendThrows
  <2>2. Exit \/ (pc' # "exited" /\ UNCHANGED exits)
    BY <1>4 DEF ReceiveThrows, SetupFails, ReceiveAnswersError, SendThrows, Catch, NextMessage
  <2> QED BY <1>2, <2>1, <2>2
<1>5. CASE Publish \/ Purge \/ Setup \/ Receive \/ Send \/ UNCHANGED vars
  BY <1>5 DEF Publish, Purge, Setup, Receive, Send, NextMessage, vars
<1> QED BY <1>3, <1>4, <1>5 DEF Next, Program

\* A send that fails costs no other message of its batch, in every language but C#,
\* for every batch size, until the program ends (main.go:38-53, App.java:43-59,
\* main.py:63-71).
THEOREM OthersLoseNoOther == Spec => []OthersSendEach
<1> DEFINE OInv == TypeOK /\ EndedCounts /\ OthersSendEach
<1>1. Init => OInv
  BY TypeInit DEF Init, EndedCounts, OthersSendEach, Missing
<1>2. OInv /\ [Next]_vars => OInv'
  <2> SUFFICES ASSUME OInv, [Next]_vars PROVE OInv'
    OBVIOUS
  <2>1. TypeOK' /\ EndedCounts'
    BY TypeStep, EndsCounted
  <2>2. OthersSendEach'
    <3> SUFFICES ASSUME language' # "csharp", exits' = 0 PROVE Missing' \subseteq excused'
      BY DEF OthersSendEach
    <3>1. language # "csharp" /\ exits = 0
      BY EndsCounted
    <3>2. Missing \subseteq excused /\ caught' = caught /\ caught \in Nat
      BY <3>1, OthersCatchNone DEF OthersSendEach, TypeOK
    <3>3. ~DropsRest
      BY <3>1, <3>2 DEF DropsRest
    <3>4. Lost' \subseteq Lost
      BY <3>3, StepLoses DEF Harmless
    <3> QED BY <3>2, <3>4 DEF Lost
  <2> QED BY <2>1, <2>2
<1>3. OInv => OthersSendEach
  OBVIOUS
<1> HIDE DEF OInv
<1> QED BY <1>1, <1>2, <1>3, PTL DEF Spec
=============================================================================
