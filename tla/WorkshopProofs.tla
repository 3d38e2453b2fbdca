---------------------------- MODULE WorkshopProofs ----------------------------
(***************************************************************************)
(* What is proved of the workshop, for any number of rates, threads,       *)
(* messages, commands and failures.  The generator and the client are in   *)
(* it what they are by themselves, so what was proved of Manager and of    *)
(* RateClient holds there; the view of the client follows the rates; and   *)
(* every variable has its type.                                            *)
(***************************************************************************)
EXTENDS Workshop, MessageLemmas, TLAPS

MP == INSTANCE ManagerProofs

\* The two instances of Manager, M of Workshop and the one within MP, say the same.
LEMMA SameInit == M!Init <=> MP!Init
  BY DEF M!Init, MP!Init, M!Settings, MP!Settings, M!Rates, MP!Rates,
         M!IdleSender, MP!IdleSender, M!IdleHandler, MP!IdleHandler,
         M!Command, MP!Command, M!Unknown, MP!Unknown

LEMMA SameType == (M!TypeOK <=> MP!TypeOK) /\ (M!TypeOK' <=> MP!TypeOK')
  BY DEF M!TypeOK, MP!TypeOK, M!Settings, MP!Settings, M!Rates, MP!Rates,
         M!Unknown, MP!Unknown

LEMMA SameNext == M!Next <=> MP!Next
  BY DEF M!Next, MP!Next, M!Main, MP!Main, M!Subscribe, MP!Subscribe,
         M!Consume, MP!Consume, M!Crash, MP!Crash, M!Restart, MP!Restart,
         M!Elapsed, MP!Elapsed, M!ReadRate, MP!ReadRate, M!SendReport,
         MP!SendReport, M!Receive, MP!Receive, M!Handle, MP!Handle,
         M!ReadConfig, MP!ReadConfig, M!RejectConfig, MP!RejectConfig,
         M!Connect, MP!Connect, M!PurgeAtStart, MP!PurgeAtStart,
         M!FailToConnect, MP!FailToConnect, M!LoadRates, MP!LoadRates,
         M!SetRateTimer, MP!SetRateTimer, M!RejectInterval, MP!RejectInterval,
         M!rateCollection, MP!rateCollection, M!process, MP!process, M!Exit,
         MP!Exit, M!startup, MP!startup, M!IdleSender, MP!IdleSender, M!Rates,
         MP!Rates, M!Unknown, MP!Unknown, M!Command, MP!Command, M!SetRate,
         MP!SetRate, M!RejectSet, MP!RejectSet, M!PurgeAfterSet,
         MP!PurgeAfterSet, M!StartRate, MP!StartRate, M!StartTooEarly,
         MP!StartTooEarly, M!Respond, MP!Respond, M!ConfigLoads,
         MP!ConfigLoads, M!Purged, MP!Purged, M!NotPurged, MP!NotPurged,
         M!GetAutoStart, MP!GetAutoStart, M!GetRateInterval,
         MP!GetRateInterval, M!IdleHandler, MP!IdleHandler, M!Switch,
         MP!Switch, M!GoTo, MP!GoTo

LEMMA SameStep == [M!Next]_M!vars <=> [MP!Next]_MP!vars
<1>1. UNCHANGED M!vars <=> UNCHANGED MP!vars
  BY DEF M!vars, MP!vars, M!process, MP!process, M!startup, MP!startup,
         M!rateCollection, MP!rateCollection
<1> QED
  BY <1>1, SameNext

LEMMA SameStaleBounded == M!StaleBounded <=> MP!StaleBounded
  BY DEF M!StaleBounded, MP!StaleBounded, M!Rates, MP!Rates, M!StaleQueued,
         MP!StaleQueued, M!StaleHeld, MP!StaleHeld, M!Stale, MP!Stale,
         M!Cardinality, MP!Cardinality, M!IsFiniteSet, MP!IsFiniteSet

LEMMA SameNoFlipBack == M!NoFlipBack <=> MP!NoFlipBack
  BY DEF M!NoFlipBack, MP!NoFlipBack, M!Rates, MP!Rates, M!StaleQueued,
         MP!StaleQueued, M!StaleHeld, MP!StaleHeld, M!Stale, MP!Stale,
         M!Cardinality, MP!Cardinality, M!IsFiniteSet, MP!IsFiniteSet

LEMMA SameAppliedBeforeOK == M!AppliedBeforeOK <=> MP!AppliedBeforeOK
  BY DEF M!AppliedBeforeOK, MP!AppliedBeforeOK, M!Rates, MP!Rates

\* What was proved of the generator by itself.
LEMMA GeneratorTyped ==
  /\ M!Init => M!TypeOK
  /\ M!TypeOK /\ [M!Next]_M!vars => M!TypeOK'
<1>1. MP!Init => MP!TypeOK
  BY MP!TypeInit, GeneratorAssumption DEF MP!IsFiniteSet, IsFiniteSet
<1>2. MP!TypeOK /\ [MP!Next]_MP!vars => MP!TypeOK'
  BY MP!TypeStep, GeneratorAssumption DEF MP!IsFiniteSet, IsFiniteSet
<1> QED
  BY <1>1, <1>2, SameInit, SameType, SameStep

generators == <<generator, queue>>

\* A receive, successful or not, takes the oldest reports or none.
LEMMA RelayConsumes ==
  ASSUME M!TypeOK, Relay
  PROVE  M!Consume \/ UNCHANGED generators
<1>1. Len(queue) \in Nat /\ queue \in Seq([Rates -> BOOLEAN])
  BY DEF M!TypeOK, Rates
<1>2. ASSUME NEW n \in 0 .. R!Min(MaxBatch, Len(queue)), queue' = R!Left(n)
      PROVE  queue' = queue \/ \E k \in 1 .. Len(queue) : queue' = SubSeq(queue, k + 1, Len(queue))
  <2>1. n \in 0 .. Len(queue)
    BY <1>1, RelayAssumption DEF R!Min
  <2>2. CASE n = 0
    BY <1>1, <1>2, <2>2 DEF R!Left
  <2>3. CASE n # 0
    BY <1>1, <1>2, <2>1, <2>3 DEF R!Left
  <2> QED
    BY <2>2, <2>3
<1>3. queue' = queue \/ \E k \in 1 .. Len(queue) : queue' = SubSeq(queue, k + 1, Len(queue))
  <2>1. CASE R!Receive
    BY <1>1, <1>2, <2>1, RelayAssumption DEF R!Receive, R!Min
  <2>2. CASE R!ReceiveThrows
    BY <1>2, <2>2 DEF R!ReceiveThrows
  <2>3. CASE \/ R!Setup \/ R!SetupFails \/ R!ReceiveAnswersError
             \/ R!Send \/ R!SendThrows \/ R!Rerun
    BY <2>3 DEF R!Setup, R!SetupFails, R!ReceiveAnswersError, R!Send, R!SendThrows, R!Rerun, R!broker
  <2> QED
    BY <2>1, <2>2, <2>3 DEF Relay, R!Program
<1> QED
  BY <1>3 DEF Relay, generators, generator, M!Consume, M!process, M!startup, M!rateCollection

\* Every step of the workshop is one of the generator, or none to it.
LEMMA StepOfGenerator ==
  ASSUME M!TypeOK, [Next]_vars
  PROVE  [M!Next]_M!vars
<1>1. ASSUME UNCHANGED generators PROVE UNCHANGED M!vars
  BY <1>1 DEF generators, generator, M!vars, M!process, M!startup, M!rateCollection
<1>2. CASE Generator
  BY <1>2 DEF Generator, M!Next
<1>3. CASE Relay
  BY <1>1, <1>3, RelayConsumes DEF M!Next
<1>4. CASE OnMessage \/ Page
  BY <1>1, <1>4 DEF OnMessage, Page, generators
<1>5. CASE Commands
  <2>1. ASSUME NEW r \in Rates, NEW b \in BOOLEAN, NEW h \in Handlers, Delivered(r, b, h)
        PROVE  M!Next
    BY <2>1 DEF Delivered, M!Next
  <2>2. ASSUME NEW h \in Handlers, StartDelivered(h) PROVE M!Next
    BY <2>2 DEF StartDelivered, M!Next
  <2>3. ASSUME NEW r \in Rates, NEW b \in BOOLEAN, NotDelivered(r, b) PROVE UNCHANGED generators
    BY <2>3 DEF NotDelivered, generators
  <2> QED
    BY <1>1, <1>5, <2>1, <2>2, <2>3 DEF Commands
<1>6. CASE UNCHANGED vars
  BY <1>1, <1>6 DEF vars, generators
<1> QED
  BY <1>2, <1>3, <1>4, <1>5, <1>6 DEF Next

\* The workshop implements the generator: the relay and the commands of client and
\* relay are surroundings Manager allows (Manager.cs:260-330; Program.cs:45-76).
THEOREM GeneratorRuns == Spec => GeneratorImplements
<1>1. Init => M!Init
  BY DEF Init
<1>2. M!TypeOK /\ [Next]_vars => [M!Next]_M!vars
  BY StepOfGenerator
<1> QED
  BY <1>1, <1>2, GeneratorTyped, PTL DEF Spec, GeneratorImplements, M!Spec

\* What was proved of the generator holds of it in the workshop: after the purge that
\* follows a command, a reader of the queue is told the old state of a rate at most
\* once for each send that was in flight (Manager.cs:286-287).
THEOREM WorkshopStaleBound == Spec => []M!StaleBounded
<1>1. MP!Spec => []MP!StaleBounded
  BY MP!StaleBound, GeneratorAssumption DEF MP!IsFiniteSet, IsFiniteSet
<1> QED
  BY <1>1, GeneratorRuns, SameInit, SameStep, SameStaleBounded, PTL
  DEF GeneratorImplements, M!Spec, MP!Spec

\* A relay that received the new state of a rate receives its old one fewer times than
\* there are senders, never when sends do not overlap (Manager.cs:211-247 and 286-287).
THEOREM WorkshopNoFlip == Spec => []M!NoFlipBack
<1>1. MP!Spec => []MP!NoFlipBack
  BY MP!NoFlip, GeneratorAssumption DEF MP!IsFiniteSet, IsFiniteSet
<1> QED
  BY <1>1, GeneratorRuns, SameInit, SameStep, SameNoFlipBack, PTL
  DEF GeneratorImplements, M!Spec, MP!Spec

\* When commands are handled one at a time, what the client or a relay is answered is
\* true: the rate is as the command asked, or every rate is active (Manager.cs:280-328).
THEOREM WorkshopAnswers == ASSUME NEW h, Handlers = {h} PROVE Spec => []M!AppliedBeforeOK
<1>1. MP!Spec => []MP!AppliedBeforeOK
  BY MP!AnswersHold, GeneratorAssumption DEF MP!IsFiniteSet, IsFiniteSet
<1> QED
  BY <1>1, GeneratorRuns, SameInit, SameStep, SameAppliedBeforeOK, PTL
  DEF GeneratorImplements, M!Spec, MP!Spec

-----------------------------------------------------------------------------
(* The view.  How its trail may change, in terms of the parts it is made of.*)

Flags == BOOLEAN

LEMMA ViewLoses ==
  ASSUME NEW r, NEW s, NEW a \in Seq(Flags), NEW b \in Seq(Flags), NEW c \in Seq(Flags),
         a # <<>>, c # <<>>, Trail(r, s) = (a \o b) \o c, Trail(r, s)' = a \o c
  PROVE  UNCHANGED Trail(r, s) \/ View(r, s)!Next
<1>1. CASE b = <<>>
  BY <1>1, ConcatEmptySeq
<1>2. CASE b # <<>>
  <2>1. Shortened((a \o b) \o c, a \o c)
    BY <1>2, WithoutMiddle
  <2>2. Shortened(Trail(r, s), Trail(r, s)')
    BY <2>1
  <2> QED
    BY <2>2 DEF Shortened, View!Next, View!Lose
<1> QED
  BY <1>1, <1>2

LEMMA ViewShows ==
  ASSUME NEW r, NEW s, NEW shown \in Flags, NEW next \in Flags, NEW rest \in Seq(Flags),
         rest # <<>>, Trail(r, s) = <<shown>> \o (<<next>> \o rest),
         Trail(r, s)' = <<next>> \o rest
  PROVE  View(r, s)!Next
<1>1. Len(rest) \in Nat /\ Len(rest) > 0
  BY LenProperties, EmptySeq
<1>2. <<next>> \o rest \in Seq(Flags) /\ Len(<<next>> \o rest) = 1 + Len(rest)
  OBVIOUS
<1>3. Tail(Trail(r, s)) = <<next>> \o rest
  BY <1>2, TailOfConcat
<1>4. Len(Trail(r, s)) = 1 + (1 + Len(rest))
  BY <1>2
<1>5. Len(Trail(r, s)) > 2
  BY <1>1, <1>4
<1> QED
  BY <1>3, <1>5 DEF View!Next, View!Show

LEMMA ViewReports ==
  ASSUME NEW r, NEW s, NEW before \in Seq(Flags), NEW now \in Flags,
         Trail(r, s) = before \o <<now>>, Trail(r, s)' = (before \o <<now>>) \o <<now>>
  PROVE  View(r, s)!Next
<1> DEFINE t == before \o <<now>>
<1>1. t \in Seq(Flags) /\ Len(t) = Len(before) + 1 /\ t[Len(t)] = now
  OBVIOUS
<1> HIDE DEF t
<1>2. t \o <<now>> = Append(t, t[Len(t)])
  BY <1>1, AppendIsConcat
<1>3. Trail(r, s) = t /\ Trail(r, s)' = t \o <<now>>
  BY DEF t
<1> QED
  BY <1>2, <1>3 DEF View!Next, View!Report

LEMMA ViewSwitches ==
  ASSUME NEW r, NEW s, NEW kept \in Seq(Flags), NEW lost \in Seq(Flags),
         NEW was \in Flags, NEW now \in Flags, kept # <<>>,
         Trail(r, s) = (kept \o lost) \o <<was>>, Trail(r, s)' = kept \o <<now>>
  PROVE  View(r, s)!Next
<1> DEFINE end == lost \o <<was>>
<1>1. end \in Seq(Flags) /\ Len(end) = Len(lost) + 1 /\ <<was>> \in Seq(Flags)
  OBVIOUS
<1>2. Trail(r, s) = kept \o end
  BY <1>1, ConcatAssociative
<1> HIDE DEF end
<1>3. SubSeq(Trail(r, s), 1, Len(kept)) = kept
  BY <1>1, <1>2, FirstPart
<1>4. Len(Trail(r, s)) = Len(kept) + Len(end)
  BY <1>1, <1>2, ConcatProperties
<1>5. Len(kept) \in 1 .. Len(Trail(r, s)) - 1
  <2>1. Len(kept) \in Nat \ {0} /\ Len(lost) \in Nat
    BY LenProperties, EmptySeq
  <2> QED
    BY <1>1, <1>4, <2>1
<1>6. Trail(r, s)' = Append(SubSeq(Trail(r, s), 1, Len(kept)), now)
  BY <1>3, AppendIsConcat
<1> QED
  BY <1>5, <1>6 DEF View!Next, View!Switch, Flags

-----------------------------------------------------------------------------
(* What is reported of one rate.                                           *)

LEMMA OfTyped ==
  ASSUME NEW r \in Rates, NEW x \in Seq(Reports)
  PROVE  /\ Of(r, x) \in Seq(Flags) /\ Len(Of(r, x)) = Len(x)
         /\ \A i \in 1 .. Len(x) : Of(r, x)[i] = x[i][r]
<1>1. Len(x) \in Nat /\ \A i \in 1 .. Len(x) : x[i] \in [Rates -> BOOLEAN]
  BY LenProperties, ElementOfSeq DEF Reports
<1>2. Of(r, x) \in [1 .. Len(x) -> Flags]
  BY <1>1 DEF Of, Flags
<1> QED
  BY <1>1, <1>2 DEF Of

LEMMA OfConcat ==
  ASSUME NEW r \in Rates, NEW x \in Seq(Reports), NEW y \in Seq(Reports)
  PROVE  Of(r, x \o y) = Of(r, x) \o Of(r, y)
<1> DEFINE xy == x \o y
           a == Of(r, xy)
           b == Of(r, x) \o Of(r, y)
<1>1. /\ xy \in Seq(Reports)
      /\ Len(xy) = Len(x) + Len(y)
      /\ \A i \in 1 .. Len(x) + Len(y) : xy[i] = IF i <= Len(x) THEN x[i] ELSE y[i - Len(x)]
  BY ConcatProperties
<1>2. Len(x) \in Nat /\ Len(y) \in Nat
  BY LenProperties
<1> HIDE DEF xy
<1>3. /\ a \in Seq(Flags) /\ Len(a) = Len(x) + Len(y)
      /\ \A i \in 1 .. Len(x) + Len(y) : a[i] = xy[i][r]
  BY <1>1, OfTyped
<1>4. /\ b \in Seq(Flags) /\ Len(b) = Len(x) + Len(y)
      /\ \A i \in 1 .. Len(x) + Len(y) :
            b[i] = IF i <= Len(x) THEN Of(r, x)[i] ELSE Of(r, y)[i - Len(x)]
  <2> DEFINE u == Of(r, x)
             v == Of(r, y)
  <2>1. u \in Seq(Flags) /\ v \in Seq(Flags) /\ Len(u) = Len(x) /\ Len(v) = Len(y)
    BY OfTyped
  <2> HIDE DEF u, v
  <2>2. /\ u \o v \in Seq(Flags) /\ Len(u \o v) = Len(u) + Len(v)
        /\ \A i \in 1 .. Len(u) + Len(v) :
              (u \o v)[i] = IF i <= Len(u) THEN u[i] ELSE v[i - Len(u)]
    BY <2>1, ConcatProperties
  <2> QED
    BY <2>1, <2>2 DEF u, v
<1> HIDE DEF a, b
<1>5. /\ \A i \in 1 .. Len(x) : Of(r, x)[i] = x[i][r]
      /\ \A i \in 1 .. Len(y) : Of(r, y)[i] = y[i][r]
  BY OfTyped
<1>6. ASSUME NEW i \in 1 .. Len(a) PROVE a[i] = b[i]
  <2>1. CASE i <= Len(x)
    <3>1. i \in 1 .. Len(x) /\ i \in 1 .. Len(x) + Len(y)
      BY <1>2, <1>3, <2>1
    <3> QED
      BY <1>1, <1>3, <1>4, <1>5, <2>1, <3>1
  <2>2. CASE ~(i <= Len(x))
    <3>1. i - Len(x) \in 1 .. Len(y) /\ i \in 1 .. Len(x) + Len(y)
      BY <1>2, <1>3, <2>2
    <3> QED
      BY <1>1, <1>3, <1>4, <1>5, <2>2, <3>1
  <2> QED
    BY <2>1, <2>2
<1>7. a = b
  BY <1>3, <1>4, <1>6, SeqEqual
<1> QED
  BY <1>7 DEF a, b, xy

-----------------------------------------------------------------------------
(* What the steps of the relay do to the reports under way: they forget    *)
(* some that follow one another, or none.                                  *)

Flow ==
  /\ M!TypeOK
  /\ MP!Quiet
  /\ feed \in Seq(Reports)
  /\ batch \in Seq(Reports)
  /\ pc = "send" <=> batch # <<>>

\* The same reports in other parentheses.
LEMMA Regrouped == \A a, b, c \in Seq(Reports) : (a \o b) \o c = a \o (b \o c)
BY ConcatAssociative

Forgets == \E x, y, z \in Seq(Reports) : Line = (x \o y) \o z /\ Line' = x \o z

LEMMA ForgetsThese ==
  ASSUME NEW x \in Seq(Reports), NEW y \in Seq(Reports), NEW z \in Seq(Reports),
         Line = (x \o y) \o z, Line' = x \o z
  PROVE  Forgets
BY DEF Forgets

\* Without a change to the reports, nothing is forgotten.
LEMMA KeptLine == ASSUME Line \in Seq(Reports), Line' = Line PROVE Forgets
<1>1. <<>> \in Seq(Reports) /\ Line \o <<>> = Line
  BY EmptySeq, ConcatEmptySeq
<1>2. Line = (Line \o <<>>) \o <<>> /\ Line' = Line \o <<>>
  BY <1>1
<1> QED
  BY <1>1, <1>2, ForgetsThese

LEMMA FlowLine ==
  ASSUME Flow
  PROVE  /\ queue \in Seq(Reports)
         /\ Line \in Seq(Reports)
<1>1. queue \in Seq(Reports)
  BY DEF Flow, M!TypeOK, Reports, Rates
<1> QED
  BY <1>1, ConcatProperties DEF Flow, Line

\* Receiving: the reports handed out become the batch, or are lost.
LEMMA ReceiveForgets ==
  ASSUME Flow, R!Receive \/ R!ReceiveThrows, UNCHANGED feed
  PROVE  batch' \in Seq(Reports) /\ (pc' = "send" <=> batch' # <<>>) /\ Forgets
<1>1. /\ batch = <<>> /\ feed \in Seq(Reports) /\ queue \in Seq(Reports) /\ feed' = feed
      /\ Line \in Seq(Reports) /\ Len(queue) \in Nat
  BY FlowLine, LenProperties DEF Flow, R!Receive, R!ReceiveThrows
<1>2. Line = feed \o queue
  BY <1>1, ConcatEmptySeq DEF Line
<1>3. \A n \in 0 .. R!Min(MaxBatch, Len(queue)) : n \in 0 .. Len(queue)
  BY <1>1, RelayAssumption DEF R!Min
<1>4. CASE R!Receive
  <2>1. PICK n \in 1 .. R!Min(MaxBatch, Len(queue)) : queue' = R!Left(n) /\ batch' = R!Taken(n)
    BY <1>4 DEF R!Receive
  <2>2. n \in 0 .. R!Min(MaxBatch, Len(queue))
    BY <2>1
  <2>3. n \in 0 .. Len(queue)
    BY <1>3, <2>2
  <2>4. /\ batch' \in Seq(Reports) /\ queue' \in Seq(Reports)
        /\ queue = batch' \o queue' /\ Len(batch') = n
    BY <1>1, <2>1, <2>3, CutInTwo, SplitKeeps DEF R!Left, R!Taken
  <2>5. Line' = (feed \o batch') \o queue'
    BY <1>1 DEF Line
  <2>6. Line' = Line
    BY <1>1, <1>2, <2>4, <2>5, ConcatAssociative
  <2>7. Forgets
    BY <1>1, <2>6, KeptLine
  <2>8. batch' # <<>> /\ pc' = "send"
    BY <1>4, <2>1, <2>4, EmptySeq DEF R!Receive
  <2> QED
    BY <2>4, <2>7, <2>8
<1>5. CASE R!ReceiveThrows
  <2>1. PICK n \in 0 .. R!Min(MaxBatch, Len(queue)) : queue' = R!Left(n)
    BY <1>5 DEF R!ReceiveThrows
  <2>2. n \in 0 .. Len(queue)
    BY <1>3, <2>1
  <2> DEFINE lost == R!Taken(n)
  <2>3. /\ lost \in Seq(Reports) /\ queue' \in Seq(Reports)
        /\ queue = lost \o queue'
    BY <1>1, <2>1, <2>2, CutInTwo DEF R!Left, R!Taken
  <2> HIDE DEF lost
  <2>4. batch' = <<>> /\ pc' # "send"
    BY <1>5 DEF R!ReceiveThrows, R!Exit, R!Catch
  <2>5. Line' = feed \o queue'
    BY <1>1, <2>4, ConcatEmptySeq DEF Line
  <2>6. (feed \o lost) \o queue' = feed \o (lost \o queue')
    <3>1. feed \in Seq(Reports) /\ lost \in Seq(Reports) /\ queue' \in Seq(Reports)
      BY <1>1, <2>3
    <3> QED
      BY <3>1, Regrouped
  <2>7. Line = (feed \o lost) \o queue'
    BY <1>2, <2>3, <2>6
  <2> QED
    <3>1. Forgets
      BY <1>1, <2>3, <2>5, <2>7, ForgetsThese
    <3> QED
      BY <2>4, <3>1, EmptySeq
<1> QED
  BY <1>4, <1>5

\* Sending: the first report of the batch is stored, or lost, and the rest of the
\* batch stays or is forgotten with the exception.
LEMMA SendForgets ==
  ASSUME Flow, R!Send \/ R!SendThrows
  PROVE  /\ feed' \in Seq(Reports) /\ batch' \in Seq(Reports) /\ (pc' = "send" <=> batch' # <<>>)
         /\ Forgets
<1> DEFINE h == Head(batch)
           t == Tail(batch)
           tried == <<h>>
<1>1. /\ feed \in Seq(Reports) /\ queue \in Seq(Reports) /\ batch \in Seq(Reports)
      /\ Line \in Seq(Reports)
  BY FlowLine DEF Flow
<1>2. UNCHANGED queue
  BY DEF R!Send, R!SendThrows, R!broker
<1>3. \/ R!Stored(h) /\ feed' = Append(feed, h)
      \/ R!NotStored(h) /\ feed' = feed
  BY DEF R!Send, R!SendThrows, R!Stored, R!NotStored
<1>4. \/ batch' = t /\ pc' = IF t = <<>> THEN "receive" ELSE "send"
      \/ batch' = <<>> /\ pc' \in {"receive", "exited"}
  BY DEF R!Send, R!SendThrows, R!NextMessage, R!Exit, R!Catch
<1>5. batch # <<>>
  BY DEF Flow, R!Send, R!SendThrows
<1>6. batch = tried \o t /\ h \in Reports /\ t \in Seq(Reports)
  BY <1>1, <1>5, HeadThenTail
<1>7. /\ tried \in Seq(Reports) /\ t \in Seq(Reports)
      /\ feed \in Seq(Reports) /\ queue \in Seq(Reports)
  BY <1>1, <1>6
<1> HIDE DEF t, tried
<1>8. feed' \in Seq(Reports) /\ batch' \in Seq(Reports) /\ (pc' = "send" <=> batch' # <<>>)
  <2>1. Append(feed, h) \in Seq(Reports)
    BY <1>1, <1>6, AppendProperties
  <2> QED
    BY <1>1, <1>3, <1>4, <1>6, <2>1, EmptySeq
<1>9. Line = (feed \o (tried \o t)) \o queue /\ Line' = (feed' \o batch') \o queue
  BY <1>2, <1>6 DEF Line
<1>10. feed' = feed \o tried \/ feed' = feed
  BY <1>1, <1>3, <1>6, AppendIsConcat DEF tried
<1>11. batch' = t \/ batch' = <<>>
  BY <1>4
<1>12. (feed \o tried) \o t = feed \o (tried \o t)
  BY <1>7, Regrouped
<1> DEFINE ft == feed \o tried
           tq == t \o queue
<1>13. ft \in Seq(Reports) /\ tq \in Seq(Reports) /\ Line = (ft \o t) \o queue
  BY <1>7, <1>9, <1>12, ConcatProperties
<1>14. Line = ft \o tq
  <2> HIDE DEF ft
  <2>1. (ft \o t) \o queue = ft \o (t \o queue)
    BY <1>7, <1>13, Regrouped
  <2> QED
    BY <1>13, <2>1
<1>15. CASE feed' = ft /\ batch' = t
  BY <1>1, <1>9, <1>13, <1>15, <1>8, KeptLine
<1>16. CASE feed' = ft /\ batch' = <<>>
  <2>1. Line' = ft \o queue
    BY <1>9, <1>13, <1>16, ConcatEmptySeq
  <2> QED
    BY <1>1, <1>6, <1>8, <1>13, <2>1, ForgetsThese
<1>17. CASE feed' = feed /\ batch' = t
  <2>1. Line' = feed \o tq
    <3>1. (feed \o t) \o queue = feed \o (t \o queue)
      BY <1>7, Regrouped
    <3> QED
      BY <1>9, <1>17, <3>1
  <2> QED
    BY <1>1, <1>7, <1>8, <1>13, <1>14, <2>1, ForgetsThese
<1>18. CASE feed' = feed /\ batch' = <<>>
  <2>1. Line' = feed \o queue
    BY <1>1, <1>9, <1>18, ConcatEmptySeq
  <2>2. tried \o t \in Seq(Reports)
    BY <1>6, <1>7, ConcatProperties
  <2> QED
    BY <1>1, <1>8, <1>9, <2>1, <2>2, ForgetsThese
<1> QED
  BY <1>10, <1>11, <1>15, <1>16, <1>17, <1>18 DEF ft

LEMMA RelayForgets ==
  ASSUME Flow, Relay
  PROVE  /\ feed' \in Seq(Reports) /\ batch' \in Seq(Reports) /\ (pc' = "send" <=> batch' # <<>>)
         /\ Forgets
<1>1. CASE R!Receive \/ R!ReceiveThrows
  <2>1. UNCHANGED feed
    BY <1>1 DEF R!Receive, R!ReceiveThrows
  <2> QED
    BY <1>1, <2>1, ReceiveForgets DEF Flow
<1>2. CASE R!Send \/ R!SendThrows
  BY <1>2, SendForgets
<1>3. CASE R!Setup \/ R!SetupFails \/ R!ReceiveAnswersError \/ R!Rerun
  <2>1. /\ batch = <<>> /\ batch' = <<>> /\ UNCHANGED <<feed, queue>> /\ pc' # "send"
    BY <1>3 DEF Flow, R!Setup, R!SetupFails, R!ReceiveAnswersError, R!Rerun, R!Exit, R!broker
  <2>2. Line' = Line
    BY <2>1 DEF Line
  <2> QED
    BY <2>1, <2>2, FlowLine, KeptLine, EmptySeq DEF Flow
<1> QED
  BY <1>1, <1>2, <1>3 DEF Relay, R!Program

\* The provers work better with a name for concatenation.
Joint(a, b) == a \o b

LEMMA Grouped ==
  /\ \A a, b \in Seq(Flags) : Joint(a, b) \in Seq(Flags)
  /\ \A a, b, c \in Seq(Flags) : Joint(Joint(a, b), c) = Joint(a, Joint(b, c))
<1>1. \A a, b \in Seq(Flags) : Joint(a, b) \in Seq(Flags)
  BY ConcatProperties DEF Joint
<1>2. \A a, b, c \in Seq(Flags) : Joint(Joint(a, b), c) = Joint(a, Joint(b, c))
  BY ConcatAssociative DEF Joint
<1> QED
  BY <1>1, <1>2

LEMMA ReportsGrouped ==
  /\ \A a, b \in Seq(Reports) : Joint(a, b) \in Seq(Reports)
  /\ \A a, b, c \in Seq(Reports) : Joint(Joint(a, b), c) = Joint(a, Joint(b, c))
<1>1. \A a, b \in Seq(Reports) : Joint(a, b) \in Seq(Reports)
  BY ConcatProperties DEF Joint
<1>2. \A a, b, c \in Seq(Reports) : Joint(Joint(a, b), c) = Joint(a, Joint(b, c))
  BY ConcatAssociative DEF Joint
<1> QED
  BY <1>1, <1>2

LEMMA EndGrouped ==
  ASSUME NEW a \in Seq(Flags), NEW z \in Seq(Flags), NEW h \in Seq(Flags), NEW n \in Seq(Flags)
  PROVE  Joint(Joint(Joint(a, z), h), n) = Joint(a, Joint(Joint(z, h), n))
<1>1. Joint(Joint(a, z), h) = Joint(a, Joint(z, h)) /\ Joint(z, h) \in Seq(Flags)
  BY Grouped
<1>2. Joint(Joint(a, Joint(z, h)), n) = Joint(a, Joint(Joint(z, h), n))
  BY <1>1, Grouped
<1> QED
  BY <1>1, <1>2

LEMMA MiddleGrouped ==
  ASSUME NEW p \in Seq(Flags), NEW x \in Seq(Flags), NEW y \in Seq(Flags),
         NEW z \in Seq(Flags), NEW h \in Seq(Flags), NEW n \in Seq(Flags)
  PROVE  /\ Joint(Joint(Joint(p, Joint(Joint(x, y), z)), h), n)
              = Joint(Joint(Joint(p, x), y), Joint(Joint(z, h), n))
         /\ Joint(Joint(Joint(p, Joint(x, z)), h), n) = Joint(Joint(p, x), Joint(Joint(z, h), n))
<1> DEFINE pxy == Joint(Joint(p, x), y)
<1>1. Joint(p, Joint(Joint(x, y), z)) = Joint(pxy, z) /\ pxy \in Seq(Flags)
  <2>1. Joint(x, y) \in Seq(Flags) /\ pxy = Joint(p, Joint(x, y)) /\ pxy \in Seq(Flags)
    BY Grouped
  <2>2. Joint(p, Joint(Joint(x, y), z)) = Joint(Joint(p, Joint(x, y)), z)
    BY <2>1, Grouped
  <2> QED
    BY <2>1, <2>2
<1> HIDE DEF pxy
<1>2. Joint(Joint(Joint(pxy, z), h), n) = Joint(pxy, Joint(Joint(z, h), n))
  BY <1>1, EndGrouped
<1>3. Joint(Joint(Joint(p, Joint(x, z)), h), n) = Joint(Joint(p, x), Joint(Joint(z, h), n))
  <2> DEFINE px == Joint(p, x)
  <2>1. Joint(p, Joint(x, z)) = Joint(px, z) /\ px \in Seq(Flags)
    BY Grouped
  <2> HIDE DEF px
  <2>2. Joint(Joint(Joint(px, z), h), n) = Joint(px, Joint(Joint(z, h), n))
    BY <2>1, EndGrouped
  <2> QED
    BY <2>1, <2>2 DEF px
<1> QED
  BY <1>1, <1>2, <1>3 DEF pxy

LEMMA NotEmpty ==
  ASSUME NEW a \in Seq(Flags), NEW b \in Seq(Flags), a # <<>> \/ b # <<>>
  PROVE  Joint(a, b) # <<>>
<1>1. Len(a \o b) = Len(a) + Len(b)
  BY ConcatProperties
<1>2. Len(a) \in Nat /\ Len(b) \in Nat /\ (Len(a) > 0 \/ Len(b) > 0)
  BY LenProperties, EmptySeq
<1> QED
  BY <1>1, <1>2, EmptySeq DEF Joint

LEMMA OneTyped == \A b \in Flags : <<b>> \in Seq(Flags) /\ <<b>> # <<>>
OBVIOUS

-----------------------------------------------------------------------------
(* What the other steps do to the reports under way.                       *)

\* The queue is purged.
LEMMA PurgeForgets ==
  ASSUME Flow, UNCHANGED <<feed, batch>>, queue' = <<>>
  PROVE  Forgets
<1> DEFINE fb == feed \o batch
<1>1. fb \in Seq(Reports) /\ queue \in Seq(Reports) /\ <<>> \in Seq(Reports)
  BY FlowLine, ConcatProperties, EmptySeq DEF Flow
<1>2. Line = fb \o queue /\ Line' = fb \o <<>>
  BY DEF Line
<1> HIDE DEF fb
<1>3. fb \o queue \in Seq(Reports)
  BY <1>1, ConcatProperties
<1>4. (fb \o queue) \o <<>> = fb \o queue
  BY <1>3, ConcatEmptySeq
<1> QED
  BY <1>1, <1>2, <1>4, ForgetsThese

\* Its oldest reports are taken by somebody else.
LEMMA ConsumeForgets ==
  ASSUME Flow, M!Consume, UNCHANGED <<feed, batch>>
  PROVE  Forgets
<1>1. PICK n \in 1 .. Len(queue) : queue' = SubSeq(queue, n + 1, Len(queue))
  BY DEF M!Consume
<1> DEFINE fb == feed \o batch
           taken == SubSeq(queue, 1, n)
<1>2. /\ fb \in Seq(Reports) /\ taken \in Seq(Reports) /\ queue' \in Seq(Reports)
      /\ queue = taken \o queue'
  <2>1. queue \in Seq(Reports) /\ Len(queue) \in Nat
    BY FlowLine, LenProperties
  <2>2. n \in 0 .. Len(queue)
    BY <2>1
  <2> QED
    BY <1>1, <2>1, <2>2, CutInTwo, ConcatProperties DEF Flow
<1>3. Line = fb \o queue /\ Line' = fb \o queue'
  BY DEF Line
<1> HIDE DEF fb, taken
<1>4. Joint(Joint(fb, taken), queue') = Joint(fb, Joint(taken, queue'))
  BY <1>2, ReportsGrouped
<1>5. Line = (fb \o taken) \o queue'
  BY <1>2, <1>3, <1>4 DEF Joint
<1> QED
  BY <1>2, <1>3, <1>5, ForgetsThese

\* The oldest event leaves the store.
LEMMA OldestFirst ==
  ASSUME Flow, feed # <<>>, feed' = Tail(feed), UNCHANGED <<batch, queue>>
  PROVE  /\ Head(feed) \in Reports
         /\ Line' \in Seq(Reports)
         /\ Line = <<Head(feed)>> \o Line'
<1> DEFINE one == <<Head(feed)>>
           t == Tail(feed)
<1>1. /\ feed \in Seq(Reports) /\ batch \in Seq(Reports) /\ queue \in Seq(Reports)
      /\ feed = one \o t /\ Head(feed) \in Reports /\ t \in Seq(Reports)
  BY FlowLine, HeadThenTail DEF Flow
<1>2. one \in Seq(Reports)
  BY <1>1
<1>3. Line = Joint(Joint(Joint(one, t), batch), queue) /\ Line' = Joint(Joint(t, batch), queue)
  BY <1>1 DEF Line, Joint
<1> HIDE DEF one, t
<1>4. /\ Joint(Joint(t, batch), queue) \in Seq(Reports)
      /\ Joint(Joint(Joint(one, t), batch), queue) = Joint(one, Joint(Joint(t, batch), queue))
  BY <1>1, <1>2, ReportsGrouped
<1> QED
  BY <1>1, <1>3, <1>4 DEF one, Joint

LEMMA OldestForgets ==
  ASSUME Flow, feed # <<>>, feed' = Tail(feed), UNCHANGED <<batch, queue>>
  PROVE  Forgets
<1> DEFINE one == <<Head(feed)>>
<1>1. one \in Seq(Reports) /\ <<>> \in Seq(Reports) /\ Line' \in Seq(Reports) /\ Line = one \o Line'
  BY OldestFirst, EmptySeq
<1> HIDE DEF one
<1>2. <<>> \o one = one /\ <<>> \o Line' = Line'
  BY <1>1, ConcatEmptySeq
<1>3. Line = (<<>> \o one) \o Line' /\ Line' = <<>> \o Line'
  BY <1>1, <1>2
<1> QED
  BY <1>1, <1>3, ForgetsThese

\* A report is sent: it is the last under way, or it is lost.
LEMMA SendAppends ==
  ASSUME Flow, NEW s \in Senders, M!SendReport(s), UNCHANGED <<feed, batch>>
  PROVE  /\ sender[s].ratesList \in Reports
         /\ \/ queue' = queue /\ Line' = Line
            \/ queue' = Append(queue, sender[s].ratesList) /\ Line' = Line \o <<sender[s].ratesList>>
<1> DEFINE list == sender[s].ratesList
           fb == feed \o batch
           one == <<list>>
<1>1. list \in Seq(BOOLEAN) /\ Len(list) = NRates /\ queue' \in {queue, Append(queue, list)}
  BY DEF M!SendReport, Flow, M!TypeOK
<1>2. list \in Reports
  BY <1>1, LenProperties, ElementOfSeq DEF Reports, Rates, M!Rates
<1> HIDE DEF list
<1>3. fb \in Seq(Reports) /\ one \in Seq(Reports) /\ queue \in Seq(Reports)
  BY <1>2, FlowLine, ConcatProperties DEF Flow
<1>4. Line = fb \o queue /\ Line' = fb \o queue'
  BY DEF Line
<1>5. Append(queue, list) = queue \o one
  BY <1>2, <1>3, AppendIsConcat
<1> HIDE DEF fb, one
<1>6. Joint(Joint(fb, queue), one) = Joint(fb, Joint(queue, one))
  BY <1>3, ReportsGrouped
<1>7. (fb \o queue) \o one = fb \o (queue \o one)
  BY <1>6 DEF Joint
<1>8. /\ list \in Reports
      /\ \/ queue' = queue /\ Line' = Line
         \/ queue' = Append(queue, list) /\ Line' = Line \o one
  BY <1>1, <1>2, <1>4, <1>5, <1>7
<1> QED
  BY <1>8 DEF list, one

\* What is forgotten, seen for one rate.
LEMMA OfForgets ==
  ASSUME NEW r \in Rates, Forgets
  PROVE  \E x, y, z \in Seq(Flags) : Of(r, Line) = (x \o y) \o z /\ Of(r, Line') = x \o z
<1>1. PICK x \in Seq(Reports), y \in Seq(Reports), z \in Seq(Reports) :
        Line = (x \o y) \o z /\ Line' = x \o z
  BY DEF Forgets
<1> DEFINE xy == x \o y
<1>2. xy \in Seq(Reports) /\ Of(r, xy) = Of(r, x) \o Of(r, y)
  BY ConcatProperties, OfConcat
<1>3. Line = xy \o z
  BY <1>1
<1> HIDE DEF xy
<1>4. Of(r, xy \o z) = Of(r, xy) \o Of(r, z) /\ Of(r, x \o z) = Of(r, x) \o Of(r, z)
  BY <1>2, OfConcat
<1>5. Of(r, x) \in Seq(Flags) /\ Of(r, y) \in Seq(Flags) /\ Of(r, z) \in Seq(Flags)
  BY OfTyped
<1>6. Of(r, Line) = (Of(r, x) \o Of(r, y)) \o Of(r, z) /\ Of(r, Line') = Of(r, x) \o Of(r, z)
  BY <1>1, <1>2, <1>3, <1>4
<1> QED
  BY <1>5, <1>6

-----------------------------------------------------------------------------
(* The trail of a rate, when its parts change.                             *)

\* The parts of a trail.
LEMMA TrailTyped ==
  ASSUME Flow, NEW r \in Rates, NEW s \in Senders
  PROVE  /\ Of(r, Line) \in Seq(Flags)
         /\ Held(r, s) \in Seq(Flags)
         /\ isActive[r] \in Flags
         /\ sender[s].ratesList \in Seq(Flags)
         /\ Len(sender[s].ratesList) \in 0 .. NRates
<1>1. Of(r, Line) \in Seq(Flags)
  BY FlowLine, OfTyped
<1>2. /\ sender[s].ratesList \in Seq(Flags) /\ isActive[r] \in Flags
      /\ Len(sender[s].ratesList) <= NRates
  BY DEF Flow, M!TypeOK, Rates, Flags
<1>3. Len(sender[s].ratesList) \in 0 .. NRates
  BY <1>2, LenProperties, GeneratorAssumption
<1>4. r <= Len(sender[s].ratesList) => sender[s].ratesList[r] \in Flags
  BY <1>2, <1>3, ElementOfSeq DEF Rates, M!Rates
<1>5. Held(r, s) \in Seq(Flags)
  BY <1>4, OneTyped, EmptySeq DEF Held
<1> QED
  BY <1>1, <1>2, <1>3, <1>5

\* Reports are forgotten on the way.
LEMMA TrailForgets ==
  ASSUME Flow, NEW r \in Rates, NEW s \in Senders, Forgets, UNCHANGED <<ask, sender, isActive>>
  PROVE  Follows(r, s)
<1>1. PICK xr \in Seq(Flags), yr \in Seq(Flags), zr \in Seq(Flags) :
        Of(r, Line) = (xr \o yr) \o zr /\ Of(r, Line') = xr \o zr
  BY OfForgets
<1> DEFINE p == <<ask[r] # 0>>
           h == Held(r, s)
           n == <<isActive[r]>>
<1>2. /\ xr \in Seq(Flags) /\ yr \in Seq(Flags) /\ zr \in Seq(Flags)
      /\ p \in Seq(Flags) /\ h \in Seq(Flags) /\ n \in Seq(Flags)
      /\ p # <<>> /\ n # <<>>
  <2>1. (ask[r] # 0) \in Flags
    BY DEF Flags
  <2> QED
    BY <1>1, <2>1, TrailTyped, OneTyped
<1>3. Of(r, Line) = Joint(Joint(xr, yr), zr)
  BY <1>1 DEF Joint
<1>4. Of(r, Line)' = Joint(xr, zr)
  <2>1. Of(r, Line)' = Of(r, Line')
    BY DEF Of
  <2> QED
    BY <1>1, <2>1 DEF Joint
<1>5. /\ Trail(r, s) = Joint(Joint(Joint(p, Joint(Joint(xr, yr), zr)), h), n)
      /\ Trail(r, s)' = Joint(Joint(Joint(p, Joint(xr, zr)), h), n)
  <2>1. Trail(r, s) = Joint(Joint(Joint(p, Of(r, Line)), h), n)
    BY DEF Trail, Joint
  <2>2. Trail(r, s)' = Joint(Joint(Joint(p, Of(r, Line)'), h), n)
    BY DEF Trail, Joint, Held
  <2> QED
    BY <1>3, <1>4, <2>1, <2>2
<1> HIDE DEF p, h, n
<1> DEFINE px == Joint(p, xr)
           rest == Joint(Joint(zr, h), n)
<1>6. Trail(r, s) = Joint(Joint(px, yr), rest) /\ Trail(r, s)' = Joint(px, rest)
  <2>1. Joint(Joint(Joint(p, Joint(Joint(xr, yr), zr)), h), n) = Joint(Joint(px, yr), rest)
    BY <1>2, MiddleGrouped
  <2>2. Joint(Joint(Joint(p, Joint(xr, zr)), h), n) = Joint(px, rest)
    BY <1>2, MiddleGrouped
  <2> QED
    BY <1>5, <2>1, <2>2
<1>7. px \in Seq(Flags) /\ rest \in Seq(Flags)
  BY <1>2, Grouped
<1>8. px # <<>> /\ rest # <<>>
  BY <1>2, Grouped, NotEmpty
<1> HIDE DEF px, rest
<1>9. Trail(r, s) = (px \o yr) \o rest /\ Trail(r, s)' = px \o rest
  BY <1>6 DEF Joint
<1> QED
  BY <1>2, <1>7, <1>8, <1>9, ViewLoses DEF Follows

\* A trail and its parts, before and after a step.
LEMMA TrailShape ==
  ASSUME NEW r, NEW s
  PROVE  /\ Trail(r, s) = Joint(Joint(Joint(<<ask[r] # 0>>, Of(r, Line)), Held(r, s)), <<isActive[r]>>)
         /\ Trail(r, s)' = Joint(Joint(Joint(<<ask'[r] # 0>>, Of(r, Line')), Held(r, s)'), <<isActive'[r]>>)
<1>1. Of(r, Line)' = Of(r, Line')
  BY DEF Of
<1>2. Trail(r, s)' = Joint(Joint(Joint(<<ask'[r] # 0>>, Of(r, Line)'), Held(r, s)'), <<isActive'[r]>>)
  BY DEF Trail, Joint
<1> QED
  BY <1>1, <1>2 DEF Trail, Joint

\* What the view shows, as the first of a trail.
LEMMA ShownTyped ==
  ASSUME NEW r
  PROVE  <<ask[r] # 0>> \in Seq(Flags) /\ <<ask[r] # 0>> # <<>>
<1>1. (ask[r] # 0) \in Flags
  BY DEF Flags
<1> QED
  BY <1>1, OneTyped

\* The flag changes (or may); the report being built goes on, or is dropped.
LEMMA TrailSwitches ==
  ASSUME Flow, NEW r \in Rates, NEW s \in Senders, ask' = ask, Line' = Line,
         Held(r, s)' \in {Held(r, s), <<>>}, isActive'[r] \in BOOLEAN
  PROVE  Follows(r, s)
<1> DEFINE p == <<ask[r] # 0>>
           o == Of(r, Line)
           h == Held(r, s)
           was == isActive[r]
           now == isActive'[r]
           po == Joint(p, o)
           poh == Joint(po, h)
<1>1. /\ p \in Seq(Flags) /\ p # <<>> /\ o \in Seq(Flags) /\ h \in Seq(Flags)
      /\ was \in Flags /\ now \in Flags /\ <<>> \in Seq(Flags)
  BY TrailTyped, ShownTyped, EmptySeq DEF Flags
<1>2. /\ Trail(r, s) = Joint(poh, <<was>>)
      /\ Trail(r, s)' = Joint(Joint(po, Held(r, s)'), <<now>>)
  BY TrailShape
<1> HIDE DEF p, o, h, was, now
<1>3. po \in Seq(Flags) /\ poh \in Seq(Flags)
  BY <1>1, Grouped
<1>4. po # <<>> /\ poh # <<>>
  BY <1>1, <1>3, NotEmpty
<1> HIDE DEF po
<1>5. Joint(poh, <<>>) = poh /\ Joint(po, <<>>) = po
  BY <1>3, ConcatEmptySeq DEF Joint
<1>6. CASE Held(r, s)' = h
  <2>1. Trail(r, s) = Joint(Joint(poh, <<>>), <<was>>) /\ Trail(r, s)' = Joint(poh, <<now>>)
    BY <1>2, <1>5, <1>6
  <2> HIDE DEF poh
  <2>2. Trail(r, s) = (poh \o <<>>) \o <<was>> /\ Trail(r, s)' = poh \o <<now>>
    BY <2>1 DEF Joint
  <2> QED
    BY <1>1, <1>3, <1>4, <2>2, ViewSwitches DEF Follows
<1>7. CASE Held(r, s)' = <<>>
  <2>1. Trail(r, s) = Joint(Joint(po, h), <<was>>) /\ Trail(r, s)' = Joint(po, <<now>>)
    BY <1>2, <1>5, <1>7
  <2>2. Trail(r, s) = (po \o h) \o <<was>> /\ Trail(r, s)' = po \o <<now>>
    BY <2>1 DEF Joint
  <2> QED
    BY <1>1, <1>3, <1>4, <2>2, ViewSwitches DEF Follows
<1> QED
  BY <1>6, <1>7 DEF h

\* The flag changes, with the queue purged and no report being built.
LEMMA TrailPurged ==
  ASSUME Flow, NEW r \in Rates, NEW s \in Senders, UNCHANGED <<ask, feed, batch>>,
         queue' = <<>>, Held(r, s)' = <<>>, isActive'[r] \in BOOLEAN
  PROVE  Follows(r, s)
<1> DEFINE p == <<ask[r] # 0>>
           fb == feed \o batch
           x == Of(r, fb)
           y == Of(r, queue)
           h == Held(r, s)
           was == isActive[r]
           now == isActive'[r]
           kept == Joint(p, x)
           lost == Joint(y, h)
<1>1. fb \in Seq(Reports) /\ queue \in Seq(Reports)
  BY FlowLine, ConcatProperties DEF Flow
<1>2. Line = fb \o queue /\ Line' = fb \o <<>>
  BY DEF Line
<1> HIDE DEF fb
<1>3. Of(r, Line) = Joint(x, y) /\ Of(r, Line') = x
  <2>1. fb \o <<>> = fb
    BY <1>1, ConcatEmptySeq
  <2>2. Of(r, fb \o queue) = Joint(x, y)
    BY <1>1, OfConcat DEF Joint
  <2> QED
    BY <1>2, <2>1, <2>2
<1>4. /\ p \in Seq(Flags) /\ p # <<>> /\ x \in Seq(Flags) /\ y \in Seq(Flags) /\ h \in Seq(Flags)
      /\ was \in Flags /\ now \in Flags
  <2>1. x \in Seq(Flags) /\ y \in Seq(Flags)
    BY <1>1, OfTyped
  <2> QED
    BY <2>1, TrailTyped, ShownTyped DEF Flags
<1>5. /\ Trail(r, s) = Joint(Joint(Joint(p, Joint(x, y)), h), <<was>>)
      /\ Trail(r, s)' = Joint(Joint(Joint(p, x), <<>>), <<now>>)
  BY <1>3, TrailShape
<1> HIDE DEF p, x, y, h, was, now
<1>6. Joint(Joint(p, Joint(x, y)), h) = Joint(kept, lost)
  BY <1>4, Grouped
<1>7. kept \in Seq(Flags) /\ lost \in Seq(Flags) /\ kept # <<>>
  BY <1>4, Grouped, NotEmpty
<1>8. Joint(kept, <<>>) = kept
  BY <1>7, ConcatEmptySeq DEF Joint
<1>9. Trail(r, s) = Joint(Joint(kept, lost), <<was>>) /\ Trail(r, s)' = Joint(kept, <<now>>)
  BY <1>5, <1>6, <1>8
<1> HIDE DEF kept, lost
<1>10. Trail(r, s) = (kept \o lost) \o <<was>> /\ Trail(r, s)' = kept \o <<now>>
  BY <1>9 DEF Joint
<1> QED
  BY <1>4, <1>7, <1>10, ViewSwitches DEF Follows

\* The generator reads the flag for the report it builds.
LEMMA TrailReads ==
  ASSUME Flow, NEW r \in Rates, NEW s \in Senders, UNCHANGED <<ask, isActive>>, Line' = Line,
         Held(r, s) = <<>>, Held(r, s)' = <<isActive[r]>>
  PROVE  Follows(r, s)
<1> DEFINE p == <<ask[r] # 0>>
           o == Of(r, Line)
           now == isActive[r]
           po == Joint(p, o)
<1>1. p \in Seq(Flags) /\ o \in Seq(Flags) /\ now \in Flags
  BY TrailTyped, ShownTyped
<1>2. /\ Trail(r, s) = Joint(Joint(po, <<>>), <<now>>)
      /\ Trail(r, s)' = Joint(Joint(po, <<now>>), <<now>>)
  BY TrailShape
<1> HIDE DEF p, o, now
<1>3. po \in Seq(Flags)
  BY <1>1, Grouped
<1> HIDE DEF po
<1>4. Joint(po, <<>>) = po
  BY <1>3, ConcatEmptySeq DEF Joint
<1>5. Trail(r, s) = po \o <<now>> /\ Trail(r, s)' = (po \o <<now>>) \o <<now>>
  BY <1>2, <1>4 DEF Joint
<1> QED
  BY <1>1, <1>3, <1>5, ViewReports DEF Follows

\* The report is done: it is the last under way, or it is lost.
LEMMA TrailSends ==
  ASSUME Flow, NEW r \in Rates, NEW s \in Senders, UNCHANGED <<ask, isActive>>,
         NEW report \in Reports, Held(r, s) = <<report[r]>>, Held(r, s)' = <<>>,
         Line' \in {Line, Line \o <<report>>}
  PROVE  Follows(r, s)
<1> DEFINE p == <<ask[r] # 0>>
           o == Of(r, Line)
           h == <<report[r]>>
           n == <<isActive[r]>>
           po == Joint(p, o)
<1>1. /\ p \in Seq(Flags) /\ p # <<>> /\ o \in Seq(Flags) /\ n \in Seq(Flags) /\ n # <<>>
      /\ h \in Seq(Flags)
  BY TrailTyped, ShownTyped, OneTyped
<1>2. /\ Trail(r, s) = Joint(Joint(po, h), n)
      /\ Trail(r, s)' = Joint(Joint(Joint(p, Of(r, Line')), <<>>), n)
  BY TrailShape
<1>3. CASE Line' = Line
  <2>1. Trail(r, s)' = Joint(Joint(po, <<>>), n)
    BY <1>2, <1>3
  <2> HIDE DEF p, o, h, n
  <2>2. po \in Seq(Flags) /\ po # <<>>
    BY <1>1, Grouped, NotEmpty
  <2>3. Joint(po, <<>>) = po
    BY <2>2, ConcatEmptySeq DEF Joint
  <2> HIDE DEF po
  <2>4. Trail(r, s) = (po \o h) \o n /\ Trail(r, s)' = po \o n
    BY <1>2, <2>1, <2>3 DEF Joint
  <2> QED
    BY <1>1, <2>2, <2>4, ViewLoses DEF Follows
<1>4. CASE Line' = Line \o <<report>>
  <2>1. Of(r, Line') = Joint(o, h)
    <3>1. Line \in Seq(Reports) /\ <<report>> \in Seq(Reports)
      BY FlowLine
    <3>2. Of(r, Line \o <<report>>) = Of(r, Line) \o Of(r, <<report>>)
      BY <3>1, OfConcat
    <3>3. Of(r, <<report>>) = h
      BY DEF Of
    <3> QED
      BY <1>4, <3>2, <3>3 DEF Joint
  <2>2. Trail(r, s)' = Joint(Joint(Joint(p, Joint(o, h)), <<>>), n)
    BY <1>2, <2>1
  <2> HIDE DEF p, o, h, n
  <2>3. Joint(p, Joint(o, h)) = Joint(po, h) /\ Joint(po, h) \in Seq(Flags)
    BY <1>1, Grouped
  <2>4. Joint(Joint(po, h), <<>>) = Joint(po, h)
    BY <2>3, ConcatEmptySeq DEF Joint
  <2> QED
    BY <1>2, <2>2, <2>3, <2>4 DEF Follows
<1> QED
  BY <1>3, <1>4

\* The client shows the oldest report.
LEMMA TrailShows ==
  ASSUME Flow, NEW r \in Rates, NEW s \in Senders, UNCHANGED <<batch, queue, sender, isActive>>,
         feed # <<>>, feed' = Tail(feed), (ask'[r] # 0) <=> Head(feed)[r]
  PROVE  Follows(r, s)
<1> DEFINE e == Head(feed)
           shown == ask[r] # 0
           next == e[r]
           o == Of(r, Line')
           h == Held(r, s)
           n == <<isActive[r]>>
           end == Joint(Joint(o, h), n)
<1>1. e \in Reports /\ Line' \in Seq(Reports) /\ Line = <<e>> \o Line'
  BY OldestFirst
<1>2. Of(r, Line) = Joint(<<next>>, o)
  <2>1. <<e>> \in Seq(Reports)
    BY <1>1
  <2>2. Of(r, <<e>> \o Line') = Of(r, <<e>>) \o o
    BY <1>1, <2>1, OfConcat
  <2>3. Of(r, <<e>>) = <<next>>
    BY DEF Of
  <2> QED
    BY <1>1, <2>2, <2>3 DEF Joint
<1>3. /\ shown \in Flags /\ next \in Flags /\ o \in Seq(Flags) /\ h \in Seq(Flags)
      /\ n \in Seq(Flags) /\ n # <<>>
      /\ <<shown>> \in Seq(Flags) /\ <<next>> \in Seq(Flags)
  <2>1. shown \in Flags /\ next \in Flags
    BY <1>1 DEF Flags, Reports
  <2>2. o \in Seq(Flags)
    BY <1>1, OfTyped
  <2> QED
    BY <2>1, <2>2, TrailTyped, OneTyped
<1>4. <<ask'[r] # 0>> = <<next>>
  <2>1. next \in BOOLEAN
    BY <1>3 DEF Flags
  <2>2. (ask'[r] # 0) = next
    BY <2>1
  <2> QED
    BY <2>2
<1>5. /\ Trail(r, s) = Joint(Joint(Joint(<<shown>>, Joint(<<next>>, o)), h), n)
      /\ Trail(r, s)' = Joint(Joint(Joint(<<next>>, o), h), n)
  <2>1. Held(r, s)' = h /\ isActive' = isActive
    BY DEF Held
  <2> QED
    BY <1>2, <1>4, <2>1, TrailShape
<1> HIDE DEF e, shown, next, o, h, n
<1>6. /\ Joint(Joint(Joint(<<shown>>, Joint(<<next>>, o)), h), n) = Joint(<<shown>>, Joint(<<next>>, end))
       /\ Joint(Joint(Joint(<<next>>, o), h), n) = Joint(<<next>>, end)
  <2> DEFINE first == <<shown>>
             second == <<next>>
             q == Joint(second, o)
  <2>1. first \in Seq(Flags) /\ second \in Seq(Flags) /\ o \in Seq(Flags) /\ h \in Seq(Flags) /\ n \in Seq(Flags)
    BY <1>3
  <2> HIDE DEF first, second
  <2>2. Joint(Joint(q, h), n) = Joint(second, end)
    BY <2>1, EndGrouped
  <2>3. q \in Seq(Flags)
    BY <2>1, Grouped
  <2> HIDE DEF q, end
  <2>4. Joint(Joint(Joint(first, q), h), n) = Joint(first, Joint(Joint(q, h), n))
    BY <2>1, <2>3, EndGrouped
  <2> QED
    BY <2>2, <2>4 DEF q, first, second
<1>7. end \in Seq(Flags) /\ end # <<>>
  BY <1>3, Grouped, NotEmpty
<1>8. Trail(r, s) = Joint(<<shown>>, Joint(<<next>>, end)) /\ Trail(r, s)' = Joint(<<next>>, end)
  BY <1>5, <1>6
<1> HIDE DEF end
<1>9. Trail(r, s) = <<shown>> \o (<<next>> \o end) /\ Trail(r, s)' = <<next>> \o end
  BY <1>8 DEF Joint
<1> QED
  BY <1>3, <1>7, <1>9, ViewShows DEF Follows

-----------------------------------------------------------------------------
(* Every step moves the trail as LateView allows.                          *)

\* One that leaves the reports, the flags and the view alone.
LEMMA TrailKept ==
  ASSUME NEW r, NEW s, UNCHANGED <<ask, sender, isActive, feed, batch, queue>>
  PROVE  Follows(r, s)
BY DEF Follows, Trail, Line, Held

\* The generator's senders.
LEMMA SenderFollows ==
  ASSUME Flow, NEW r \in Rates, NEW s \in Senders, UNCHANGED <<ask, feed, batch>>,
         M!Elapsed(s) \/ M!ReadRate(s) \/ M!SendReport(s)
  PROVE  Follows(r, s)
<1> DEFINE list == sender[s].ratesList
<1>1. /\ sender \in [Senders -> [busy : BOOLEAN, ratesList : Seq(BOOLEAN)]]
      /\ list \in Seq(BOOLEAN) /\ Len(list) \in 0 .. NRates
      /\ isActive[r] \in BOOLEAN /\ r \in 1 .. NRates /\ NRates \in Nat
      /\ queue \in Seq(Reports)
  BY TrailTyped, FlowLine, GeneratorAssumption DEF Flow, M!TypeOK, Rates, M!Rates, Flags
<1>2. UNCHANGED isActive
  BY DEF M!Elapsed, M!ReadRate, M!SendReport, M!rateCollection
<1>3. CASE M!Elapsed(s)
  <2>1. list = <<>> /\ UNCHANGED queue
    BY <1>3 DEF M!Elapsed, Flow, MP!Quiet
  <2>2. sender'[s].ratesList = <<>>
    BY <1>1, <1>3 DEF M!Elapsed
  <2>3. Held(r, s)' = Held(r, s)
    BY <2>1, <2>2 DEF Held
  <2>4. Trail(r, s)' = Trail(r, s)
    BY <1>2, <2>1, <2>3 DEF Trail, Line
  <2> QED
    BY <2>4 DEF Follows
<1>4. CASE M!ReadRate(s)
  <2>1. sender'[s].ratesList = Append(list, isActive[Len(list) + 1]) /\ UNCHANGED queue
    BY <1>1, <1>4 DEF M!ReadRate
  <2>2. Line' = Line
    BY <2>1 DEF Line
  <2>3. /\ Len(Append(list, isActive[Len(list) + 1])) = Len(list) + 1
        /\ \A i \in 1 .. Len(list) : Append(list, isActive[Len(list) + 1])[i] = list[i]
        /\ Append(list, isActive[Len(list) + 1])[Len(list) + 1] = isActive[Len(list) + 1]
    <3>1. Len(list) < NRates
      BY <1>4 DEF M!ReadRate
    <3>2. isActive[Len(list) + 1] \in BOOLEAN
      BY <1>1, <3>1 DEF Flow, M!TypeOK, M!Rates
    <3> QED
      BY <1>1, <3>2, AppendProperties
  <2>4. CASE r = Len(list) + 1
    <3>1. Held(r, s) = <<>> /\ Held(r, s)' = <<isActive[r]>>
      BY <1>1, <2>1, <2>3, <2>4 DEF Held
    <3> QED
      BY <1>2, <2>2, <3>1, TrailReads
  <2>5. CASE r # Len(list) + 1
    <3>1. Held(r, s)' = Held(r, s)
      BY <1>1, <2>1, <2>3, <2>5 DEF Held
    <3>2. Trail(r, s)' = Trail(r, s)
      BY <1>2, <2>2, <3>1 DEF Trail
    <3> QED
      BY <3>2 DEF Follows
  <2> QED
    BY <2>4, <2>5
<1>5. CASE M!SendReport(s)
  <2>1. Len(list) = NRates
    BY <1>5 DEF M!SendReport
  <2>2. list \in Reports /\ Line' \in {Line, Line \o <<list>>}
    BY <1>5, SendAppends
  <2>3. sender'[s].ratesList = <<>>
    BY <1>1, <1>5 DEF M!SendReport, M!IdleSender
  <2>4. Held(r, s) = <<list[r]>> /\ Held(r, s)' = <<>>
    BY <1>1, <2>1, <2>3 DEF Held
  <2> QED
    BY <1>2, <2>2, <2>4, TrailSends
<1> QED
  BY <1>3, <1>4, <1>5

\* The constructor, the end of the process and the command handler.
LEMMA GeneratorFollows ==
  ASSUME Flow, NEW r \in Rates, NEW s \in Senders, Senders = {s}, M!TypeOK',
         UNCHANGED <<ask, feed, batch>>, M!Next, ~M!Consume
  PROVE  Follows(r, s)
<1>1. isActive'[r] \in BOOLEAN
  BY DEF M!TypeOK, Rates
<1>2. ASSUME M!Exit, queue' \in {queue, <<>>} PROVE Follows(r, s)
  <2>1. sender'[s].ratesList = <<>>
    BY <1>2 DEF M!Exit, M!IdleSender
  <2>2. Held(r, s)' = <<>>
    BY <2>1, GeneratorAssumption DEF Held, Rates, M!Rates
  <2>3. CASE queue' = queue
    BY <1>1, <2>2, <2>3, TrailSwitches DEF Line
  <2>4. CASE queue' = <<>>
    BY <1>1, <2>2, <2>4, TrailPurged
  <2> QED
    BY <1>2, <2>3, <2>4
<1>3. ASSUME UNCHANGED <<sender, queue>> PROVE Follows(r, s)
  <2>1. Held(r, s)' = Held(r, s) /\ Line' = Line
    BY <1>3 DEF Held, Line
  <2> QED
    BY <1>1, <2>1, TrailSwitches
<1>4. ASSUME UNCHANGED <<sender, isActive>>, M!Purged \/ M!NotPurged PROVE Follows(r, s)
  <2>1. CASE M!NotPurged
    BY <1>3, <1>4, <2>1 DEF M!NotPurged
  <2>2. CASE M!Purged
    BY <1>4, <2>2, PurgeForgets, TrailForgets DEF M!Purged
  <2> QED
    BY <1>4, <2>1, <2>2
<1>5. CASE M!Main
  <2>1. CASE M!ReadConfig \/ M!Connect \/ M!LoadRates \/ M!SetRateTimer
    BY <1>3, <2>1 DEF M!ReadConfig, M!Connect, M!LoadRates, M!SetRateTimer
  <2>2. CASE M!PurgeAtStart
    BY <1>4, <2>2 DEF M!PurgeAtStart
  <2>3. CASE M!RejectConfig \/ M!FailToConnect \/ M!RejectInterval
    BY <1>2, <2>3 DEF M!RejectConfig, M!FailToConnect, M!RejectInterval
  <2> QED
    BY <1>5, <2>1, <2>2, <2>3 DEF M!Main
<1>6. CASE M!Subscribe \/ M!Restart
  BY <1>3, <1>6 DEF M!Subscribe, M!Restart
<1>7. CASE M!Crash
  BY <1>2, <1>7 DEF M!Crash
<1>8. ASSUME NEW t \in Senders, M!Elapsed(t) \/ M!ReadRate(t) \/ M!SendReport(t) PROVE Follows(r, s)
  BY <1>8, SenderFollows
<1>9. ASSUME NEW h \in Handlers, M!Receive(h) \/ M!Handle(h) PROVE Follows(r, s)
  <2>1. CASE M!PurgeAfterSet(h)
    BY <1>4, <2>1 DEF M!PurgeAfterSet
  <2>2. CASE \/ M!Receive(h) \/ M!SetRate(h) \/ M!RejectSet(h)
             \/ M!StartRate(h) \/ M!StartTooEarly(h) \/ M!Respond(h)
    BY <1>3, <2>2 DEF M!Receive, M!SetRate, M!RejectSet, M!StartRate, M!StartTooEarly, M!Respond
  <2> QED
    BY <1>9, <2>1, <2>2 DEF M!Handle
<1> QED
  BY <1>5, <1>6, <1>7, <1>8, <1>9 DEF M!Next

\* What the client shows is the oldest event: it is never one it cannot parse.
LEMMA ShownIsOldest ==
  ASSUME Flow, NEW r \in Rates, feed # <<>>, C!OnMessage
  PROVE  (ask'[r] # 0) <=> Head(feed)[r]
<1>1. feed \in Seq(Reports) /\ Head(feed) \in Reports
  BY HeadThenTail DEF Flow
<1>2. Head(Events) = Event(Head(feed))
  <2>1. Len(feed) \in Nat /\ Len(feed) > 0 /\ Head(feed) = feed[1]
    BY <1>1, LenProperties, HeadTailProperties, EmptySeq
  <2> DEFINE E == [i \in 1 .. Len(feed) |-> Event(feed[i])]
  <2>2. E[1] = Event(feed[1])
    BY <2>1
  <2>3. Head(E) = E[1]
    OBVIOUS
  <2> QED
    BY <2>1, <2>2, <2>3 DEF Events
<1>3. Event(Head(feed)) \in [Rates -> {0, 1}]
  BY <1>1 DEF Event, Reports
<1>4. Head(Events) # Foreign
  BY <1>2, <1>3, ClientAssumption DEF Rates, M!Rates
<1>5. ask' = Event(Head(feed))
  BY <1>2, <1>4 DEF C!OnMessage, C!ShowReport
<1> QED
  BY <1>1, <1>5 DEF Event, Reports

\* An event that passes, shown or not.
LEMMA ClientFollows ==
  ASSUME Flow, NEW r \in Rates, NEW s \in Senders, OnMessage
  PROVE  Follows(r, s)
<1>1. /\ feed \in Seq(Reports) /\ batch \in Seq(Reports) /\ queue \in Seq(Reports)
      /\ feed # <<>> /\ feed' = Tail(feed) /\ UNCHANGED <<batch, queue, sender, isActive>>
  BY FlowLine DEF Flow, OnMessage, generator, relay
<1>2. CASE UNCHANGED ask
  BY <1>1, <1>2, OldestForgets, TrailForgets
<1>3. CASE C!OnMessage
  BY <1>1, <1>3, ShownIsOldest, TrailShows
<1>4. CASE C!Age
  BY <1>2, <1>4 DEF C!Age, C!page
<1> QED
  BY <1>3, <1>4 DEF OnMessage

LEMMA FollowsStep ==
  ASSUME Flow, M!TypeOK', [Next]_vars, NEW r \in Rates, NEW s \in Senders, Senders = {s}
  PROVE  Follows(r, s)
<1>1. CASE Generator
  <2>1. UNCHANGED <<ask, feed, batch>>
    BY <1>1 DEF Generator, relay, client
  <2>2. M!Next
    BY <1>1 DEF Generator, M!Next
  <2>3. CASE M!Consume
    <3>1. UNCHANGED <<sender, isActive>>
      BY <2>3 DEF M!Consume, M!process, M!rateCollection
    <3> QED
      BY <2>1, <2>3, <3>1, ConsumeForgets, TrailForgets
  <2> QED
    BY <2>1, <2>2, <2>3, GeneratorFollows
<1>2. CASE Relay
  <2>1. UNCHANGED <<ask, sender, isActive>>
    BY <1>2 DEF Relay, generator, client
  <2> QED
    BY <1>2, <2>1, RelayForgets, TrailForgets
<1>3. CASE OnMessage
  BY <1>3, ClientFollows
<1>4. CASE Page
  <2>1. UNCHANGED ask
    BY <1>4 DEF Page, C!Open, C!Close, C!StartStopRate, C!SetSelectedItem, C!page
  <2> QED
    BY <1>4, <2>1, TrailKept DEF Page, generator, relay
<1>5. CASE Commands
  BY <1>5, TrailKept
  DEF Commands, Delivered, NotDelivered, StartDelivered,
      M!Receive, M!rateCollection, C!Leave, C!page, generator, relay, client
<1>6. CASE UNCHANGED vars
  BY <1>6, TrailKept DEF vars, generator, relay, client
<1> QED
  BY <1>1, <1>2, <1>3, <1>4, <1>5, <1>6 DEF Next

LEMMA FlowInit == Init => Flow
<1> SUFFICES ASSUME Init PROVE Flow
  OBVIOUS
<1>1. M!TypeOK
  BY GeneratorTyped DEF Init
<1>2. MP!Quiet
  BY MP!QuietInit, SameInit, GeneratorAssumption DEF Init, MP!IsFiniteSet, IsFiniteSet
<1> QED
  BY <1>1, <1>2, EmptySeq DEF Init, Flow

LEMMA FlowStep == Flow /\ [Next]_vars => Flow'
<1> SUFFICES ASSUME Flow, [Next]_vars PROVE Flow'
  OBVIOUS
<1>1. M!TypeOK' /\ [M!Next]_M!vars
  BY StepOfGenerator, GeneratorTyped DEF Flow
<1>2. MP!Quiet'
  BY <1>1, MP!QuietStep, SameStep, SameType, GeneratorAssumption DEF Flow, MP!IsFiniteSet, IsFiniteSet
<1>3. feed' \in Seq(Reports) /\ batch' \in Seq(Reports) /\ (pc' = "send" <=> batch' # <<>>)
  <2>1. CASE Relay
    BY <2>1, RelayForgets
  <2>2. CASE OnMessage
    <3>1. Tail(feed) \in Seq(Reports)
      BY <2>2, HeadThenTail DEF OnMessage, Flow
    <3> QED
      BY <2>2, <3>1 DEF OnMessage, relay, Flow
  <2>3. CASE Generator \/ Page \/ Commands \/ UNCHANGED vars
    <3>1. UNCHANGED <<feed, batch, pc>>
      BY <2>3 DEF Generator, Page, Commands, Delivered, NotDelivered, StartDelivered,
                  relay, vars
    <3> QED
      BY <3>1 DEF Flow
  <2> QED
    BY <2>1, <2>2, <2>3 DEF Next
<1> QED
  BY <1>1, <1>2, <1>3 DEF Flow

LEMMA PairOfFlags == ASSUME NEW a \in Flags, NEW b \in Flags PROVE <<a>> \o <<b>> = <<a, b>>
<1>1. Append(<<a>>, b) = <<a>> \o <<b>>
  <2>1. <<a>> \in Seq(Flags)
    BY OneTyped
  <2> QED
    BY <2>1, AppendIsConcat
<1> DEFINE s == Append(<<a>>, b)
           t == <<a, b>>
<1>2. s \in Seq(Flags) /\ Len(s) = 2 /\ s[1] = a /\ s[2] = b
  OBVIOUS
<1>3. t \in Seq(Flags) /\ Len(t) = 2 /\ t[1] = a /\ t[2] = b
  OBVIOUS
<1> HIDE DEF s, t
<1>4. \A i \in 1 .. Len(s) : s[i] = t[i]
  BY <1>2, <1>3
<1>5. s = t
  BY <1>2, <1>3, <1>4, SeqEqual
<1> QED
  BY <1>1, <1>5 DEF s, t

LEMMA ViewBegins ==
  ASSUME Init, NEW r \in Rates, NEW s \in Senders
  PROVE  View(r, s)!Init
<1>1. /\ ask[r] = 0 /\ isActive[r] = FALSE /\ sender[s].ratesList = <<>>
      /\ feed = <<>> /\ batch = <<>> /\ queue = <<>>
  BY DEF Init, M!Init, C!Init, M!IdleSender, C!None, C!Rates, Rates, M!Rates
<1>2. Held(r, s) = <<>>
  BY <1>1, GeneratorAssumption DEF Held, Rates, M!Rates
<1>3. Line = <<>>
  BY <1>1 DEF Line
<1>4. Of(r, Line) = <<>>
  BY <1>3 DEF Of
<1>5. Trail(r, s) = ((<<FALSE>> \o <<>>) \o <<>>) \o <<FALSE>>
  <2>1. (ask[r] # 0) = FALSE
    BY <1>1
  <2> QED
    BY <1>1, <1>2, <1>4, <2>1 DEF Trail
<1>6. ((<<FALSE>> \o <<>>) \o <<>>) \o <<FALSE>> = <<FALSE, FALSE>>
  <2>1. <<FALSE>> \o <<>> = <<FALSE>>
    BY ConcatEmptySeq, OneTyped DEF Flags
  <2>2. <<FALSE>> \o <<FALSE>> = <<FALSE, FALSE>>
    BY PairOfFlags DEF Flags
  <2> QED
    BY <2>1, <2>2
<1> QED
  BY <1>5, <1>6 DEF View!Init

\* With sends that do not overlap, whatever the number of rates and commands, the
\* size of the queue, of a batch and of the store, and however often calls fail and
\* programs end, the client's view of each rate is late but never goes back
\* (Manager.cs:219-287, the relays' loops, ratesListener).
THEOREM ViewFollows == ASSUME NEW only, Senders = {only} PROVE Spec => FollowsFlags
<1>1. Init => Flow
  BY FlowInit
<1>2. Flow /\ [Next]_vars => Flow'
  BY FlowStep
<1>3. Init => Begins
  BY ViewBegins DEF Begins
<1>4. Flow /\ Flow' /\ [Next]_vars => [AllFollow]_vars
  <2> SUFFICES ASSUME Flow, Flow', [Next]_vars, NEW r \in Rates, NEW s \in Senders
               PROVE  Follows(r, s)
    BY DEF AllFollow
  <2>1. M!TypeOK'
    BY DEF Flow
  <2> QED
    BY <2>1, FollowsStep
<1> QED
  BY <1>1, <1>2, <1>3, <1>4, PTL DEF Spec, FollowsFlags

-----------------------------------------------------------------------------
(* The client.                                                             *)

CP == INSTANCE RateClientProofs WITH feed <- Events, Asks <- {1}, Points <- 1

\* The two instances of RateClient, C of Workshop and the one within CP, say the same.
LEMMA SameClientInit == C!Init <=> CP!Init
  BY DEF C!Init, CP!Init, C!Rates, CP!Rates, C!None, CP!None

LEMMA SameClientType == (C!TypeOK <=> CP!TypeOK) /\ (C!TypeOK' <=> CP!TypeOK')
  BY DEF C!TypeOK, CP!TypeOK, C!Rates, CP!Rates, C!Reports, CP!Reports, C!None, CP!None

LEMMA SameClientStep == [C!Next]_C!vars <=> [CP!Next]_CP!vars
<1>1. UNCHANGED C!vars <=> UNCHANGED CP!vars
  BY DEF C!vars, CP!vars, C!page, CP!page, C!history, CP!history
<1>2. C!Next <=> CP!Next
  BY DEF C!Next, CP!Next, C!Publish, CP!Publish, C!Age, CP!Age, C!Open, CP!Open, C!Close, CP!Close,
         C!OnMessage, CP!OnMessage, C!StartStopRate, CP!StartStopRate,
         C!SetSelectedItem, CP!SetSelectedItem, C!Leave, CP!Leave, C!RejectEvent, CP!RejectEvent,
         C!ShowReport, CP!ShowReport, C!ActiveAfter, CP!ActiveAfter,
         C!ParseNewPoint, CP!ParseNewPoint, C!Recent, CP!Recent, C!Chart, CP!Chart,
         C!Asked, CP!Asked, C!Rates, CP!Rates, C!Reports, CP!Reports, C!None, CP!None,
         C!page, CP!page, C!history, CP!history
<1> QED
  BY <1>1, <1>2

LEMMA ClientTyped ==
  /\ C!Init => C!TypeOK
  /\ C!TypeOK /\ [C!Next]_C!vars => C!TypeOK'
<1>0. /\ NRates \in Nat \ {0} /\ 1 \in Nat \ {0} /\ {1} \subseteq Nat \ {0}
      /\ MaxFeed \in Nat /\ MaxPosted \in Nat /\ Foreign \notin CP!Reports
  BY GeneratorAssumption, ClientAssumption DEF CP!Reports, CP!Rates, CP!None
<1>1. CP!Init => CP!TypeOK
  BY <1>0, CP!InitTyped
<1>2. CP!TypeOK /\ [CP!Next]_CP!vars => CP!TypeOK'
  BY <1>0, CP!StepTyped
<1> QED
  BY <1>1, <1>2, SameClientInit, SameClientType, SameClientStep

\* What waits for the client, seen as its events.
LEMMA EventTyped ==
  ASSUME NEW report \in Reports
  PROVE  Event(report) \in C!Reports /\ Event(report) # Foreign
BY ClientAssumption DEF Reports, Event, Rates, M!Rates, C!Reports, C!Rates, C!None

LEMMA EventsOfAppend ==
  ASSUME feed \in Seq(Reports), NEW report \in Reports, feed' = Append(feed, report)
  PROVE  /\ Len(Events) = Len(feed)
         /\ Events' = Append(Events, Event(report))
<1>1. Len(feed) \in Nat /\ Len(feed') = Len(feed) + 1
      /\ feed'[Len(feed) + 1] = report /\ \A i \in 1 .. Len(feed) : feed'[i] = feed[i]
  BY LenProperties, AppendProperties
<1> DEFINE S == {Event(x) : x \in Reports}
<1>2. Events \in Seq(S) /\ Len(Events) = Len(feed)
  <2>1. \A i \in 1 .. Len(feed) : feed[i] \in Reports
    BY ElementOfSeq
  <2> QED
    BY <1>1, <2>1 DEF Events
<1>3. Event(report) \in S
  OBVIOUS
<1>4. Events' = [i \in 1 .. Len(feed) + 1 |-> Event(feed'[i])]
  BY <1>1 DEF Events
<1> HIDE DEF S
<1> DEFINE a == Append(Events, Event(report))
<1>5. a \in Seq(S) /\ Len(a) = Len(feed) + 1 /\ a[Len(feed) + 1] = Event(report)
      /\ \A i \in 1 .. Len(feed) : a[i] = Events[i]
  BY <1>2, <1>3, AppendProperties
<1>6. \A i \in 1 .. Len(feed) + 1 : Events'[i] = a[i]
  <2> SUFFICES ASSUME NEW i \in 1 .. Len(feed) + 1 PROVE Events'[i] = a[i]
    OBVIOUS
  <2>1. Events'[i] = Event(feed'[i])
    BY <1>4
  <2>2. CASE i = Len(feed) + 1
    BY <1>1, <1>5, <2>1, <2>2
  <2>3. CASE i # Len(feed) + 1
    <3>1. i \in 1 .. Len(feed)
      BY <1>1, <2>3
    <3> QED
      BY <1>1, <1>5, <2>1, <3>1 DEF Events
  <2> QED
    BY <2>2, <2>3
<1>7. a = [i \in 1 .. Len(feed) + 1 |-> a[i]]
  <2> HIDE DEF a
  <2> QED
    BY <1>1, <1>5, LenProperties
<1> QED
  BY <1>2, <1>4, <1>6, <1>7

\* A relay stores the first report of its batch, or nothing.
LEMMA RelayStores ==
  ASSUME Flow, Relay
  PROVE  feed' = feed \/ \E report \in Reports : feed' = Append(feed, report)
<1>1. CASE R!Send \/ R!SendThrows
  <2>1. Head(batch) \in Reports
    BY <1>1, HeadThenTail DEF Flow, R!Send, R!SendThrows
  <2> QED
    BY <1>1, <2>1 DEF R!Send, R!SendThrows, R!Stored, R!NotStored
<1>2. CASE \/ R!Setup \/ R!SetupFails \/ R!Receive \/ R!ReceiveAnswersError
           \/ R!ReceiveThrows \/ R!Rerun
  BY <1>2 DEF R!Setup, R!SetupFails, R!Receive, R!ReceiveAnswersError, R!ReceiveThrows, R!Rerun
<1> QED
  BY <1>1, <1>2 DEF Relay, R!Program

\* Every step of the workshop is one of the client, or none to it.
LEMMA StepOfClient ==
  ASSUME Flow, [Next]_vars
  PROVE  [C!Next]_C!vars
<1> USE DEF C!page, C!history
<1>1. ASSUME UNCHANGED <<feed, client>> PROVE UNCHANGED C!vars
  BY <1>1 DEF client, C!vars, Events
<1>2. CASE Generator \/ UNCHANGED vars
  BY <1>1, <1>2 DEF Generator, vars
<1>3. CASE Relay
  <2>1. UNCHANGED client /\ Len(feed') <= MaxFeed
    BY <1>3 DEF Relay
  <2>2. ASSUME NEW report \in Reports, feed' = Append(feed, report)
        PROVE  C!Publish(Event(report)) /\ Event(report) \in C!Reports
    <3>1. feed \in Seq(Reports) /\ Len(feed) \in Nat /\ Len(feed') = Len(feed) + 1
      BY <2>2, LenProperties, AppendProperties DEF Flow
    <3>2. Len(Events) = Len(feed) /\ Events' = Append(Events, Event(report))
      BY <2>2, <3>1, EventsOfAppend
    <3>3. Len(Events) < MaxFeed
      BY <2>1, <3>1, <3>2, ClientAssumption
    <3> QED
      BY <2>1, <3>2, <3>3, EventTyped DEF C!Publish, client
  <2> QED
    BY <1>1, <1>3, <2>1, <2>2, RelayStores DEF C!Next
<1>4. CASE OnMessage
  BY <1>4 DEF OnMessage, C!Next
<1>5. CASE Page
  <2>1. ASSUME NEW r \in Rates, C!SetSelectedItem(r) PROVE C!Next
    BY <2>1 DEF C!Next, Rates, M!Rates, C!Rates
  <2> QED
    BY <1>5, <2>1 DEF Page, C!Next
<1>6. ASSUME NEW r \in Rates, NEW b \in BOOLEAN, C!Leave(r, b) PROVE C!Next
  BY <1>6 DEF C!Next, Rates, M!Rates, C!Rates
<1>7. CASE Commands
  <2>1. ASSUME NEW r \in Rates, NEW b \in BOOLEAN, NotDelivered(r, b) \/ \E h \in Handlers : Delivered(r, b, h)
        PROVE  C!Next
    BY <1>6, <2>1 DEF NotDelivered, Delivered
  <2>2. ASSUME NEW h \in Handlers, StartDelivered(h) PROVE UNCHANGED <<feed, client>>
    BY <2>2 DEF StartDelivered
  <2> QED
    BY <1>1, <1>2, <1>7, <2>1, <2>2 DEF Commands
<1> QED
  BY <1>2, <1>3, <1>4, <1>5, <1>7 DEF Next

\* The workshop implements the client, whatever the relay does and the generator is
\* told: its steps are surroundings RateClient allows (services, ratesListener).
THEOREM ClientRuns == Spec => ClientImplements
<1>1. Init => C!Init
  BY DEF Init
<1>2. Flow /\ [Next]_vars => [C!Next]_C!vars
  BY StepOfClient
<1> QED
  BY <1>1, <1>2, FlowInit, FlowStep, PTL DEF Spec, ClientImplements, C!Spec

\* What was proved of the client holds of it in the workshop: a click asks for the
\* opposite of what the last event said, while events, commands and retries of three
\* other programs interleave with it (startStopRate).
THEOREM WorkshopButton == Spec => C!AsksOpposite
<1>0. /\ NRates \in Nat \ {0} /\ 1 \in Nat \ {0} /\ {1} \subseteq Nat \ {0}
      /\ MaxFeed \in Nat /\ MaxPosted \in Nat /\ Foreign \notin CP!Reports
  BY GeneratorAssumption, ClientAssumption DEF CP!Reports, CP!Rates, CP!None
<1>1. CP!Spec => CP!AsksOpposite
  BY <1>0, CP!ButtonAsksOpposite
<1>2. [\A r \in CP!Rates, b \in BOOLEAN : posted'[r][b] > posted[r][b] =>
         /\ r = selected
         /\ latest # <<>> => (b <=> latest = <<CP!None>>)]_CP!vars
      => [\A r \in C!Rates, b \in BOOLEAN : posted'[r][b] > posted[r][b] =>
            /\ r = selected
            /\ latest # <<>> => (b <=> latest = <<C!None>>)]_C!vars
  BY DEF C!Rates, CP!Rates, C!None, CP!None, C!vars, CP!vars, C!page, CP!page, C!history, CP!history
<1> QED
  BY <1>1, <1>2, ClientRuns, SameClientInit, SameClientStep, PTL
  DEF ClientImplements, C!Spec, CP!Spec, C!AsksOpposite, CP!AsksOpposite

-----------------------------------------------------------------------------
(* Types.                                                                  *)

Typed ==
  /\ Flow
  /\ C!TypeOK
  /\ language \in Languages
  /\ pc \in {"setup", "broken", "receive", "send", "exited"}
  /\ exits \in Nat /\ caught \in Nat /\ exits + caught <= MaxFailures

LEMMA TypedInit == Init => Typed
<1> SUFFICES ASSUME Init PROVE Typed
  OBVIOUS
<1>1. Flow /\ C!TypeOK
  BY FlowInit, ClientTyped DEF Init
<1>2. 0 + 0 <= MaxFailures
  BY RelayAssumption
<1> QED
  BY <1>1, <1>2 DEF Init, Typed

\* The relay's part, which no other program touches.
LEMMA RelayTyped ==
  ASSUME Typed, Relay
  PROVE  /\ language' \in Languages
         /\ pc' \in {"setup", "broken", "receive", "send", "exited"}
         /\ exits' \in Nat /\ caught' \in Nat /\ exits' + caught' <= MaxFailures
<1>1. exits \in Nat /\ caught \in Nat /\ MaxFailures \in Nat /\ exits + caught <= MaxFailures
  BY RelayAssumption DEF Typed
<1>2. ASSUME R!Exit \/ R!Catch
      PROVE  /\ pc' \in {"receive", "exited"}
             /\ exits' \in Nat /\ caught' \in Nat /\ exits' + caught' <= MaxFailures
  BY <1>1, <1>2 DEF R!Exit, R!Catch, R!CanFail
<1>3. ASSUME R!NextMessage PROVE pc' \in {"receive", "send"} /\ UNCHANGED <<exits, caught>>
  BY <1>3 DEF R!NextMessage
<1>4. CASE R!Setup \/ R!Receive \/ R!Rerun
  BY <1>1, <1>4 DEF R!Setup, R!Receive, R!Rerun, R!history, Typed
<1>5. CASE R!SetupFails
  BY <1>1, <1>2, <1>5 DEF R!SetupFails, Typed
<1>6. CASE R!ReceiveAnswersError \/ R!ReceiveThrows
  BY <1>2, <1>6 DEF R!ReceiveAnswersError, R!ReceiveThrows, Typed
<1>7. CASE R!Send \/ R!SendThrows
  BY <1>1, <1>2, <1>3, <1>7 DEF R!Send, R!SendThrows, Typed
<1> QED
  BY <1>4, <1>5, <1>6, <1>7 DEF Relay, R!Program

LEMMA TypedStep == Typed /\ [Next]_vars => Typed'
<1> SUFFICES ASSUME Typed, [Next]_vars PROVE Typed'
  OBVIOUS
<1>1. Flow'
  BY FlowStep DEF Typed
<1>2. C!TypeOK'
  BY StepOfClient, ClientTyped DEF Typed
<1>3. CASE Relay
  BY <1>1, <1>2, <1>3, RelayTyped DEF Typed, Relay
<1>4. CASE Generator \/ OnMessage \/ Page \/ Commands \/ UNCHANGED vars
  <2>1. UNCHANGED <<language, pc, exits, caught>>
    BY <1>4 DEF Generator, OnMessage, Page, Commands, Delivered, NotDelivered,
                StartDelivered, relay, vars
  <2> QED
    BY <1>1, <1>2, <2>1 DEF Typed
<1> QED
  BY <1>3, <1>4 DEF Next

\* The three programs keep their types together, with the reports that pass from
\* one to the next (Manager, the relays' loops, the client's component).
THEOREM TypeCorrect == Spec => []TypeOK
<1>1. Typed => TypeOK
  BY DEF Typed, Flow, TypeOK
<1> QED
  BY <1>1, TypedInit, TypedStep, PTL DEF Spec
=============================================================================
