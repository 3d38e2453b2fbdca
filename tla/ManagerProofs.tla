---------------------------- MODULE ManagerProofs ----------------------------
(***************************************************************************)
(* What holds of the rate generator for any number of rates, overlapping   *)
(* sends, concurrent handlers, queue capacity, commands and restarts.      *)
(***************************************************************************)
EXTENDS Manager, MessageLemmas, SequenceTheorems, FiniteSetTheorems, TLAPS

HandlerState == [pc : {"idle", "set", "purge", "start", "started", "ok", "failed",
                       "unanswered"},
                 rate : Rates \cup {Unknown}, to : BOOLEAN]

\* A list as long as the collection shows every rate.
LEMMA FullList ==
  ASSUME NEW l \in Seq(BOOLEAN), Len(l) = NRates
  PROVE  l \in [Rates -> BOOLEAN]
BY LenProperties, ElementOfSeq, NRatesAssumption DEF Rates

\* What stays when the n oldest reports are taken.
LEMMA ConsumeKeeps ==
  ASSUME TypeOK, Consume
  PROVE  /\ queue' \in Seq([Rates -> BOOLEAN])
         /\ \E n \in 1 .. Len(queue) : /\ Len(queue') = Len(queue) - n
                                      /\ \A i \in 1 .. Len(queue') : queue'[i] = queue[i + n]
<1>1. PICK n \in 1 .. Len(queue) : queue' = SubSeq(queue, n + 1, Len(queue))
  BY DEF Consume
<1>2. queue \in Seq([Rates -> BOOLEAN])
  BY DEF TypeOK
<1>3. Len(queue) \in Nat
  BY <1>2, LenProperties
<1>4. n \in 0 .. Len(queue)
  BY <1>3
<1>5. queue' \in Seq([Rates -> BOOLEAN]) /\ Len(queue') = Len(queue) - n
  BY <1>1, <1>2, <1>4, SplitKeeps
<1>6. \A i \in 1 .. (Len(queue) - n) : queue'[i] = queue[i + n]
  BY <1>1, <1>2, <1>4, SplitShifts
<1> QED BY <1>5, <1>6

LEMMA ExitType == TypeOK /\ Exit /\ queue' \in {queue, <<>>} => TypeOK'
<1> SUFFICES ASSUME TypeOK, Exit, queue' \in {queue, <<>>} PROVE TypeOK'
  OBVIOUS
<1>1. queue' \in Seq([Rates -> BOOLEAN])
  BY EmptySeq DEF TypeOK
<1>2. IdleSender \in [busy : BOOLEAN, ratesList : Seq(BOOLEAN)] /\ Len(IdleSender.ratesList) <= NRates
  BY NRatesAssumption, EmptySeq DEF IdleSender
<1> QED BY <1>1, <1>2 DEF TypeOK, Exit, IdleHandler, Command

LEMMA TypeStep == TypeOK /\ [Next]_vars => TypeOK'
<1> SUFFICES ASSUME TypeOK, [Next]_vars PROVE TypeOK'
  OBVIOUS
<1> USE DEF startup, rateCollection
<1>1. CASE UNCHANGED vars
  BY <1>1 DEF vars, process, TypeOK
<1>2. CASE Main
  <2>1. CASE ReadConfig \/ Connect \/ LoadRates \/ SetRateTimer
    BY <2>1 DEF ReadConfig, Connect, LoadRates, SetRateTimer, TypeOK, GetAutoStart
  <2>2. CASE PurgeAtStart
    BY <2>2, EmptySeq DEF PurgeAtStart, Purged, NotPurged, TypeOK
  <2>3. CASE RejectConfig \/ FailToConnect \/ RejectInterval
    BY <2>3, ExitType DEF RejectConfig, FailToConnect, RejectInterval
  <2> QED BY <1>2, <2>1, <2>2, <2>3 DEF Main
<1>3. CASE Subscribe
  BY <1>3 DEF Subscribe, TypeOK
<1>4. CASE Consume
  BY <1>4, ConsumeKeeps DEF Consume, process, TypeOK
<1>5. CASE Crash
  BY <1>5, ExitType DEF Crash
<1>6. CASE Restart
  BY <1>6 DEF Restart, TypeOK
<1>7. ASSUME NEW s \in Senders, Elapsed(s) PROVE TypeOK'
  BY <1>7, EmptySeq, NRatesAssumption DEF Elapsed, TypeOK
<1>8. ASSUME NEW s \in Senders, ReadRate(s) PROVE TypeOK'
  <2> DEFINE l == sender[s].ratesList
  <2>1. l \in Seq(BOOLEAN) /\ Len(l) \in Nat /\ Len(l) < NRates
    BY <1>8, LenProperties DEF ReadRate, TypeOK
  <2>2. isActive[Len(l) + 1] \in BOOLEAN
    BY <2>1, NRatesAssumption DEF TypeOK, Rates
  <2>3. /\ Append(l, isActive[Len(l) + 1]) \in Seq(BOOLEAN)
        /\ Len(Append(l, isActive[Len(l) + 1])) <= NRates
    BY <2>1, <2>2, AppendProperties, NRatesAssumption
  <2> HIDE DEF l
  <2>4. sender' = [sender EXCEPT ![s] =
                     [busy |-> TRUE, ratesList |-> Append(l, isActive[Len(l) + 1])]]
    BY <1>8 DEF ReadRate, l
  <2> QED BY <1>8, <2>3, <2>4 DEF ReadRate, TypeOK
<1>9. ASSUME NEW s \in Senders, SendReport(s) PROVE TypeOK'
  <2>1. sender[s].ratesList \in [Rates -> BOOLEAN]
    BY <1>9, FullList DEF SendReport, TypeOK
  <2>2. queue' \in Seq([Rates -> BOOLEAN])
    <3> DEFINE report == sender[s].ratesList
    <3>1. queue' = Append(queue, report) \/ queue' = queue
      BY <1>9 DEF SendReport
    <3>2. queue \in Seq([Rates -> BOOLEAN]) /\ report \in [Rates -> BOOLEAN]
      BY <2>1 DEF TypeOK
    <3> HIDE DEF report
    <3> QED BY <3>1, <3>2, AppendProperties
  <2>3. sender' = [sender EXCEPT ![s] = IdleSender]
    BY <1>9 DEF SendReport
  <2>4. IdleSender \in [busy : BOOLEAN, ratesList : Seq(BOOLEAN)] /\ Len(IdleSender.ratesList) <= NRates
    BY NRatesAssumption, EmptySeq DEF IdleSender
  <2> QED BY <1>9, <2>2, <2>3, <2>4 DEF SendReport, TypeOK
<1>10. ASSUME NEW h \in Handlers, Receive(h) PROVE TypeOK'
  <2>1. commands' \in 0 .. MaxCommands
    BY <1>10, BoundsAssumption DEF Receive, TypeOK
  <2>2. PICK c \in HandlerState : handler' = [handler EXCEPT ![h] = c]
    <3>1. CASE handler' = [handler EXCEPT ![h] = Command("start", 1, TRUE)]
      <4>1. 1 \in Rates
        BY NRatesAssumption DEF Rates
      <4>2. Command("start", 1, TRUE) \in HandlerState
        BY <4>1 DEF Command, HandlerState
      <4> QED BY <3>1, <4>2
    <3>2. ASSUME NEW r \in Rates \cup {Unknown}, NEW b \in BOOLEAN,
                 handler' = [handler EXCEPT ![h] = Command("set", r, b)]
          PROVE  \E c \in HandlerState : handler' = [handler EXCEPT ![h] = c]
      BY <3>2 DEF Command, HandlerState
    <3> QED BY <1>10, <3>1, <3>2 DEF Receive
  <2> QED BY <1>10, <2>1, <2>2 DEF Receive, TypeOK, HandlerState
<1>11. ASSUME NEW h \in Handlers, Handle(h) PROVE TypeOK'
  <2>1. CASE SetRate(h)
    BY <2>1 DEF SetRate, Switch, GoTo, Command, TypeOK
  <2>2. CASE RejectSet(h)
    BY <2>2 DEF RejectSet, GoTo, Command, TypeOK
  <2>3. CASE PurgeAfterSet(h)
    <3>1. queue' \in Seq([Rates -> BOOLEAN]) /\ settled' \in [Rates -> BOOLEAN]
      BY <2>3, EmptySeq DEF PurgeAfterSet, Purged, NotPurged, TypeOK
    <3>2. PICK c \in HandlerState : handler' = [handler EXCEPT ![h] = c]
      BY <2>3 DEF PurgeAfterSet, GoTo, Command, HandlerState, TypeOK
    <3> QED BY <2>3, <3>1, <3>2 DEF PurgeAfterSet, TypeOK, HandlerState
  <2>4. CASE StartRate(h)
    <3> DEFINE r == handler[h].rate
    <3>1. r \in Rates \cup {Unknown} /\ r \in Nat /\ r <= NRates
      BY NRatesAssumption DEF TypeOK, Rates, Unknown
    <3>2. PICK c \in HandlerState : handler' = [handler EXCEPT ![h] = c]
      <4>1. CASE r = NRates
        <5>1. handler' = [handler EXCEPT ![h] = Command("started", r, TRUE)]
          BY <2>4, <4>1 DEF StartRate
        <5>2. Command("started", r, TRUE) \in HandlerState
          BY <3>1 DEF Command, HandlerState
        <5> QED BY <5>1, <5>2
      <4>2. CASE r # NRates
        <5>1. handler' = [handler EXCEPT ![h] = Command("start", r + 1, TRUE)]
          BY <2>4, <4>2 DEF StartRate
        <5>2. r + 1 \in Rates
          BY <3>1, <4>2, NRatesAssumption DEF Rates
        <5>3. Command("start", r + 1, TRUE) \in HandlerState
          BY <5>2 DEF Command, HandlerState
        <5> QED BY <5>1, <5>3
      <4> QED BY <4>1, <4>2
    <3> HIDE DEF r
    <3>3. isActive' \in [Rates -> BOOLEAN] /\ settled' \in [Rates -> BOOLEAN]
      BY <2>4 DEF StartRate, Switch, TypeOK
    <3>4. UNCHANGED <<startup, loaded, sender, queue, commands>>
      BY <2>4 DEF StartRate
    <3>5. handler' \in [Handlers -> HandlerState]
      BY <3>2 DEF TypeOK, HandlerState
    <3> QED BY <3>3, <3>4, <3>5 DEF TypeOK, HandlerState
  <2>5. CASE StartTooEarly(h)
    BY <2>5 DEF StartTooEarly, GoTo, Command, TypeOK
  <2>6. CASE Respond(h)
    BY <2>6 DEF Respond, IdleHandler, Command, TypeOK
  <2> QED BY <1>11, <2>1, <2>2, <2>3, <2>4, <2>5, <2>6 DEF Handle
<1> QED
  BY <1>1, <1>2, <1>3, <1>4, <1>5, <1>6, <1>7, <1>8, <1>9, <1>10, <1>11 DEF Next

LEMMA TypeInit == Init => TypeOK
<1>1. IdleSender \in [busy : BOOLEAN, ratesList : Seq(BOOLEAN)] /\ Len(IdleSender.ratesList) <= NRates
  BY NRatesAssumption, EmptySeq DEF IdleSender
<1>2. IdleHandler \in HandlerState
  BY DEF IdleHandler, Command, HandlerState
<1>3. 0 \in 0 .. MaxCommands /\ <<>> \in Seq([Rates -> BOOLEAN])
  BY BoundsAssumption, EmptySeq
<1>4. ASSUME Init PROVE /\ sender \in [Senders -> [busy : BOOLEAN, ratesList : Seq(BOOLEAN)]]
                        /\ \A s \in Senders : Len(sender[s].ratesList) <= NRates
  BY <1>1, <1>4 DEF Init
<1>5. ASSUME Init PROVE handler \in [Handlers -> HandlerState]
  BY <1>2, <1>5 DEF Init
<1> QED BY <1>3, <1>4, <1>5 DEF Init, TypeOK, HandlerState

\* Type correctness, whatever the constants.
THEOREM TypeCorrect == Spec => []TypeOK
BY TypeInit, TypeStep, PTL DEF Spec

-----------------------------------------------------------------------------
(* The strengthening: nothing is sent outside the running phase, and before *)
(* the rates are loaded a purged queue stays empty.                         *)
Quiet ==
  /\ loaded <=> main \in {"timer", "running"}
  /\ \A s \in Senders : ~sender[s].busy => sender[s].ratesList = <<>>
  /\ main # "running" => \A s \in Senders : ~sender[s].busy
  /\ ~loaded => \A r \in Rates : settled[r] => queue = <<>>

LEMMA QuietInit == Init => Quiet
BY DEF Init, Quiet, IdleSender

LEMMA QuietStep == TypeOK /\ Quiet /\ [Next]_vars => Quiet'
<1> SUFFICES ASSUME TypeOK, Quiet, [Next]_vars PROVE Quiet'
  OBVIOUS
<1> USE DEF startup, rateCollection, Quiet
<1>0. ASSUME Exit PROVE Quiet'
  BY <1>0 DEF Exit, IdleSender
<1>1. CASE UNCHANGED vars
  BY <1>1 DEF vars, process
<1>2. CASE Main
  <2>1. CASE ReadConfig \/ Connect \/ LoadRates \/ SetRateTimer
    BY <2>1 DEF ReadConfig, Connect, LoadRates, SetRateTimer
  <2>2. CASE PurgeAtStart
    BY <2>2 DEF PurgeAtStart, Purged, NotPurged
  <2>3. CASE RejectConfig \/ FailToConnect \/ RejectInterval
    BY <2>3, <1>0 DEF RejectConfig, FailToConnect, RejectInterval
  <2> QED BY <1>2, <2>1, <2>2, <2>3 DEF Main
<1>3. CASE Subscribe
  BY <1>3 DEF Subscribe
<1>4. CASE Consume
  <2>1. queue # <<>>
    BY <1>4, EmptySeq DEF Consume
  <2> QED BY <1>4, <2>1 DEF Consume, process
<1>5. CASE Crash
  BY <1>5, <1>0 DEF Crash
<1>6. CASE Restart
  BY <1>6 DEF Restart
<1>7. ASSUME NEW s \in Senders, Elapsed(s) \/ ReadRate(s) PROVE Quiet'
  <2>1. PICK l : sender' = [sender EXCEPT ![s] = [busy |-> TRUE, ratesList |-> l]]
    BY <1>7 DEF Elapsed, ReadRate
  <2>2. main = "running"
    BY <1>7 DEF Elapsed, ReadRate
  <2>3. UNCHANGED <<startup, rateCollection, queue>>
    BY <1>7 DEF Elapsed, ReadRate
  <2> QED BY <2>1, <2>2, <2>3 DEF TypeOK
<1>8. ASSUME NEW s \in Senders, SendReport(s) PROVE Quiet'
  BY <1>8 DEF SendReport, TypeOK, IdleSender
<1>9. ASSUME NEW h \in Handlers, Receive(h) PROVE Quiet'
  BY <1>9 DEF Receive
<1>10. ASSUME NEW h \in Handlers, Handle(h) PROVE Quiet'
  <2>1. CASE SetRate(h) \/ StartRate(h)
    BY <2>1 DEF SetRate, StartRate, Switch, TypeOK
  <2>2. CASE PurgeAfterSet(h)
    BY <2>2 DEF PurgeAfterSet, Purged, NotPurged
  <2>3. CASE RejectSet(h) \/ StartTooEarly(h) \/ Respond(h)
    BY <2>3 DEF RejectSet, StartTooEarly, Respond
  <2> QED BY <1>10, <2>1, <2>2, <2>3 DEF Handle
<1> QED BY <1>1, <1>2, <1>3, <1>4, <1>5, <1>6, <1>7, <1>8, <1>9, <1>10 DEF Next

-----------------------------------------------------------------------------
(* What a step can do to the stale reports about one settled rate.         *)

Framed(r) == /\ queue' = queue
             /\ StaleQueued(r)' = StaleQueued(r)
             /\ StaleHeld(r)' \subseteq StaleHeld(r)
Stored(r, s) == /\ Len(queue') = Len(queue) + 1
                /\ StaleHeld(r)' = StaleHeld(r) \ {s}
                /\ StaleQueued(r)' = StaleQueued(r) \cup
                                     (IF s \in StaleHeld(r) THEN {Len(queue) + 1} ELSE {})
Consumed(r) == /\ StaleHeld(r)' = StaleHeld(r)
               /\ \E n \in 1 .. Len(queue) :
                    /\ Len(queue') = Len(queue) - n
                    /\ \A i \in 1 .. Len(queue') :
                         i \in StaleQueued(r)' <=> i + n \in StaleQueued(r)

\* What is stale stays it, moves from a callback into the queue, or is taken.
NoneMore(r) == Framed(r) \/ Consumed(r) \/ \E s \in Senders : Stored(r, s)

\* A step that leaves the flag, the queue and the callbacks alone.
LEMMA SameFrame ==
  ASSUME TypeOK, NEW r \in Rates, isActive'[r] = isActive[r], UNCHANGED <<queue, sender>>
  PROVE  Framed(r)
BY DEF Framed, StaleQueued, StaleHeld, Stale

LEMMA SendEffect ==
  ASSUME TypeOK, NEW r \in Rates, NEW s \in Senders, SendReport(s)
  PROVE  Framed(r) \/ Stored(r, s)
<1> DEFINE l == sender[s].ratesList
<1>1. l \in [Rates -> BOOLEAN] /\ Len(l) = NRates /\ r <= Len(l)
  BY FullList DEF SendReport, TypeOK, Rates
<1>2. /\ sender' = [sender EXCEPT ![s] = IdleSender]
      /\ isActive' = isActive
      /\ queue' = Append(queue, l) \/ queue' = queue
  BY DEF SendReport, rateCollection
<1>3. Len(IdleSender.ratesList) = 0
  BY EmptySeq DEF IdleSender
<1>4. StaleHeld(r)' = StaleHeld(r) \ {s}
  BY <1>2, <1>3 DEF StaleHeld, Stale, TypeOK, Rates
<1>5. queue \in Seq([Rates -> BOOLEAN]) /\ Len(queue) \in Nat
  BY LenProperties DEF TypeOK
<1>6. s \in StaleHeld(r) <=> Stale(r, l)
  BY <1>1 DEF StaleHeld
<1>7. CASE queue' = queue
  BY <1>2, <1>4, <1>7 DEF Framed, StaleQueued, Stale
<1>8. CASE queue' = Append(queue, l)
  <2>1. /\ Len(queue') = Len(queue) + 1
        /\ \A i \in 1 .. Len(queue) : queue'[i] = queue[i]
        /\ queue'[Len(queue) + 1] = l
    <3> HIDE DEF l
    <3> QED BY <1>1, <1>5, <1>8, AppendProperties
  <2>2. StaleQueued(r)' = {i \in 1 .. (Len(queue) + 1) : queue'[i][r] # isActive[r]}
    BY <1>2, <2>1 DEF StaleQueued, Stale
  <2>3. 1 .. (Len(queue) + 1) = (1 .. Len(queue)) \cup {Len(queue) + 1}
    BY <1>5
  <2>4. Stale(r, l) <=> queue'[Len(queue) + 1][r] # isActive[r]
    BY <2>1 DEF Stale
  <2>5. StaleQueued(r)' = StaleQueued(r) \cup
                          (IF s \in StaleHeld(r) THEN {Len(queue) + 1} ELSE {})
    <3> HIDE DEF l
    <3> QED BY <1>6, <2>1, <2>2, <2>3, <2>4 DEF StaleQueued, Stale
  <2> QED BY <1>4, <2>1, <2>5 DEF Stored
<1> QED BY <1>2, <1>7, <1>8

LEMMA ConsumeEffect == ASSUME TypeOK, NEW r \in Rates, Consume PROVE Consumed(r)
<1>1. PICK n \in 1 .. Len(queue) : /\ Len(queue') = Len(queue) - n
                                   /\ \A i \in 1 .. Len(queue') : queue'[i] = queue[i + n]
  BY ConsumeKeeps
<1>2. Len(queue) \in Nat /\ Len(queue') \in Nat
  BY LenProperties, ConsumeKeeps DEF TypeOK
<1>3. UNCHANGED <<isActive, sender>>
  BY DEF Consume, process, rateCollection
<1>4. \A i \in 1 .. Len(queue') : i + n \in 1 .. Len(queue)
  BY <1>1, <1>2
<1>5. \A i \in 1 .. Len(queue') : i \in StaleQueued(r)' <=> i + n \in StaleQueued(r)
  BY <1>1, <1>3, <1>4 DEF StaleQueued, Stale
<1>6. StaleHeld(r)' = StaleHeld(r)
  BY <1>3 DEF StaleHeld, Stale
<1> QED BY <1>1, <1>5, <1>6 DEF Consumed

\* Reading a rate, or beginning a report, makes nothing stale.
LEMMA ReadEffect ==
  ASSUME TypeOK, Quiet, NEW r \in Rates, NEW s \in Senders, Elapsed(s) \/ ReadRate(s)
  PROVE  Framed(r)
<1>1. UNCHANGED <<queue, isActive>>
  BY DEF Elapsed, ReadRate, rateCollection
<1>2. StaleHeld(r)' \subseteq StaleHeld(r)
  <2>1. CASE Elapsed(s)
    BY <1>1, <2>1, EmptySeq DEF Elapsed, StaleHeld, Stale, TypeOK, Rates
  <2>2. CASE ReadRate(s)
    <3> DEFINE l == sender[s].ratesList
               new == Append(l, isActive[Len(l) + 1])
    <3>1. l \in Seq(BOOLEAN) /\ Len(l) \in Nat /\ Len(l) < NRates
      BY <2>2, LenProperties DEF ReadRate, TypeOK
    <3>2. isActive[Len(l) + 1] \in BOOLEAN
      BY <3>1, NRatesAssumption DEF TypeOK, Rates
    <3>3. /\ Len(new) = Len(l) + 1
          /\ \A i \in 1 .. Len(l) : new[i] = l[i]
          /\ new[Len(l) + 1] = isActive[Len(l) + 1]
      BY <3>1, <3>2, AppendProperties
    <3>4. sender' = [sender EXCEPT ![s] = [busy |-> TRUE, ratesList |-> new]]
      BY <2>2 DEF ReadRate
    <3> HIDE DEF new
    <3>5. sender'[s].ratesList = new /\ \A t \in Senders \ {s} : sender'[t] = sender[t]
      BY <3>4 DEF TypeOK
    <3>6. ASSUME s \in StaleHeld(r)' PROVE s \in StaleHeld(r)
      <4>1. r \in Nat /\ r >= 1 /\ r <= Len(new) /\ new[r] # isActive[r]
        BY <1>1, <3>5, <3>6 DEF StaleHeld, Stale, Rates
      <4>2. r \in 1 .. Len(l)
        BY <3>1, <3>3, <4>1
      <4> QED BY <3>3, <4>1, <4>2 DEF StaleHeld, Stale
    <3> QED BY <1>1, <3>5, <3>6 DEF StaleHeld, Stale
  <2> QED BY <2>1, <2>2
<1> QED BY <1>1, <1>2 DEF Framed, StaleQueued, Stale

LEMMA StepEffect ==
  ASSUME TypeOK, Quiet, [Next]_vars, NEW r \in Rates, loaded', settled'[r]
  PROVE  \/ queue' = <<>>
         \/ loaded /\ settled[r] /\ NoneMore(r)
<1> USE DEF startup, rateCollection, NoneMore
<1>0. ~Exit
  BY DEF Exit
<1>1. CASE UNCHANGED vars
  BY <1>1, SameFrame DEF vars, process
<1>2. CASE Main
  <2>1. CASE ReadConfig \/ Connect \/ SetRateTimer
    BY <2>1, SameFrame DEF ReadConfig, Connect, SetRateTimer
  <2>2. CASE LoadRates
    BY <2>2 DEF LoadRates, Quiet
  <2>3. CASE PurgeAtStart
    BY <2>3, SameFrame DEF PurgeAtStart, Purged, NotPurged
  <2>4. CASE RejectConfig \/ FailToConnect \/ RejectInterval
    BY <2>4, <1>0 DEF RejectConfig, FailToConnect, RejectInterval
  <2> QED BY <1>2, <2>1, <2>2, <2>3, <2>4 DEF Main
<1>3. CASE Subscribe
  BY <1>3, SameFrame DEF Subscribe
<1>4. CASE Consume
  BY <1>4, ConsumeEffect DEF Consume, process
<1>5. CASE Crash
  BY <1>5, <1>0 DEF Crash
<1>6. CASE Restart
  BY <1>6, SameFrame DEF Restart
<1>7. ASSUME NEW s \in Senders, Elapsed(s) \/ ReadRate(s)
      PROVE  loaded /\ settled[r] /\ Framed(r)
  BY <1>7, ReadEffect DEF Elapsed, ReadRate
<1>8. ASSUME NEW s \in Senders, SendReport(s)
      PROVE  loaded /\ settled[r] /\ (Framed(r) \/ Stored(r, s))
  BY <1>8, SendEffect DEF SendReport
<1>9. ASSUME NEW h \in Handlers, Receive(h)
      PROVE  loaded /\ settled[r] /\ Framed(r)
  BY <1>9, SameFrame DEF Receive
<1>10. ASSUME NEW h \in Handlers, Handle(h)
       PROVE  queue' = <<>> \/ (loaded /\ settled[r] /\ Framed(r))
  <2>1. CASE SetRate(h) \/ StartRate(h)
    <3>1. PICK q, b : Switch(q, b) /\ UNCHANGED <<loaded, sender, queue>>
      BY <2>1 DEF SetRate, StartRate
    <3>2. settled[r] /\ isActive'[r] = isActive[r]
      BY <3>1 DEF Switch, TypeOK
    <3> QED BY <3>1, <3>2, SameFrame
  <2>2. CASE PurgeAfterSet(h)
    BY <2>2, SameFrame DEF PurgeAfterSet, Purged, NotPurged
  <2>3. CASE RejectSet(h) \/ StartTooEarly(h) \/ Respond(h)
    BY <2>3, SameFrame DEF RejectSet, StartTooEarly, Respond
  <2> QED BY <1>10, <2>1, <2>2, <2>3 DEF Handle
<1> QED BY <1>1, <1>2, <1>3, <1>4, <1>5, <1>6, <1>7, <1>8, <1>9, <1>10 DEF Next

-----------------------------------------------------------------------------
(* At most one stale report for each callback.                             *)

LEMMA PositionsFinite ==
  ASSUME NEW n \in Nat, NEW S \in SUBSET (1 .. n)
  PROVE  IsFiniteSet(S) /\ Cardinality(S) \in Nat
<1>1. IsFiniteSet(1 .. n)
  BY FS_Interval
<1> QED BY <1>1, FS_Subset, FS_CardinalityType

LEMMA SomeSenders ==
  ASSUME NEW S \in SUBSET Senders
  PROVE  IsFiniteSet(S) /\ Cardinality(S) \in Nat /\ Cardinality(S) <= Cardinality(Senders)
BY FS_Subset, FS_CardinalityType, SendersAssumption

LEMMA OneMore ==
  ASSUME NEW S, IsFiniteSet(S), NEW x
  PROVE  Cardinality(S \cup {x}) <= Cardinality(S) + 1
<1>1. Cardinality(S) \in Nat
  BY FS_CardinalityType
<1>2. Cardinality(S \cup {x}) = IF x \in S THEN Cardinality(S) ELSE Cardinality(S) + 1
  BY FS_AddElement, Zenon
<1> QED BY <1>1, <1>2

LEMMA StaleFinite ==
  ASSUME TypeOK, NEW r \in Rates
  PROVE  /\ IsFiniteSet(StaleQueued(r)) /\ Cardinality(StaleQueued(r)) \in Nat
         /\ IsFiniteSet(StaleHeld(r)) /\ Cardinality(StaleHeld(r)) \in Nat
<1>1. Len(queue) \in Nat
  BY LenProperties DEF TypeOK
<1>2. StaleQueued(r) \in SUBSET (1 .. Len(queue)) /\ StaleHeld(r) \in SUBSET Senders
  BY DEF StaleQueued, StaleHeld
<1> QED BY <1>1, <1>2, PositionsFinite, SomeSenders

LEMMA StaleFiniteNext ==
  ASSUME TypeOK', NEW r \in Rates
  PROVE  Cardinality(StaleQueued(r)') \in Nat /\ Cardinality(StaleHeld(r)') \in Nat
<1>1. Len(queue') \in Nat
  BY LenProperties DEF TypeOK
<1>2. StaleQueued(r)' \in SUBSET (1 .. Len(queue')) /\ StaleHeld(r)' \in SUBSET Senders
  BY DEF StaleQueued, StaleHeld
<1> QED BY <1>1, <1>2, PositionsFinite, SomeSenders

\* Taking the oldest report leaves no more stale ones than there were.
LEMMA ConsumeShrinks ==
  ASSUME TypeOK, TypeOK', NEW r \in Rates, Consumed(r)
  PROVE  Cardinality(StaleQueued(r)') <= Cardinality(StaleQueued(r))
<1>0. PICK n \in 1 .. Len(queue) :
        \A i \in 1 .. Len(queue') : i \in StaleQueued(r)' <=> i + n \in StaleQueued(r)
  BY DEF Consumed
<1> DEFINE S == StaleQueued(r)'
           f == [i \in S |-> i + n]
<1>1. S \subseteq 1 .. Len(queue')
  BY DEF StaleQueued
<1>2. Len(queue') \in Nat
  BY LenProperties DEF TypeOK
<1>3. \A i \in S : i \in Int /\ i + n \in StaleQueued(r)
  BY <1>0, <1>1, <1>2
<1> HIDE DEF S
<1>4. f \in Injection(S, StaleQueued(r))
  BY <1>3, n \in Int DEF Injection, IsInjective
<1>5. IsFiniteSet(StaleQueued(r))
  BY StaleFinite
<1>6. Cardinality(S) <= Cardinality(StaleQueued(r))
  <2> HIDE DEF f
  <2> QED BY <1>4, <1>5, FS_Injection
<1> QED BY <1>6 DEF S

\* So counted, queued and held together.
LEMMA NoneMoreCounted ==
  ASSUME TypeOK, TypeOK', NEW r \in Rates, NoneMore(r)
  PROVE  Cardinality(StaleQueued(r)') + Cardinality(StaleHeld(r)')
           <= Cardinality(StaleQueued(r)) + Cardinality(StaleHeld(r))
<1> DEFINE q == Cardinality(StaleQueued(r))
           t == Cardinality(StaleHeld(r))
           qn == Cardinality(StaleQueued(r)')
           tn == Cardinality(StaleHeld(r)')
<1>1. q \in Nat /\ t \in Nat /\ IsFiniteSet(StaleQueued(r)) /\ IsFiniteSet(StaleHeld(r))
  BY StaleFinite
<1>2. qn \in Nat /\ tn \in Nat
  BY StaleFiniteNext
<1>3. CASE Framed(r)
  <2>1. qn = q
    BY <1>3 DEF Framed
  <2>2. tn <= t
    BY <1>1, <1>3, FS_Subset DEF Framed
  <2> QED BY <1>1, <1>2, <2>1, <2>2
<1>4. CASE Consumed(r)
  <2>1. tn = t
    BY <1>4 DEF Consumed
  <2>2. qn <= q
    BY <1>4, ConsumeShrinks
  <2> QED BY <1>1, <1>2, <2>1, <2>2
<1>5. ASSUME NEW s \in Senders, Stored(r, s) PROVE qn + tn <= q + t
  <2>1. CASE s \in StaleHeld(r)
    <3>1. StaleQueued(r)' = StaleQueued(r) \cup {Len(queue) + 1}
          /\ StaleHeld(r)' = StaleHeld(r) \ {s}
      BY <1>5, <2>1 DEF Stored
    <3>2. tn = t - 1
      BY <1>1, <2>1, <3>1, FS_RemoveElement
    <3>3. qn <= q + 1
      BY <1>1, <3>1, OneMore
    <3> QED BY <1>1, <1>2, <3>2, <3>3
  <2>2. CASE s \notin StaleHeld(r)
    <3>1. StaleQueued(r)' = StaleQueued(r) /\ StaleHeld(r)' = StaleHeld(r)
      BY <1>5, <2>2 DEF Stored
    <3> QED BY <1>1, <3>1
  <2> QED BY <2>1, <2>2
<1> QED BY <1>3, <1>4, <1>5 DEF NoneMore

\* Whatever the constants: what the queue still tells a reader of the old state
\* of a rate whose change was followed by a purge is bounded by the number of
\* sends that can be in flight (Manager.cs:286-287).
THEOREM StaleBound == Spec => []StaleBounded
<1> DEFINE IInv == TypeOK /\ Quiet /\ StaleBounded
<1>1. Init => IInv
  <2>1. Init => TypeOK
    BY TypeInit
  <2> QED BY <2>1, QuietInit DEF Init, StaleBounded
<1>2. IInv /\ [Next]_vars => IInv'
  <2> SUFFICES ASSUME TypeOK, Quiet, StaleBounded, [Next]_vars,
                      NEW r \in Rates, loaded', settled'[r]
               PROVE  Cardinality(StaleQueued(r)') + Cardinality(StaleHeld(r)')
                        <= Cardinality(Senders)
    BY TypeStep, QuietStep DEF StaleBounded
  <2> DEFINE qn == Cardinality(StaleQueued(r)')
             tn == Cardinality(StaleHeld(r)')
             before == Cardinality(StaleQueued(r)) + Cardinality(StaleHeld(r))
             n == Cardinality(Senders)
  <2>1. TypeOK'
    BY TypeStep
  <2>2. qn \in Nat /\ tn \in Nat /\ tn <= n /\ before \in Nat /\ n \in Nat
    <3>1. StaleHeld(r)' \in SUBSET Senders
      BY DEF StaleHeld
    <3> QED BY <2>1, <3>1, StaleFinite, StaleFiniteNext, SomeSenders, FS_CardinalityType, SendersAssumption
  <2>3. CASE queue' = <<>>
    <3>1. StaleQueued(r)' = {}
      BY <2>3, EmptySeq DEF StaleQueued
    <3> QED BY <2>2, <3>1, FS_EmptySet
  <2>4. CASE loaded /\ settled[r] /\ NoneMore(r)
    <3>1. before <= n
      BY <2>4 DEF StaleBounded
    <3>2. qn + tn <= before
      BY <2>1, <2>4, NoneMoreCounted
    <3> HIDE DEF before
    <3> QED BY <2>2, <3>1, <3>2
  <2> QED BY <2>3, <2>4, StepEffect
<1> QED BY <1>1, <1>2, PTL DEF Spec

\* What a step does that does not change the flag: a purge or an exit may take
\* everything, and else NoneMore.
LEMMA SameFlagEffect ==
  ASSUME TypeOK, Quiet, [Next]_vars, NEW r \in Rates, isActive'[r] = isActive[r]
  PROVE  \/ queue' = <<>> /\ StaleHeld(r)' \subseteq StaleHeld(r)
         \/ NoneMore(r)
<1> USE DEF startup, rateCollection, NoneMore
<1>1. ASSUME UNCHANGED <<queue, sender>> PROVE Framed(r)
  BY <1>1, SameFrame
<1>2. ASSUME UNCHANGED <<isActive, sender>>, queue' = <<>>
      PROVE  queue' = <<>> /\ StaleHeld(r)' \subseteq StaleHeld(r)
  BY <1>2 DEF StaleHeld, Stale
<1>3. ASSUME Exit, queue' \in {queue, <<>>}
      PROVE  StaleHeld(r)' \subseteq StaleHeld(r) /\ (queue' = <<>> \/ Framed(r))
  <2>1. \A s \in Senders : Len(sender'[s].ratesList) = 0
    BY <1>3, EmptySeq DEF Exit, IdleSender
  <2>2. StaleHeld(r)' = {}
    BY <2>1, NRatesAssumption DEF StaleHeld, Rates
  <2>3. queue' = queue => StaleQueued(r)' = StaleQueued(r)
    BY DEF StaleQueued, Stale
  <2> QED BY <1>3, <2>2, <2>3 DEF Framed
<1>4. CASE UNCHANGED vars
  BY <1>1, <1>4 DEF vars, process
<1>5. CASE Main
  <2>1. CASE ReadConfig \/ Connect \/ LoadRates \/ SetRateTimer
    BY <1>1, <2>1 DEF ReadConfig, Connect, LoadRates, SetRateTimer
  <2>2. CASE PurgeAtStart
    BY <1>1, <1>2, <2>2 DEF PurgeAtStart, Purged, NotPurged
  <2>3. CASE RejectConfig \/ FailToConnect \/ RejectInterval
    BY <1>3, <2>3 DEF RejectConfig, FailToConnect, RejectInterval
  <2> QED BY <1>5, <2>1, <2>2, <2>3 DEF Main
<1>6. CASE Subscribe \/ Restart
  BY <1>1, <1>6 DEF Subscribe, Restart
<1>7. CASE Consume
  BY <1>7, ConsumeEffect
<1>8. CASE Crash
  BY <1>3, <1>8 DEF Crash
<1>9. ASSUME NEW s \in Senders, Elapsed(s) \/ ReadRate(s) PROVE Framed(r)
  BY <1>9, ReadEffect
<1>10. ASSUME NEW s \in Senders, SendReport(s) PROVE NoneMore(r)
  BY <1>10, SendEffect
<1>11. ASSUME NEW h \in Handlers, Receive(h) \/ Handle(h)
       PROVE  \/ queue' = <<>> /\ StaleHeld(r)' \subseteq StaleHeld(r)
              \/ Framed(r)
  <2>1. CASE PurgeAfterSet(h)
    BY <1>1, <1>2, <2>1 DEF PurgeAfterSet, Purged, NotPurged
  <2>2. CASE \/ Receive(h) \/ SetRate(h) \/ StartRate(h)
             \/ RejectSet(h) \/ StartTooEarly(h) \/ Respond(h)
    BY <1>1, <2>2 DEF Receive, SetRate, StartRate, RejectSet, StartTooEarly, Respond
  <2> QED BY <1>11, <2>1, <2>2 DEF Handle
<1> QED
  BY <1>4, <1>5, <1>6, <1>7, <1>8, <1>9, <1>10, <1>11 DEF Next

\* For any number of rates, threads and commands, with crashes: only a change of a
\* rate makes reports stale, so that between two changes what a reader can still be
\* told of its old state only falls (Manager.cs:219-258 and 280-290).
THEOREM NothingGetsStale == Spec => NoNewStale
<1>1. TypeOK /\ Quiet /\ [Next]_vars => (TypeOK /\ Quiet)'
  BY TypeStep, QuietStep
<1>2. TypeOK /\ Quiet /\ [Next]_vars =>
        [\A r \in Rates : isActive'[r] = isActive[r] =>
           Cardinality(StaleQueued(r)') + Cardinality(StaleHeld(r)')
             <= Cardinality(StaleQueued(r)) + Cardinality(StaleHeld(r))]_vars
  <2> SUFFICES ASSUME TypeOK, Quiet, [Next]_vars, NEW r \in Rates, isActive'[r] = isActive[r]
               PROVE  Cardinality(StaleQueued(r)') + Cardinality(StaleHeld(r)')
                        <= Cardinality(StaleQueued(r)) + Cardinality(StaleHeld(r))
    OBVIOUS
  <2>1. TypeOK'
    BY TypeStep
  <2>2. CASE NoneMore(r)
    BY <2>1, <2>2, NoneMoreCounted
  <2>3. CASE queue' = <<>> /\ StaleHeld(r)' \subseteq StaleHeld(r)
    <3>1. StaleQueued(r)' = {}
      BY <2>3, EmptySeq DEF StaleQueued
    <3>2. Cardinality(StaleQueued(r)') = 0
      BY <3>1, FS_EmptySet
    <3>3. Cardinality(StaleHeld(r)') <= Cardinality(StaleHeld(r))
      BY <2>3, StaleFinite, FS_Subset
    <3> QED BY <2>1, <3>2, <3>3, StaleFinite, StaleFiniteNext
  <2> QED BY <2>2, <2>3, SameFlagEffect
<1> QED BY <1>1, <1>2, TypeInit, QuietInit, PTL DEF Spec, NoNewStale

-----------------------------------------------------------------------------
(* The order of the reports: the stale ones behind one that is not.        *)

Behind(r, i) == {j \in StaleQueued(r) : i < j}
StillToSee(r, i) == Cardinality(Behind(r, i)) + Cardinality(StaleHeld(r))

LEMMA BehindFinite ==
  ASSUME TypeOK, NEW r \in Rates, NEW i
  PROVE  IsFiniteSet(Behind(r, i)) /\ Cardinality(Behind(r, i)) \in Nat
<1>1. Behind(r, i) \subseteq StaleQueued(r)
  BY DEF Behind
<1> QED BY <1>1, StaleFinite, FS_Subset, FS_CardinalityType

LEMMA BehindFiniteNext ==
  ASSUME TypeOK', NEW r \in Rates, NEW i
  PROVE  Cardinality(Behind(r, i)') \in Nat
<1>1. Len(queue') \in Nat
  BY LenProperties DEF TypeOK
<1>2. Behind(r, i)' \in SUBSET (1 .. Len(queue'))
  BY DEF Behind, StaleQueued
<1> QED BY <1>1, <1>2, PositionsFinite

\* Taking the oldest reports moves the others forward together.
LEMMA ConsumeKeepsOrder ==
  ASSUME TypeOK, TypeOK', NEW r \in Rates, Consumed(r),
         NEW i \in 1 .. Len(queue'), i \notin StaleQueued(r)'
  PROVE  \E k \in (1 .. Len(queue)) \ StaleQueued(r) :
            Cardinality(Behind(r, i)') <= Cardinality(Behind(r, k))
<1>0. PICK n \in 1 .. Len(queue) :
        /\ Len(queue') = Len(queue) - n
        /\ \A j \in 1 .. Len(queue') : j \in StaleQueued(r)' <=> j + n \in StaleQueued(r)
  BY DEF Consumed
<1>1. Len(queue) \in Nat /\ Len(queue') \in Nat
  BY LenProperties DEF TypeOK
<1>2. i + n \in (1 .. Len(queue)) \ StaleQueued(r)
  BY <1>0, <1>1
<1> DEFINE S == Behind(r, i)'
           f == [j \in S |-> j + n]
<1>3. \A j \in S : j \in Int /\ j + n \in Behind(r, i + n)
  <2> SUFFICES ASSUME NEW j \in S PROVE j \in Int /\ j + n \in Behind(r, i + n)
    OBVIOUS
  <2>1. j \in StaleQueued(r)' /\ j \in 1 .. Len(queue') /\ i < j
    BY DEF Behind, StaleQueued
  <2>2. j + n \in StaleQueued(r) /\ i + n < j + n
    BY <1>0, <1>1, <2>1
  <2> QED BY <2>1, <2>2, <1>1 DEF Behind
<1> HIDE DEF S
<1>4. f \in Injection(S, Behind(r, i + n))
  BY <1>3, n \in Int DEF Injection, IsInjective
<1>5. IsFiniteSet(Behind(r, i + n))
  BY BehindFinite
<1>6. Cardinality(S) <= Cardinality(Behind(r, i + n))
  <2> HIDE DEF f
  <2> QED BY <1>4, <1>5, FS_Injection
<1> QED BY <1>2, <1>6 DEF S

\* A report that is stored goes behind all the others.
LEMMA StoredLast ==
  ASSUME TypeOK, TypeOK', NEW r \in Rates, NEW s \in Senders, Stored(r, s),
         NEW i \in 1 .. Len(queue'), i \notin StaleQueued(r)'
  PROVE  \/ /\ i \in (1 .. Len(queue)) \ StaleQueued(r)
            /\ StillToSee(r, i)' <= StillToSee(r, i)
         \/ StillToSee(r, i)' < Cardinality(Senders)
<1> DEFINE q == Cardinality(Behind(r, i))
           t == Cardinality(StaleHeld(r))
           qn == Cardinality(Behind(r, i)')
           tn == Cardinality(StaleHeld(r)')
           last == Len(queue) + 1
<1>1. /\ q \in Nat /\ IsFiniteSet(Behind(r, i)) /\ qn \in Nat
      /\ t \in Nat /\ IsFiniteSet(StaleHeld(r)) /\ tn \in Nat
  BY BehindFinite, BehindFiniteNext, StaleFinite, StaleFiniteNext
<1>2. Len(queue) \in Nat /\ Len(queue') = last
  BY LenProperties DEF TypeOK, Stored
<1>3. i \in 1 .. Len(queue) \/ i = last
  BY <1>2
<1>4. ASSUME i \in 1 .. Len(queue)
      PROVE  i \notin StaleQueued(r) /\ qn + tn <= q + t
  <2>1. i < last /\ i \notin StaleQueued(r)
    BY <1>2, <1>4 DEF Stored
  <2>2. CASE s \in StaleHeld(r)
    <3>1. /\ StaleQueued(r)' = StaleQueued(r) \cup {last}
          /\ StaleHeld(r)' = StaleHeld(r) \ {s}
      BY <2>2 DEF Stored
    <3>2. Behind(r, i)' = Behind(r, i) \cup {last}
      BY <2>1, <3>1 DEF Behind
    <3>3. tn = t - 1
      BY <1>1, <2>2, <3>1, FS_RemoveElement
    <3>4. qn <= q + 1
      BY <1>1, <3>2, OneMore
    <3> QED BY <1>1, <2>1, <3>3, <3>4
  <2>3. CASE s \notin StaleHeld(r)
    <3>1. StaleQueued(r)' = StaleQueued(r) /\ StaleHeld(r)' = StaleHeld(r)
      BY <2>3 DEF Stored
    <3>2. Behind(r, i)' = Behind(r, i)
      BY <3>1 DEF Behind
    <3> QED BY <1>1, <2>1, <3>1, <3>2
  <2> QED BY <2>2, <2>3
\* It is not stale itself: the other senders are those that may still hold one.
<1>5. ASSUME i = last PROVE qn + tn < Cardinality(Senders)
  <2>1. StaleHeld(r)' \subseteq Senders \ {s}
    BY DEF Stored, StaleHeld
  <2>2. /\ IsFiniteSet(Senders \ {s})
        /\ Cardinality(Senders \ {s}) = Cardinality(Senders) - 1
        /\ Cardinality(Senders) \in Nat
    BY SendersAssumption, FS_RemoveElement, FS_CardinalityType
  <2>3. tn <= Cardinality(Senders \ {s})
    BY <2>1, <2>2, FS_Subset
  <2>4. \A j \in StaleQueued(r)' : j \in 1 .. last
    BY <1>2 DEF StaleQueued
  <2>5. Behind(r, i)' = {}
    <3>1. \A j \in 1 .. last : ~(last < j)
      BY <1>2
    <3> QED BY <1>5, <2>4, <3>1 DEF Behind
  <2>6. qn = 0
    BY <2>5, FS_EmptySet
  <2> QED BY <1>1, <2>2, <2>3, <2>6
<1> QED BY <1>3, <1>4, <1>5 DEF StillToSee

\* For any number of senders: a reader who has been given the new state of a
\* settled rate is given the old one fewer times than there are senders, and not at
\* all when sends do not overlap (Manager.cs:211-247 and 286-287).
THEOREM NoFlip == Spec => []NoFlipBack
<1> DEFINE IInv == TypeOK /\ Quiet /\ NoFlipBack
<1>1. Init => IInv
  BY TypeInit, QuietInit DEF Init, NoFlipBack
<1>2. IInv /\ [Next]_vars => IInv'
  <2> SUFFICES ASSUME TypeOK, Quiet, NoFlipBack, [Next]_vars,
                      NEW r \in Rates, loaded', settled'[r],
                      NEW i \in 1 .. Len(queue'), i \notin StaleQueued(r)'
               PROVE  StillToSee(r, i)' < Cardinality(Senders)
    BY TypeStep, QuietStep DEF NoFlipBack, StillToSee, Behind
  <2>1. TypeOK'
    BY TypeStep
  <2>2. ASSUME loaded, settled[r], NEW k \in (1 .. Len(queue)) \ StaleQueued(r)
        PROVE  StillToSee(r, k) < Cardinality(Senders)
    BY <2>2 DEF NoFlipBack, StillToSee, Behind
  <2>3. /\ Cardinality(Senders) \in Nat
        /\ Cardinality(StaleHeld(r)) \in Nat /\ Cardinality(StaleHeld(r)') \in Nat
        /\ Cardinality(Behind(r, i)') \in Nat
        /\ \A k : Cardinality(Behind(r, k)) \in Nat
    BY <2>1, StaleFinite, StaleFiniteNext, BehindFinite, BehindFiniteNext,
       FS_CardinalityType, SendersAssumption
  <2>4. CASE queue' = <<>>
    BY <2>4, EmptySeq
  <2>5. CASE loaded /\ settled[r] /\ Framed(r)
    <3>1. i \in (1 .. Len(queue)) \ StaleQueued(r) /\ Behind(r, i)' = Behind(r, i)
      BY <2>5 DEF Framed, Behind
    <3>2. Cardinality(StaleHeld(r)') <= Cardinality(StaleHeld(r))
      BY <2>5, StaleFinite, FS_Subset DEF Framed
    <3>3. Cardinality(Behind(r, i)') = Cardinality(Behind(r, i))
      BY <3>1
    <3> QED BY <2>2, <2>3, <2>5, <3>1, <3>2, <3>3 DEF StillToSee
  <2>6. CASE loaded /\ settled[r] /\ Consumed(r)
    <3>1. PICK k \in (1 .. Len(queue)) \ StaleQueued(r) :
            Cardinality(Behind(r, i)') <= Cardinality(Behind(r, k))
      BY <2>1, <2>6, ConsumeKeepsOrder
    <3>2. Cardinality(StaleHeld(r)') = Cardinality(StaleHeld(r))
      BY <2>6 DEF Consumed
    <3> QED BY <2>2, <2>3, <2>6, <3>1, <3>2 DEF StillToSee
  <2>7. ASSUME loaded, settled[r], NEW s \in Senders, Stored(r, s)
        PROVE  StillToSee(r, i)' < Cardinality(Senders)
    <3>1. CASE /\ i \in (1 .. Len(queue)) \ StaleQueued(r)
               /\ StillToSee(r, i)' <= StillToSee(r, i)
      <4>1. StillToSee(r, i) < Cardinality(Senders)
        BY <2>2, <2>7, <3>1
      <4>2. StillToSee(r, i) \in Nat /\ StillToSee(r, i)' \in Nat
        BY <2>3 DEF StillToSee
      <4> QED BY <2>3, <3>1, <4>1, <4>2
    <3> QED BY <2>1, <2>7, <3>1, StoredLast
  <2> QED BY <2>4, <2>5, <2>6, <2>7, StepEffect DEF NoneMore
<1> QED BY <1>1, <1>2, PTL DEF Spec

-----------------------------------------------------------------------------
(* What an answer says, when commands are handled one at a time.           *)

InForce(h) ==
  /\ handler[h].pc \in {"purge", "ok"} =>
       loaded /\ handler[h].rate \in Rates /\ isActive[handler[h].rate] = handler[h].to
  /\ handler[h].pc = "start" =>
       /\ handler[h].rate \in Rates
       /\ \A q \in Rates : q < handler[h].rate => loaded /\ isActive[q]
  /\ handler[h].pc = "started" => loaded /\ \A q \in Rates : isActive[q]

LEMMA SwitchEffect ==
  ASSUME TypeOK, NEW r, NEW b, Switch(r, b)
  PROVE  \A q \in Rates : isActive'[q] = IF q = r THEN b ELSE isActive[q]
BY DEF TypeOK, Switch

\* While one command is handled, what its handler relies on stays in force.
LEMMA InForceKept ==
  ASSUME NEW h \in Handlers, \A k \in Handlers : k # h => handler[k].pc = "idle",
         TypeOK, Quiet, InForce(h), [Next]_vars
  PROVE  InForce(h)'
<1> USE DEF startup, rateCollection
<1>0. ASSUME Exit PROVE InForce(h)'
  BY <1>0 DEF Exit, InForce, IdleHandler, Command
<1>1. CASE UNCHANGED <<handler, loaded, isActive>>
  BY <1>1 DEF InForce
<1>2. CASE Main
  <2>1. CASE ReadConfig \/ Connect \/ PurgeAtStart \/ SetRateTimer
    BY <1>1, <2>1 DEF ReadConfig, Connect, PurgeAtStart, SetRateTimer
  \* No handler has got past the null collection yet.
  <2>2. CASE LoadRates
    <3>1. ~loaded /\ UNCHANGED handler
      BY <2>2 DEF LoadRates, Quiet
    <3> QED BY <3>1 DEF InForce
  <2>3. CASE RejectConfig \/ FailToConnect \/ RejectInterval
    BY <2>3, <1>0 DEF RejectConfig, FailToConnect, RejectInterval
  <2> QED BY <1>2, <2>1, <2>2, <2>3 DEF Main
<1>3. CASE Subscribe \/ Consume \/ Restart
  BY <1>1, <1>3 DEF Subscribe, Consume, Restart, process
<1>4. CASE Crash
  BY <1>0, <1>4 DEF Crash
<1>5. ASSUME NEW s \in Senders, Elapsed(s) \/ ReadRate(s) \/ SendReport(s)
      PROVE  InForce(h)'
  BY <1>1, <1>5 DEF Elapsed, ReadRate, SendReport
<1>6. CASE Receive(h)
  <2>1. UNCHANGED <<loaded, isActive>> /\ 1 \in Rates
    BY <1>6, NRatesAssumption DEF Receive, Rates
  <2>2. handler'[h].pc = "set" \/ (handler'[h].pc = "start" /\ handler'[h].rate = 1)
    BY <1>6 DEF Receive, Command, TypeOK
  <2>3. \A q \in Rates : ~(q < 1)
    BY NRatesAssumption DEF Rates
  <2> QED BY <2>1, <2>2, <2>3 DEF InForce
<1>7. CASE Handle(h)
  <2>1. CASE SetRate(h)
    <3>1. /\ handler'[h].pc = "purge" /\ loaded'
          /\ handler'[h].rate = handler[h].rate /\ handler'[h].to = handler[h].to
          /\ handler[h].rate \in Rates
      BY <2>1 DEF SetRate, GoTo, Command, TypeOK
    <3>2. isActive'[handler[h].rate] = handler[h].to
      BY <2>1, <3>1, SwitchEffect DEF SetRate
    <3> QED BY <3>1, <3>2 DEF InForce
  <2>2. CASE RejectSet(h) \/ StartTooEarly(h) \/ Respond(h)
    BY <2>2 DEF RejectSet, StartTooEarly, Respond, GoTo, IdleHandler, Command,
                TypeOK, InForce
  <2>3. CASE PurgeAfterSet(h)
    BY <2>3 DEF PurgeAfterSet, GoTo, Command, TypeOK, InForce
  <2>4. CASE StartRate(h)
    <3> DEFINE r == handler[h].rate
    <3>1. /\ loaded /\ loaded' /\ r \in Rates /\ r \in Nat /\ r <= NRates
          /\ \A q \in Rates : q < r => isActive[q]
      BY <2>4, NRatesAssumption DEF StartRate, InForce, Rates
    <3>2. \A q \in Rates : isActive'[q] = IF q = r THEN TRUE ELSE isActive[q]
      BY <2>4, SwitchEffect DEF StartRate
    <3>3. \A q \in Rates : q <= r => isActive'[q]
      <4> SUFFICES ASSUME NEW q \in Rates, q <= r PROVE isActive'[q]
        OBVIOUS
      <4>1. q = r \/ q < r
        BY <3>1 DEF Rates
      <4>2. CASE q = r
        BY <3>2, <4>2
      <4>3. CASE q < r
        <5>1. isActive[q] /\ q # r
          BY <3>1, <4>3
        <5> QED BY <3>2, <5>1
      <4> QED BY <4>1, <4>2, <4>3
    <3>4. CASE r = NRates
      <4>1. handler'[h].pc = "started"
        BY <2>4, <3>4 DEF StartRate, Command, TypeOK
      <4> QED BY <3>1, <3>3, <3>4, <4>1 DEF InForce, Rates
    <3>5. CASE r # NRates
      <4>1. handler'[h].pc = "start" /\ handler'[h].rate = r + 1
        BY <2>4, <3>5 DEF StartRate, Command, TypeOK
      <4>2. r + 1 \in Rates /\ \A q \in Rates : q < r + 1 => q <= r
        BY <3>1, <3>5, NRatesAssumption DEF Rates
      <4> QED BY <3>1, <3>3, <4>1, <4>2 DEF InForce
    <3> QED BY <3>4, <3>5
  <2> QED BY <1>7, <2>1, <2>2, <2>3, <2>4 DEF Handle
\* The others are idle: of them, only a command's arrival can be the step.
<1>8. ASSUME NEW k \in Handlers, k # h, Receive(k) \/ Handle(k) PROVE InForce(h)'
  <2>1. handler[k].pc = "idle"
    BY <1>8
  <2>2. ~Handle(k)
    BY <2>1 DEF Handle, SetRate, RejectSet, PurgeAfterSet, StartRate, StartTooEarly, Respond
  <2>3. handler'[h] = handler[h] /\ UNCHANGED <<loaded, isActive>>
    BY <1>8, <2>2 DEF Receive, TypeOK
  <2> QED BY <2>3 DEF InForce
<1>9. CASE UNCHANGED vars
  BY <1>1, <1>9 DEF vars, process
<1> QED BY <1>2, <1>3, <1>4, <1>5, <1>6, <1>7, <1>8, <1>9 DEF Next

\* The answers of SubscribeToRequests can be relied on when the SDK calls the
\* handler for one request at a time, whenever the command arrives: the rate
\* named is in the state asked for, or all the rates are active
\* (Manager.cs:288-296 and 320-328).
THEOREM AnswersHold ==
  ASSUME NEW h, Handlers = {h} PROVE Spec => []AppliedBeforeOK
<1> DEFINE IInv == TypeOK /\ Quiet /\ InForce(h)
<1>1. Init => IInv
  <2>1. Init => handler[h].pc = "idle"
    BY DEF Init, IdleHandler, Command
  <2> QED BY <2>1, TypeInit, QuietInit DEF InForce
<1>2. IInv /\ [Next]_vars => IInv'
  BY TypeStep, QuietStep, InForceKept
<1>3. IInv => AppliedBeforeOK
  BY DEF InForce, AppliedBeforeOK
<1> QED BY <1>1, <1>2, <1>3, PTL DEF Spec
=============================================================================
