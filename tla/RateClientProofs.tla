--------------------------- MODULE RateClientProofs ---------------------------
(***************************************************************************)
(* What is proved of the web client, for any number of rates, any asks,    *)
(* any chart length and any bounds.  Typing comes first; the chart needs no*)
(* other invariant, the button needs ButtonFollows.                        *)
(***************************************************************************)
EXTENDS RateClient, TLAPS

\* What a chart is after a value was put at its end.
LEMMA ChartShifts ==
  ASSUME NEW data \in [1 .. Points -> Asks \cup {0}], NEW value \in Asks \cup {0}
  PROVE  /\ Chart(data, value) \in [1 .. Points -> Asks \cup {0}]
         /\ Chart(data, value)[Points] = value
         /\ \A i \in 1 .. Points - 1 : Chart(data, value)[i] = data[i + 1]
<1>1. Points \in Nat /\ Points >= 1
  BY PointsAssumption
<1>2. data \in Seq(Asks \cup {0}) /\ Len(data) = Points
  BY <1>1
<1>3. /\ Tail(data) \in Seq(Asks \cup {0})
      /\ Len(Tail(data)) = Points - 1
      /\ \A i \in 1 .. Points - 1 : Tail(data)[i] = data[i + 1]
  BY <1>1, <1>2
<1>4. /\ Chart(data, value) \in Seq(Asks \cup {0})
      /\ Len(Chart(data, value)) = Points
      /\ Chart(data, value)[Points] = value
      /\ \A i \in 1 .. Points - 1 : Chart(data, value)[i] = Tail(data)[i]
  BY <1>1, <1>3 DEF Chart
<1>5. Chart(data, value) \in [1 .. Points -> Asks \cup {0}]
  BY <1>4
<1> QED
  BY <1>3, <1>4, <1>5

\* What is remembered of the asks after another one was shown.
LEMMA RecentShifts ==
  ASSUME NEW V, since \in Seq(V), Len(since) <= Points, NEW value \in V
  PROVE  /\ Recent(value) \in Seq(V)
         /\ Len(Recent(value)) = IF Len(since) < Points THEN Len(since) + 1 ELSE Points
         /\ Recent(value)[1] = value
         /\ \A i \in 2 .. Len(Recent(value)) : Recent(value)[i] = since[i - 1]
<1> DEFINE all == <<value>> \o since
<1> DEFINE n == IF Len(since) < Points THEN Len(since) + 1 ELSE Points
<1>1. Points \in Nat /\ Points >= 1 /\ Len(since) \in Nat
  BY PointsAssumption
<1>2. /\ all \in Seq(V)
      /\ Len(all) = Len(since) + 1
      /\ all[1] = value
      /\ \A i \in 2 .. Len(all) : all[i] = since[i - 1]
  BY <1>1
<1>3. n \in 1 .. Len(all)
  BY <1>1, <1>2
<1> HIDE DEF all, n
<1>4. /\ SubSeq(all, 1, n) \in Seq(V)
      /\ Len(SubSeq(all, 1, n)) = n
      /\ \A i \in 1 .. n : SubSeq(all, 1, n)[i] = all[i]
  BY <1>2, <1>3
<1>5. Recent(value) = SubSeq(all, 1, n)
  BY DEF Recent, all, n
<1> QED
  BY <1>2, <1>3, <1>4, <1>5 DEF n

-----------------------------------------------------------------------------
LEMMA InitTyped == Init => TypeOK
<1> SUFFICES ASSUME Init PROVE TypeOK
  OBVIOUS
<1> USE NRatesAssumption, BoundsAssumption
<1>1. feed \in Seq(Reports \cup {Foreign}) /\ socket \in {"connecting", "open", "closed"}
  BY DEF Init
<1>2. selected \in Rates
  BY DEF Init, Rates
<1>3. ask \in Reports
  BY DEF Init, Reports
<1>4. active \in [Rates -> {"unset", "on", "off"}]
  BY DEF Init
<1>5. chartData \in [1 .. Points -> Asks \cup {0}]
  BY DEF Init
<1>6. posted \in [Rates -> [BOOLEAN -> 0 .. MaxPosted]]
  <2>1. 0 \in 0 .. MaxPosted
    BY BoundsAssumption
  <2>2. [b \in BOOLEAN |-> 0] \in [BOOLEAN -> 0 .. MaxPosted]
    BY <2>1
  <2> QED
    BY <2>2 DEF Init
<1>7. since \in Seq(Asks) /\ Len(since) <= Points
  BY PointsAssumption DEF Init
<1>8. latest \in {<<>>} \cup {<<q>> : q \in Asks \cup {None}}
  BY DEF Init
<1> QED
  BY <1>1, <1>2, <1>3, <1>4, <1>5, <1>6, <1>7, <1>8 DEF TypeOK

\* The event that is shown, when it is a report.
LEMMA ShownIsReport ==
  ASSUME TypeOK, feed # <<>>, Head(feed) # Foreign
  PROVE  /\ Head(feed) \in Reports
         /\ Head(feed)[selected] \in Asks \cup {None}
         /\ Head(feed)[selected] # None => Head(feed)[selected] \in Asks
<1>1. Head(feed) \in Reports \cup {Foreign}
  BY DEF TypeOK
<1> QED
  BY <1>1 DEF TypeOK, Reports

\* A report that is shown keeps the page well typed.
LEMMA ShowReportTyped ==
  ASSUME TypeOK, feed # <<>>, Head(feed) # Foreign, ShowReport(Head(feed))
  PROVE  /\ ask' \in Reports
         /\ active' \in [Rates -> {"unset", "on", "off"}]
         /\ chartData' \in [1 .. Points -> Asks \cup {0}]
         /\ since' \in Seq(Asks) /\ Len(since') <= Points
         /\ latest' \in {<<>>} \cup {<<q>> : q \in Asks \cup {None}}
<1> DEFINE e == Head(feed)
<1>1. e \in Reports /\ e[selected] \in Asks \cup {None} /\ (e[selected] # None => e[selected] \in Asks)
  BY ShownIsReport
<1> HIDE DEF e
<1>2. ask' = e /\ active' = ActiveAfter(e) /\ ParseNewPoint(e) /\ latest' = <<e[selected]>>
      /\ since' = IF e[selected] # None THEN Recent(e[selected]) ELSE since
  BY DEF ShowReport, e
<1>3. active' \in [Rates -> {"unset", "on", "off"}]
  BY <1>2 DEF ActiveAfter, TypeOK
<1>4. chartData' \in [1 .. Points -> Asks \cup {0}]
  <2>1. CASE e[selected] # None
    BY <2>1, <1>1, <1>2, ChartShifts DEF ParseNewPoint, TypeOK
  <2>2. CASE e[selected] = None
    BY <2>2, <1>2 DEF ParseNewPoint, TypeOK
  <2> QED
    BY <2>1, <2>2
<1>5. since' \in Seq(Asks) /\ Len(since') <= Points
  <2>1. CASE e[selected] # None
    BY <2>1, <1>1, <1>2, RecentShifts, PointsAssumption DEF TypeOK
  <2>2. CASE e[selected] = None
    BY <2>2, <1>2 DEF TypeOK
  <2> QED
    BY <2>1, <2>2
<1> QED
  BY <1>1, <1>2, <1>3, <1>4, <1>5

LEMMA StepTyped == TypeOK /\ [Next]_vars => TypeOK'
<1> SUFFICES ASSUME TypeOK, [Next]_vars PROVE TypeOK'
  OBVIOUS
<1> USE DEF page, history
<1>1. ASSUME NEW e \in Reports \cup {Foreign}, Publish(e) PROVE TypeOK'
  BY <1>1 DEF Publish, TypeOK
<1>2. CASE Age
  BY <1>2 DEF Age, TypeOK
<1>3. CASE Open \/ Close
  BY <1>3 DEF Open, Close, TypeOK
<1>4. CASE OnMessage
  <2>1. feed' \in Seq(Reports \cup {Foreign}) /\ UNCHANGED posted /\ feed # <<>>
    BY <1>4 DEF OnMessage, TypeOK
  <2>2. CASE Head(feed) = Foreign
    BY <1>4, <2>1, <2>2 DEF OnMessage, RejectEvent, TypeOK
  <2>3. CASE Head(feed) # Foreign
    <3>1. ShowReport(Head(feed)) /\ UNCHANGED <<socket, selected>>
      BY <1>4, <2>3 DEF OnMessage, ShowReport
    <3> QED
      BY <3>1, <2>1, <2>3, ShowReportTyped DEF TypeOK
  <2> QED
    BY <2>2, <2>3
<1>5. CASE StartStopRate
  <2>1. posted' \in [Rates -> [BOOLEAN -> 0 .. MaxPosted]]
    <3> DEFINE b == Asked
    <3>1. b \in BOOLEAN
      BY DEF Asked
    <3>2. /\ posted' = [posted EXCEPT ![selected][b] = @ + 1]
          /\ \A r \in Rates, c \in BOOLEAN : posted[r][c] < MaxPosted
      BY <1>5 DEF StartStopRate
    <3> HIDE DEF b
    <3>3. selected \in Rates /\ posted \in [Rates -> [BOOLEAN -> 0 .. MaxPosted]]
      BY DEF TypeOK
    <3>4. posted[selected][b] \in 0 .. MaxPosted /\ posted[selected][b] < MaxPosted
      BY <3>1, <3>2, <3>3
    <3>5. posted[selected][b] + 1 \in 0 .. MaxPosted
      BY <3>4, BoundsAssumption
    <3> QED
      BY <3>1, <3>2, <3>3, <3>5
  <2> QED
    BY <1>5, <2>1 DEF StartStopRate, TypeOK
<1>6. ASSUME NEW r \in Rates, SetSelectedItem(r) PROVE TypeOK'
  <2>1. [i \in 1 .. Points |-> 0] \in [1 .. Points -> Asks \cup {0}]
    OBVIOUS
  <2>2. chartData' \in [1 .. Points -> Asks \cup {0}]
    BY <1>6, <2>1, ChartShifts DEF SetSelectedItem
  <2>3. since' \in Seq(Asks) /\ Len(since') <= Points
    BY <1>6, PointsAssumption DEF SetSelectedItem
  <2> QED
    BY <1>6, <2>2, <2>3 DEF SetSelectedItem, TypeOK
<1>7. ASSUME NEW r \in Rates, NEW b \in BOOLEAN, Leave(r, b) PROVE TypeOK'
  <2>1. posted' \in [Rates -> [BOOLEAN -> 0 .. MaxPosted]]
    <3>1. posted[r][b] \in 0 .. MaxPosted /\ posted[r][b] > 0
      BY <1>7 DEF Leave, TypeOK
    <3>2. posted[r][b] - 1 \in 0 .. MaxPosted
      BY <3>1, BoundsAssumption
    <3> QED
      BY <1>7, <3>2 DEF Leave, TypeOK
  <2> QED
    BY <1>7, <2>1 DEF Leave, TypeOK
<1>8. CASE UNCHANGED vars
  BY <1>8 DEF vars, TypeOK
<1> QED
  BY <1>1, <1>2, <1>3, <1>4, <1>5, <1>6, <1>7, <1>8 DEF Next

\* Every variable keeps its type (the services' fields, the socket, the requests).
THEOREM TypeCorrect == Spec => []TypeOK
<1> QED
  BY InitTyped, StepTyped, PTL DEF Spec

-----------------------------------------------------------------------------
(* The chart.                                                              *)

LEMMA InitFaithful == Init => ChartFaithful
<1> SUFFICES ASSUME Init, NEW i \in 1 .. Points
             PROVE  chartData[Points + 1 - i] = IF i <= Len(since) THEN since[i] ELSE 0
  BY DEF ChartFaithful
<1>1. Points + 1 - i \in 1 .. Points /\ Len(since) = 0 /\ i > 0
  BY PointsAssumption DEF Init
<1> QED
  BY <1>1 DEF Init

\* A new ask shifts the chart and what is remembered alike.
LEMMA ShownFaithful ==
  ASSUME TypeOK, ChartFaithful, NEW q \in Asks,
         chartData' = Chart(chartData, q), since' = Recent(q)
  PROVE  ChartFaithful'
<1> SUFFICES ASSUME NEW i \in 1 .. Points
             PROVE  chartData'[Points + 1 - i] = IF i <= Len(since') THEN since'[i] ELSE 0
  BY DEF ChartFaithful
<1>1. Points \in Nat /\ Points >= 1
  BY PointsAssumption
<1>2. /\ chartData'[Points] = q
      /\ \A k \in 1 .. Points - 1 : chartData'[k] = chartData[k + 1]
  <2>1. chartData \in [1 .. Points -> Asks \cup {0}] /\ q \in Asks \cup {0}
    BY DEF TypeOK
  <2>2. /\ Chart(chartData, q)[Points] = q
        /\ \A k \in 1 .. Points - 1 : Chart(chartData, q)[k] = chartData[k + 1]
    BY <2>1, ChartShifts
  <2> QED
    BY <2>2
<1>3. since \in Seq(Asks) /\ Len(since) \in Nat /\ Len(since) <= Points
  BY DEF TypeOK
<1>4. /\ Len(since') = IF Len(since) < Points THEN Len(since) + 1 ELSE Points
      /\ since'[1] = q
      /\ \A k \in 2 .. Len(since') : since'[k] = since[k - 1]
  BY <1>3, RecentShifts
<1>5. CASE i = 1
  BY <1>1, <1>2, <1>3, <1>4, <1>5
<1>6. CASE i # 1
  <2>1. /\ i - 1 \in 1 .. Points
        /\ Points + 1 - i \in 1 .. Points - 1
        /\ (Points + 1 - i) + 1 = Points + 1 - (i - 1)
    BY <1>1, <1>6
  <2>2. chartData'[Points + 1 - i] = chartData[Points + 1 - (i - 1)]
    BY <1>2, <2>1
  <2>3. chartData[Points + 1 - (i - 1)] = IF i - 1 <= Len(since) THEN since[i - 1] ELSE 0
    BY <2>1 DEF ChartFaithful
  <2>4. i - 1 <= Len(since) <=> i <= Len(since')
    BY <1>1, <1>3, <1>4, <2>1
  <2>5. CASE i <= Len(since')
    <3>1. since'[i] = since[i - 1]
      BY <1>1, <1>3, <1>4, <1>6, <2>5
    <3> QED
      BY <2>2, <2>3, <2>4, <2>5, <3>1
  <2>6. CASE ~(i <= Len(since'))
    BY <2>2, <2>3, <2>4, <2>6
  <2> QED
    BY <2>5, <2>6
<1> QED
  BY <1>5, <1>6

LEMMA StepFaithful == TypeOK /\ ChartFaithful /\ [Next]_vars => ChartFaithful'
<1> SUFFICES ASSUME TypeOK, ChartFaithful, [Next]_vars PROVE ChartFaithful'
  OBVIOUS
<1> USE DEF page, history
<1>1. CASE UNCHANGED <<chartData, since>>
  BY <1>1 DEF ChartFaithful
<1>2. CASE OnMessage
  <2>1. CASE Head(feed) = Foreign
    BY <1>1, <1>2, <2>1 DEF OnMessage, RejectEvent
  <2>2. CASE Head(feed) # Foreign /\ Head(feed)[selected] = None
    BY <1>1, <1>2, <2>2 DEF OnMessage, ShowReport, ParseNewPoint
  <2>3. CASE Head(feed) # Foreign /\ Head(feed)[selected] # None
    <3>1. Head(feed)[selected] \in Asks
      BY <1>2, <2>3, ShownIsReport DEF OnMessage
    <3>2. /\ chartData' = Chart(chartData, Head(feed)[selected])
          /\ since' = Recent(Head(feed)[selected])
      BY <1>2, <2>3 DEF OnMessage, ShowReport, ParseNewPoint
    <3> QED
      BY <3>1, <3>2, ShownFaithful
  <2> QED
    BY <2>1, <2>2, <2>3
<1>3. ASSUME NEW r \in Rates, SetSelectedItem(r) PROVE ChartFaithful'
  <2> DEFINE zeroes == [k \in 1 .. Points |-> 0]
  <2>1. zeroes \in [1 .. Points -> Asks \cup {0}] /\ \A k \in 1 .. Points : zeroes[k] = 0
    OBVIOUS
  <2> HIDE DEF zeroes
  <2>2. \A k \in 1 .. Points : Chart(zeroes, 0)[k] = 0
    <3>1. /\ Chart(zeroes, 0)[Points] = 0
          /\ \A k \in 1 .. Points - 1 : Chart(zeroes, 0)[k] = zeroes[k + 1]
      BY <2>1, ChartShifts
    <3> QED
      BY <2>1, <3>1, PointsAssumption
  <2>3. chartData' = Chart(zeroes, 0) /\ since' = <<>>
    BY <1>3 DEF SetSelectedItem, zeroes
  <2> SUFFICES ASSUME NEW i \in 1 .. Points
               PROVE  chartData'[Points + 1 - i] = IF i <= Len(since') THEN since'[i] ELSE 0
    BY DEF ChartFaithful
  <2>4. Points + 1 - i \in 1 .. Points /\ Len(since') = 0 /\ i > 0
    BY <2>3, PointsAssumption
  <2>5. chartData'[Points + 1 - i] = 0
    BY <2>2, <2>3, <2>4
  <2>6. ~(i <= Len(since'))
    BY <2>4
  <2> QED
    BY <2>5, <2>6
<1>4. CASE \/ \E e \in Reports \cup {Foreign} : Publish(e)
           \/ Age \/ Open \/ Close \/ StartStopRate
           \/ \E r \in Rates, b \in BOOLEAN : Leave(r, b)
           \/ UNCHANGED vars
  BY <1>1, <1>4 DEF Publish, Age, Open, Close, StartStopRate, Leave, vars
<1> QED
  BY <1>2, <1>3, <1>4 DEF Next

\* The chart holds the asks of the selected rate in the order they were shown, none
\* left out, none twice, none of another rate (parseNewPoint, setSelectedItem).
THEOREM ChartIsFaithful == Spec => []ChartFaithful
<1> QED
  BY TypeCorrect, InitFaithful, StepFaithful, PTL DEF Spec

-----------------------------------------------------------------------------
(* The button.                                                             *)

\* The button shows what the last event said of the selected rate.
ButtonFollows == latest # <<>> => (active[selected] = "on" <=> latest # <<None>>)

LEMMA StepFollows == TypeOK /\ ButtonFollows /\ [Next]_vars => ButtonFollows'
<1> SUFFICES ASSUME TypeOK, ButtonFollows, [Next]_vars PROVE ButtonFollows'
  OBVIOUS
<1> USE DEF page, history
<1>1. CASE UNCHANGED <<active, selected, latest>>
  BY <1>1 DEF ButtonFollows
<1>2. CASE OnMessage /\ Head(feed) # Foreign
  <2>1. /\ latest' = <<Head(feed)[selected]>>
        /\ selected' = selected
        /\ active' = ActiveAfter(Head(feed))
    BY <1>2 DEF OnMessage, ShowReport
  <2>2. active'[selected] = IF Head(feed)[selected] # None THEN "on" ELSE "off"
    BY <2>1 DEF ActiveAfter, TypeOK
  <2> QED
    BY <2>1, <2>2 DEF ButtonFollows
<1>3. CASE \E r \in Rates : SetSelectedItem(r)
  BY <1>3 DEF SetSelectedItem, ButtonFollows
<1>4. CASE \/ \E e \in Reports \cup {Foreign} : Publish(e)
           \/ Age \/ Open \/ Close \/ StartStopRate
           \/ OnMessage /\ Head(feed) = Foreign
           \/ \E r \in Rates, b \in BOOLEAN : Leave(r, b)
           \/ UNCHANGED vars
  BY <1>1, <1>4 DEF Publish, Age, Open, Close, StartStopRate, OnMessage, RejectEvent, Leave, vars
<1> QED
  BY <1>2, <1>3, <1>4 DEF Next

\* Only the button adds a command, and it asks for the opposite of what it shows.
LEMMA StepAsks ==
  ASSUME TypeOK, ButtonFollows, [Next]_vars,
         NEW r \in Rates, NEW b \in BOOLEAN, posted'[r][b] > posted[r][b]
  PROVE  r = selected /\ (latest # <<>> => (b <=> latest = <<None>>))
<1> USE DEF page, history
<1>1. posted \in [Rates -> [BOOLEAN -> 0 .. MaxPosted]] /\ selected \in Rates
  BY DEF TypeOK
<1>2. posted[r][b] \in Nat
  BY <1>1, BoundsAssumption
<1>3. posted' # posted
  BY <1>2
<1>4. CASE StartStopRate
  <2> DEFINE c == Asked
  <2>1. posted' = [posted EXCEPT ![selected][c] = @ + 1]
    BY <1>4 DEF StartStopRate
  <2>2. c \in BOOLEAN /\ (c <=> active[selected] # "on")
    BY DEF Asked
  <2> HIDE DEF c
  <2>3. r = selected
    BY <1>1, <1>2, <2>1, <2>2
  <2>4. b = c
    BY <1>1, <1>2, <2>1, <2>2, <2>3
  <2> QED
    BY <2>2, <2>3, <2>4 DEF ButtonFollows
<1>5. ASSUME NEW q \in Rates, NEW d \in BOOLEAN, Leave(q, d) PROVE FALSE
  <2>1. posted' = [posted EXCEPT ![q][d] = @ - 1] /\ posted[q][d] \in Nat
    BY <1>1, <1>5, BoundsAssumption DEF Leave
  <2>2. posted'[r][b] = posted[r][b] \/ posted'[r][b] = posted[r][b] - 1
    BY <1>1, <2>1
  <2> QED
    BY <1>2, <2>2
<1>6. CASE \/ \E e \in Reports \cup {Foreign} : Publish(e)
           \/ Age \/ Open \/ Close \/ OnMessage
           \/ \E q \in Rates : SetSelectedItem(q)
           \/ UNCHANGED vars
  BY <1>3, <1>6 DEF Publish, Age, Open, Close, OnMessage, SetSelectedItem, vars
<1> QED
  BY <1>4, <1>5, <1>6 DEF Next

\* A click on the button asks for the selected rate and for the opposite of what the
\* last event said of it, so a second click repeats the command (startStopRate).
THEOREM ButtonAsksOpposite == Spec => AsksOpposite
<1>1. Init => ButtonFollows
  BY DEF Init, ButtonFollows
<1>2. Spec => [](TypeOK /\ ButtonFollows)
  BY <1>1, StepFollows, TypeCorrect, PTL DEF Spec
<1>3. TypeOK /\ ButtonFollows /\ [Next]_vars =>
        [\A r \in Rates, b \in BOOLEAN : posted'[r][b] > posted[r][b] =>
           /\ r = selected
           /\ latest # <<>> => (b <=> latest = <<None>>)]_vars
  BY StepAsks
<1> QED
  BY <1>2, <1>3, PTL DEF Spec, AsksOpposite
=============================================================================
