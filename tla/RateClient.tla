------------------------------ MODULE RateClient ------------------------------
(***************************************************************************)
(* The web client: one socket on which the events of ratesstore arrive, a  *)
(* list of rates, one of them selected and charted, and a button that      *)
(* posts a command to start or stop it.  The page runs one callback at a   *)
(* time; events, clicks and the loss of the socket come in any order.      *)
(*                                                                         *)
(* An event is the ask it gives of each rate (and with it a bid), None     *)
(* where it gives neither, or Foreign: one whose body is not a report.     *)
(* Drawing is left out, and so is the dimming of a chart that is not Active.*)
(***************************************************************************)
EXTENDS Naturals, Sequences, FiniteSets

CONSTANTS
  NRates,     \* rates of getRatesList
  Asks,       \* the asks an event may give
  Foreign,    \* an event that is not a report
  Points,     \* points of the chart, 30 in the code
  MaxFeed,    \* bound: events that wait to be delivered
  MaxPosted   \* bound: commands under way

ASSUME NRatesAssumption == NRates \in Nat \ {0}
ASSUME PointsAssumption == Points \in Nat \ {0}
ASSUME AsksAssumption == Asks \subseteq Nat \ {0}
ASSUME BoundsAssumption == MaxFeed \in Nat /\ MaxPosted \in Nat

Rates == 1 .. NRates
None == 0
Reports == [Rates -> Asks \cup {None}]

ASSUME ForeignAssumption == Foreign \notin Reports

VARIABLES
  feed,       \* the events of the store that the socket would deliver
  socket,     \* "connecting", "open", or "closed" for good
  selected,   \* selectedItem
  ask,        \* Ask of each rate, None when it is null or as the page began
  active,     \* Active of each rate: "unset", "on" or "off"
  chartData,  \* the values charted, oldest first
  posted,     \* posted[r][b]: commands {Name: r, Active: b} under way
  since,      \* history: asks of the selected rate in the events shown since it
              \* was selected, newest first, at most Points of them
  latest      \* history: what the last of those events gave for it, if any

page == <<selected, ask, active, chartData>>
history == <<since, latest>>
vars == <<feed, socket, page, posted, history>>

\* getRatesList leaves Active out of the first, third and fifth rate.
Init ==
  /\ feed = <<>>
  /\ socket = "connecting"
  /\ selected = 1
  /\ ask = [r \in Rates |-> None]
  /\ active = [r \in Rates |-> IF r \in {1, 3, 5} THEN "unset" ELSE "off"]
  /\ chartData = [i \in 1 .. Points |-> 0]
  /\ posted = [r \in Rates |-> [b \in BOOLEAN |-> 0]]
  /\ since = <<>>
  /\ latest = <<>>

-----------------------------------------------------------------------------
(* The store and the socket.  A new subscription begins with the events of *)
(* the last 30 seconds: until the socket is open the oldest ones age.      *)

Publish(e) ==
  /\ Len(feed) < MaxFeed
  /\ feed' = Append(feed, e)
  /\ UNCHANGED <<socket, page, posted, history>>

Age ==
  /\ socket # "open"
  /\ feed # <<>>
  /\ feed' = Tail(feed)
  /\ UNCHANGED <<socket, page, posted, history>>

\* connect: onopen subscribes ratesListener before anything can arrive.
Open ==
  /\ socket = "connecting"
  /\ socket' = "open"
  /\ UNCHANGED <<feed, page, posted, history>>

\* It never opens, or is closed: nothing connects again.
Close ==
  /\ socket # "closed"
  /\ socket' = "closed"
  /\ UNCHANGED <<feed, page, posted, history>>

-----------------------------------------------------------------------------
(* The page.                                                               *)

\* A mistake for the mutation runs: nothing is dropped.
ChartLonger(data, value) == Append(data, value)

\* Put a value at the end of the chart, and drop the first.
Chart(data, value) == Append(Tail(data), value)

\* A mistake for the mutation runs: Active is only ever set.
ActiveOnceQuoted(e) ==
  IF e[selected] # None THEN [active EXCEPT ![selected] = "on"] ELSE active

\* Active of the selected rate follows the event (isRateActive), that of the
\* others stays as it is.
ActiveAfter(e) == [active EXCEPT ![selected] = IF e[selected] # None THEN "on" ELSE "off"]

\* A mistake for the mutation runs: the point is drawn for the rate as it was
\* before the event.
ParsePointTooEarly(e) ==
  chartData' = IF active[selected] = "on" THEN Chart(chartData, e[selected]) ELSE chartData

\* parseNewPoint
ParseNewPoint(e) ==
  chartData' = IF e[selected] # None THEN Chart(chartData, e[selected]) ELSE chartData

Recent(value) == SubSeq(<<value>> \o since, 1, IF Len(since) < Points THEN Len(since) + 1 ELSE Points)

\* ratesListener: every rate takes the event's ask, the selected one is charted.
ShowReport(e) ==
  /\ ask' = e
  /\ active' = ActiveAfter(e)
  /\ ParseNewPoint(e)
  /\ since' = IF e[selected] # None THEN Recent(e[selected]) ELSE since
  /\ latest' = <<e[selected]>>
  /\ UNCHANGED <<socket, selected>>

\* The parsing throws, and the library ends the subscription and the socket.
RejectEvent == socket' = "closed" /\ UNCHANGED <<page, history>>

OnMessage ==
  /\ socket = "open"
  /\ feed # <<>>
  /\ feed' = Tail(feed)
  /\ IF Head(feed) = Foreign THEN RejectEvent ELSE ShowReport(Head(feed))
  /\ UNCHANGED posted

\* changeRate and setSelectedItem: a click on a rate.
SetSelectedItem(r) ==
  /\ selected' = r
  /\ chartData' = Chart([i \in 1 .. Points |-> 0], 0)
  /\ since' = <<>>
  /\ latest' = <<>>
  /\ UNCHANGED <<feed, socket, ask, active, posted>>

\* What the button asks for.
Asked == active[selected] # "on"

\* startStopRate: a click on the button.  The answer is not looked at.
StartStopRate ==
  /\ \A r \in Rates, b \in BOOLEAN : posted[r][b] < MaxPosted
  /\ posted' = [posted EXCEPT ![selected][Asked] = @ + 1]
  /\ UNCHANGED <<feed, socket, page, history>>

\* A command leaves the network, in any order: it is delivered or lost.
Leave(r, b) ==
  /\ posted[r][b] > 0
  /\ posted' = [posted EXCEPT ![r][b] = @ - 1]
  /\ UNCHANGED <<feed, socket, page, history>>

Next ==
  \/ \E e \in Reports \cup {Foreign} : Publish(e)
  \/ Age \/ Open \/ Close
  \/ OnMessage \/ StartStopRate
  \/ \E r \in Rates : SetSelectedItem(r)
  \/ \E r \in Rates, b \in BOOLEAN : Leave(r, b)

Spec == Init /\ [][Next]_vars

\* The browser hands over what has arrived on an open socket.
FairSpec == Spec /\ WF_vars(OnMessage)

-----------------------------------------------------------------------------
\* Every variable has its type (the services' fields, the socket, the requests).
TypeOK ==
  /\ feed \in Seq(Reports \cup {Foreign})
  /\ socket \in {"connecting", "open", "closed"}
  /\ selected \in Rates
  /\ ask \in Reports
  /\ active \in [Rates -> {"unset", "on", "off"}]
  /\ chartData \in [1 .. Points -> Asks \cup {0}]
  /\ posted \in [Rates -> [BOOLEAN -> 0 .. MaxPosted]]
  /\ since \in Seq(Asks) /\ Len(since) <= Points
  /\ latest \in {<<>>} \cup {<<q>> : q \in Asks \cup {None}}

\* The chart holds the asks of the selected rate in the order they were shown,
\* none left out, none twice, none of the rate that was selected before, and
\* zeroes ahead of them (parseNewPoint, setSelectedItem).
ChartFaithful ==
  \A i \in 1 .. Points :
    chartData[Points + 1 - i] = IF i <= Len(since) THEN since[i] ELSE 0

\* A click on the button asks for the selected rate, and for the opposite of what
\* the last event said of it: clicking again before the command took effect
\* repeats the command and does not undo it.  Until an event has come the button
\* goes by what it showed when the rate was last selected (startStopRate).
AsksOpposite ==
  [][\A r \in Rates, b \in BOOLEAN : posted'[r][b] > posted[r][b] =>
       /\ r = selected
       /\ latest # <<>> => (b <=> latest = <<None>>)]_vars

\* While events keep coming that agree about the selected rate, its button comes to
\* show what they say and stays at that, whatever it showed for a rate selected
\* before or while it was not selected (ratesListener, isRateActive).
Agree(r, on) == \A i \in 1 .. Len(feed) : feed[i] # Foreign /\ (feed[i][r] # None <=> on)
ButtonSettles ==
  \A r \in Rates, on \in BOOLEAN :
    <>[](socket = "open" /\ selected = r /\ Agree(r, on)) /\ []<>(feed # <<>>)
      => <>[](active[r] = IF on THEN "on" ELSE "off")
=============================================================================
