------------------------------- MODULE Workshop -------------------------------
(***************************************************************************)
(* The workshop as it runs: the rate generator (Manager), one synchronous  *)
(* relay (RelayLoop) and one web client (RateClient), joined by the queue, *)
(* the event store and the commands.                                       *)
(*                                                                         *)
(* A message is a report, what it shows of each rate; the store is what    *)
(* the client has still to be sent of it.  Besides the client's commands   *)
(* there is the optional start command every relay has in its code         *)
(* (activeAllRates): nothing in its loop depends on the answer, and where  *)
(* a failed one ends the program, that is a setup that fails.              *)
(***************************************************************************)
EXTENDS Naturals, Sequences, FiniteSets

CONSTANTS
  NRates, Senders, Handlers, MaxQueue, MaxCommands, MayCrash,  \* of Manager
  Languages, MaxBatch, MaxFailures,                            \* of RelayLoop
  Foreign, MaxFeed, MaxPosted                                  \* of RateClient

ASSUME GeneratorAssumption ==
  NRates \in Nat \ {0} /\ IsFiniteSet(Senders) /\ MaxQueue \in Nat /\ MaxCommands \in Nat
ASSUME RelayAssumption ==
  Languages \subseteq {"csharp", "go", "java", "python"} /\ MaxBatch \in Nat \ {0} /\ MaxFailures \in Nat
ASSUME ClientAssumption ==
  MaxFeed \in Nat /\ MaxPosted \in Nat /\ Foreign \notin [1 .. NRates -> {0, 1}]

VARIABLES
  settings, main, responder, loaded, isActive,       \* of Manager
  sender, handler, commands, settled,
  queue,                                             \* of Manager and RelayLoop
  language, pc, batch, exits, caught,                \* of RelayLoop
  feed,                                              \* RelayLoop's store, RateClient's feed
  socket, selected, ask, active, chartData, posted,  \* of RateClient
  since, latest

M == INSTANCE Manager

Rates == M!Rates
Reports == [Rates -> BOOLEAN]

\* Messages are not numbered here, and nobody keeps account of lost ones.
R == INSTANCE RelayLoop WITH published <- 0, MaxPublished <- 0,
                             store <- feed, excused <- [Rates -> BOOLEAN]

\* A report as the client takes it: an ask, always the same, or none.
Event(report) == [r \in Rates |-> IF report[r] THEN 1 ELSE 0]
Events == [i \in 1 .. Len(feed) |-> Event(feed[i])]

C == INSTANCE RateClient WITH feed <- Events, Asks <- {1}, Points <- 1

generator == <<settings, main, responder, loaded, isActive, sender, handler, commands, settled>>
relay == <<language, pc, batch, exits, caught>>
client == <<socket, selected, ask, active, chartData, posted, since, latest>>
vars == <<generator, queue, relay, feed, client>>

\* deploy/kubemq.yaml gives every setting; AutoStart may be edited.
Init ==
  /\ M!Init
  /\ settings.named /\ settings.RateInterval = "positive"
  /\ settings.AutoStart \in {"true", "false"}
  /\ language \in Languages /\ pc = "setup" /\ batch = <<>> /\ exits = 0 /\ caught = 0
  /\ feed = <<>>
  /\ C!Init

-----------------------------------------------------------------------------
(* One of the programs moves by itself.                                    *)

Generator ==
  /\ \/ M!Main \/ M!Subscribe \/ M!Crash \/ M!Restart
     \/ \E s \in Senders : M!Elapsed(s) \/ M!ReadRate(s) \/ M!SendReport(s)
     \/ \E h \in Handlers : M!Handle(h)
  /\ UNCHANGED <<relay, feed, client>>

\* The store holds back MaxFeed events for the client.
Relay ==
  /\ R!Program \/ R!Rerun
  /\ Len(feed') <= MaxFeed
  /\ UNCHANGED <<generator, client>>

\* A mistake for the mutation runs: an event is lost on the open socket.
OnMessageMissed ==
  /\ feed # <<>>
  /\ feed' = Tail(feed)
  /\ C!OnMessage \/ UNCHANGED client
  /\ UNCHANGED <<generator, queue, relay>>

\* The client is shown, or misses, the oldest event.
OnMessage ==
  /\ feed # <<>>
  /\ feed' = Tail(feed)
  /\ C!Age \/ C!OnMessage
  /\ UNCHANGED <<generator, queue, relay>>

Page ==
  /\ UNCHANGED <<generator, queue, relay, feed>>
  /\ C!Open \/ C!Close \/ C!StartStopRate \/ \E r \in Rates : C!SetSelectedItem(r)

-----------------------------------------------------------------------------
(* Commands.                                                               *)

\* A command of the client reaches the handler.
Delivered(r, b, h) ==
  /\ UNCHANGED <<queue, relay, feed>>
  /\ M!Receive(h) /\ handler'[h] = M!Command("set", r, b)
  /\ C!Leave(r, b)

\* It finds nobody subscribed, or is lost.
NotDelivered(r, b) ==
  /\ UNCHANGED <<generator, queue, relay, feed>>
  /\ C!Leave(r, b)

\* A start command of a relay reaches the handler.  Every run of a program sends
\* one before its loop, once the call is uncommented; by now the relay may be in
\* its loop, having given up waiting (or, in Node.js, not waiting), or have ended.
StartDelivered(h) ==
  /\ UNCHANGED <<queue, relay, feed, client>>
  /\ M!Receive(h) /\ handler'[h] = M!Command("start", 1, TRUE)

Commands ==
  \/ \E r \in Rates, b \in BOOLEAN :
       NotDelivered(r, b) \/ \E h \in Handlers : Delivered(r, b, h)
  \/ \E h \in Handlers : StartDelivered(h)

Next == Generator \/ Relay \/ OnMessage \/ Page \/ Commands

Spec == Init /\ [][Next]_vars

-----------------------------------------------------------------------------
\* Every variable has its type, in each of the three programs.
TypeOK ==
  /\ M!TypeOK /\ C!TypeOK
  /\ feed \in Seq(Reports) /\ batch \in Seq(Reports)
  /\ language \in Languages
  /\ pc \in {"setup", "broken", "receive", "send", "exited"}
  /\ pc = "send" <=> batch # <<>>
  /\ exits \in Nat /\ caught \in Nat /\ exits + caught <= MaxFailures

\* The generator meets here the surroundings Manager assumes: the relay takes the
\* oldest reports, and commands reach it as the SDK delivers them, so that what
\* is shown of Manager holds in the workshop.
GeneratorImplements == M!Spec

\* So does the client: what a relay stores is all that is published to it, its events
\* are never foreign, and its commands leave the network one at a time, delivered or
\* not (ratesListener, startStopRate).
ClientImplements == C!Spec

\* What was reported of a rate, from what the client shows to its flag: the reports
\* under way, what the generator has read for the next one, and the flag.
Line == feed \o batch \o queue
Of(r, reports) == [i \in 1 .. Len(reports) |-> reports[i][r]]
Held(r, s) == IF r <= Len(sender[s].ratesList) THEN <<sender[s].ratesList[r]>> ELSE <<>>
Trail(r, s) == <<ask[r] # 0>> \o Of(r, Line) \o Held(r, s) \o <<isActive[r]>>
View(r, s) == INSTANCE LateView WITH trail <- Trail(r, s)

\* When sends do not overlap, what the client shows of a rate follows its flag:
\* late, with states left out, but never back to an earlier one, whatever is
\* purged, lost, retried, killed or restarted on the way: View(r, s)!Spec, for each rate.
Begins == \A r \in Rates, s \in Senders : View(r, s)!Init
Follows(r, s) == UNCHANGED Trail(r, s) \/ View(r, s)!Next
AllFollow == \A r \in Rates, s \in Senders : Follows(r, s)
FollowsFlags == Begins /\ [][AllFollow]_vars
=============================================================================
