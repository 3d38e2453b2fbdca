# Verification of the KubeMQ workshop

This directory holds TLA+ models of the programs of the workshop, the TLC
configurations that check them on small instances, and TLAPS proofs of their main
properties for every value of the constants. Paths such as `Manager.cs:286` are
relative to `src/workshop-rate-generator/rate_generate/`; `Program.cs`, `main.go`,
`App.java`, `main.py` and `index.js` are the five relays.

## The system

    web client --set/start commands--> rate generator --reports--> queue "rates-Queue"
        ^                              (also purges the queue)            |
        |                                                                 v
        +---- subscription ---- event store "ratesstore" <---events---- relay

The **rate generator** simulates seven instruments and puts a report of all of them
on a queue, periodically. A **relay**, the program a workshop attendee writes,
exists in five languages: it takes reports from the queue and sends each to the event
store. The **web client** shows what the store delivers and sends commands that
switch an instrument on or off. The KubeMQ **broker** carries all three. A relay is
run by hand; the generator and the client are deployed with `restartPolicy: Always`
(`src/deploy/kubemq.yaml`).

### Inventory

| Component | State | Operations | What is hard | What makes it correct |
|---|---|---|---|---|
| Instrument, `Rates.cs` | `buy`, `sell`, `isActive`, a timer | construction, `OnRateChangeEvent`, `GetDoubleRandomNumber` | periodic callbacks may overlap on unlocked doubles; a draw that leaves the band is redone once, unchecked; one `Random` for all threads | quotes stay from 1 to 2 and move by small steps |
| Rate generator, `Manager.cs` | settings, `rateCollection`, timer, queue client, subscription | constructor, `OnRateSend`, command handler, exit | three kinds of threads without a lock; overlapping sends; flag assigned, then purge that may fail; commands before the collection exists; restarts with old reports in the queue | old state is not shown after a purge, or only so often; answers are true; readers converge |
| Relays in C#, Go, Java, Python | the batch in hand, the position in it | setup, receive, send, error paths | receiving is destructive; each language fails in another way; restarts by hand | stored once and in order; loss bounded per failure; nothing stays in the queue |
| Relay in Node.js | sends under way, whether the loop goes on | `myLoop`, completion of sends | sends of several rounds at once, in any order; the loop stops at the first error; unhandled rejections | stored once; loss bounded per stop and by what an end of the process cuts off; every send ends |
| Web client, `main.510a4d226fafae0eb7f5.js` | socket, list of rates with ask and `Active`, selected rate, chart | `connect`, `ratesListener`, `setSelectedItem`, `startStopRate` | only the selected rate's `Active` follows the events; clicks between events; commands nobody waits for; a socket that opens late, closes for good, or is ended by an event that does not parse | the chart is the selected rate's; the button asks for the opposite of what was last said, and comes to show the truth; the view never goes back |
| Entry and injection, `Program.cs`, `Startup.cs` of the generator | none | build, wait | none | - |
| Broker, deployment | queue, store, subscriptions | send, receive, purge, deliver | calls that fail before or after their effect | external |
| kubemq-go SDK and other vendored packages | connections, streams | - | - | third party |

Interactions: generator and relay share the queue (send and purge against receive);
relay and client share the store; client and relays send commands to the generator's
handler, which runs on threads of the SDK while the constructor may still be at work.
What makes the whole correct shows only in the composition: reports pass three hand-overs
and a purge reaches just the first of them, yet what the client shows must never go back.

## Modules

| Module | Models | EXTENDS / INSTANCE |
|---|---|---|
| `Rates` | one instrument | - |
| `Manager` | the rate generator with its queue | - |
| `FifoAtMostOnce` | abstract: a relay stores messages in order, each at most once | - |
| `RelayLoop` | the synchronous relays (C#, Go, Java, Python) | `Abstract == INSTANCE FifoAtMostOnce` |
| `AtMostOnce` | abstract: each message stored at most once, in any order | - |
| `NodeRelay` | the Node.js relay | `Abstract == INSTANCE AtMostOnce` |
| `RateClient` | the web client | - |
| `Workshop` | generator, a synchronous relay and the client, joined by queue, store and commands, with the relays' start command | `INSTANCE Manager`, `INSTANCE RelayLoop WITH store <- feed, ...`, `INSTANCE RateClient WITH feed <- Events, ...` |
| `ViewChanges` | `Workshop` with two counts beside it: how often the client changed its view of a rate, and how often the rate changed | EXTENDS `Workshop` |
| `LateView` | abstract: a view that is late, may skip, and never goes back | refined by `Workshop`, `View(r, s) == INSTANCE LateView WITH trail <- Trail(r, s)` |
| `MC...` | instances for TLC | the module they are named after |
| `MessageLemmas` | lemmas on sequences and on counting lost messages | theorem modules of TLAPS |
| `...Proofs` | theorems and proofs | the module they are named after, `MessageLemmas`, TLAPS; `WorkshopProofs` takes the theorems of `ManagerProofs` and `RateClientProofs` as instances, `ViewChangesProofs` extends it |

### Rates

`price` is the pair of fields `buy` and `sell`. Doubles are points of a grid in which
0.05 is `Half` units; only the distance from 1 to 2 matters, and `BandAssumption`
(the band holds four half-steps, twenty in the code) is all the proofs use. `cb[c]` is
a callback: the next thing it does and the arguments it has read. `NextDouble()` is any
value of the range, its lower end included and its upper end excluded (`Draws`); this also
covers a `Random` that unlocked use has broken and that returns 0 from then on.
`OnRateChangeEvent` reads its field twice for the two arguments, and another callback may
write in between; `torn` counts the calls this happened to (a compiler that makes one
load of the two leaves the behaviours with none). Without them the quotes stay in the band
(`WithinBounds`); each of them takes a quote 0.05 under 1 at most (`SinksByTornReads`); over 2 the
code has no such bound, since the range of a torn draw is the distance of its two reads.

### Manager

| Model | Code |
|---|---|
| `settings`, `GetAutoStart`, `GetRateInterval`, `ConfigLoads` | the getters, `Manager.cs:93-198`, by what they return for a usable, negative, unusable or missing value (`appsettings.json` is optional, `Startup.cs:30`) |
| `main`: config, connect, purge, load, timer, running, exited | the constructor, `Manager.cs:34-88`, one step per call that can fail or that others can observe |
| `responder` | the task of `Manager.cs:49` |
| `loaded`, `isActive` | `rateCollection` and its flags |
| `sender[s]` with `Elapsed`, `ReadRate`, `SendReport` | `OnRateSend`: one step per rate read, one for the send |
| `handler[h]` with `Receive`, `SetRate`, `PurgeAfterSet`, `RejectSet`, `StartRate`, `StartTooEarly`, `Respond` | the command handler, `Manager.cs:272-332` |
| `Purged`, `NotPurged` | `AckAllQueueMessagesResponse`; its error result is ignored by both callers, and an exception may follow its effect |
| `Exit`, `Crash`, `Restart` | `Environment.Exit`, an exception nobody catches, a kill; the deployment |
| `settled` | history, not in the code: a purge took place since the rate last changed |

A report is the list of flags its reader can tell (an ask and a bid, or none); the
quotes are `Rates`' subject. `Consume` stands for the relay.

### RelayLoop and FifoAtMostOnce

One module for four programs, since they are one loop that differs only in its reaction to
failures: `Policy` records, per language, what a failed setup, an error reply, a receive that
throws and a send that throws lead to. `Exit` ends the program (`log.Fatal`, an exception out of
`main`), `Catch` is C#'s `catch` around the batch, which drops the rest of it, and Java skips
the message. A C# setup fails in two ways: the channel's constructor (`Program.cs:28-34`,
outside any `try`) ends the program, the queue's leaves a null object on which the loop spins
for ever (`pc = "broken"`). `Rerun` starts any of `Languages` on the same queue and store, as
the workshop's attendees do. A message is its number. `excused`, `exits` and `caught` are
history: what was lost by no fault of the loop, and how often it failed.

### NodeRelay and AtMostOnce

The Node.js program calls `myLoop` again without waiting for its sends, so sends are a
set (`inFlight`) of which any may end next (`Arrive`, `Drop`), also after the
loop has stopped. `process` is "looping" while a call of `myLoop` is pending, "stopped"
after an error, for good (`index.js:35`), and "ended". `ProcessEnds` is a rejection nobody handles
(`index.js:28`, where the version of Node.js makes it fatal) or somebody who stops the program: any
part of the sends under way may die with it, and `exposed` counts them, so that `LossBounded`
names what each kind of failure costs instead of excusing it.

### RateClient

The bundle is minified; its application code is a few services, which the module follows.
An event is the ask it gives each rate (`None`: neither ask nor bid), or `Foreign`, one
whose body does not parse. Where `Active` was never set it is `"unset"`, which the button
treats as not active (`Asked`). `Age` and `Open` are the subscription, which begins
thirty seconds back, so that what was sent before the socket opened may or may not be shown;
`Close` is final, since nothing connects again. `posted` are commands under way: the
page does not wait for them, and `Leave` takes them in any order. `since` and `latest`
are history: what events said of the selected rate since it was selected.

### Workshop and LateView

The three programs are instances over shared variables: the queue belongs to `Manager` and
`RelayLoop`, the store of the relay (`feed`) is the feed of the client, and the client's
commands and the optional start command (`activeAllRates` in each relay) become
`Manager`'s `Receive`. Messages are the reports themselves, and an ask is 1 or none.
Every run of a relay may send a start command, and it may reach the generator late: in
Node.js nobody waits for the answer, and elsewhere whoever waited may have given up or ended. So
`StartDelivered` is possible at any time, and often. Nothing in a relay's loop depends on the answer;
where a failed start ends the program (Go, Java), that is a setup that fails.
The generator may be killed at any moment (`MayCrash`), besides ending by itself, and the
deployment restarts it: it then takes its flags from `AutoStart` again, whatever was commanded.

`LateView` is the promise to whoever reads at the end: a *trail* begins with what is shown, ends
with what is the case, and between them are the states still to be shown, in order.
`Trail(r, s)` is that for rate `r`: the client's ask, what the store, the batch and the queue
say of the rate, what sender `s` has read into its next report, and the flag. A switch may cut the trail
(a purge, an exit), a report lengthens it, the client's event shortens it from the front, and whatever
is lost is a stretch in the middle. `GeneratorImplements` is `Manager!Spec` as a property of the
composition: relay and commands are surroundings `Manager` allows, so what holds of it holds here.
`ClientImplements` is the same for `RateClient`.

With several senders the view may go back, since a report read earlier can be sent later. How
often is what `ViewChanges` counts: `NoFlicker` allows 2n - 1 changes of the view for each
change of a rate, with n senders. No smaller number would do: when all n hold the old state, one
sends it and then a fresh report, which changes the view, and each of the n - 1 others can take
the view back and have the next fresh report correct it. `shows` and `switches` are history;
only the bound `MaxSwitches` restricts the steps. `workshop_overlap` checks it with two senders,
where `FollowsFlags` fails and three changes of the view for one of the rate do occur; the
theorem is for every n.

## Checks

| Run | Instance | Distinct states | What it shows |
|---|---|---|---|
| `rates` | 2 overlapping callbacks, band of 8, `Half` 2, 2 torn calls | 520 thousand | `WithinBounds` up to the first torn call, `SinksByTornReads` after it, `SmallSteps` (down 0.05 at most, up less than 0.1) always |
| `manager_safety` | 2 rates, 2 senders, 2 handlers, queue of 2, 2 commands, kills | 1.7 million | `StaleBounded`, `NoFlipBack`, `NoNewStale` |
| `manager_live` | 2 rates, 2 senders, 1 handler, queue of 2, 2 commands, kills | 430 thousand | `AppliedBeforeOK`, `Converges`, `ReadersAreTold` |
| `manager_early_start`, `manager_failed`, `manager_interval` | 1 rate, 1 thread of each kind | - | findings, below |
| `relay_loop` | 4 languages, batches of up to 3, 6 messages, 2 failures | 43 thousand | `LossBounded`, `OthersSendEach`, `Implements`, `Drains` |
| `relay_abandon` | C#, the same bounds | - | finding, below |
| `node_relay` | batches of up to 3, 5 messages, 2 stops or ends of the process | 131 thousand | `Implements`, `LossBounded`, `Drains` |
| `rate_client` | 2 rates, 2 asks, chart of 2 points, 1 event waiting, 1 command of a kind under way | 28 thousand | `ChartFaithful`, `AsksOpposite`, `ButtonSettles` |
| `workshop` | 1 rate, 1 sender, 1 handler, Java, queue and batches of 2, store of 1, 1 command, 1 failure, kills | 612 thousand | `GeneratorImplements`, `ClientImplements`, `FollowsFlags` |
| `workshop_overlap` | 1 rate, 2 senders, 1 handler, Java, queue of 2, batches of 1, store of 1, 1 command, kills, 2 changes of the rate, sends that fail but no exit of the relay | 387 thousand | `NoFlicker` |

Why the bounds are enough. Two rates distinguish the rate a command names from the others; two
senders are the fewest that overlap, and a queue of two lets a stale report stand
before and behind a fresh one and also be refused. Two commands let a rate be switched,
switched back, and another handler interfere. In the relays six messages are two full batches,
so that a failure can cut a batch at each place and a restart be followed by another failure. In
the client two rates distinguish the selected one, two asks let a chart be in the wrong order,
two points shift. The workshop's instance has a report at each place at once: two in the queue,
two in the batch, one in the store, one being built. It has one command, which is a set or a
start; a kill switches the rate as well. It runs Java, which both skips and ends. Longer
sequences of commands, more rates and other languages are covered by the theorems, which set no
bounds. The unbounded counters are bounded by `MaxPublished`, `MaxFailures`, `MaxStops`,
`MaxCommands`, `MaxTorn`, `MaxSwitches`, `MaxFeed`, `MaxPosted` and `MaxQueue` (also the
capacity at which the broker refuses). `manager_safety`, `workshop_overlap` and `rates` use the
symmetry of the threads: no property names one.

Fairness. `Manager!Fairness`: a callback or a handler that has started goes on, and the relay
keeps polling. Nothing makes the timer fire, a purge succeed, a report arrive or the process
survive; `Converges` holds without these: once commands have ended the queue comes to hold
nothing stale. That nothing stale is there would also be true of a queue that stays empty, so
`ReadersAreTold` says the rest, and assumes what it needs in its own words (`ReportsGetThrough`:
the timer goes on, and a send that may succeed again and again sometimes does; the process stays
up in the end): reports of the flags as they are keep being queued. The relays: the running
program's next setup, receive and send happen, as a loop without blocking calls other than these
does; failures are bounded, a restart is not promised, and `Drains` therefore excepts a program
that has ended, and the two states in which the code itself stops taking messages for good: C#
without a queue object, the Node.js loop after an error. The client: the browser delivers an
event that arrived on an open socket (`WF_vars(OnMessage)`); nothing makes an event come, a
socket open or a user click, and `ButtonSettles` assumes what it needs of these. The workshop
has safety properties only. Deadlock is checked in every run.

Each property of a passing run has a mutant in PROJECT.json: a plausible mistake in
the code, kept as an operator next to the definition it replaces, with which the same
run must fail.

### Findings

* `StartIsAnswered`: commands are subscribed to (`Manager.cs:49`) before the
  collection exists (`Manager.cs:76`), and the start branch has no `try`. A start
  command in between throws out of the handler and starts nothing (`README.md:46`).
* `FailedChangesNothing`: a set command whose purge throws (`Manager.cs:287`) is
  answered `Failed`, and logged as "Failed to parse request", although it is in force.
* `IntervalHasDefault`: only negative intervals are replaced (`Manager.cs:189`); an
  unparsable or zero one makes the timer's constructor throw, and the deployment
  restarts the process for ever.
* `EachIsSent`: a send that throws makes the C# relay drop the rest of the batch
  (`Program.cs:72`), which is no longer in the queue.

Seen while modelling and left without a run: `GetAutoStart` returns false where its message and
`README.md:64` say true. Two overlapping callbacks one of which writes between the other's two
reads take `Rates` out of the band of `Rates.cs:55` (hence `torn`). The answer to a start
command is no promise for long: with `AutoStart` false a restart forgets it (`Manager.cs:80`),
which is why there is no property of the workshop that a started rate stays on. The client's
header shows the Stop button for a rate whose `Active` was never set, while the click asks to
start it (`Asked`); and a rate selected later shows the `Active` it had when it was last
selected until the next event (`ButtonSettles` says how long).

## Proofs

All proofs are checked by TLAPS with no assumption but the named `ASSUME`s on the
constants, which TLC evaluates in the runs, and what a theorem states itself.

| Theorem | Statement | Inductive argument |
|---|---|---|
| `RatesProofs!TypeCorrect` | `Spec => []TypeOK` | draws of integers are integers |
| `RatesProofs!BoundsHold` | `Spec => []WithinBounds`, any number of callbacks | while no reads were torn, a callback about to write holds arguments exactly 0.1 apart around a value of the band; `GetDoubleRandomNumber` of such arguments stays inside |
| `RatesProofs!SinkingIsBounded` | `Spec => []SinksByTornReads`, any number of callbacks and of torn reads | `Above`: a callback about to write has read a quote above the floor twice, or its first argument is above it, since its torn call has lowered the floor; no draw falls under its first argument (`DrawAbove`) |
| `RatesProofs!StepsAreSmall` | `Spec => SmallSteps` | a draw from arguments 0.1 apart, corrected or not, is near the value between them |
| `ManagerProofs!TypeCorrect` | `Spec => []TypeOK` | - |
| `ManagerProofs!StaleBound` | `Spec => []StaleBounded`, any number of threads | `Quiet`: no callback runs outside the running phase, and a queue purged before the rates are loaded stays empty. After a purge only what a callback holds is stale; sending moves it into the queue, and no other step adds to either |
| `ManagerProofs!NothingGetsStale` | `Spec => NoNewStale`, any number of threads | with `Quiet`, a step that leaves a flag alone takes reports, or moves one from its callback into the queue (`NoneMore`), or empties the queue |
| `ManagerProofs!NoFlip` | `Spec => []NoFlipBack`, any number of threads | with `Quiet`, it is inductive: a report of the new state enters the queue last, so that only what callbacks hold (`StillToSee`) can follow it, and its own callback holds nothing any more |
| `ManagerProofs!AnswersHold` | `Spec => []AppliedBeforeOK` for one handler | `InForce`: where the handler is determines which flags it has set |
| `RelayLoopProofs!TypeCorrect` | `Spec => []TypeOK`, every set of languages | - |
| `RelayLoopProofs!ImplementsFifo` | `Spec => Abstract!Spec`, every language, batch size and number of failures | store, batch and queue, read one after the other, are one increasing sequence |
| `RelayLoopProofs!OthersLoseNoOther` | `Spec => []OthersSendEach`, every batch size and number of failures | until it ends, no language but C# catches an exception that drops the rest of a batch (`OthersCatchNone`), and no other step lets a message go missing (`StepLoses`) |
| `RelayLoopProofs!LossIsBounded` | `Spec => []LossBounded` | what goes missing in a step is part of a batch of at most `MaxBatch`, one of which is excused or stored, and only a failure drops it |
| `NodeRelayProofs!TypeCorrect` | `Spec => []TypeOK` | - |
| `NodeRelayProofs!ImplementsAtMostOnce` | `Spec => Abstract!Spec`, every batch size and bound | a message is at one place: once in the queue, or under way, or stored |
| `NodeRelayProofs!LossIsBounded` | `Spec => []LossBounded` | as for the other relays, for the messages not yet handed to a send; an end of the process adds what was under way |
| `RateClientProofs!TypeCorrect` | `Spec => []TypeOK`, any number of rates and points | - |
| `RateClientProofs!ChartIsFaithful` | `Spec => []ChartFaithful` | pushing and dropping one point shifts the chart as it shifts the list of asks |
| `RateClientProofs!ButtonAsksOpposite` | `Spec => AsksOpposite` | `ButtonFollows`: once an event has come, `Active` of the selected rate is what it said |
| `WorkshopProofs!GeneratorRuns` | `Spec => GeneratorImplements`, all constants, with kills | every step of the composition is one of `Manager` or leaves its variables alone; a receive of the relay is its `Consume` |
| `WorkshopProofs!WorkshopStaleBound`, `WorkshopNoFlip`, `WorkshopAnswers` | `Spec => []M!StaleBounded`, and so on | the theorems of `ManagerProofs`, by `GeneratorRuns` |
| `WorkshopProofs!TypeCorrect` | `Spec => []TypeOK` | the steps of generator and client preserve their types as they do by themselves; those of the relay keep the batch empty outside sending |
| `WorkshopProofs!ClientRuns`, `WorkshopButton` | `Spec => ClientImplements`; `Spec => C!AsksOpposite` | what the relay stores is appended to the feed, event by event, and is never `Foreign` |
| `ViewChangesProofs!FlickerBound` | `CountedSpec => []NoFlicker`, any number of senders but none | `Paid`: what the client changed and what is still owed (`Spent`) was paid by changes of the rate, 2n - 1 for each. Owed are the changes along the reports under way and, for each stale report being built, two (it takes the view back and is corrected). Where the last report under way is stale, it is one more for its correction, or one less while every sender holds a stale one, since the next of them changes nothing |
| `WorkshopProofs!ViewFollows` | `Spec => FollowsFlags` for one sender, all other constants free | `Flow`: types, `Manager`'s `Quiet`, and an empty batch outside sending. A step of the relay forgets a stretch of the reports under way or none (`Forgets`); each kind of step then moves the trail as `LateView` allows (`TrailForgets`, `TrailSwitches`, `TrailPurged`, `TrailReads`, `TrailSends`, `TrailShows`) |

The invariants are needed because none of the properties is inductive: that no message
is stored twice, for example, follows only from where the messages not yet stored are.

`ViewFollows` needs one sender: with two, a report read earlier may be sent later, which is what
`StaleBounded` bounds in the queue and `FlickerBound` at the other end. `FlickerBound` assumes
that there is a sender: without one nothing is reported. Both theorems also rest on the relay
being a synchronous one; the events of the Node.js relay may overtake each other. The arithmetic
of `FlickerBound` is in lemmas on how often a sequence changes (`ChangesOfJoin`, `EndsDiffer`,
`ForgettingSaves`): dropping a stretch of it never makes it change more often. They need
counting, not induction.

Only model-checked: `Converges`, `ReadersAreTold`, `Drains` and `ButtonSettles` (liveness under
fairness is out of the prover's reach), and the findings. Every invariant and every action
property of a passing run is also a theorem, and so is every refinement. No module a theorem
rests on declares a RECURSIVE operator, and nothing proved needs induction over data.

## Not modelled

* The client's drawing, styling and routing, the libraries in its bundle, and the second
  build of it (`main.7e9de024614e6a92c128.js`), which `index.html` does not load.
* The Node.js relay and several clients or relays at once within `Workshop`.
* The broker's cluster, persistence and delivery, and the vendored Go packages: third
  party. The models use them as the programs do.
* `Program.cs` and `Startup.cs` of the generator, logging, texts and formats.
* Pauses and time: a timer may fire at any moment.

## What could follow

The components are modelled. Extensions that would say something new:

1. `Workshop` with `NodeRelay`: a bound on how far its overlapping sends can take the view
   back, in the place of `FollowsFlags`, along the lines of `FlickerBound`.
2. Liveness of the whole: once commands have ended and nothing fails any more, the client
   comes to show the flags (`Converges`, `Drains` and `ButtonSettles` are its parts).
