------------------------------- MODULE Manager -------------------------------
(***************************************************************************)
(* The rate generator (Manager.cs): one process that loads its settings,   *)
(* subscribes to commands, purges the queue, and then, on a timer, sends   *)
(* reports of all its rates to the queue.  Three kinds of threads share    *)
(* the process without a lock: the main thread (the constructor), the pool *)
(* threads that run OnRateSend (a periodic timer: slow sends overlap), and *)
(* the threads on which the SDK calls the command handler.                 *)
(*                                                                         *)
(* A report is what it shows of each rate, TRUE for a rate with an ask and *)
(* a bid and FALSE for one with none.  The queue and its operations are    *)
(* the broker's (external); the deployment restarts a process that exits.  *)
(***************************************************************************)
EXTENDS Naturals, Sequences, FiniteSets

CONSTANTS
  NRates,       \* rates in rateCollection, in the order of its enumeration
  Senders,      \* pool threads OnRateSend may be running on
  Handlers,     \* threads the command handler may be running on
  MaxQueue,     \* reports the queue holds before the broker refuses one
  MaxCommands,  \* bound: commands issued in a behaviour
  MayCrash      \* whether the process may also be killed at any time

ASSUME NRatesAssumption == NRates \in Nat \ {0}
ASSUME SendersAssumption == IsFiniteSet(Senders)
ASSUME BoundsAssumption == MaxQueue \in Nat /\ MaxCommands \in Nat

Rates == 1 .. NRates
Unknown == 0  \* a rate name that is no key, or a body that does not parse

VARIABLES
  settings,   \* the configuration of the process: the same after a restart
  main,       \* where the constructor is; "running" once it has returned
  responder,  \* the task that subscribes to commands
  loaded,     \* rateCollection is assigned
  isActive,   \* isActive of each rate, once loaded
  sender,     \* sender[s]: an OnRateSend callback and the report it is building
  handler,    \* handler[h]: the command handler h is executing
  queue,      \* the broker's queue
  commands,   \* number of commands issued
  settled     \* history: the queue was purged since the rate last changed

startup == <<settings, main, responder>>
rateCollection == <<loaded, isActive, settled>>
process == <<startup, rateCollection, sender, handler>>
vars == <<process, queue, commands>>

IdleSender == [busy |-> FALSE, ratesList |-> <<>>]
Command(pc, rate, to) == [pc |-> pc, rate |-> rate, to |-> to]
IdleHandler == Command("idle", Unknown, FALSE)

\* bool.TryParse leaves FALSE when it fails; int.TryParse leaves 0, and only a
\* negative value is replaced.  "other" stands for any text that does not parse
\* (and for 0).  Settings come from the environment or, if that file is there,
\* from appsettings.json; one that neither gives makes GetRateInterval throw.
GetAutoStart == settings.AutoStart = "true"
GetRateInterval == CASE settings.RateInterval = "positive" -> 1000
                     [] settings.RateInterval = "negative" -> 3000
                     [] OTHER -> 0
ConfigLoads == settings.named /\ settings.RateInterval # "missing"

Settings == [named : BOOLEAN,  \* queue, client, address and channel all given
             AutoStart : {"true", "false", "other"},
             RateInterval : {"positive", "negative", "other", "missing"}]

Init ==
  /\ settings \in Settings
  /\ main = "config"
  /\ responder = "off"
  /\ loaded = FALSE
  /\ isActive = [r \in Rates |-> FALSE]
  /\ sender = [s \in Senders |-> IdleSender]
  /\ handler = [h \in Handlers |-> IdleHandler]
  /\ queue = <<>>
  /\ commands = 0
  /\ settled = [r \in Rates |-> FALSE]

-----------------------------------------------------------------------------
(* The process ends, and with it all its threads; what it queued stays.    *)
Exit ==
  /\ main' = "exited"
  /\ responder' = "off"
  /\ loaded' = FALSE
  /\ isActive' = [r \in Rates |-> FALSE]
  /\ sender' = [s \in Senders |-> IdleSender]
  /\ handler' = [h \in Handlers |-> IdleHandler]
  /\ settled' = [r \in Rates |-> FALSE]
  /\ UNCHANGED <<settings, commands>>

Crash == MayCrash /\ main # "exited" /\ Exit /\ UNCHANGED queue

\* restartPolicy: Always
Restart ==
  /\ main = "exited"
  /\ main' = "config"
  /\ UNCHANGED <<rateCollection, settings, responder, sender, handler, queue, commands>>

(* AckAllQueueMessagesResponse, as its two callers see it: the queue is    *)
(* emptied, or the broker answers IsError (which neither caller looks at)  *)
(* and nothing is purged, or the call throws, before or after its effect.  *)
\* A mistake for the mutation runs: only the oldest report is acknowledged.
PurgedOldest ==
  /\ queue' = IF queue = <<>> THEN <<>> ELSE Tail(queue)
  /\ settled' = [r \in Rates |-> TRUE]
Purged ==
  /\ queue' = <<>>
  /\ settled' = [r \in Rates |-> TRUE]
NotPurged == UNCHANGED <<queue, settled>>

-----------------------------------------------------------------------------
(* The constructor.                                                        *)

\* The settings are read, then the subscribing task is started.
ReadConfig ==
  /\ main = "config"
  /\ ConfigLoads
  /\ main' = "connect"
  /\ responder' = "starting"
  /\ UNCHANGED <<rateCollection, settings, sender, handler, queue, commands>>

\* A getter throws: no one catches it.
RejectConfig == main = "config" /\ ~ConfigLoads /\ Exit /\ UNCHANGED queue

\* new Queue and Ping.
Connect ==
  /\ main = "connect"
  /\ main' = "purge"
  /\ UNCHANGED <<rateCollection, settings, responder, sender, handler, queue, commands>>

PurgeAtStart ==
  /\ main = "purge"
  /\ main' = "load"
  /\ Purged \/ NotPurged
  /\ UNCHANGED <<settings, responder, loaded, isActive, sender, handler, commands>>

\* The catch of the constructor: Environment.Exit(1).
FailToConnect ==
  /\ main \in {"connect", "purge"}
  /\ Exit
  /\ UNCHANGED queue \/ (main = "purge" /\ queue' = <<>>)

\* startSendingRates, up to the assignment of the whole collection.
LoadRates ==
  /\ main = "load"
  /\ main' = "timer"
  /\ loaded' = TRUE
  /\ isActive' = [r \in Rates |-> GetAutoStart]
  /\ UNCHANGED <<settings, responder, sender, handler, queue, commands, settled>>

SetRateTimer ==
  /\ main = "timer"
  /\ GetRateInterval > 0
  /\ main' = "running"
  /\ UNCHANGED <<rateCollection, settings, responder, sender, handler, queue, commands>>

\* new Timer(0) throws out of the constructor and ends the program.
RejectInterval == main = "timer" /\ GetRateInterval = 0 /\ Exit /\ UNCHANGED queue

Main == \/ ReadConfig \/ RejectConfig
        \/ Connect \/ PurgeAtStart \/ FailToConnect
        \/ LoadRates \/ SetRateTimer \/ RejectInterval

-----------------------------------------------------------------------------
(* OnRateSend: the rates are read one by one, then the report is sent.     *)

Elapsed(s) ==
  /\ main = "running"
  /\ ~sender[s].busy
  /\ sender' = [sender EXCEPT ![s] = [busy |-> TRUE, ratesList |-> <<>>]]
  /\ UNCHANGED <<startup, rateCollection, handler, queue, commands>>

\* A mistake for the mutation runs: the flag of the first rate is read for all.
ReadFirstRate(s) ==
  LET list == sender[s].ratesList IN
  /\ sender[s].busy
  /\ Len(list) < NRates
  /\ sender' = [sender EXCEPT ![s] =
                  [busy |-> TRUE, ratesList |-> Append(list, isActive[1])]]
  /\ UNCHANGED <<startup, rateCollection, handler, queue, commands>>

ReadRate(s) ==
  LET list == sender[s].ratesList IN
  /\ sender[s].busy
  /\ Len(list) < NRates
  /\ sender' = [sender EXCEPT ![s] =
                  [busy |-> TRUE, ratesList |-> Append(list, isActive[Len(list) + 1])]]
  /\ UNCHANGED <<startup, rateCollection, handler, queue, commands>>

\* A mistake for the mutation runs: the newest report overtakes the queue.
SendReportFirst(s) ==
  /\ sender[s].busy
  /\ Len(sender[s].ratesList) = NRates
  /\ \/ Len(queue) < MaxQueue /\ queue' = <<sender[s].ratesList>> \o queue
     \/ UNCHANGED queue
  /\ sender' = [sender EXCEPT ![s] = IdleSender]
  /\ UNCHANGED <<startup, rateCollection, handler, commands>>

\* A mistake for the mutation runs: a report whose send fails, or seems to, is
\* sent again.
SendReportAgain(s) ==
  /\ sender[s].busy
  /\ Len(sender[s].ratesList) = NRates
  /\ \/ Len(queue) < MaxQueue /\ queue' = Append(queue, sender[s].ratesList)
     \/ UNCHANGED queue
  /\ sender' \in {sender, [sender EXCEPT ![s] = IdleSender]}
  /\ UNCHANGED <<startup, rateCollection, handler, commands>>

\* The report is stored, or the send answers IsError or throws: either is
\* logged and the report is lost.
SendReport(s) ==
  /\ sender[s].busy
  /\ Len(sender[s].ratesList) = NRates
  /\ \/ Len(queue) < MaxQueue /\ queue' = Append(queue, sender[s].ratesList)
     \/ UNCHANGED queue
  /\ sender' = [sender EXCEPT ![s] = IdleSender]
  /\ UNCHANGED <<startup, rateCollection, handler, commands>>

\* A relay takes the oldest reports (external here, see RelayLoop, NodeRelay).
Consume ==
  /\ \E n \in 1 .. Len(queue) : queue' = SubSeq(queue, n + 1, Len(queue))
  /\ UNCHANGED <<process, commands>>

-----------------------------------------------------------------------------
(* SubscribeToRequests and its handler.                                    *)

\* An exception of the task is observed by no one: there will be no commands.
Subscribe ==
  /\ responder = "starting"
  /\ responder' \in {"on", "failed"}
  /\ UNCHANGED <<rateCollection, settings, main, sender, handler, queue, commands>>

\* A command arrives: of the web client (metadata "some_metadata2"), for a rate
\* it names, or of a relay (any other metadata), for all of them.
Receive(h) ==
  /\ responder = "on"
  /\ handler[h].pc = "idle"
  /\ commands < MaxCommands
  /\ commands' = commands + 1
  /\ \/ \E r \in Rates \cup {Unknown}, b \in BOOLEAN :
          handler' = [handler EXCEPT ![h] = Command("set", r, b)]
     \/ handler' = [handler EXCEPT ![h] = Command("start", 1, TRUE)]
  /\ UNCHANGED <<startup, rateCollection, sender, queue>>

\* Change the flag of a rate: reports that showed the old value are not stale
\* any more, those that showed the new one are not settled.
Switch(r, to) ==
  /\ isActive' = [isActive EXCEPT ![r] = to]
  /\ settled' = [settled EXCEPT ![r] = settled[r] /\ isActive[r] = to]

GoTo(h, pc) == handler' = [handler EXCEPT ![h] = Command(pc, handler[h].rate, handler[h].to)]

\* The body is parsed and the flag assigned...
SetRate(h) ==
  /\ handler[h].pc = "set"
  /\ loaded
  /\ handler[h].rate # Unknown
  /\ Switch(handler[h].rate, handler[h].to)
  /\ GoTo(h, "purge")
  /\ UNCHANGED <<startup, loaded, sender, queue, commands>>

\* A mistake for the mutation runs: the catch answers "o.k" too.
RejectSetOK(h) ==
  /\ handler[h].pc = "set"
  /\ ~loaded \/ handler[h].rate = Unknown
  /\ GoTo(h, "ok")
  /\ UNCHANGED <<startup, rateCollection, sender, queue, commands>>

\* ...or a null collection, an unknown name, a body that does not parse throws.
RejectSet(h) ==
  /\ handler[h].pc = "set"
  /\ ~loaded \/ handler[h].rate = Unknown
  /\ GoTo(h, "failed")
  /\ UNCHANGED <<startup, rateCollection, sender, queue, commands>>

\* The purge that follows the assignment; if it throws the answer is "Failed".
PurgeAfterSet(h) ==
  /\ handler[h].pc = "purge"
  /\ Purged \/ NotPurged
  /\ GoTo(h, "ok") \/ GoTo(h, "failed")
  /\ UNCHANGED <<startup, loaded, isActive, sender, commands>>

\* The other branch: every rate is started, one after the other, nothing is
\* purged, and nothing catches the exception of a null collection.

\* A mistake for the mutation runs: the loop runs once too often.
StartRateTooFar(h) ==
  LET r == handler[h].rate IN
  /\ handler[h].pc = "start"
  /\ loaded
  /\ Switch(r, TRUE)
  /\ handler' = [handler EXCEPT ![h] = IF r > NRates THEN Command("started", r, TRUE)
                                       ELSE Command("start", r + 1, TRUE)]
  /\ UNCHANGED <<startup, loaded, sender, queue, commands>>

StartRate(h) ==
  LET r == handler[h].rate IN
  /\ handler[h].pc = "start"
  /\ loaded
  /\ Switch(r, TRUE)
  /\ handler' = [handler EXCEPT ![h] = IF r = NRates THEN Command("started", r, TRUE)
                                       ELSE Command("start", r + 1, TRUE)]
  /\ UNCHANGED <<startup, loaded, sender, queue, commands>>

StartTooEarly(h) ==
  /\ handler[h].pc = "start"
  /\ ~loaded
  /\ GoTo(h, "unanswered")
  /\ UNCHANGED <<startup, rateCollection, sender, queue, commands>>

\* The handler returns its response to the SDK (or leaves by an exception).
Respond(h) ==
  /\ handler[h].pc \in {"ok", "failed", "started", "unanswered"}
  /\ handler' = [handler EXCEPT ![h] = IdleHandler]
  /\ UNCHANGED <<startup, rateCollection, sender, queue, commands>>

Handle(h) == \/ SetRate(h) \/ RejectSet(h) \/ PurgeAfterSet(h)
             \/ StartRate(h) \/ StartTooEarly(h) \/ Respond(h)

-----------------------------------------------------------------------------
Next ==
  \/ Main \/ Subscribe \/ Consume
  \/ Crash \/ Restart
  \/ \E s \in Senders : Elapsed(s) \/ ReadRate(s) \/ SendReport(s)
  \/ \E h \in Handlers : Receive(h) \/ Handle(h)

\* Threads that have work get to do it, and the relay keeps polling.
Fairness ==
  /\ WF_vars(Consume)
  /\ \A s \in Senders : WF_vars(ReadRate(s) \/ SendReport(s))
  /\ \A h \in Handlers : WF_vars(Handle(h))

Spec == Init /\ [][Next]_vars
FairSpec == Spec /\ Fairness

-----------------------------------------------------------------------------
(* Properties.                                                             *)

\* Every variable has its type (the fields of Manager, its threads' locals).
TypeOK ==
  /\ settings \in Settings
  /\ main \in {"config", "connect", "purge", "load", "timer", "running", "exited"}
  /\ responder \in {"off", "starting", "on", "failed"}
  /\ loaded \in BOOLEAN
  /\ isActive \in [Rates -> BOOLEAN]
  /\ settled \in [Rates -> BOOLEAN]
  /\ sender \in [Senders -> [busy : BOOLEAN, ratesList : Seq(BOOLEAN)]]
  /\ \A s \in Senders : Len(sender[s].ratesList) <= NRates
  /\ handler \in [Handlers -> [pc : {"idle", "set", "purge", "start", "started",
                                     "ok", "failed", "unanswered"},
                               rate : Rates \cup {Unknown}, to : BOOLEAN]]
  /\ queue \in Seq([Rates -> BOOLEAN])
  /\ commands \in 0 .. MaxCommands

Stale(r, report) == report[r] # isActive[r]

\* The stale reports about r in the queue, by position, and the callbacks that
\* have already read a value of r that is stale now.
StaleQueued(r) == {i \in 1 .. Len(queue) : Stale(r, queue[i])}
StaleHeld(r) == {s \in Senders : /\ r <= Len(sender[s].ratesList)
                                 /\ Stale(r, sender[s].ratesList)}

\* Once a purge has followed the last change of a rate, what the queue still
\* gives a reader about its old state is one report for each send that was in
\* flight at that moment, at most: the flag is assigned before the purge
\* (Manager.cs:286-287), and at startup the purge precedes the first report.
StaleBounded ==
  \A r \in Rates : loaded /\ settled[r] =>
    Cardinality(StaleQueued(r)) + Cardinality(StaleHeld(r)) <= Cardinality(Senders)

\* Only a change of a rate makes reports stale: whatever else happens, those queued
\* or being built that show its old state never become more, so that readers can come
\* to see the new one (Manager.cs:219-258 and 280-290).
NoNewStale ==
  [][\A r \in Rates : isActive'[r] = isActive[r] =>
       Cardinality(StaleQueued(r)') + Cardinality(StaleHeld(r)')
         <= Cardinality(StaleQueued(r)) + Cardinality(StaleHeld(r))]_vars

\* Where the queue gives a reader the new state of such a rate, the reports of the
\* old one it may still be given after that, queued or being built, are fewer than
\* the senders.  When sends do not overlap there is none: the queue never goes back
\* (Manager.cs:211-247 and 286-287).
NoFlipBack ==
  \A r \in Rates : loaded /\ settled[r] =>
    \A i \in 1 .. Len(queue) \ StaleQueued(r) :
      Cardinality({j \in StaleQueued(r) : i < j}) + Cardinality(StaleHeld(r))
        < Cardinality(Senders)

\* When commands are handled one at a time, "o.k" answers a command that is in
\* force, for the rate it names, and "started" a command after which every rate
\* is active (Manager.cs:288-296 and 320-328).
AppliedBeforeOK ==
  \A h \in Handlers :
    /\ handler[h].pc = "ok" => /\ handler[h].rate \in Rates
                               /\ isActive[handler[h].rate] = handler[h].to
    /\ handler[h].pc = "started" => \A r \in Rates : isActive[r]

\* Commands stop at some point (MaxCommands): from then on the queue comes to hold
\* nothing stale, although purges may have failed, reports may be lost and the
\* process may be killed (Manager.cs:219-258).
Converges ==
  <>[](loaded => \A i \in 1 .. Len(queue) : queue[i] = isActive)

\* The timer fires, and the broker does not refuse or lose every report.
ReportsGetThrough ==
  /\ WF_vars(\E s \in Senders : Elapsed(s))
  /\ SF_vars(\E s \in Senders : SendReport(s) /\ queue' # queue)

\* Then, once the process stays up, a report of the flags as they are is queued for
\* the readers again and again: one that was lost is only logged, but others follow
\* (Manager.cs:211-258).
ReadersAreTold ==
  ReportsGetThrough /\ <>[](main = "running") =>
    []<>(\E i \in 1 .. Len(queue) : queue[i] = isActive)

-----------------------------------------------------------------------------
(* What the documentation and the messages of the program say of it.       *)

\* "Can use Command request to start rates when AutoStart is set to false"
\* (README.md:46): a start command the handler receives is executed.
StartIsAnswered == \A h \in Handlers : handler[h].pc # "unanswered"

\* "Failed to parse request on err" (Manager.cs:301), and Metadata = "Failed":
\* the command answered this way did not change its rate.
FailedChangesNothing ==
  [][\A h \in Handlers : handler[h].pc = "purge" => handler'[h].pc # "failed"]_vars

\* "failed to set 'RateInterval' to value of {0}, setting to defualt of 3000"
\* (Manager.cs:191): a process whose interval is not usable goes on with another.
IntervalHasDefault ==
  [][main = "timer" /\ settings.RateInterval # "positive" => main' # "exited"]_vars
=============================================================================
