------------------------------ MODULE RelayLoop ------------------------------
(***************************************************************************)
(* The loop of the four synchronous relays of the workshop: receive up to  *)
(* 32 messages from the queue, send the body of each to the event store,   *)
(* one after the other.  They differ in what they do when a call fails.    *)
(* A program that has ended may be followed by the one in another language *)
(* on the same queue and store, as an attendee would try them.             *)
(* Receiving is destructive: the broker removes what it hands out, whether *)
(* or not the reply arrives.                                               *)
(*                                                                         *)
(* A message is its number in the order of enqueueing.  Pauses are left    *)
(* out, and so are receives that return no message and change nothing.     *)
(***************************************************************************)
EXTENDS Naturals, Sequences, FiniteSets, Functions

CONSTANTS
  Languages,     \* among "csharp", "go", "java" and "python": the programs run
  MaxBatch,      \* messages per receive, 32 in all four programs
  MaxPublished,  \* bound: messages enqueued in a behaviour
  MaxFailures    \* bound: exits and caught exceptions in a behaviour

ASSUME LanguageAssumption == Languages \subseteq {"csharp", "go", "java", "python"}
ASSUME BatchAssumption == MaxBatch \in Nat \ {0}
ASSUME BoundsAssumption == MaxPublished \in Nat /\ MaxFailures \in Nat

VARIABLES
  published,  \* number of messages enqueued so far
  queue,      \* rates-Queue
  language,   \* the program that runs
  pc,         \* where it is
  batch,      \* messages received and not yet sent
  store,      \* ratesstore
  excused,    \* history: messages purged, handed out with a reply that got
              \* lost, or whose own send did not succeed
  exits,      \* history: how often the program ended
  caught      \* history: how often it caught an exception and went on

broker == <<published, queue>>
history == <<excused, exits, caught>>
vars == <<broker, language, pc, batch, store, history>>

\* What each program does when the setup fails, when a receive answers with an
\* error, when it throws, and when a send throws: end, try again, spin on the
\* null queue, skip the message, or abandon the rest of the batch.
CSharp == [setup |-> {"exit", "broken"}, reply |-> "exit", receive |-> "retry", send |-> {"abandon"}]
Go == [setup |-> {"exit"}, reply |-> "retry", receive |-> "exit", send |-> {"exit"}]
\* A mistake for the mutation runs: an exception skips the rest of the batch too.
JavaAbandons == [setup |-> {"exit"}, reply |-> "retry", receive |-> "exit", send |-> {"abandon", "exit"}]
Java == [setup |-> {"exit"}, reply |-> "retry", receive |-> "exit", send |-> {"skip", "exit"}]
Python == [setup |-> {"exit"}, reply |-> "retry", receive |-> "exit", send |-> {"exit"}]

Policy == CASE language = "csharp" -> CSharp
            [] language = "go"     -> Go
            [] language = "java"   -> Java
            [] language = "python" -> Python

Init ==
  /\ published = 0
  /\ queue = <<>>
  /\ language \in Languages
  /\ pc = "setup"
  /\ batch = <<>>
  /\ store = <<>>
  /\ excused = {}
  /\ exits = 0
  /\ caught = 0

-----------------------------------------------------------------------------
(* The other side of the queue: the rate generator sends and purges.       *)

Publish ==
  /\ published < MaxPublished
  /\ published' = published + 1
  /\ queue' = Append(queue, published + 1)
  /\ UNCHANGED <<language, pc, batch, store, history>>

Purge ==
  /\ queue' = <<>>
  /\ excused' = excused \cup Range(queue)
  /\ UNCHANGED <<published, language, pc, batch, store, exits, caught>>

-----------------------------------------------------------------------------
(* Failures: the program ends, or catches the exception and goes on with a *)
(* new receive; either way the rest of the batch is forgotten.             *)

CanFail == exits + caught < MaxFailures

Exit ==
  /\ CanFail
  /\ pc' = "exited"
  /\ batch' = <<>>
  /\ exits' = exits + 1
  /\ UNCHANGED caught

Catch ==
  /\ CanFail
  /\ pc' = "receive"
  /\ batch' = <<>>
  /\ caught' = caught + 1
  /\ UNCHANGED exits

\* A program is run again (by hand: it is not part of the deployment).
Rerun ==
  /\ pc = "exited"
  /\ pc' = "setup"
  /\ language' \in Languages
  /\ UNCHANGED <<broker, batch, store, history>>

-----------------------------------------------------------------------------
(* The program.                                                            *)

Setup ==
  /\ pc = "setup"
  /\ pc' = "receive"
  /\ UNCHANGED <<broker, language, batch, store, history>>

SetupFails ==
  /\ pc = "setup"
  /\ \/ "exit" \in Policy.setup /\ Exit
     \/ "broken" \in Policy.setup /\ pc' = "broken" /\ UNCHANGED <<batch, exits, caught>>
  /\ UNCHANGED <<broker, language, store, excused>>

Min(a, b) == IF a < b THEN a ELSE b

\* The broker removes the n messages it hands out.
Taken(n) == SubSeq(queue, 1, n)
\* A mistake for the mutation runs: what is left is the oldest.
LeftOldest(n) == SubSeq(queue, 1, Len(queue) - n)
Left(n) == SubSeq(queue, n + 1, Len(queue))

\* A mistake for the mutation runs: the loop waits for a full batch.
ReceiveFullBatch ==
  /\ pc = "receive"
  /\ Len(queue) >= MaxBatch
  /\ queue' = Left(MaxBatch)
  /\ batch' = Taken(MaxBatch)
  /\ pc' = "send"
  /\ UNCHANGED <<published, language, store, history>>

Receive ==
  /\ pc = "receive"
  /\ \E n \in 1 .. Min(MaxBatch, Len(queue)) : queue' = Left(n) /\ batch' = Taken(n)
  /\ pc' = "send"
  /\ UNCHANGED <<published, language, store, history>>

\* An error reply holds no messages; a program that does not look at it, or
\* that tries again, goes on as after an empty receive.
ReceiveAnswersError ==
  /\ pc = "receive"
  /\ Policy.reply = "exit"
  /\ Exit
  /\ UNCHANGED <<broker, language, store, excused>>

\* The call throws; the messages of a reply that got lost are gone.
ReceiveThrows ==
  /\ pc = "receive"
  /\ \E n \in 0 .. Min(MaxBatch, Len(queue)) :
       queue' = Left(n) /\ excused' = excused \cup Range(Taken(n))
  /\ IF Policy.receive = "exit" THEN Exit ELSE Catch
  /\ UNCHANGED <<published, language, store>>

\* Mistakes for the mutation runs: the message stays in the batch; the last
\* message of a batch is forgotten.
NextMessageAgain ==
  /\ UNCHANGED batch
  /\ pc' = IF Tail(batch) = <<>> THEN "receive" ELSE "send"
  /\ UNCHANGED <<exits, caught>>
NextMessageButLast ==
  /\ batch' = IF Len(batch) <= 2 THEN <<>> ELSE Tail(batch)
  /\ pc' = IF batch' = <<>> THEN "receive" ELSE "send"
  /\ UNCHANGED <<exits, caught>>

NextMessage ==
  /\ batch' = Tail(batch)
  /\ pc' = IF Tail(batch) = <<>> THEN "receive" ELSE "send"
  /\ UNCHANGED <<exits, caught>>

Stored(m) == store' = Append(store, m) /\ UNCHANGED excused
NotStored(m) == excused' = excused \cup {m} /\ UNCHANGED store

\* The result of a send is ignored (or printed): a refused event is lost.
Send ==
  /\ pc = "send"
  /\ Stored(Head(batch)) \/ NotStored(Head(batch))
  /\ NextMessage
  /\ UNCHANGED <<broker, language>>

\* A send that throws may have stored its event, except when it is skipped:
\* the exceptions Java catches are those of a client that cannot connect.
SendThrows ==
  /\ pc = "send"
  /\ \/ "skip" \in Policy.send /\ NotStored(Head(batch)) /\ NextMessage
     \/ /\ Stored(Head(batch)) \/ NotStored(Head(batch))
        /\ \/ "abandon" \in Policy.send /\ Catch
           \/ "exit" \in Policy.send /\ Exit
  /\ UNCHANGED <<broker, language>>

Program == \/ Setup \/ SetupFails
           \/ Receive \/ ReceiveAnswersError \/ ReceiveThrows
           \/ Send \/ SendThrows

Next == Publish \/ Purge \/ Rerun \/ Program

Spec == Init /\ [][Next]_vars

\* The program runs, and the broker does not fail for ever.
FairSpec == Spec /\ WF_vars(Setup) /\ WF_vars(Receive) /\ WF_vars(Send)

-----------------------------------------------------------------------------
\* Every variable has its type (the broker's queue and store, the loop's locals).
TypeOK ==
  /\ published \in 0 .. MaxPublished
  /\ queue \in Seq(1 .. published)
  /\ batch \in Seq(1 .. published)
  /\ store \in Seq(1 .. published)
  /\ language \in Languages
  /\ pc \in {"setup", "broken", "receive", "send", "exited"}
  /\ pc = "send" <=> batch # <<>>
  /\ excused \subseteq 1 .. published
  /\ exits \in Nat /\ caught \in Nat /\ exits + caught <= MaxFailures

\* The relay implements the abstract one: no failure, restart or purge makes it
\* store a message twice or out of order, since nothing received is ever received
\* or sent again (Program.cs:45-76, main.go:27-56, App.java:33-63, main.py:59-73).
Abstract == INSTANCE FifoAtMostOnce WITH published <- published, store <- store
Implements == Abstract!Spec

\* Messages that are nowhere any more.
Missing == (1 .. published) \ (Range(queue) \cup Range(batch) \cup Range(store))

\* What an exit or a caught exception loses, apart from the message being sent,
\* is the rest of one batch (Program.cs:57-75, main.go:39-51).
LossBounded == Cardinality(Missing \ excused) <= (MaxBatch - 1) * (exits + caught)

\* "For each dequeued message will send a single event to store" (Program.cs:56,
\* main.go:38, App.java:43, main.py:63): as long as the program has not ended, a
\* message that left the queue is held, stored, or was sent in vain.
EachIsSent == exits = 0 => Missing \subseteq excused

\* The programs other than C# keep this promise: until one ends, a send that fails
\* costs no other message of its batch, skipped or not (main.go:38-53, App.java:43-59,
\* main.py:63-71).
OthersSendEach == language # "csharp" /\ exits = 0 => Missing \subseteq excused

\* A message does not stay in the queue, or in the relay's hands, unless the program
\* has ended or, in C#, has no queue object: then it loops in vain for ever.
Drains ==
  \A m \in 1 .. MaxPublished :
    m \in Range(queue) \cup Range(batch) ~>
      m \notin Range(queue) \cup Range(batch) \/ pc \in {"exited", "broken"}
=============================================================================
