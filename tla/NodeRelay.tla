------------------------------ MODULE NodeRelay ------------------------------
(***************************************************************************)
(* The Node.js relay (index.js).  It starts a send for each message of a   *)
(* reply and goes on with the next receive while the sends are under way:  *)
(* they reach the store in any order, and nothing bounds their number.     *)
(* The loop calls itself only at the end of a round that went well: after  *)
(* an error there is no other receive, until someone runs the program      *)
(* again.  When the process ends, sends under way may die with it.         *)
(*                                                                         *)
(* A message is its number in the order of enqueueing.  The pauses, and    *)
(* the receives that return no message, are left out.                      *)
(***************************************************************************)
EXTENDS Naturals, Sequences, FiniteSets, Functions

CONSTANTS
  MaxBatch,      \* messages per receive, 32 in the program
  MaxPublished,  \* bound: messages enqueued in a behaviour
  MaxStops       \* bound: how often the loop stops or the process ends

ASSUME BatchAssumption == MaxBatch \in Nat \ {0}
ASSUME BoundsAssumption == MaxPublished \in Nat /\ MaxStops \in Nat

VARIABLES
  published,  \* number of messages enqueued so far
  queue,      \* rates-Queue
  process,    \* "looping" (a call of myLoop is pending), "stopped" or "ended"
  inFlight,   \* messages whose send has neither arrived nor failed
  store,      \* ratesstore
  excused,    \* history: messages purged, handed out with a reply that got
              \* lost, or whose own send did not succeed
  stops,      \* history: how often the loop stopped
  ends,       \* history: how often the process ended
  exposed     \* history: sends under way when it did, of all times together

count == <<stops, ends, exposed>>
vars == <<published, queue, process, inFlight, store, excused, count>>

Init ==
  /\ published = 0
  /\ queue = <<>>
  /\ process = "looping"
  /\ inFlight = {}
  /\ store = <<>>
  /\ excused = {}
  /\ stops = 0 /\ ends = 0 /\ exposed = 0

-----------------------------------------------------------------------------
(* The other side of the queue: the rate generator sends and purges.       *)

Publish ==
  /\ published < MaxPublished
  /\ published' = published + 1
  /\ queue' = Append(queue, published + 1)
  /\ UNCHANGED <<process, inFlight, store, excused, count>>

Purge ==
  /\ queue' = <<>>
  /\ excused' = excused \cup Range(queue)
  /\ UNCHANGED <<published, process, inFlight, store, count>>

-----------------------------------------------------------------------------
(* The loop.                                                               *)

CanFail == stops + ends < MaxStops

Stop ==
  /\ CanFail
  /\ process' = "stopped"
  /\ stops' = stops + 1
  /\ UNCHANGED <<ends, exposed>>

\* A send is rejected, which nothing handles: depending on the version of Node.js
\* this is a warning (and no step here) or the end of the process; or somebody ends
\* it.  Which of the sends under way got out is open: these may still arrive.
ProcessEnds ==
  /\ process # "ended"
  /\ CanFail
  /\ process' = "ended"
  /\ ends' = ends + 1
  /\ exposed' = exposed + Cardinality(inFlight)
  /\ inFlight' \in SUBSET inFlight
  /\ UNCHANGED <<published, queue, store, excused, stops>>

\* The program is run again, by hand.
Rerun ==
  /\ process = "ended"
  /\ process' = "looping"
  /\ UNCHANGED <<published, queue, inFlight, store, excused, count>>

Batches == 1 .. (IF Len(queue) < MaxBatch THEN Len(queue) ELSE MaxBatch)

\* The broker removes the n messages it hands out.
Taken(n) == Range(SubSeq(queue, 1, n))
\* A mistake for the mutation runs: the last of them stays.
LeftOne(n) == SubSeq(queue, IF n = 0 THEN 1 ELSE n, Len(queue))
Left(n) == SubSeq(queue, n + 1, Len(queue))

\* Mistakes for the mutation runs: the loop waits for a full batch; the last
\* message of a batch is not sent.
ReceiveFullBatch ==
  /\ process = "looping"
  /\ Len(queue) >= MaxBatch
  /\ queue' = Left(MaxBatch)
  /\ inFlight' = inFlight \cup Taken(MaxBatch)
  /\ UNCHANGED <<published, process, store, excused, count>>
ReceiveButLast ==
  /\ process = "looping"
  /\ \E n \in Batches : queue' = Left(n) /\ inFlight' = inFlight \cup Taken(n - 1)
  /\ UNCHANGED <<published, process, store, excused, count>>

\* A reply with messages: all of them are sent, and the loop goes on.
Receive ==
  /\ process = "looping"
  /\ \E n \in Batches : queue' = Left(n) /\ inFlight' = inFlight \cup Taken(n)
  /\ UNCHANGED <<published, process, store, excused, count>>

\* Sending a message of the reply throws: the ones before it are on their way,
\* the ones after it are dropped by the catch.
SendThrows ==
  /\ process = "looping"
  /\ \E n \in Batches : \E k \in 1 .. n :
       /\ queue' = Left(n)
       /\ inFlight' = inFlight \cup Taken(k - 1)
       /\ excused' = excused \cup {queue[k]}
  /\ Stop
  /\ UNCHANGED <<published, store>>

\* An error reply is printed, a rejected receive (which may have taken messages
\* from the queue) is caught: myLoop is not called again.
ReceiveFails ==
  /\ process = "looping"
  /\ \E n \in Batches \cup {0} : queue' = Left(n) /\ excused' = excused \cup Taken(n)
  /\ Stop
  /\ UNCHANGED <<published, inFlight, store>>

-----------------------------------------------------------------------------
(* The sends.                                                              *)

\* A mistake for the mutation runs: the event carries the next message's body.
ArriveNext(m) ==
  /\ m \in inFlight
  /\ inFlight' = inFlight \ {m}
  /\ store' = Append(store, m + 1)
  /\ UNCHANGED <<published, queue, process, excused, count>>

Arrive(m) ==
  /\ m \in inFlight
  /\ inFlight' = inFlight \ {m}
  /\ store' = Append(store, m)
  /\ UNCHANGED <<published, queue, process, excused, count>>

\* The broker refuses the event (the result is only printed), or the request
\* does not reach it.
Drop(m) ==
  /\ m \in inFlight
  /\ inFlight' = inFlight \ {m}
  /\ excused' = excused \cup {m}
  /\ UNCHANGED <<published, queue, process, store, count>>

Next == \/ Publish \/ Purge \/ Rerun
        \/ Receive \/ SendThrows \/ ReceiveFails \/ ProcessEnds
        \/ \E m \in inFlight : Arrive(m) \/ Drop(m)

Spec == Init /\ [][Next]_vars

\* The loop runs, and every send ends one way or the other.
FairSpec == /\ Spec
            /\ WF_vars(Receive)
            /\ \A m \in 1 .. MaxPublished : WF_vars(Arrive(m) \/ Drop(m))

-----------------------------------------------------------------------------
\* Every variable has its type (the queue, the store, the sends under way).
TypeOK ==
  /\ published \in 0 .. MaxPublished
  /\ queue \in Seq(1 .. published)
  /\ process \in {"looping", "stopped", "ended"}
  /\ inFlight \subseteq 1 .. published
  /\ store \in Seq(1 .. published)
  /\ excused \subseteq 1 .. published
  /\ stops \in Nat /\ ends \in Nat /\ stops + ends <= MaxStops
  /\ exposed \in Nat

\* The relay implements the unordered promise: however receives and sends
\* interleave, and however often the program stops and is run again, no message
\* is stored twice (index.js:13-42).
Abstract == INSTANCE AtMostOnce WITH published <- published, store <- store
Implements == Abstract!Spec

\* Messages that are nowhere any more.
Missing == (1 .. published) \ (Range(queue) \cup inFlight \cup Range(store))

\* "For each dequeued message will send a single event to store" (index.js:23): what
\* a stop of the loop loses, besides the message at fault, is the rest of one batch;
\* an end of the process, what was under way at that moment; and otherwise every
\* message that left the queue was sent.
LossBounded == Cardinality(Missing \ excused) <= (MaxBatch - 1) * stops + exposed

\* A message does not stay in the queue for ever, unless the loop stops (it does so
\* for good, index.js:35); a send under way ends even then (index.js:24-37).
Drains ==
  \A m \in 1 .. MaxPublished :
    /\ m \in Range(queue) ~> m \notin Range(queue) \/ process # "looping"
    /\ m \in inFlight ~> m \notin inFlight
=============================================================================
