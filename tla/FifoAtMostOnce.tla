--------------------------- MODULE FifoAtMostOnce ---------------------------
(***************************************************************************)
(* What the workshop asks of a relay (README.md:5-7), less the promise     *)
(* that nothing is lost: it "will receive messages from kubemq-queue and   *)
(* send them to event store".  Messages are numbered as they are enqueued; *)
(* the store grows by messages that exist, each at most once, in their     *)
(* order.  Messages may be skipped, for good.                              *)
(***************************************************************************)
EXTENDS Naturals, Sequences

VARIABLES
  published,  \* number of messages enqueued so far
  store       \* the event store

Last == IF store = <<>> THEN 0 ELSE store[Len(store)]

Init == published = 0 /\ store = <<>>

Publish == published' = published + 1 /\ UNCHANGED store

Deliver ==
  /\ \E m \in (Last + 1) .. published : store' = Append(store, m)
  /\ UNCHANGED published

Next == Publish \/ Deliver

Spec == Init /\ [][Next]_<<published, store>>
=============================================================================
