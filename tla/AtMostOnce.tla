----------------------------- MODULE AtMostOnce -----------------------------
(***************************************************************************)
(* The weaker promise, of a relay whose sends are not ordered: the store   *)
(* grows by messages that exist, each at most once (README.md:5-7).        *)
(***************************************************************************)
EXTENDS Naturals, Sequences, Functions

VARIABLES
  published,  \* number of messages enqueued so far
  store       \* the event store

Init == published = 0 /\ store = <<>>

Publish == published' = published + 1 /\ UNCHANGED store

Deliver ==
  /\ \E m \in (1 .. published) \ Range(store) : store' = Append(store, m)
  /\ UNCHANGED published

Next == Publish \/ Deliver

Spec == Init /\ [][Next]_<<published, store>>
=============================================================================
