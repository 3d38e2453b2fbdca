------------------------------- MODULE LateView -------------------------------
(***************************************************************************)
(* What a reader at the end of a chain of reports is promised: a view that *)
(* is late, and may skip, but never goes back.                             *)
(*                                                                         *)
(* The trail is what it shows, then what it may still come to show, in the *)
(* order in which this was the case, and last what is the case now.        *)
(***************************************************************************)
EXTENDS Naturals, Sequences

VARIABLE trail

Init == \E now \in BOOLEAN : trail = <<FALSE, now>>

\* Things change; the latest reports may be lost with that.
Switch == \E now \in BOOLEAN, k \in 1 .. Len(trail) - 1 :
            trail' = Append(SubSeq(trail, 1, k), now)

\* What is the case now is reported.
Report == trail' = Append(trail, trail[Len(trail)])

\* The oldest report replaces the view.
Show == Len(trail) > 2 /\ trail' = Tail(trail)

\* Reports made one after the other are lost.
Lose == \E i, j \in 2 .. Len(trail) - 1 :
          i <= j /\ trail' = SubSeq(trail, 1, i - 1) \o SubSeq(trail, j + 1, Len(trail))

Next == Report \/ Show \/ Switch \/ Lose

Spec == Init /\ [][Next]_trail
=============================================================================
