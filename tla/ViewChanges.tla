----------------------------- MODULE ViewChanges -----------------------------
(***************************************************************************)
(* How often the client changes what it shows of a rate, counted beside    *)
(* how often the rate changes.  The two counts are history: they follow    *)
(* the steps of Workshop and add no behaviour to them.                     *)
(***************************************************************************)
EXTENDS Workshop

CONSTANT MaxSwitches  \* bound: changes of a rate in a behaviour

ASSUME SwitchesAssumption == MaxSwitches \in Nat

VARIABLES
  shows,    \* shows[r]: how often the client changed what it shows of r
  switches  \* switches[r]: how often the flag of r changed

Shown == [r \in Rates |-> ask[r] # 0]

\* One more for each rate of which f changes to g.
Counted(count, f, g) == [r \in Rates |-> count[r] + IF f[r] = g[r] THEN 0 ELSE 1]

CountedInit ==
  /\ Init
  /\ shows = [r \in Rates |-> 0]
  /\ switches = [r \in Rates |-> 0]

CountedNext ==
  /\ Next
  /\ shows' = Counted(shows, Shown, Shown')
  /\ switches' = Counted(switches, isActive, isActive')
  /\ \A r \in Rates : switches'[r] <= MaxSwitches

CountedSpec == CountedInit /\ [][CountedNext]_<<vars, shows, switches>>

\* However many sends overlap, and whatever is purged, lost, retried, killed or
\* restarted on the way, a change of a rate makes the client change what it shows of
\* it at most 2n - 1 times for n senders: once when sends do not overlap; each other
\* send that is under way can take it back to the old state, and be followed by
\* another that corrects it (Manager.cs:219-247 and 286-287, the relays' loops,
\* ratesListener).
NoFlicker == \A r \in Rates : shows[r] <= (2 * Cardinality(Senders) - 1) * switches[r]
=============================================================================
