-------------------------------- MODULE Rates --------------------------------
(***************************************************************************)
(* One simulated instrument of the rate generator (Rates.cs).  Its two     *)
(* quotes, buy and sell, follow a bounded random walk: a timer raises      *)
(* OnRateChangeEvent on a thread of the pool, and since the timer is       *)
(* periodic a slow callback may overlap later ones.  The fields are plain  *)
(* doubles and each argument of GetDoubleRandomNumber reads its field:     *)
(* another callback may write between the two reads.  (A compiler that     *)
(* merges them leaves the behaviours in which no one does.)                *)
(*                                                                         *)
(* Prices are on a grid: Half is the number of grid units in 0.05, One and *)
(* Two are 1.0 and 2.0.  Only the distance from One to Two matters.        *)
(***************************************************************************)
EXTENDS Integers

CONSTANTS
  Half,       \* grid units in 0.05
  One, Two,   \* 1.0 and 2.0 on the grid
  Callbacks,  \* the pool threads OnRateChangeEvent may be running on
  MaxTorn     \* bound: calls whose two reads see different values

ASSUME HalfAssumption == Half \in Nat \ {0}

\* The band from 1 to 2 is much wider than one step of the walk.
ASSUME BandAssumption == One \in Int /\ Two \in Int /\ Two - One >= 4 * Half

ASSUME TornAssumption == MaxTorn \in Nat

VARIABLES
  price,  \* price["buy"] and price["sell"]: the two fields
  cb,     \* cb[c]: where callback c is, and the arguments it has read
  torn    \* history: calls whose two reads saw different values

vars == <<price, cb, torn>>

Sides == {"buy", "sell"}
\* A callback: its next step, the field it updates and the arguments it has read.
Callback(at, side, minimum, maximum) ==
  [at |-> at, side |-> side, minimum |-> minimum, maximum |-> maximum]
\* A mistake for the mutation runs: the idle callback names no field.
IdleNoSide == Callback("idle", "none", 0, 0)
Idle == Callback("idle", "buy", 0, 0)

Abs(x) == IF x < 0 THEN -x ELSE x

\* NextDouble() * range + from: NextDouble is in [0, 1), so the draw never
\* reaches from + range, and it is from itself when the range is empty.
Draws(from, range) == {from} \cup from .. (from + range - 1)

\* Deliberate mistakes in the function below, for the mutation runs: a low draw
\* corrected without its 0.05, or by 0.1; a high one corrected at both ends.
DrawNoLift(minimum, maximum) ==
  UNION { IF d < One THEN Draws(minimum, Abs(maximum - minimum))
          ELSE IF d > Two THEN Draws(minimum, Abs(maximum - Half - minimum))
          ELSE {d} : d \in Draws(minimum, Abs(maximum - minimum)) }

DrawLiftTwice(minimum, maximum) ==
  UNION { IF d < One THEN Draws(minimum + 2 * Half, Abs(maximum - minimum))
          ELSE IF d > Two THEN Draws(minimum, Abs(maximum - Half - minimum))
          ELSE {d} : d \in Draws(minimum, Abs(maximum - minimum)) }

DrawBothEnds(minimum, maximum) ==
  UNION { IF d < One THEN Draws(minimum + Half, Abs(maximum - minimum))
          ELSE IF d > Two THEN Draws(minimum - Half, Abs(maximum - minimum))
          ELSE {d} : d \in Draws(minimum, Abs(maximum - minimum)) }

\* GetDoubleRandomNumber: a first draw, and one more try when it leaves [1, 2].
GetDoubleRandomNumber(minimum, maximum) ==
  UNION { IF d < One THEN Draws(minimum + Half, Abs(maximum - minimum))
          ELSE IF d > Two THEN Draws(minimum, Abs(maximum - Half - minimum))
          ELSE {d} : d \in Draws(minimum, Abs(maximum - minimum)) }

-----------------------------------------------------------------------------
\* rnd.Next(1, 2) excludes its upper bound: both quotes start at 1.
Init ==
  /\ price = [s \in Sides |-> One]
  /\ cb = [c \in Callbacks |-> Idle]
  /\ torn = 0

\* The timer fires: the callback starts with buy.
Elapsed(c) ==
  /\ cb[c].at = "idle"
  /\ cb' = [cb EXCEPT ![c] = Callback("minimum", "buy", 0, 0)]
  /\ UNCHANGED <<price, torn>>

\* The first argument, field - 0.05.
ReadMinimum(c) ==
  /\ cb[c].at = "minimum"
  /\ cb' = [cb EXCEPT ![c] = Callback("maximum", cb[c].side,
                                      price[cb[c].side] - Half, 0)]
  /\ UNCHANGED <<price, torn>>

\* The second argument, field + 0.05, from a read of its own: the two are torn
\* when another callback has changed the field in between.
ReadMaximum(c) ==
  LET now == price[cb[c].side] IN
  /\ cb[c].at = "maximum"
  /\ torn' = IF now - Half = cb[c].minimum THEN torn ELSE torn + 1
  /\ torn' <= MaxTorn
  /\ cb' = [cb EXCEPT ![c] = Callback("write", cb[c].side, cb[c].minimum, now + Half)]
  /\ UNCHANGED price

\* The draw and the assignment; buy is followed by sell, sell ends the callback.
Write(c) ==
  /\ cb[c].at = "write"
  /\ \E d \in GetDoubleRandomNumber(cb[c].minimum, cb[c].maximum) :
       price' = [price EXCEPT ![cb[c].side] = d]
  /\ cb' = [cb EXCEPT ![c] = IF cb[c].side = "buy"
                             THEN Callback("minimum", "sell", 0, 0)
                             ELSE Idle]
  /\ UNCHANGED torn

Next == \E c \in Callbacks :
          Elapsed(c) \/ ReadMinimum(c) \/ ReadMaximum(c) \/ Write(c)

Spec == Init /\ [][Next]_vars

-----------------------------------------------------------------------------
\* Every variable has its type (the doubles and the locals of the callbacks).
TypeOK ==
  /\ price \in [Sides -> Int]
  /\ cb \in [Callbacks -> [at : {"idle", "minimum", "maximum", "write"},
                           side : Sides, minimum : Int, maximum : Int]]
  /\ torn \in Nat

\* A quote "is not under 1 and does not exceed 2" (Rates.cs:55), although the
\* draw that corrects a value over 2 starts from a minimum that may itself be
\* under 1, and the one that corrects a value under 1 is not checked again.
\* Overlapping callbacks do no harm to this, unless one of them writes between
\* the two reads of another (Rates.cs:45-46).
WithinBounds == torn = 0 => \A s \in Sides : price[s] \in One .. Two

\* What such reads do under 1 is bounded: each of them takes a quote 0.05 further down
\* at most, by the correction of a draw over 2, and nothing else takes it down.  (Over
\* 2 there is no such bound: the range of a torn draw grows with the difference of its
\* two reads, Rates.cs:60-67.)
SinksByTornReads == \A s \in Sides : price[s] >= One - Half * torn

\* A callback whose field no other one has changed since it read it.
Undisturbed(c) == /\ cb[c].minimum = price[cb[c].side] - Half
                  /\ cb[c].maximum = price[cb[c].side] + Half

\* The walk has small steps: such a callback lowers its quote by 0.05 at most
\* and raises it by less than 0.1 (the correction of a draw under 1 adds 0.05
\* to a fresh draw), also from a quote that torn reads have driven out of the
\* band (Rates.cs:56-70).
SmallSteps ==
  [][\A c \in Callbacks : Write(c) /\ Undisturbed(c) =>
       price'[cb[c].side] - price[cb[c].side] \in (-Half) .. (2 * Half - 1)]_vars
=============================================================================
