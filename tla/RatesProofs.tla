----------------------------- MODULE RatesProofs -----------------------------
(***************************************************************************)
(* The quotes stay between 1 and 2 whatever the grid and however many      *)
(* callbacks overlap, as long as no callback writes between the two reads  *)
(* of another, which can take them under 1 by small steps only; and the    *)
(* steps of an undisturbed callback are small.                             *)
(***************************************************************************)
EXTENDS Rates, TLAPS

\* What a callback holds is the surroundings of a quote that was in the band.
Held(c) ==
  /\ cb[c].at = "maximum" => cb[c].minimum + Half \in One .. Two
  /\ cb[c].at = "write" => /\ cb[c].maximum = cb[c].minimum + 2 * Half
                           /\ cb[c].minimum + Half \in One .. Two

IInv == TypeOK /\ (torn = 0 => WithinBounds /\ \A c \in Callbacks : Held(c))

\* A draw around a quote of the band is in the band: the correction of a low
\* draw cannot pass 2, the one of a high draw cannot fall under 1.
LEMMA DrawInBand ==
  ASSUME NEW m \in Int, NEW M \in Int, M = m + 2 * Half, m + Half \in One .. Two,
         NEW d \in GetDoubleRandomNumber(m, M)
  PROVE  d \in One .. Two
<1>1. Half \in Nat \ {0} /\ One \in Int /\ Two \in Int /\ Two - One >= 4 * Half
  BY HalfAssumption, BandAssumption
<1>2. Abs(M - m) = 2 * Half /\ Abs(M - Half - m) = Half
  BY <1>1 DEF Abs
<1>3. PICK e \in Draws(m, Abs(M - m)) :
        d \in (IF e < One THEN Draws(m + Half, Abs(M - m))
               ELSE IF e > Two THEN Draws(m, Abs(M - Half - m)) ELSE {e})
  BY DEF GetDoubleRandomNumber
<1>4. e \in m .. (m + 2 * Half - 1)
  BY <1>1, <1>2, <1>3 DEF Draws
<1>5. CASE e < One
  <2>1. d \in (m + Half) .. (m + Half + 2 * Half - 1)
    BY <1>1, <1>2, <1>3, <1>5 DEF Draws
  <2> QED BY <1>1, <1>4, <1>5, <2>1
<1>6. CASE e > Two
  <2>1. d \in m .. (m + Half - 1)
    BY <1>1, <1>2, <1>3, <1>4, <1>6 DEF Draws
  <2> QED BY <1>1, <1>4, <1>6, <2>1
<1>7. CASE ~(e < One) /\ ~(e > Two)
  BY <1>1, <1>3, <1>4, <1>7
<1> QED BY <1>5, <1>6, <1>7

\* Any draw is a grid price, torn or not.
LEMMA DrawType ==
  ASSUME NEW m \in Int, NEW M \in Int, NEW d \in GetDoubleRandomNumber(m, M)
  PROVE  d \in Int
<1>1. Half \in Int
  BY HalfAssumption
<1>2. Abs(M - m) \in Int /\ Abs(M - Half - m) \in Int
  BY <1>1 DEF Abs
<1>3. \A f, r \in Int : Draws(f, r) \subseteq Int
  BY DEF Draws
<1>4. PICK e \in Draws(m, Abs(M - m)) :
        d \in (IF e < One THEN Draws(m + Half, Abs(M - m))
               ELSE IF e > Two THEN Draws(m, Abs(M - Half - m)) ELSE {e})
  BY DEF GetDoubleRandomNumber
<1>5. e \in Int
  BY <1>2, <1>3, <1>4
<1> QED BY <1>1, <1>2, <1>3, <1>4, <1>5

\* A draw around a quote is near it.
LEMMA DrawNear ==
  ASSUME NEW p \in Int, NEW d \in GetDoubleRandomNumber(p - Half, p + Half)
  PROVE  d - p \in (-Half) .. (2 * Half - 1)
<1>1. Half \in Nat \ {0} /\ One \in Int /\ Two \in Int /\ Two - One >= 4 * Half
  BY HalfAssumption, BandAssumption
<1> DEFINE m == p - Half
           M == p + Half
<1>2. Abs(M - m) = 2 * Half /\ Abs(M - Half - m) = Half
  BY <1>1 DEF Abs
<1>3. PICK e \in Draws(m, Abs(M - m)) :
        d \in (IF e < One THEN Draws(m + Half, Abs(M - m))
               ELSE IF e > Two THEN Draws(m, Abs(M - Half - m)) ELSE {e})
  BY DEF GetDoubleRandomNumber
<1>4. e \in m .. (m + 2 * Half - 1)
  BY <1>1, <1>2, <1>3 DEF Draws
<1>5. CASE e < One
  <2>1. d \in (m + Half) .. (m + Half + 2 * Half - 1)
    BY <1>1, <1>2, <1>3, <1>5 DEF Draws
  <2> QED BY <1>1, <2>1
<1>6. CASE ~(e < One) /\ e > Two
  <2>1. d \in m .. (m + Half - 1)
    BY <1>1, <1>2, <1>3, <1>6 DEF Draws
  <2> QED BY <1>1, <2>1
<1>7. CASE ~(e < One) /\ ~(e > Two)
  BY <1>1, <1>3, <1>4, <1>7
<1> QED BY <1>5, <1>6, <1>7

LEMMA TypeStep == TypeOK /\ [Next]_vars => TypeOK'
<1> SUFFICES ASSUME TypeOK, [Next]_vars PROVE TypeOK'
  OBVIOUS
<1>0. Half \in Int
  BY HalfAssumption
<1> USE DEF TypeOK
<1>1. CASE UNCHANGED vars
  BY <1>1 DEF vars
<1>2. ASSUME NEW c \in Callbacks, Elapsed(c) PROVE TypeOK'
  BY <1>2 DEF Elapsed, Callback, Sides
<1>3. ASSUME NEW c \in Callbacks, ReadMinimum(c) PROVE TypeOK'
  BY <1>0, <1>3 DEF ReadMinimum, Callback
<1>4. ASSUME NEW c \in Callbacks, ReadMaximum(c) PROVE TypeOK'
  BY <1>0, <1>4 DEF ReadMaximum, Callback
<1>5. ASSUME NEW c \in Callbacks, Write(c) PROVE TypeOK'
  <2>1. PICK d \in GetDoubleRandomNumber(cb[c].minimum, cb[c].maximum) :
          price' = [price EXCEPT ![cb[c].side] = d]
    BY <1>5 DEF Write
  <2>2. d \in Int
    BY DrawType
  <2>3. price' \in [Sides -> Int]
    BY <2>1, <2>2
  <2> QED BY <1>5, <2>3 DEF Write, Idle, Callback, Sides
<1> QED BY <1>1, <1>2, <1>3, <1>4, <1>5 DEF Next

\* Type correctness, for every grid and number of callbacks.
THEOREM TypeCorrect == Spec => []TypeOK
<1>1. Init => TypeOK
  BY BandAssumption DEF Init, TypeOK, Idle, Callback, Sides
<1> QED BY <1>1, TypeStep, PTL DEF Spec

\* The walk has small steps, for every grid and any number of overlapping
\* callbacks (Rates.cs:56-70).
THEOREM StepsAreSmall == Spec => SmallSteps
<1>1. TypeOK /\ [Next]_vars =>
        [\A c \in Callbacks : Write(c) /\ Undisturbed(c) =>
           price'[cb[c].side] - price[cb[c].side] \in (-Half) .. (2 * Half - 1)]_vars
  <2> SUFFICES ASSUME TypeOK, NEW c \in Callbacks, Write(c), Undisturbed(c)
               PROVE  price'[cb[c].side] - price[cb[c].side] \in (-Half) .. (2 * Half - 1)
    OBVIOUS
  <2> DEFINE s == cb[c].side
  <2>1. s \in Sides /\ price[s] \in Int
    BY DEF TypeOK
  <2>2. PICK d \in GetDoubleRandomNumber(price[s] - Half, price[s] + Half) :
          price' = [price EXCEPT ![s] = d]
    BY DEF Write, Undisturbed
  <2>3. price'[s] = d
    BY <2>1, <2>2 DEF TypeOK
  <2> HIDE DEF s
  <2>4. d - price[s] \in (-Half) .. (2 * Half - 1)
    BY <2>1, <2>2, DrawNear
  <2> QED BY <2>3, <2>4 DEF s
<1> QED BY <1>1, TypeCorrect, PTL DEF Spec, SmallSteps

\* "Not under 1 and does not exceed 2" (Rates.cs:55), for every grid and any
\* number of overlapping callbacks, until the two reads of one are torn.
THEOREM BoundsHold == Spec => []WithinBounds
<1>1. Init => IInv
  BY HalfAssumption, BandAssumption DEF Init, IInv, TypeOK, WithinBounds, Held, Idle, Callback, Sides
<1>2. IInv /\ [Next]_vars => IInv'
  <2> SUFFICES ASSUME TypeOK, torn = 0 => WithinBounds /\ \A c \in Callbacks : Held(c),
                      [Next]_vars, torn' = 0
               PROVE  WithinBounds' /\ \A k \in Callbacks : Held(k)'
    BY TypeStep DEF IInv
  <2> USE HalfAssumption, BandAssumption
  <2>0. torn = 0 /\ WithinBounds /\ \A c \in Callbacks : Held(c)
    <3>1. torn \in Nat /\ (torn' = torn \/ torn' = torn + 1)
      BY DEF TypeOK, Next, vars, Elapsed, ReadMinimum, ReadMaximum, Write
    <3> QED BY <3>1
  <2>1. CASE UNCHANGED vars
    BY <2>0, <2>1 DEF vars, WithinBounds, Held
  <2>2. ASSUME NEW c \in Callbacks, Elapsed(c)
        PROVE  WithinBounds' /\ \A k \in Callbacks : Held(k)'
    BY <2>0, <2>2 DEF Elapsed, TypeOK, WithinBounds, Held, Callback
  <2>3. ASSUME NEW c \in Callbacks, ReadMinimum(c)
        PROVE  WithinBounds' /\ \A k \in Callbacks : Held(k)'
    BY <2>0, <2>3 DEF ReadMinimum, Callback, TypeOK, WithinBounds, Held
  <2>4. ASSUME NEW c \in Callbacks, ReadMaximum(c)
        PROVE  WithinBounds' /\ \A k \in Callbacks : Held(k)'
    \* The reads are not torn: both arguments surround the quote of now.
    <3>1. price[cb[c].side] - Half = cb[c].minimum /\ UNCHANGED price
      BY <2>0, <2>4 DEF ReadMaximum
    <3> QED BY <2>0, <2>4, <3>1 DEF ReadMaximum, Callback, TypeOK, WithinBounds, Held
  <2>5. ASSUME NEW c \in Callbacks, Write(c)
        PROVE  WithinBounds' /\ \A k \in Callbacks : Held(k)'
    <3>1. PICK d \in GetDoubleRandomNumber(cb[c].minimum, cb[c].maximum) :
            price' = [price EXCEPT ![cb[c].side] = d]
      BY <2>5 DEF Write
    <3>2. /\ cb[c].minimum \in Int
          /\ cb[c].maximum = cb[c].minimum + 2 * Half
          /\ cb[c].minimum + Half \in One .. Two
      BY <2>0, <2>5 DEF Write, Held, TypeOK
    <3>3. d \in One .. Two
      <4>1. cb[c].maximum \in Int
        BY <3>2
      <4> QED BY <3>1, <3>2, <4>1, DrawInBand
    <3>4. WithinBounds'
      BY <2>0, <3>1, <3>3 DEF TypeOK, WithinBounds
    <3>5. \A k \in Callbacks : Held(k)'
      BY <2>0, <2>5 DEF Write, Held, TypeOK, Idle, Callback
    <3> QED BY <3>4, <3>5
  <2> QED BY <2>1, <2>2, <2>3, <2>4, <2>5 DEF Next
<1>3. IInv => WithinBounds
  BY DEF IInv, WithinBounds
<1> QED BY <1>1, <1>2, <1>3, PTL DEF Spec
-----------------------------------------------------------------------------
(* What torn reads do under 1.                                             *)

Floor == One - Half * torn

\* What a callback holds: a quote above the floor, or torn reads, already counted.
Above(c) ==
  /\ cb[c].at = "maximum" => cb[c].minimum + Half >= Floor
  /\ cb[c].at = "write" => \/ cb[c].minimum >= Floor
                           \/ /\ cb[c].maximum = cb[c].minimum + 2 * Half
                              /\ cb[c].minimum + Half >= Floor

\* A draw falls under its minimum never, and under the quote in the middle of its
\* arguments only where that is over 1.
LEMMA DrawAbove ==
  ASSUME NEW m \in Int, NEW M \in Int, NEW f \in Int, f <= One,
         m >= f \/ (M = m + 2 * Half /\ m + Half >= f),
         NEW d \in GetDoubleRandomNumber(m, M)
  PROVE  d \in Int /\ d >= f
<1>1. Half \in Nat \ {0} /\ One \in Int /\ Two \in Int /\ Two - One >= 4 * Half
  BY HalfAssumption, BandAssumption
<1>2. Abs(M - m) \in Nat /\ Abs(M - Half - m) \in Nat
  BY <1>1 DEF Abs
<1>3. PICK e \in Draws(m, Abs(M - m)) :
        d \in (IF e < One THEN Draws(m + Half, Abs(M - m))
               ELSE IF e > Two THEN Draws(m, Abs(M - Half - m)) ELSE {e})
  BY DEF GetDoubleRandomNumber
<1>4. \A g \in Int, r \in Nat : \A x \in Draws(g, r) : x \in Int /\ x >= g
  BY DEF Draws
<1>5. e \in Int /\ e >= m
  BY <1>2, <1>3, <1>4
<1>6. CASE e < One
  <2>1. d \in Int /\ d >= m + Half
    BY <1>1, <1>2, <1>3, <1>4, <1>6
  <2> QED BY <1>1, <2>1
<1>7. CASE ~(e < One) /\ e > Two
  <2>1. d \in Int /\ d >= m
    BY <1>1, <1>2, <1>3, <1>4, <1>7
  <2>2. CASE m >= f
    BY <2>1, <2>2
  <2>3. CASE M = m + 2 * Half
    <3>1. Abs(M - m) = 2 * Half
      BY <1>1, <2>3 DEF Abs
    <3>2. e \in m .. (m + 2 * Half - 1)
      BY <1>1, <1>3, <3>1 DEF Draws
    <3> QED BY <1>1, <1>7, <2>1, <3>2
  <2> QED BY <2>2, <2>3
<1>8. CASE ~(e < One) /\ ~(e > Two)
  BY <1>1, <1>3, <1>5, <1>8
<1> QED BY <1>6, <1>7, <1>8

LEMMA FloorFalls ==
  ASSUME TypeOK
  PROVE  /\ Floor \in Int /\ Floor <= One
         /\ torn' = torn => Floor' = Floor
         /\ torn' = torn + 1 => Floor' = Floor - Half
<1>1. Half \in Nat /\ One \in Int /\ torn \in Nat
  BY HalfAssumption, BandAssumption DEF TypeOK
<1>2. Half * torn \in Nat /\ Half * (torn + 1) = Half * torn + Half
  BY <1>1
<1> QED BY <1>1, <1>2 DEF Floor

\* Each call whose reads are torn takes the quotes 0.05 further under 1 at most, for
\* every grid and any number of overlapping callbacks and torn reads (Rates.cs:43-70).
THEOREM SinkingIsBounded == Spec => []SinksByTornReads
<1> DEFINE IAbove == TypeOK /\ SinksByTornReads /\ \A c \in Callbacks : Above(c)
<1>0. SinksByTornReads <=> \A s \in Sides : price[s] >= Floor
  BY DEF SinksByTornReads, Floor
<1>1. Init => IAbove
  BY HalfAssumption, BandAssumption
  DEF Init, TypeOK, SinksByTornReads, Above, Floor, Idle, Callback, Sides
<1>2. IAbove /\ [Next]_vars => IAbove'
  <2> SUFFICES ASSUME TypeOK, \A s \in Sides : price[s] >= Floor,
                      \A c \in Callbacks : Above(c), [Next]_vars
               PROVE  /\ \A s \in Sides : price'[s] >= Floor'
                      /\ \A k \in Callbacks : Above(k)'
    BY <1>0, TypeStep DEF SinksByTornReads, Floor
  <2> DEFINE f == Floor
  <2>0. /\ Half \in Nat /\ f \in Int /\ f <= One
        /\ torn' = torn => Floor' = f
        /\ torn' = torn + 1 => Floor' = f - Half
        /\ \A s \in Sides : price[s] \in Int /\ price[s] >= f
        /\ \A k \in Callbacks : cb[k].side \in Sides /\ cb[k].minimum \in Int /\ cb[k].maximum \in Int
    BY FloorFalls, HalfAssumption DEF TypeOK
  <2>1. ASSUME NEW k \in Callbacks
        PROVE  /\ cb[k].at = "maximum" => cb[k].minimum + Half >= f
               /\ cb[k].at = "write" => \/ cb[k].minimum >= f
                                        \/ /\ cb[k].maximum = cb[k].minimum + 2 * Half
                                           /\ cb[k].minimum + Half >= f
    BY <2>1 DEF Above
  <2> HIDE DEF f
  <2>2. CASE UNCHANGED vars
    BY <2>0, <2>1, <2>2 DEF vars, Above
  <2>3. ASSUME NEW c \in Callbacks, Elapsed(c) \/ ReadMinimum(c)
        PROVE  /\ \A s \in Sides : price'[s] >= Floor'
               /\ \A k \in Callbacks : Above(k)'
    <3>1. UNCHANGED <<price, torn>> /\ Floor' = f
      BY <2>0, <2>3 DEF Elapsed, ReadMinimum
    <3>2. \A k \in Callbacks \ {c} : cb'[k] = cb[k]
      BY <2>3 DEF Elapsed, ReadMinimum, TypeOK
    <3>3. Above(c)'
      BY <2>0, <2>3, <3>1 DEF Elapsed, ReadMinimum, Callback, TypeOK, Above
    <3> QED BY <2>0, <2>1, <3>1, <3>2, <3>3 DEF Above
  <2>4. ASSUME NEW c \in Callbacks, ReadMaximum(c)
        PROVE  /\ \A s \in Sides : price'[s] >= Floor'
               /\ \A k \in Callbacks : Above(k)'
    <3> DEFINE now == price[cb[c].side]
    <3>1. /\ UNCHANGED price /\ cb[c].at = "maximum"
          /\ torn' = IF now - Half = cb[c].minimum THEN torn ELSE torn + 1
          /\ \A k \in Callbacks \ {c} : cb'[k] = cb[k]
          /\ cb'[c].at = "write" /\ cb'[c].minimum = cb[c].minimum /\ cb'[c].maximum = now + Half
      BY <2>4 DEF ReadMaximum, Callback, TypeOK
    <3>2. now \in Int /\ cb[c].minimum \in Int /\ cb[c].minimum + Half >= f
      BY <2>0, <2>1, <3>1
    <3> HIDE DEF now
    <3>3. CASE now - Half = cb[c].minimum
      <4>1. Floor' = f /\ now + Half = cb[c].minimum + 2 * Half
        BY <2>0, <3>1, <3>2, <3>3
      <4>2. Above(c)'
        BY <3>1, <3>2, <4>1 DEF Above
      <4> QED BY <2>0, <2>1, <3>1, <4>1, <4>2 DEF Above
    <3>4. CASE now - Half # cb[c].minimum
      <4>1. Floor' = f - Half
        BY <2>0, <3>1, <3>4
      <4>2. Above(c)'
        BY <2>0, <3>1, <3>2, <4>1 DEF Above
      <4>3. ASSUME NEW k \in Callbacks \ {c} PROVE Above(k)'
        BY <2>0, <2>1, <3>1, <4>1, <4>3 DEF Above
      <4> QED BY <2>0, <3>1, <4>1, <4>2, <4>3
    <3> QED BY <3>3, <3>4
  <2>5. ASSUME NEW c \in Callbacks, Write(c)
        PROVE  /\ \A s \in Sides : price'[s] >= Floor'
               /\ \A k \in Callbacks : Above(k)'
    <3>1. PICK d \in GetDoubleRandomNumber(cb[c].minimum, cb[c].maximum) :
            price' = [price EXCEPT ![cb[c].side] = d]
      BY <2>5 DEF Write
    <3>2. cb[c].minimum >= f \/ (cb[c].maximum = cb[c].minimum + 2 * Half /\ cb[c].minimum + Half >= f)
      BY <2>1, <2>5 DEF Write
    <3>3. d >= f
      BY <2>0, <3>2, DrawAbove
    <3>4. Floor' = f
      BY <2>0, <2>5 DEF Write
    <3>5. \A s \in Sides : price'[s] >= Floor'
      BY <2>0, <3>1, <3>3, <3>4 DEF TypeOK
    <3>6. (\A k \in Callbacks \ {c} : cb'[k] = cb[k]) /\ cb'[c].at \notin {"maximum", "write"}
      BY <2>5 DEF Write, TypeOK, Idle, Callback
    <3>7. \A k \in Callbacks : Above(k)'
      BY <2>1, <3>4, <3>6 DEF Above
    <3> QED BY <3>5, <3>7
  <2> QED BY <2>2, <2>3, <2>4, <2>5 DEF Next
<1> QED BY <1>1, <1>2, PTL DEF Spec
=============================================================================
