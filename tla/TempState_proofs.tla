-------------------------- MODULE TempState_proofs --------------------------
(***************************************************************************)
(* What holds of a TemperatureState for any number of slots, any drivers   *)
(* and temperatures, and any bias.                                         *)
(***************************************************************************)
EXTENDS TempState, TLAPS

-----------------------------------------------------------------------------
(* Lemmas about the arithmetic *)

\* Truncating a product or a bias gives a whole number.
LEMMA DegreesType ==
  ASSUME NEW b \in Int
  PROVE  Degrees(b) \in Int
<1>1. Abs(b) \in Nat
  BY DEF Abs
<1>2. Abs(b) \div Scale \in Int
  BY <1>1 DEF Scale
<1>3. Sgn(b) \in {-1, 0, 1}
  BY DEF Sgn
<1> QED
  BY <1>2, <1>3 DEF Degrees, Truncate

\* The offset a quick rise leaves is a whole number of units.
LEMMA KickType ==
  ASSUME NEW d \in Int
  PROVE  Kick(d) \in Int
<1>1. d * Bias \in Int
  BY TempStateAssumption
<1>2. Abs(d * Bias) \in Nat
  BY <1>1 DEF Abs
<1>3. Abs(d * Bias) \div 10 \in Int
  BY <1>2
<1>4. Sgn(d * Bias) \in {-1, 0, 1}
  BY DEF Sgn
<1>5. Truncate(d * Bias, 10) \in Int
  BY <1>3, <1>4 DEF Truncate
<1> QED
  BY <1>5 DEF Kick, Scale

\* So is what is left of it after a calm reading.
LEMMA FadeType ==
  ASSUME NEW b \in Int
  PROVE  Fade(b) \in Int
BY DEF Fade, Abs, Sgn, Scale

\* One calm reading: nothing is left, or less of the same sign.
LEMMA FadeFades ==
  ASSUME NEW b \in Int
  PROVE  LET old == Degrees(b)  new == Degrees(Fade(b))
         IN  new = 0 \/ (Sgn(new) = Sgn(old) /\ Abs(new) < Abs(old))
<1> DEFINE c == Fade(b)
<1>1. CASE 2 * Abs(b) < 100
  <2>1. c = 0
    BY <1>1 DEF Fade, Scale
  <2> QED
    BY <2>1 DEF Degrees, Truncate, Sgn, Abs, Scale
<1>2. CASE ~(2 * Abs(b) < 100) /\ b > 0
  <2>1. c = b - (100 + b \div 5) /\ b >= 50
    BY <1>2 DEF Fade, Abs, Sgn, Scale
  <2>2. c <= b - 100 /\ c >= -60 /\ c \in Int
    BY <2>1
  <2>3. Degrees(b) = b \div 100
    BY <1>2 DEF Degrees, Truncate, Sgn, Abs, Scale
  <2>4. CASE c < 0
    <3>1. Degrees(c) = -1 * ((-c) \div 100)
      BY <2>2, <2>4 DEF Degrees, Truncate, Sgn, Abs, Scale
    <3> QED
      BY <2>2, <2>4, <3>1
  <2>5. CASE c = 0
    BY <2>5 DEF Degrees, Truncate, Sgn, Abs, Scale
  <2>6. CASE c > 0
    <3>1. Degrees(c) = c \div 100
      BY <2>2, <2>6 DEF Degrees, Truncate, Sgn, Abs, Scale
    <3>2. c \div 100 >= 0 /\ c \div 100 < b \div 100
      BY <2>2, <2>6
    <3> QED
      BY <2>3, <3>1, <3>2, <2>2 DEF Sgn, Abs
  <2> QED
    BY <2>2, <2>4, <2>5, <2>6
<1>3. CASE ~(2 * Abs(b) < 100) /\ b < 0
  <2>1. c = b + (100 + (-b) \div 5) /\ b <= -50
    BY <1>3 DEF Fade, Abs, Sgn, Scale
  <2>2. c >= b + 100 /\ c <= 60 /\ c \in Int
    BY <2>1
  <2>3. Degrees(b) = -1 * ((-b) \div 100)
    BY <1>3 DEF Degrees, Truncate, Sgn, Abs, Scale
  <2>4. CASE c > 0
    <3>1. Degrees(c) = c \div 100
      BY <2>2, <2>4 DEF Degrees, Truncate, Sgn, Abs, Scale
    <3> QED
      BY <2>2, <2>4, <3>1
  <2>5. CASE c = 0
    BY <2>5 DEF Degrees, Truncate, Sgn, Abs, Scale
  <2>6. CASE c < 0
    <3>1. Degrees(c) = -1 * ((-c) \div 100)
      BY <2>2, <2>6 DEF Degrees, Truncate, Sgn, Abs, Scale
    <3>2. (-c) \div 100 >= 0 /\ (-c) \div 100 < (-b) \div 100
      BY <2>2, <2>6
    <3> QED
      BY <2>3, <3>1, <3>2, <2>2 DEF Sgn, Abs
  <2> QED
    BY <2>2, <2>4, <2>5, <2>6
<1>4. b > 0 \/ b < 0 \/ 2 * Abs(b) < 100
  BY DEF Abs
<1> QED
  BY <1>1, <1>2, <1>3, <1>4

-----------------------------------------------------------------------------
(* add_temp *)

\* What a step that adds a temperature does to the slots.
LEMMA AddTempEffect ==
  ASSUME TypeOK, cursor \in Slots, NEW t \in Int, AddTemp(t)
  PROVE  /\ temp' \in [Slots -> Int] /\ bias' \in [Slots -> Int]
         /\ biased' \in [Slots -> Int]
         /\ tmax' \in Slots
         /\ \A i \in Slots \ {cursor} : biased'[i] = biased[i]
         /\ biased'[tmax] <= biased'[tmax'] /\ biased'[cursor] <= biased'[tmax']
         /\ temp'[cursor] = t
         /\ Rise(t) <= 2 => bias'[cursor] = Fade(bias[cursor])
<1> DEFINE b == IF Rise(t) > 2 THEN Kick(Rise(t)) ELSE Fade(bias[cursor])
<1>1. Rise(t) \in Int
  BY DEF Rise, TypeOK
<1>2. b \in Int
  <2>1. Kick(Rise(t)) \in Int
    BY <1>1, KickType
  <2>2. Fade(bias[cursor]) \in Int
    BY FadeType DEF TypeOK
  <2> QED
    BY <2>1, <2>2
<1>3. Degrees(b) \in Int
  BY <1>2, DegreesType
<1>4. /\ temp' = [temp EXCEPT ![cursor] = t]
      /\ bias' = [bias EXCEPT ![cursor] = b]
      /\ biased' = [biased EXCEPT ![cursor] = t + Degrees(b)]
      /\ tmax' = IF biased'[cursor] > biased'[tmax] THEN cursor ELSE tmax
  BY DEF AddTemp, NextTmax, NextSleep
<1>5. t + Degrees(b) \in Int
  BY <1>3
<1> HIDE DEF b
<1>6. /\ temp' \in [Slots -> Int] /\ bias' \in [Slots -> Int]
      /\ biased' \in [Slots -> Int]
  BY <1>2, <1>4, <1>5 DEF TypeOK
<1>7. tmax' \in Slots
  BY <1>4 DEF TypeOK
<1>8. biased'[tmax] <= biased'[tmax'] /\ biased'[cursor] <= biased'[tmax']
  <2>1. biased'[tmax] \in Int /\ biased'[cursor] \in Int
    BY <1>6 DEF TypeOK
  <2> QED
    BY <1>4, <2>1
<1>9. \A i \in Slots \ {cursor} : biased'[i] = biased[i]
  BY <1>4 DEF TypeOK
<1>10. temp'[cursor] = t
  BY <1>4 DEF TypeOK
<1>11. Rise(t) <= 2 => bias'[cursor] = Fade(bias[cursor])
  BY <1>1, <1>4 DEF TypeOK, b
<1> QED
  BY <1>6, <1>7, <1>8, <1>9, <1>10, <1>11

\* The time to sleep stays between the quick poll and the user's.
LEMMA SleepInRange ==
  ASSUME TypeOK, NEW t \in Int, AddTemp(t)
  PROVE  tmp_sleeptime' \in 1..Sleeptime /\ (tmp_sleeptime' = 1 => Sleeptime = 1)
<1> DEFINE quick == Rise(t) > 2
<1>1. tmp_sleeptime' =
        IF quick THEN (IF tmp_sleeptime > 2 THEN 2 ELSE tmp_sleeptime)
        ELSE IF tmp_sleeptime < Sleeptime THEN tmp_sleeptime + 1
        ELSE tmp_sleeptime
  BY DEF AddTemp, NextTmax, NextSleep
<1>2. quick \in BOOLEAN
  OBVIOUS
<1> HIDE DEF quick
<1> QED
  BY <1>1, <1>2, TempStateAssumption DEF TypeOK

-----------------------------------------------------------------------------
(* The theorems *)

\* The type invariant, with the bounds of tmp_sleeptime.
THEOREM TypeCorrect == Spec => []TypeOK
<1> USE TempStateAssumption
<1>a. 1 \in Slots /\ 1 \in 1..Done /\ Blank \in [Slots -> Int]
  BY DEF Slots, Done, Blank
<1>b. Sleeptime \in 1..Sleeptime /\ (Sleeptime = 1 => Sleeptime = 1)
  OBVIOUS
<1>1. Init => TypeOK
  <2> SUFFICES ASSUME Init PROVE TypeOK
    OBVIOUS
  <2>1. temp = Blank /\ bias = Blank /\ biased = Blank
    BY DEF Init
  <2> QED
    BY <2>1, <1>a, <1>b DEF Init, TypeOK
<1>2. TypeOK /\ [Next]_vars => TypeOK'
  <2> SUFFICES ASSUME TypeOK, [Next]_vars PROVE TypeOK'
    OBVIOUS
  <2>1. CASE ReadNext
    <3>1. PICK t \in Temps : AddTemp(t)
      BY <2>1 DEF ReadNext
    <3>2. t \in Int /\ cursor \in Slots
      BY <2>1 DEF ReadNext
    <3>3. fresh' \subseteq Slots /\ fell' \in BOOLEAN
      BY <3>1, <3>2 DEF AddTemp, TypeOK
    <3>4. cursor' \in 1..Done
      BY <2>1, <3>2 DEF ReadNext, Slots, Done
    <3> QED
      BY <2>1, <3>1, <3>2, <3>3, <3>4, AddTempEffect, SleepInRange
         DEF ReadNext, TypeOK
  <2>2. CASE LeaveRest
    <3>1. cursor' \in 1..Done
      BY <2>2 DEF LeaveRest, ToNextDriver, Slots, Done
    <3> QED
      BY <2>2, <3>1 DEF LeaveRest, history, TypeOK
  <2>3. CASE LoseOptional
    <3>1. Gone \in Int /\ cursor \in Slots /\ AddTemp(Gone)
      BY <2>3 DEF LoseOptional, Gone
    <3>2. fresh' \subseteq Slots /\ fell' \in BOOLEAN
      BY <3>1 DEF AddTemp, TypeOK
    <3>3. cursor' \in 1..Done
      BY <2>3 DEF LoseOptional, ToNextDriver, Slots, Done
    <3> QED
      BY <3>1, <3>2, <3>3, AddTempEffect, SleepInRange DEF TypeOK
  <2>4. CASE NewRound
    BY <2>4, <1>a DEF NewRound, TypeOK
  <2>5. CASE Relax
    BY <2>5 DEF Relax, history, TypeOK
  <2>6. CASE Renew
    <3>1. temp' = Blank /\ bias' = Blank /\ biased' = Blank
      BY <2>6 DEF Renew
    <3> QED
      BY <2>6, <3>1, <1>a, <1>b DEF Renew, TypeOK
  <2>7. CASE UNCHANGED vars
    BY <2>7 DEF vars, history, TypeOK
  <2> QED
    BY <2>1, <2>2, <2>3, <2>4, <2>5, <2>6, <2>7 DEF Next
<1> QED
  BY <1>1, <1>2, PTL DEF Spec

\* A value that was at most *tmax still is after a temperature was added,
\* unless the slot of tmax has fallen.
LEMMA AddTempTracks ==
  ASSUME TypeOK, TmaxTracks, cursor \in Slots, NEW t \in Int, AddTemp(t)
  PROVE  TmaxTracks'
<1> SUFFICES ASSUME ~fell', NEW i \in fresh' PROVE biased'[i] <= biased'[tmax']
  BY DEF TmaxTracks
<1>1. ~fell /\ ~(cursor = tmax /\ biased'[cursor] < biased[cursor])
  BY DEF AddTemp, NextTmax, NextSleep
<1>2. biased' \in [Slots -> Int] /\ biased \in [Slots -> Int]
      /\ tmax \in Slots /\ tmax' \in Slots
  BY AddTempEffect DEF TypeOK
<1>3. CASE i = cursor
  BY <1>3, AddTempEffect
<1>4. CASE i # cursor
  <2>1. i \in fresh /\ i \in Slots
    BY <1>4 DEF AddTemp, TypeOK
  <2>2. biased[i] <= biased[tmax]
    BY <1>1, <2>1 DEF TmaxTracks
  <2>3. biased[tmax] <= biased'[tmax]
    BY <1>1, <1>2, AddTempEffect
  <2>4. biased'[tmax] <= biased'[tmax'] /\ biased'[i] = biased[i]
    BY <1>4, <2>1, AddTempEffect
  <2>5. biased[i] \in Int /\ biased[tmax] \in Int /\ biased'[tmax] \in Int
        /\ biased'[tmax'] \in Int
    BY <1>2, <2>1
  <2> QED
    BY <2>2, <2>3, <2>4, <2>5
<1> QED
  BY <1>3, <1>4

\* tmax is right about the temperatures of the round unless its own fell.
THEOREM TmaxTheorem == Spec => []TmaxTracks
<1>1. Init => TmaxTracks
  BY DEF Init, TmaxTracks
<1>2. TypeOK /\ TmaxTracks /\ [Next]_vars => TmaxTracks'
  <2> SUFFICES ASSUME TypeOK, TmaxTracks, [Next]_vars PROVE TmaxTracks'
    OBVIOUS
  <2>1. CASE ReadNext
    BY <2>1, AddTempTracks, TempStateAssumption DEF ReadNext
  <2>2. CASE LoseOptional
    BY <2>2, AddTempTracks DEF LoseOptional, Gone
  <2>3. CASE LeaveRest \/ Relax \/ UNCHANGED vars
    BY <2>3 DEF LeaveRest, Relax, vars, history, TmaxTracks
  <2>4. CASE NewRound \/ Renew
    BY <2>4 DEF NewRound, Renew, TmaxTracks
  <2> QED
    BY <2>1, <2>2, <2>3, <2>4 DEF Next
<1> QED
  BY <1>1, <1>2, TypeCorrect, PTL DEF Spec

\* Every calm reading takes the offset towards 0, whatever -b is.
THEOREM BiasFadesTheorem == Spec => BiasFades
<1> DEFINE Fading ==
      \A i \in Slots :
        i \in fresh' \ fresh /\ ~(temp[i] > 0 /\ temp'[i] - temp[i] > 2) =>
          LET old == Degrees(bias[i])  new == Degrees(bias'[i])
          IN  new = 0 \/ (Sgn(new) = Sgn(old) /\ Abs(new) < Abs(old))
<1>1. ASSUME TypeOK, cursor \in Slots, NEW t \in Int, AddTemp(t) PROVE Fading
  <2> SUFFICES ASSUME NEW i \in Slots, i \in fresh' \ fresh,
                      ~(temp[i] > 0 /\ temp'[i] - temp[i] > 2)
               PROVE  LET old == Degrees(bias[i])  new == Degrees(bias'[i])
                      IN  new = 0 \/ (Sgn(new) = Sgn(old) /\ Abs(new) < Abs(old))
    OBVIOUS
  <2>1. i = cursor
    BY <1>1 DEF AddTemp
  <2>2. Rise(t) <= 2
    BY <1>1, <2>1, AddTempEffect DEF Rise, TypeOK
  <2>3. bias'[i] = Fade(bias[i])
    BY <1>1, <2>1, <2>2, AddTempEffect
  <2>4. bias[i] \in Int
    BY <1>1 DEF TypeOK
  <2> QED
    BY <2>3, <2>4, FadeFades
<1>2. TypeOK /\ [Next]_vars => [Fading]_vars
  <2> SUFFICES ASSUME TypeOK, Next PROVE Fading
    OBVIOUS
  <2>1. CASE ReadNext
    BY <2>1, <1>1, TempStateAssumption DEF ReadNext
  <2>2. CASE LoseOptional
    BY <2>2, <1>1 DEF LoseOptional, Gone
  <2>3. CASE LeaveRest \/ Relax \/ NewRound \/ Renew
    BY <2>3 DEF LeaveRest, Relax, NewRound, Renew, history
  <2> QED
    BY <2>1, <2>2, <2>3 DEF Next
<1> QED
  BY <1>2, TypeCorrect, PTL DEF Spec, BiasFades
=============================================================================
