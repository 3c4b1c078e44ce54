--------------------------- MODULE Stepwise_proofs ---------------------------
(***************************************************************************)
(* What holds of a StepwiseMapping for tables of any length, any limits    *)
(* and any number of temperatures.                                         *)
(***************************************************************************)
EXTENDS Stepwise, TLAPS

\* What add_level establishes, pair by pair, unless -D has switched it off.
TableOverlaps ==
  ChkSanity => \A l \in 1..Last - 1 : Overlaps(levels[l], levels[l + 1])

-----------------------------------------------------------------------------

\* add_level extends a table of levels by one level.
LEMMA AppendLevel ==
  ASSUME NEW s \in Seq(Level), NEW l \in Level
  PROVE  /\ Append(s, l) \in Seq(Level)
         /\ Len(Append(s, l)) = Len(s) + 1
         /\ \A k \in 1..Len(s) : Append(s, l)[k] = s[k]
         /\ Append(s, l)[Len(s) + 1] = l
OBVIOUS

\* The type invariant: in particular cur_lvl_ never leaves the table.
THEOREM TypeCorrect == Spec => []TypeOK
<1>1. Init => TypeOK
  <2> SUFFICES ASSUME Init PROVE TypeOK
    OBVIOUS
  <2>1. levels \in Seq(Level) /\ Len(levels) = 0
    BY DEF Init
  <2>2. temps \in Observations
    BY StepwiseAssumption DEF Init, Observations
  <2> QED
    BY <2>1, <2>2, StepwiseAssumption DEF Init, TypeOK, Last
<1>2. TypeOK /\ [Next]_vars => TypeOK'
  <2> SUFFICES ASSUME TypeOK, [Next]_vars PROVE TypeOK'
    OBVIOUS
  <2> USE StepwiseAssumption
  <2>1. ASSUME NEW l \in Level, AddLevel(l) PROVE TypeOK'
    <3>1. CASE levels' = Append(levels, l) /\ phase' = phase
      <4>1. levels' \in Seq(Level) /\ Len(levels') = Len(levels) + 1
        BY <3>1, AppendLevel DEF TypeOK
      <4> QED
        BY <2>1, <3>1, <4>1 DEF AddLevel, TypeOK, Last
    <3>2. CASE phase' = "rejected" /\ levels' = levels
      BY <2>1, <3>2 DEF AddLevel, TypeOK, Last
    <3> QED
      BY <2>1, <3>1, <3>2 DEF AddLevel
  <2>2. CASE Finish
    <3>1. Consistent => Last > 0
      BY DEF Consistent, TypeOK, Last
    <3> QED
      BY <2>2, <3>1 DEF Finish, TypeOK, Last
  <2>3. CASE InitFanspeed
    BY <2>3 DEF InitFanspeed, SetSpeed, TypeOK, Last
  <2>4. CASE GoUp
    BY <2>4 DEF GoUp, SetSpeed, TypeOK, Last
  <2>5. CASE GoDown
    BY <2>5 DEF GoDown, SetSpeed, TypeOK, Last
  <2>6. CASE Stay
    BY <2>6 DEF Stay, SetSpeed, TypeOK, Last
  <2>7. CASE Observe
    BY <2>7 DEF Observe, TypeOK, Last
  <2>8. CASE Restart
    BY <2>8 DEF Restart, TypeOK, Last
  <2>9. CASE UNCHANGED vars
    BY <2>9 DEF vars, TypeOK, Last
  <2> QED
    BY <2>1, <2>2, <2>3, <2>4, <2>5, <2>6, <2>7, <2>8, <2>9 DEF Next
<1> QED
  BY <1>1, <1>2, PTL DEF Spec

-----------------------------------------------------------------------------

\* Levels are only ever added at the end, after they were compared with the
\* last one.
LEMMA TableInvariant == Spec => []TableOverlaps
<1>1. Init => TableOverlaps
  BY DEF Init, TableOverlaps, Last
<1>2. TypeOK /\ TableOverlaps /\ [Next]_vars => TableOverlaps'
  <2> SUFFICES ASSUME TypeOK, TableOverlaps, [Next]_vars, ChkSanity,
                      NEW k \in 1..Last' - 1
               PROVE  Overlaps(levels'[k], levels'[k + 1])
    BY DEF TableOverlaps, Overlaps
  <2>1. ASSUME NEW l \in Level, AddLevel(l), levels' = Append(levels, l),
               levels' # levels
        PROVE  Overlaps(levels'[k], levels'[k + 1])
    <3>1. /\ Len(levels') = Len(levels) + 1
          /\ \A j \in 1..Len(levels) : levels'[j] = levels[j]
          /\ levels'[Len(levels) + 1] = l
      BY <2>1, AppendLevel DEF TypeOK
    <3>2. Len(levels) \in Nat
      BY DEF TypeOK
    <3>3. CASE k < Len(levels)
      <4>1. k \in 1..Last - 1 /\ k + 1 \in 1..Len(levels) /\ k \in 1..Len(levels)
        BY <3>2, <3>3 DEF Last
      <4> QED
        BY <3>1, <4>1 DEF TableOverlaps
    <3>4. CASE k = Len(levels)
      <4>1. k = Last /\ levels'[k + 1] = l /\ k \in 1..Len(levels)
        BY <3>1, <3>2, <3>4 DEF Last
      <4>2. levels # <<>>
        BY <4>1
      <4>3. phase' = phase
        BY <2>1 DEF AddLevel
      <4>4. Accepted(l)
        BY <2>1 DEF AddLevel
      <4> QED
        BY <3>1, <4>1, <4>2, <4>4 DEF Accepted
    <3> QED
      BY <3>1, <3>2, <3>3, <3>4 DEF Last
  <2>2. CASE levels' = levels
    BY <2>2 DEF TableOverlaps, Last
  <2> QED
    BY <2>1, <2>2 DEF Next, AddLevel, Finish, InitFanspeed, GoUp, GoDown, Stay,
                      Observe, Restart, vars
<1> QED
  BY <1>1, <1>2, TypeCorrect, PTL DEF Spec

-----------------------------------------------------------------------------

\* A level that asks for the next one is a level the next one does not give
\* back: what is not below the upper limit of the one is not below the lower
\* limit of the other.
LEMMA NoWayBack ==
  ASSUME TypeOK, TableOverlaps, ChkSanity,
         NEW o \in Observations, NEW l \in 1..Last - 1
  PROVE  ~(Up(o, l) /\ Down(o, l + 1))
<1> SUFFICES ASSUME Up(o, l), Down(o, l + 1) PROVE FALSE
  OBVIOUS
<1>1. PICK i \in Sensors : o[i] >= levels[l].upper[i]
  BY DEF Up
<1>2. levels[l].upper[i] >= levels[l + 1].lower[i]
  BY DEF TableOverlaps, Overlaps
<1>3. o[i] < levels[l + 1].lower[i]
  BY DEF Down
<1>4. o[i] \in Int
  BY StepwiseAssumption DEF Observations
<1>5. levels[l].upper[i] \in Int /\ levels[l + 1].lower[i] \in Int
  <2>1. levels[l] \in Level /\ levels[l + 1] \in Level
    BY DEF TypeOK, Last
  <2> QED
    BY <2>1, StepwiseAssumption DEF Level
<1> QED
  BY <1>1, <1>2, <1>3, <1>4, <1>5

\* A fan mapping built with sanity checks never hunts.
THEOREM SettledTheorem == ASSUME ChkSanity PROVE Spec => []Settled
<1>1. Init => Settled
  BY DEF Init, Settled
<1>2. TypeOK /\ TableOverlaps /\ Settled /\ [Next]_vars => Settled'
  <2> SUFFICES ASSUME TypeOK, TableOverlaps, Settled, [Next]_vars,
                      phase' = "idle"
               PROVE  ~WantsUp(temps, cur)' /\ ~WantsDown(temps, cur)'
    BY DEF Settled
  <2> USE DEF Last
  <2>a. Len(levels) \in Nat /\ temps \in Observations
    BY DEF TypeOK
  <2>1. CASE InitFanspeed
    <3>1. PICK l \in 1..Last : Begins(temps, l) /\ cur' = l
      BY <2>1 DEF InitFanspeed
    <3>2. ~WantsDown(temps, l)
      BY <3>1 DEF Begins, Descends
    <3>3. ~WantsUp(temps, l)
      <4> SUFFICES ASSUME WantsUp(temps, l) PROVE FALSE
        OBVIOUS
      <4>1. l \in 1..Last - 1 /\ l + 1 \in l + 1 .. Last
        BY <2>a DEF WantsUp
      <4>2. WantsDown(temps, l + 1)
        BY <3>1, <4>1 DEF Begins, Descends
      <4> QED
        BY <2>a, <4>1, <4>2, NoWayBack DEF WantsUp, WantsDown
    <3> QED
      BY <2>1, <3>1, <3>2, <3>3 DEF InitFanspeed, WantsUp, WantsDown, Up, Down
  <2>2. CASE GoUp
    <3>1. PICK l \in cur + 1 .. Last : Climbs(temps, cur, l) /\ cur' = l
      BY <2>2 DEF GoUp
    <3>2. ~WantsUp(temps, l)
      BY <3>1 DEF Climbs
    <3>3. ~WantsDown(temps, l)
      <4>1. cur > 0 /\ cur \in Nat
        BY <2>2, <2>a DEF TypeOK, GoUp
      <4>2. l - 1 \in 1..Last - 1 /\ l - 1 \in cur .. l - 1 /\ (l - 1) + 1 = l
        BY <2>a, <4>1
      <4>3. WantsUp(temps, l - 1)
        BY <3>1, <4>2 DEF Climbs
      <4>4. ~Down(temps, (l - 1) + 1)
        BY <2>a, <4>2, <4>3, NoWayBack DEF WantsUp
      <4> QED
        BY <4>2, <4>4 DEF WantsDown
    <3> QED
      BY <2>2, <3>1, <3>2, <3>3 DEF GoUp, WantsUp, WantsDown, Up, Down
  <2>3. CASE GoDown
    <3>1. PICK l \in 1 .. cur - 1 : Descends(temps, cur, l) /\ cur' = l
      BY <2>3 DEF GoDown
    <3>2. ~WantsDown(temps, l)
      BY <3>1 DEF Descends
    <3>3. ~WantsUp(temps, l)
      <4>1. cur \in Nat /\ cur <= Last
        BY <2>a DEF TypeOK
      <4>2. l \in 1..Last - 1 /\ l + 1 \in l + 1 .. cur
        BY <2>a, <4>1
      <4>3. WantsDown(temps, l + 1)
        BY <3>1, <4>2 DEF Descends
      <4> QED
        BY <2>a, <4>2, <4>3, NoWayBack DEF WantsUp, WantsDown
    <3> QED
      BY <2>3, <3>1, <3>2, <3>3 DEF GoDown, WantsUp, WantsDown, Up, Down
  <2>4. CASE Stay
    BY <2>4 DEF Stay, WantsUp, WantsDown, Up, Down
  <2>5. CASE UNCHANGED vars
    BY <2>5 DEF vars, Settled, WantsUp, WantsDown, Up, Down
  <2> QED
    BY <2>1, <2>2, <2>3, <2>4, <2>5
       DEF Next, AddLevel, Finish, Observe, Restart
<1> QED
  BY <1>1, <1>2, TypeCorrect, TableInvariant, PTL DEF Spec

\* Beginning anew does not slow the fan down.
THEOREM RestartTheorem == ASSUME ChkSanity PROVE Spec => []RestartNotSlower
<1>1. TypeOK /\ Settled => RestartNotSlower
  <2> SUFFICES ASSUME TypeOK, Settled, phase = "idle",
                      NEW l \in 1..Last, Begins(temps, l), ~(cur <= l)
               PROVE  FALSE
    BY DEF RestartNotSlower
  <2>1. cur \in l + 1 .. Last
    BY DEF TypeOK, Last
  <2>2. WantsDown(temps, cur)
    BY <2>1 DEF Begins, Descends
  <2> QED
    BY <2>2 DEF Settled
<1> QED
  BY <1>1, TypeCorrect, SettledTheorem, PTL
=============================================================================
