-------------------------- MODULE FanWatchdog_proofs --------------------------
(***************************************************************************)
(* What holds of the watchdog for any length of its time, of a sleep and   *)
(* of a delay, and any number of levels.                                   *)
(***************************************************************************)
EXTENDS FanWatchdog, TLAPS

\* While writes succeed and the clock runs evenly, last_watchdog_ping_ is when
\* the watchdog was reset, and a sleep begins only if it can end in time.
InTime ==
  ~skipped /\ ~jumped =>
    /\ since = age
    /\ pc = "sleep" => age = 0 \/ age < Watchdog - Sleeptime
    /\ pc = "decide" => age < Watchdog + Delay

IInv == TypeOK /\ InTime

-----------------------------------------------------------------------------
(* Lemmas *)

\* The bound of the model.
LEMMA CapType == AgeCap \in Nat /\ 0 \in 0..AgeCap
<1>1. 2 * Watchdog \in Nat
  BY WatchdogAssumption
<1> QED
  BY <1>1, WatchdogAssumption DEF AgeCap

\* Time is added up to a bound.
LEMMA LaterType ==
  ASSUME NEW t \in Nat
  PROVE  /\ AgeCap \in Nat
         /\ \A x \in Int : Later(x, t) \in Int
         /\ \A x \in 0..AgeCap : Later(x, t) \in 0..AgeCap
         /\ \A x \in 0..AgeCap : Later(x, t) <= x + t
  BY CapType DEF Later

\* One sleep, and what comes on top of it, after a sleep could begin.
LEMMA OneSleep ==
  ASSUME NEW x \in Nat, NEW y \in Nat, NEW t \in 1..Sleeptime, NEW d \in 0..Delay,
         x = 0 \/ x < Watchdog - Sleeptime, y <= x + (t + d)
  PROVE  y < Watchdog + Delay
  BY WatchdogAssumption

\* What a write does, skipped or not.
LEMMA SetSpeedEffect ==
  ASSUME TypeOK, NEW l \in Levels, SetSpeed(l)
  PROVE  /\ cur' \in Levels /\ written' \in Levels
         /\ mode' \in {"thinkfan", "firmware"}
         /\ since' = 0 /\ jumped' = FALSE
         /\ skipped' \in BOOLEAN /\ age' \in 0..AgeCap
         /\ ~skipped' => age' = 0
<1>1. 0 \in 0..AgeCap
  BY CapType
<1> QED
  BY <1>1 DEF TypeOK, SetSpeed, Writes, Skips

-----------------------------------------------------------------------------
(* The steps *)

\* A sleep, and the readings after it.
LEMMA SleepKeeps ==
  ASSUME IInv, SleepAndRead
  PROVE  IInv'
<1>1. PICK d \in 0..Delay :
        /\ since' = Later(since, tmp_sleeptime + d)
        /\ age' = Later(age, tmp_sleeptime + d)
  BY DEF SleepAndRead
<1>2. tmp_sleeptime \in 1..Sleeptime /\ tmp_sleeptime + d \in Nat
      /\ since \in Int /\ age \in 0..AgeCap
  BY WatchdogAssumption DEF IInv, TypeOK
<1>3. since' \in Int /\ age' \in 0..AgeCap /\ age' <= age + (tmp_sleeptime + d)
  BY <1>1, <1>2, LaterType
<1>4. TypeOK'
  BY <1>3 DEF IInv, TypeOK, SleepAndRead
<1>5. InTime'
  <2> SUFFICES ASSUME ~skipped, ~jumped
               PROVE  since' = age' /\ age' < Watchdog + Delay
    BY DEF InTime, SleepAndRead
  <2>1. since = age /\ (age = 0 \/ age < Watchdog - Sleeptime)
    BY DEF IInv, InTime, SleepAndRead
  <2>2. age \in Nat /\ age' \in Nat
    BY <1>2, <1>3, LaterType
  <2>3. age' < Watchdog + Delay
    BY <1>2, <1>3, <2>1, <2>2, OneSleep
  <2> QED
    BY <1>1, <2>1, <2>3
<1> QED
  BY <1>4, <1>5 DEF IInv

\* A step that writes a level, or is forgiven that it cannot.
LEMMA AttemptKeeps ==
  ASSUME IInv, ChangeLevel \/ Ping \/ Restart
  PROVE  IInv'
<1>1. /\ pc' = "sleep" /\ jumps' = jumps
      /\ tmp_sleeptime' \in 1..Sleeptime
  BY WatchdogAssumption DEF ChangeLevel, Ping, Restart, IInv, TypeOK
<1>2. CASE \E l \in Levels : SetSpeed(l)
  <2>1. /\ cur' \in Levels /\ written' \in Levels
        /\ mode' \in {"thinkfan", "firmware"}
        /\ since' = 0 /\ jumped' = FALSE
        /\ skipped' \in BOOLEAN /\ age' \in 0..AgeCap
        /\ ~skipped' => age' = 0
    BY <1>2, SetSpeedEffect DEF IInv
  <2>2. TypeOK'
    <3>1. since' \in Int /\ jumps' \in 0..Jumps
      BY <1>1, <2>1 DEF IInv, TypeOK
    <3>2. pc' \in {"sleep", "decide"} /\ jumped' \in BOOLEAN
      BY <1>1, <2>1, Zenon
    <3> QED
      BY <1>1, <2>1, <3>1, <3>2, Zenon DEF TypeOK
  <2>3. InTime'
    BY <1>1, <2>1 DEF InTime
  <2> QED
    BY <2>2, <2>3 DEF IInv
<1>3. CASE \E l \in Levels :
             /\ cur' = l /\ since' = 0 /\ jumped' = FALSE
             /\ age' = 0 /\ skipped' = TRUE
             /\ mode' \in {mode, "firmware"}
             /\ UNCHANGED written
  <2>1. TypeOK'
    <3>1. since' \in Int /\ age' \in 0..AgeCap /\ jumps' \in 0..Jumps
      BY <1>1, <1>3, CapType DEF IInv, TypeOK
    <3>2. jumped' \in BOOLEAN /\ skipped' \in BOOLEAN
      BY <1>3, Zenon
    <3>3. /\ pc' \in {"sleep", "decide"} /\ cur' \in Levels /\ written' \in Levels
          /\ mode' \in {"thinkfan", "firmware"}
      BY <1>1, <1>3 DEF IInv, TypeOK
    <3> QED
      BY <1>1, <3>1, <3>2, <3>3, Zenon DEF TypeOK
  <2>2. InTime'
    BY <1>3 DEF InTime
  <2> QED
    BY <2>1, <2>2 DEF IInv
<1>4. cur \in Levels
  BY DEF IInv, TypeOK
<1> QED
  BY <1>2, <1>3, <1>4 DEF ChangeLevel, Ping, Restart

\* Nothing is written, since it is not yet time.
LEMMA KeepKeeps ==
  ASSUME IInv, Keep
  PROVE  IInv'
<1>1. TypeOK'
  BY DEF IInv, TypeOK, Keep
<1>2. since \in Int /\ (since >= Watchdog - Sleeptime \/ since < Watchdog - Sleeptime)
  BY WatchdogAssumption DEF IInv, TypeOK
<1>3. InTime'
  BY <1>2 DEF IInv, InTime, Keep, Due
<1> QED
  BY <1>1, <1>3 DEF IInv

\* The clock is set.
LEMMA ClockKeeps ==
  ASSUME IInv, SetClock
  PROVE  IInv'
<1>1. since' \in Int
  <2>1. since \in Int /\ Watchdog \in Nat
    BY WatchdogAssumption DEF IInv, TypeOK
  <2>2. Later(since, 1) \in Int /\ Later(since, Watchdog) \in Int
    BY <2>1, LaterType
  <2> QED
    BY <2>1, <2>2 DEF SetClock
<1>2. jumps' \in 0..Jumps
  BY WatchdogAssumption DEF IInv, TypeOK, SetClock
<1> QED
  BY <1>1, <1>2 DEF IInv, TypeOK, InTime, SetClock

\* The first level has just been written, or was forgiven.
LEMMA InitHolds == Init => IInv
<1> SUFFICES ASSUME Init PROVE IInv
  OBVIOUS
<1>1. 0 \in 0..AgeCap /\ 0 \in 0..Jumps /\ Sleeptime \in 1..Sleeptime
  BY CapType, WatchdogAssumption
<1>2. TypeOK
  <2>1. since \in Int /\ age \in 0..AgeCap /\ jumps \in 0..Jumps
    BY <1>1 DEF Init
  <2>2. jumped \in BOOLEAN /\ skipped \in BOOLEAN
    BY Zenon DEF Init
  <2>3. /\ pc \in {"sleep", "decide"} /\ cur \in Levels /\ written \in Levels
        /\ mode \in {"thinkfan", "firmware"} /\ tmp_sleeptime \in 1..Sleeptime
    BY <1>1 DEF Init
  <2> QED
    BY <2>1, <2>2, <2>3, Zenon DEF TypeOK
<1>3. InTime
  BY DEF Init, InTime
<1> QED
  BY <1>2, <1>3 DEF IInv

\* The inductive invariant is one.
LEMMA Invariance == Spec => []IInv
<1>1. IInv /\ [Next]_vars => IInv'
  <2>1. IInv /\ UNCHANGED vars => IInv'
    BY DEF IInv, TypeOK, InTime, vars
  <2> QED
    BY <2>1, SleepKeeps, AttemptKeeps, KeepKeeps, ClockKeeps DEF Next, Main
<1> QED
  BY <1>1, InitHolds, PTL DEF Spec

-----------------------------------------------------------------------------
(* The theorems *)

\* The values of the variables, for any times.
THEOREM TypeCorrect == Spec => []TypeOK
<1>1. IInv => TypeOK
  BY DEF IInv
<1> QED
  BY <1>1, Invariance, PTL

\* Whatever the watchdog's time and the sleep are, the watchdog expires by no
\* more than what one loop takes beyond its sleep.
THEOREM LateByDelayTheorem == Spec => []LateByDelay
<1>1. IInv => LateByDelay
  <2> SUFFICES ASSUME IInv, ~skipped, ~jumped PROVE age < Watchdog + Delay
    BY DEF LateByDelay
  <2>1. age = 0 \/ age < Watchdog - Sleeptime \/ age < Watchdog + Delay
    BY DEF IInv, TypeOK, InTime
  <2>2. age \in Int /\ Watchdog \in Nat /\ Delay \in Nat /\ Sleeptime \in Nat /\ Sleeptime < Watchdog
    BY WatchdogAssumption, LaterType DEF IInv, TypeOK
  <2> QED
    BY <2>1, <2>2
<1> QED
  BY <1>1, Invariance, PTL
=============================================================================
