------------------------------ MODULE Stepwise ------------------------------
(***************************************************************************)
(* StepwiseMapping: the table of fan levels that the configuration parser  *)
(* builds with add_level(), and the walk through it with init_fanspeed()   *)
(* and set_fanspeed() while temperatures change.                           *)
(*                                                                         *)
(* A SimpleLevel compares its only limit with the highest temperature, a   *)
(* ComplexLevel each of its limits with the temperature of one sensor.  A  *)
(* simple table is the case NumTemps = 1, with *tmax for the temperature.  *)
(***************************************************************************)
EXTENDS Integers, Sequences

CONSTANTS
  NumTemps,     \* how many temperatures the levels look at
  Limits,       \* the limits that may be configured
  NoLimit,      \* numeric_limits<int>::max(), written "_" in a lower limit
  Nums,         \* the numbers a level may have
  Symbolic,     \* those standing for "level auto" and the like, which
                \* numeric_limits<int>::min() encodes
  TopNums,      \* those that the fan can have at its last level: 128 and more
                \* for a HwmonFanDriver, up to 7 or 127 for a TpFanDriver
  MaxLevels,    \* a bound of the model: the levels of the longest table
  Temps,        \* the (biased) temperatures that may be observed
  Sleeptime,    \* option -s
  Pings,        \* whether the fan has a watchdog: a TpFanDriver has
  ChkSanity     \* FALSE is -D: a table that fails a check is used all the same

ASSUME StepwiseAssumption ==
  /\ NumTemps \in Nat \ {0}
  /\ Limits \subseteq Int /\ NoLimit \in Int /\ Temps \subseteq Int
  /\ Nums \subseteq Int /\ Symbolic \subseteq Nums /\ TopNums \subseteq Nums
  /\ MaxLevels \in Nat /\ Sleeptime \in Nat \ {0}
  /\ 0 \in Temps                        \* a TemperatureState begins with zeros
  /\ Pings \in BOOLEAN /\ ChkSanity \in BOOLEAN

Sensors == 1..NumTemps
Observations == [Sensors -> Temps]

\* `quoted' says that the level was written as a string: only the constructors
\* that take a string compare its lower with its upper limits.
Level == [num : Nums, lower : [Sensors -> Limits], upper : [Sensors -> Limits],
          quoted : BOOLEAN]

VARIABLES
  phase,          \* how far the mapping is: "parse", "rejected", "ready" for
                  \* run(), "idle" between two loops, "observed" in a loop
  levels,         \* levels_
  cur,            \* cur_lvl_
  temps,          \* what up() and down() look at
  speed,          \* the level last written to the fan with success; 0 is none
  tmp_sleeptime   \* how long the next sleep() lasts

vars == <<phase, levels, cur, temps, speed, tmp_sleeptime>>

Last == Len(levels)

-----------------------------------------------------------------------------
(* Building the table *)

\* Level::Level(string, ...)
LimitsAccepted(l) ==
  l.quoted => \A i \in Sensors : l.lower[i] = NoLimit \/ l.lower[i] < l.upper[i]

\* "Fan levels are not ordered correctly"
InOrder(prev, l) == l.num \in Symbolic \/ prev.num <= l.num

\* A mutant: it is enough that the limits of one sensor overlap.
OverlapsSomewhere(prev, l) == \E i \in Sensors : prev.upper[i] >= l.lower[i]

\* "LOWER limit doesn't overlap with previous UPPER limit"
Overlaps(prev, l) == \A i \in Sensors : prev.upper[i] >= l.lower[i]

Accepted(l) ==
  /\ LimitsAccepted(l)
  /\ levels # <<>> => InOrder(levels[Last], l) /\ Overlaps(levels[Last], l)

\* add_level, and the constructor of its argument
AddLevel(l) ==
  /\ phase = "parse" /\ Last < MaxLevels
  /\ IF Accepted(l) \/ ~ChkSanity
     THEN levels' = Append(levels, l) /\ UNCHANGED phase
     ELSE phase' = "rejected" /\ UNCHANGED levels
  /\ UNCHANGED <<cur, temps, speed, tmp_sleeptime>>

\* A mutant: only the number of the last level is looked at.
ConsistentIfAny == levels # <<>> => levels[Last].num \in TopNums \/ ~ChkSanity

\* A table without levels is refused even with -D.
Consistent == levels # <<>> /\ (levels[Last].num \in TopNums \/ ~ChkSanity)

\* ensure_consistency.  The number of limits is right in every Level here.
Finish ==
  /\ phase = "parse"
  /\ IF Consistent
     THEN phase' = "ready" /\ temps' \in Observations
     ELSE phase' = "rejected" /\ UNCHANGED temps
  /\ UNCHANGED <<levels, cur, speed, tmp_sleeptime>>

-----------------------------------------------------------------------------
(* Using the table *)

Up(o, l) == \E i \in Sensors : o[i] >= levels[l].upper[i]
Down(o, l) == \A i \in Sensors : o[i] < levels[l].lower[i]

WantsUp(o, l) == l # Last /\ Up(o, l)
WantsDown(o, l) == l # 1 /\ Down(o, l)

\* The while-loops of init_fanspeed and set_fanspeed, started at `from' with
\* the temperatures o, end at `to'.
Climbs(o, from, to) ==
  (\A k \in from .. to - 1 : WantsUp(o, k)) /\ ~WantsUp(o, to)

Descends(o, from, to) ==
  (\A k \in to + 1 .. from : WantsDown(o, k)) /\ ~WantsDown(o, to)

\* A mutant: the search for the first level begins at the bottom.
BeginsLow(o, l) == Climbs(o, 1, l)

\* init_fanspeed begins with the last level.
Begins(o, l) == Descends(o, Last, l)

\* FanDriver::set_speed: the write succeeds, or fails and is forgiven.
SetSpeed(l) == speed' = l \/ speed' = speed

\* init_fanspeed, at the start of run()
InitFanspeed ==
  /\ phase = "ready"
  /\ \E l \in 1..Last : Begins(temps, l) /\ cur' = l /\ SetSpeed(l)
  /\ phase' = "idle" /\ tmp_sleeptime' = Sleeptime
  /\ UNCHANGED <<levels, temps>>

\* set_fanspeed has three branches.
GoUp ==
  /\ phase = "observed" /\ WantsUp(temps, cur)
  /\ \E l \in cur + 1 .. Last : Climbs(temps, cur, l) /\ cur' = l /\ SetSpeed(l)
  /\ phase' = "idle"
  /\ UNCHANGED <<levels, temps, tmp_sleeptime>>

GoDown ==
  /\ phase = "observed" /\ ~WantsUp(temps, cur) /\ WantsDown(temps, cur)
  /\ \E l \in 1 .. cur - 1 : Descends(temps, cur, l) /\ cur' = l /\ SetSpeed(l)
  /\ phase' = "idle" /\ tmp_sleeptime' = Sleeptime
  /\ UNCHANGED <<levels, temps>>

\* Only ping_watchdog_and_depulse may write the same level again.
Stay ==
  /\ phase = "observed" /\ ~WantsUp(temps, cur) /\ ~WantsDown(temps, cur)
  /\ (Pings /\ SetSpeed(cur)) \/ UNCHANGED speed
  /\ phase' = "idle"
  /\ UNCHANGED <<levels, cur, temps, tmp_sleeptime>>

\* The sensors are read again (TempState), which also sets the time to sleep.
Observe ==
  /\ phase = "idle"
  /\ phase' = "observed" /\ temps' \in Observations
  /\ tmp_sleeptime' \in 1..Sleeptime
  /\ UNCHANGED <<levels, cur, speed>>

\* The loop is left for a signal, and run() starts anew with the same table.
Restart ==
  /\ phase = "idle"
  /\ phase' = "ready" /\ temps' \in Observations
  /\ UNCHANGED <<levels, cur, speed, tmp_sleeptime>>

-----------------------------------------------------------------------------

Init ==
  /\ phase = "parse" /\ levels = <<>> /\ cur = 0
  /\ temps = [i \in Sensors |-> 0]
  /\ speed = 0 /\ tmp_sleeptime = Sleeptime

Next ==
  \/ \E l \in Level : AddLevel(l)
  \/ Finish \/ InitFanspeed \/ GoUp \/ GoDown \/ Stay \/ Observe \/ Restart

Spec == Init /\ [][Next]_vars

-----------------------------------------------------------------------------
(* Properties *)

\* The values the variables can have: once run() has begun, cur_lvl_ is an
\* element of the table.
TypeOK ==
  /\ phase \in {"parse", "rejected", "ready", "idle", "observed"}
  /\ levels \in Seq(Level) /\ Len(levels) <= MaxLevels
  /\ cur \in 0..Last
  /\ temps \in Observations
  /\ speed \in 0..Last
  /\ tmp_sleeptime \in 1..Sleeptime
  /\ phase \in {"ready", "idle", "observed"} => Last > 0
  /\ phase \in {"idle", "observed"} => cur > 0

\* The fan does not hunt: where init_fanspeed or set_fanspeed has stopped, the
\* same temperatures lead nowhere else, neither up nor down.  Two loops that
\* pull in opposite directions agree because add_level has made every level's
\* lower limits overlap with the upper limits of the level before.
Settled ==
  phase = "idle" => ~WantsUp(temps, cur) /\ ~WantsDown(temps, cur)

\* Leaving the loop and starting again, as SIGUSR2 and SIGHUP make it do,
\* never slows the fan down by itself: with the temperatures unchanged
\* init_fanspeed picks no lower level than the one set_fanspeed had come to.
RestartNotSlower ==
  phase = "idle" => \A l \in 1..Last : Begins(temps, l) => cur <= l

-----------------------------------------------------------------------------
(* What the manual page says, and the code does not keep to (README, 3) *)

\* thinkfan.conf(5): "Instead of a temperature, an underscore can be given.  [It] means that the
\* temperature of that sensor should be ignored at the given speed level."
UnderscoreAccepted ==
  [][\A l \in Level :
       /\ AddLevel(l)
       /\ LimitsAccepted(l)
       /\ levels # <<>> => InOrder(levels[Last], l)
       /\ \A i \in Sensors :
            l.lower[i] = NoLimit \/ (levels # <<>> => l.lower[i] <= levels[Last].upper[i])
       => phase' # "rejected"]_vars

=============================================================================
