----------------------------- MODULE FanWatchdog -----------------------------
(***************************************************************************)
(* A TpFanDriver and the watchdog of thinkpad_acpi: when the level is      *)
(* written again although it has not changed, what a skipped write leaves  *)
(* behind, and how long the firmware may have the fan meanwhile.           *)
(*                                                                         *)
(* Time passes in units; a second is some number of them.  -p is left out: *)
(* nothing in the program calls set_depulse.                               *)
(***************************************************************************)
EXTENDS Integers

CONSTANTS
  Levels,       \* the fan levels
  Watchdog,     \* watchdog_: 120 seconds
  Sleeptime,    \* option -s, at most 15 seconds
  Delay,        \* a bound on the time that a loop takes beyond its sleep
  Jumps         \* a bound: how often somebody sets the system's clock

ASSUME WatchdogAssumption ==
  /\ Watchdog \in Nat /\ Sleeptime \in Nat \ {0} /\ Sleeptime < Watchdog
  /\ Delay \in Nat /\ Jumps \in Nat

VARIABLES
  pc,           \* "sleep", or "decide" in set_fanspeed
  tmp_sleeptime,
  cur,          \* the level that the mapping is at
  written,      \* the level that was last written with success
  mode,         \* who controls the fan: "thinkfan" or "firmware"
  since,        \* the system's clock minus last_watchdog_ping_
  age,          \* the time since the watchdog was last reset
  skipped,      \* a write was skipped since the last one that succeeded
  jumped,       \* the clock was set since the last attempt to write
  jumps         \* and how often it was set at all

vars == <<pc, tmp_sleeptime, cur, written, mode, since, age, skipped, jumped, jumps>>

\* What is older than that is as old as that: a bound of the model.
AgeCap == 2 * Watchdog + Sleeptime + Delay
Later(x, t) == IF x + t > AgeCap THEN AgeCap ELSE x + t

-----------------------------------------------------------------------------
(* TpFanDriver::set_speed *)

\* FanDriver::set_speed_ succeeds, and the watchdog starts again.
Writes(l) ==
  /\ written' = l /\ mode' = "thinkfan"
  /\ age' = 0 /\ skipped' = FALSE

\* robust_io has forgiven an error.
Skips == skipped' = TRUE /\ UNCHANGED <<written, mode, age>>

\* In both cases last_watchdog_ping_ is renewed.
SetSpeed(l) ==
  /\ cur' = l
  /\ Writes(l) \/ Skips
  /\ since' = 0 /\ jumped' = FALSE

-----------------------------------------------------------------------------

\* A mutant: tmp_sleeptime is incremented without a look at sleeptime.
SleepGrows ==
  /\ pc = "sleep" /\ pc' = "decide"
  /\ since' = Later(since, tmp_sleeptime) /\ age' = Later(age, tmp_sleeptime)
  /\ mode' = IF age' >= Watchdog THEN "firmware" ELSE mode
  /\ tmp_sleeptime' \in {1, tmp_sleeptime + 1}
  /\ UNCHANGED <<cur, written, skipped, jumped, jumps>>

\* The loop of run() up to set_fanspeed: sleep(), and what takes its time.
\* add_temp has changed tmp_sleeptime.
SleepAndRead ==
  /\ pc = "sleep" /\ pc' = "decide"
  /\ \E d \in 0..Delay :
       /\ since' = Later(since, tmp_sleeptime + d)
       /\ age' = Later(age, tmp_sleeptime + d)
  /\ mode' = IF age' >= Watchdog THEN "firmware" ELSE mode
  /\ tmp_sleeptime' \in 1..Sleeptime
  /\ UNCHANGED <<cur, written, skipped, jumped, jumps>>

\* StepwiseMapping::set_fanspeed: the level changes; a lower one makes the next
\* sleep a full one again,
ChangeLevel ==
  /\ pc = "decide" /\ pc' = "sleep"
  /\ \E l \in Levels \ {cur} : SetSpeed(l)
  /\ tmp_sleeptime' \in {tmp_sleeptime, Sleeptime}
  /\ UNCHANGED jumps

\* A mutant: the sleep that is to come is forgotten.
DueLate == since >= Watchdog

\* A mutant: as for a HwmonFanDriver.
DueNever == FALSE

\* ping_watchdog_and_depulse
Due == since >= Watchdog - Sleeptime

\* or it does not, and is written for the sake of the watchdog,
Ping ==
  /\ pc = "decide" /\ pc' = "sleep"
  /\ Due /\ SetSpeed(cur)
  /\ UNCHANGED <<tmp_sleeptime, jumps>>

\* or nothing is done.
Keep ==
  /\ pc = "decide" /\ pc' = "sleep"
  /\ ~Due
  /\ UNCHANGED <<tmp_sleeptime, cur, written, mode, since, age, skipped, jumped, jumps>>

\* SIGUSR2 or SIGHUP: init() sets the watchdog, which resets it, unless that
\* fails too, and init_fanspeed() writes a level.  Before a new configuration
\* does so, the destructor of the old driver may have given the fan back.
Restart ==
  /\ pc' = "sleep"
  /\ \E l \in Levels :
       \/ SetSpeed(l)
       \/ /\ cur' = l /\ since' = 0 /\ jumped' = FALSE
          /\ age' = 0 /\ skipped' = TRUE
          /\ mode' \in {mode, "firmware"}
          /\ UNCHANGED written
  /\ tmp_sleeptime' = Sleeptime
  /\ UNCHANGED jumps

Main == SleepAndRead \/ ChangeLevel \/ Ping \/ Keep

\* last_watchdog_ping_ is a time of system_clock, which anybody may set.
SetClock ==
  /\ jumps < Jumps /\ jumps' = jumps + 1
  /\ since' \in {0 - Watchdog, since - 1, Later(since, 1), Later(since, Watchdog)}
  /\ jumped' = TRUE
  /\ UNCHANGED <<pc, tmp_sleeptime, cur, written, mode, age, skipped>>

\* After init_fanspeed() has written the first level, or was forgiven that it
\* could not.
Init ==
  /\ pc = "sleep" /\ tmp_sleeptime = Sleeptime
  /\ cur \in Levels /\ written \in Levels
  /\ \/ skipped = FALSE /\ mode = "thinkfan" /\ written = cur
     \/ skipped = TRUE /\ mode = "firmware"
  /\ since = 0 /\ age = 0 /\ jumped = FALSE /\ jumps = 0

Next == Main \/ Restart \/ SetClock

Spec == Init /\ [][Next]_vars

Attempt == ChangeLevel \/ Ping \/ Restart

\* run() is scheduled and no I/O hangs; and of the writes that are tried again
\* and again one succeeds at last.  No level has to change.
FairSpec ==
  /\ Spec
  /\ WF_vars(Main)
  /\ []<><<Attempt>>_vars => []<><<Attempt /\ ~skipped'>>_vars

-----------------------------------------------------------------------------
(* Properties *)

\* The values of the variables.
TypeOK ==
  /\ pc \in {"sleep", "decide"}
  /\ tmp_sleeptime \in 1..Sleeptime
  /\ cur \in Levels /\ written \in Levels
  /\ mode \in {"thinkfan", "firmware"}
  /\ since \in Int /\ age \in 0..AgeCap
  /\ skipped \in BOOLEAN /\ jumped \in BOOLEAN /\ jumps \in 0..Jumps

\* As long as writes succeed and the clock runs evenly, the watchdog expires
\* only by what one loop takes beyond its sleep, whatever tmp_sleeptime is
\* meanwhile: the ping comes at fans.cpp:140 before the last sleep that would
\* be too long.
LateByDelay == ~skipped /\ ~jumped => age < Watchdog + Delay

\* The firmware does not keep a fan that it got from the watchdog, and a level
\* whose write was skipped does not stay away: sooner or later the fan is at
\* the level of the mapping, although set_fanspeed itself never tries again
\* (config.cpp:72, fans.cpp:129) and the clock may be set back.
CaughtUp == (mode = "firmware" \/ written # cur) ~> (mode = "thinkfan" /\ written = cur)

=============================================================================
