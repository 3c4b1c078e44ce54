------------------------------ MODULE TempState ------------------------------
(***************************************************************************)
(* TemperatureState: one slot per temperature, the bias that follows quick *)
(* rises, the pointer tmax to the highest temperature, and tmp_sleeptime.  *)
(* The sensor drivers fill their slots one after the other, each through a *)
(* Ref that starts at the driver's first slot in every round.              *)
(*                                                                         *)
(* bias_ is a float.  Here it is an integer in units of 1/Scale degree:    *)
(* the sums and the division by 5 differ from the float's only below that. *)
(***************************************************************************)
EXTENDS Integers, FiniteSets

CONSTANTS
  NumTemps,     \* the number of slots
  Owner,        \* the driver each slot belongs to, in the order of the slots
  Optional,     \* the drivers marked optional
  Temps,        \* the temperatures that may be read
  Bias,         \* option -b: bias_level is Bias / 10
  Sleeptime     \* option -s

Slots == 1..NumTemps
Drivers == {Owner[i] : i \in Slots}

ASSUME TempStateAssumption ==
  /\ NumTemps \in Nat \ {0}
  /\ Owner \in [Slots -> Nat]
  /\ \A i, j \in Slots : i <= j => Owner[i] <= Owner[j]
  /\ Optional \subseteq Drivers
  /\ Temps \subseteq Int
  /\ Bias \in Int
  /\ Sleeptime \in Nat \ {0}

Scale == 100          \* the resolution of bias_: a bound of the model

Gone == -128          \* what an optional driver reports when it fails

VARIABLES
  temp,           \* temps_
  bias,           \* biases_, times Scale
  biased,         \* biased_temps_
  tmax,           \* the slot tmax points to
  tmp_sleeptime,  \* how long the next sleep() lasts
  cursor,         \* the slot the driver being read comes to next
  fresh,          \* the slots written in this round
  fell            \* whether the slot of tmax has fallen in this round

history == <<fresh, fell>>
vars == <<temp, bias, biased, tmax, tmp_sleeptime, cursor, history>>

Done == NumTemps + 1          \* the cursor after the last driver

-----------------------------------------------------------------------------
(* Arithmetic of the bias *)

Abs(n) == IF n < 0 THEN -n ELSE n
Sgn(n) == IF n < 0 THEN -1 ELSE IF n > 0 THEN 1 ELSE 0

\* int(n / d): C++ truncates towards zero.
Truncate(n, d) == Sgn(n) * (Abs(n) \div d)

\* int(*bias_)
Degrees(b) == Truncate(b, Scale)

\* *bias_ = int(float(diff) * bias_level)
Kick(diff) == Truncate(diff * Bias, 10) * Scale

\* A mutant: the fixed degree is left out.
FadeByFifth(b) == IF 2 * Abs(b) < Scale THEN 0 ELSE b - Sgn(b) * (Abs(b) \div 5)

\* *bias_ -= copysign(1 + abs(*bias_)/5, *bias_), or 0 below half a degree.
Fade(b) ==
  IF 2 * Abs(b) < Scale THEN 0 ELSE b - Sgn(b) * (Scale + Abs(b) \div 5)

\* A slot that has no temperature yet, or none above 0, knows no rise.
Rise(t) == IF temp[cursor] > 0 THEN t - temp[cursor] ELSE 0

-----------------------------------------------------------------------------
(* Ref::add_temp *)

\* A mutant: the new value is compared with the old one of its own slot.
TmaxOnRise == IF biased'[cursor] > biased[cursor] THEN cursor ELSE tmax

\* tmax, once the slot of the cursor holds its new value
NextTmax == IF biased'[cursor] > biased'[tmax] THEN cursor ELSE tmax

\* A mutant: the time to sleep grows without a bound.
SleepGrows(quick) ==
  IF quick THEN (IF tmp_sleeptime > 2 THEN 2 ELSE tmp_sleeptime)
  ELSE tmp_sleeptime + 1

\* tmp_sleeptime drops to 2 at a quick rise and recovers by one a reading.
NextSleep(quick) ==
  IF quick THEN (IF tmp_sleeptime > 2 THEN 2 ELSE tmp_sleeptime)
  ELSE IF tmp_sleeptime < Sleeptime THEN tmp_sleeptime + 1
  ELSE tmp_sleeptime

AddTemp(t) ==
  LET quick == Rise(t) > 2
      b == IF quick THEN Kick(Rise(t)) ELSE Fade(bias[cursor])
  IN  /\ temp' = [temp EXCEPT ![cursor] = t]
      /\ bias' = [bias EXCEPT ![cursor] = b]
      /\ biased' = [biased EXCEPT ![cursor] = t + Degrees(b)]
      /\ tmax' = NextTmax
      /\ tmp_sleeptime' = NextSleep(quick)
      /\ fresh' = fresh \union {cursor}
      /\ fell' = (fell \/ (cursor = tmax /\ biased'[cursor] < biased[cursor]))

\* The driver of the slot of the cursor is left: slot j is the first of the
\* next one, or Done.
ToNextDriver ==
  \E j \in cursor + 1 .. Done :
    /\ \A k \in cursor .. j - 1 : Owner[k] = Owner[cursor]
    /\ j # Done => Owner[j] # Owner[cursor]
    /\ cursor' = j

\* The driver has read one more temperature.
ReadNext ==
  /\ cursor \in Slots
  /\ \E t \in Temps : AddTemp(t)
  /\ cursor' = cursor + 1

\* The driver's reading fails for an error that is forgiven, at its first slot
\* or, after some were read, at a later one; or the driver is not initialised;
\* or thinkpad_acpi shows fewer temperatures than before, which is no error.
\* The rest of its slots keep what they held.
LeaveRest ==
  /\ cursor \in Slots
  /\ ToNextDriver
  /\ UNCHANGED <<temp, bias, biased, tmax, tmp_sleeptime, history>>

\* SensorDriver::skip_io_error for an optional driver
LoseOptional ==
  /\ cursor \in Slots /\ Owner[cursor] \in Optional
  /\ AddTemp(Gone)
  /\ ToNextDriver

\* The next round of read_temps: every Ref is restarted.
NewRound ==
  /\ cursor = Done
  /\ cursor' = 1
  /\ fresh' = {} /\ fell' = FALSE
  /\ UNCHANGED <<temp, bias, biased, tmax, tmp_sleeptime>>

\* set_fanspeed has lowered the fan's level (StepwiseMapping).
Relax ==
  /\ cursor = Done
  /\ tmp_sleeptime' = Sleeptime
  /\ UNCHANGED <<temp, bias, biased, tmax, cursor, history>>

Blank == [i \in Slots |-> 0]

\* A new TemperatureState(num_temps), at the start of run().
Renew ==
  /\ cursor = Done
  /\ temp' = Blank /\ bias' = Blank /\ biased' = Blank
  /\ tmax' = 1 /\ tmp_sleeptime' = Sleeptime
  /\ cursor' = 1 /\ fresh' = {} /\ fell' = FALSE

Init ==
  /\ temp = Blank /\ bias = Blank /\ biased = Blank
  /\ tmax = 1 /\ tmp_sleeptime = Sleeptime
  /\ cursor = 1 /\ fresh = {} /\ fell = FALSE

Next == ReadNext \/ LeaveRest \/ LoseOptional \/ NewRound \/ Relax \/ Renew

Spec == Init /\ [][Next]_vars

-----------------------------------------------------------------------------
(* Properties *)

\* The values the variables can have.  The loop never sleeps longer than the
\* user asked for, nor shorter than the quick polling of two seconds does.
TypeOK ==
  /\ temp \in [Slots -> Int] /\ bias \in [Slots -> Int]
  /\ biased \in [Slots -> Int]
  /\ tmax \in Slots
  /\ tmp_sleeptime \in 1..Sleeptime
  /\ tmp_sleeptime = 1 => Sleeptime = 1
  /\ cursor \in 1..Done
  /\ fresh \subseteq Slots /\ fell \in BOOLEAN

\* Unless the temperature tmax points to has fallen in the same round, no
\* temperature read in the round is above it.  add_temp compares only the
\* value it has just written, with a pointer that may be rounds old.
TmaxTracks == ~fell => \A i \in fresh : biased[i] <= biased[tmax]

\* The offset that a quick rise has left never grows and never changes its
\* sign from then on, and every calm reading takes at least a whole degree
\* off what it adds to the temperature, until it adds nothing.  That holds
\* although the offset itself may never become 0.
BiasFades ==
  [][\A i \in Slots :
       i \in fresh' \ fresh /\ ~(temp[i] > 0 /\ temp'[i] - temp[i] > 2) =>
         LET old == Degrees(bias[i])  new == Degrees(bias'[i])
         IN  new = 0 \/ (Sgn(new) = Sgn(old) /\ Abs(new) < Abs(old))]_vars

-----------------------------------------------------------------------------
(* What the manual page says, and the code does not keep to (README, 3) *)

\* thinkfan(1): "In simple mode, thinkfan uses only the highest temperature
\* found in the system."
HighestUsed ==
  (cursor = Done /\ fresh = Slots) => \A i \in Slots : biased[i] <= biased[tmax]

=============================================================================
