# Verification of thinkfan

TLA+ models of thinkfan, the checks TLC runs on them and the theorems TLAPS
proves about them. Paths are relative to the repository; line numbers are in
`PROJECT.json` ("map"), which says for every definition which code it stands for.

## 1. Inventory

| Component | Code | State | Operations | Correct when |
|---|---|---|---|---|
| Main loop, signals | `src/thinkfan.cpp` | `interrupted`, `tolerate_errors`, `tmp_sleeptime`, `temp_state`, `*config` | `main`, `run`, `sleep`, `sig_handler` | requests are served and not lost; the fans are given back whenever the process ends in order |
| Driver base | `src/driver.*` | `initialized_`, `errors_`, `path_` | `try_init`, `robust_op`, `robust_io`, `handle_io_error_` | errors are forgiven exactly as configured |
| Fan drivers | `src/fans.*` | `initial_state_`, `current_speed_`, `last_watchdog_ping_`; the fan's mode in the hardware | `init`, `set_speed`, `ping_watchdog_and_depulse`, destructors | what is restored is what was found |
| Fan levels | `src/config.*` | `levels_`, `cur_lvl_` | `add_level`, `ensure_consistency`, `init_fanspeed`, `set_fanspeed` | no hunting; a higher temperature never means a slower fan |
| Configuration object | `src/config.*` | sensors and fans | `read_config`, `init`, `try_init_driver` | `run()` meets initialised devices only |
| Temperature state | `src/temperature_state.*` | `temps_`, `biases_`, `biased_temps_`, `tmax` | `add_temp`, `skip_temp`, `restart`, `ref` | `tmax` is the maximum; the bias fades |
| Sensor drivers | `src/sensors.*` | `num_temps_`, `correction_`, `in_use_`, a `Ref` | `init`, `read_temps`, `skip_io_error` | each driver writes its own slots |
| libsensors interface | `src/libsensors.*` | `clients_`, `libsensors_initialized_` | lookup, `get_temps`, `InitGuard` | a client that is asked has been looked up |
| hwmon lookup | `src/hwmon.*` | `found_paths_`, `paths_it_` | `lookup` | a driver gets the file it is configured for |
| Start and end | `src/thinkfan.cpp`, `src/error.cpp` | the PID file, `instance_` | options, test of the configuration, `fork`, `PidFileHolder`, `handle_uncaught` | one daemon at a time; nothing stale is left behind |
| YAML, legacy parser | `src/yamlconfig.*`, `src/parser.*` | what is half built while a file is read | `decode`, `ConfigParser` | levels go to the fan they are written under; no text is dropped |
| Messages, errors | `src/message.*`, `src/error.*` | the logger | `error<>`, `log` | `-D` turns errors into messages |
| System integration | `rcscripts/` | none | sends SIGPWR before and SIGUSR2 after a suspend | - |

There is one thread. What interrupts it is the signal handler, which shares
`interrupted` and `tolerate_errors` (both `std::atomic`) with it. Drivers call
back into `TemperatureState` through a `Ref`; `main` drives the drivers through
`Config` and `StepwiseMapping`; exceptions connect a failed operation with the
destruction of the configuration, whose destructors touch the hardware again.

What is hard: the order of signals against the code that reads, serves and
clears them; failures of devices at any operation, forgiven or not; an
exception that unwinds through the destructors; the reload of a configuration
that turns out to be bad after the old one is gone; values kept from one loop
to the next (`tmax`, the bias, `cur_lvl_`, `initial_state_`, `errors_`); indices
into vectors whose lengths were fixed when some devices were not there; several
processes at one PID file and one fan. The list with lines is "hazards" in
`PROJECT.json`.

## 2. Modules

`Driver` has the parts every driver shares: the error counter, when an error is
forgiven, what a driver remembers.

`Daemon` extends it to the process. Its `pc` is the place in `main()`,
`Config::init`, `try_init_driver` or `run()`; `todo` is the set of devices the
current for-loop has still to visit; `drv` is the driver objects, `mode` the
hardware. The order of the devices within one loop is left open, which only
adds behaviours. Each operation on a device is one step that may succeed or
fail, anew each time. Each atomic access to `interrupted` or `tolerate_errors`
is a step of its own (`Loop`, `Woken`, `Tick`, `IsHup`, `IsUsr2`, `Clear`,
`Again`), so that `Request` and `PowerSignal`, the signal handler, come between
any two of them. An exception (`Throw`) destroys the configuration in the same
step, as the unwinding does: `Release` is all the destructors, each of which may
fail to write. A reload destroys the old configuration the same way. Two
exceptions have no handler (`Crash`): they reach `handle_uncaught`, no destructor
runs, and the fans stay as they are. One is the `out_of_range` of
`clients_.at()`, in a running loop, when an LM sensor that is initialised has
lost its path by another one's failed lookup and is not found again
(`ReadCrashes`); the other the `bad_optional_access` of a TpSensorDriver whose
file is missing (`LookupCrashes`). For these `found` says which of the two kinds
of sensors have their `path_`. A `ConfigError` of `TpSensorDriver::init` is passed
over by `robust_op` and ends the process with unwinding (`Misfits`). The
temperatures are left out: `set_fanspeed` may or may not write. So are SIGKILL
and an `abort()` in libsensors, which leave the fans as `Crash` does; `Startup`
has a process that is killed.

`DaemonSignals` adds variables that only record (what was asked for and not yet
served; how many rounds of reading there were since SIGPWR) and states the
properties of signals.

`Stepwise` is `StepwiseMapping` with its levels. The table is built by any
sequence of `AddLevel` steps, each accepted or refused by the checks of the
code, so the properties of the walk are about exactly the tables that pass
them. `Climbs` and `Descends` say where the while-loops stop, without recursion.
A `SimpleLevel` is the case of one sensor.

`Libsensors` is the instance of libsensors that the LM sensors share. It has its
own small picture of `Config::init_sensors` and `run()` (`phase`, `todo`), because
only the order of lookups, readings and reloads matters, and the error handling
of `Driver`. `clients` are the keys of `clients_`, `stale` those whose pointers
libsensors has freed, `detected` what libsensors saw when it was initialised.
A lookup with its `InitGuard` is one step, a reading another (`asked` keeps them
together); chips come and go between any two steps. The mapping of a chip's and
a feature's name to its handle is left out, so each client stands for one chip.

`TempState` is `TemperatureState` with the drivers that fill it. `AddTemp` is
`Ref::add_temp`; a driver that fails leaves the rest of its slots as they are,
or writes -128 to one of them. `bias_` is a float in the code; here it has two
decimal places (`Scale`), and truncation to whole degrees is towards zero as in
C++.

`FanService` is the abstract promise: fans are taken, the firmware may take them
back when the machine wakes up, and all are given back at once, at a reload or
with the end; one stays behind only if giving it back has failed, or if it was
held when thinkfan crashed. It knows no phases, drivers, errors or signals.
`Daemon` implements it (`KeepsToService`): `state` is "up" until `pc` is "over", and
then "crashed" if no handler has seen the exception and "done" else; a fan is
"held" when it is in manual mode and an initialised driver of `*config` has it,
"left" when it is in manual mode and nobody has it any more, and `failed` is
`unreturned`.

`HwmonLookup` has the searches of `hwmon.cpp` as functions of a tree, which may
be a graph, as sysfs with its links is: each search has a depth, throws or
returns nothing in its own way, and is related to what there is to be found by
`SearchRight` and `LabelsRight`.

`SensorSlots` extends it to the sensor drivers: `lookup()` with the iterator the
drivers of an entry share (`it`), `init()` and the number of temperatures, the
phases of `Config::init` ("init", "count", "refs"), the `Ref`s (`base`), and
rounds of reading, in which `holds` says whose temperature each slot has. After a
SIGUSR2, or a reload that is refused, `Config::init` runs again on the same
drivers (`Reinit`): numbers and references are given out anew, paths stay. What
the code does behind the end of a vector is a choice: the write is lost, or the
process crashes. Temperatures and error counters are left out, so that an error
of any driver may be forgiven.

`ConfigReader`, `YamlConfig` and `LegacyConfig` are what the two syntaxes share,
and one syntax each; `ConfigFile` composes them to `Config::read_config`. A YAML
file is its node tree, with entries that are good or wrong in one of the ways
that the code tells apart; the exceptions are values (`FirstOf` takes the first
check that fails, in the code's order), and what catches them is part of the
model (`Throw`, `Wrapped`). `ChkSanity` is FALSE with -D: the complaints about
levels that go through `error<ConfigError>` (`Error`) are only logged then, and
the level is used. A legacy text is a sequence of statements; each step
is one parser that takes the next statement or leaves the text as it is.

`Startup` is `main()` around its loop for several processes on one machine: `Look`
and `Claim` test for the PID file, `Open` makes it, `Write` gives it a number,
`RemoveFile` unlinks whatever has the name by then, or fails to and only logs it
(`undeleted`). `Kill` is SIGKILL, `Abort` an
exception without a handler, `Delete` the user who follows the message. `blame`
only records: two processes between `Claim` and `Open`, -D, two with one fan, a
fan that could not be given back.

`FanWatchdog` is a `TpFanDriver` in the loop of `run()`, in units of time: `age` is
the firmware's watchdog, `since` what the driver believes, which differ after a
skipped write and when somebody sets the clock. After a restart the fan is in
the mode that the destructor has restored, or in the one it had, if that write
failed.

`MC*` modules hold the values of the constants for TLC, `*_proofs` the theorems.
Operators whose comment says "a mutant" are deliberate mistakes: put in the
place of the definition after them, they make the property named in
`PROJECT.json` fail in its run, which shows what the property depends on.

## 3. Runs

| Run | Shows | Bounds |
|---|---|---|
| `daemon` | TypeOK, FanReturned, OnlyHeldFansDriven, RunsInitialised, KeepsToService | two LM sensors, a TpSensorDriver, a TpFanDriver and a HwmonFanDriver; a strict configuration, one with both LM sensors, optional devices, an error budget and one fan less, and an inconsistent one; Grace = 1 |
| `signals` | GraceHeld, UsrServed, StopHonoured | a TpSensorDriver and a PWM fan, such configurations, Grace = 2 |
| `stepwise` | TypeOK, Settled, RestartNotSlower | tables of 3 levels over 2 sensors, limits 1..2 (2 is also "_"), temperatures 0..2, numbers that are symbolic or more than the fan has |
| `temps` | TypeOK, TmaxTracks, BiasFades | 3 slots of 2 drivers, one of them optional; temperatures two degrees apart, which is no quick rise, and 6 and 8 apart, which is; -b 13 |
| `config` | TypeOK, FirstFileDecides, LevelsWhereWritten, FansOnce, LegacyWhole, LevelsAgree, Ends, Onward | two names; under the second up to 3 fan entries of 12 sorts, a sensor entry of 78 sorts alone or after a good one, 2 level entries of 18, or a legacy text of 4 statements of 8 sorts or 2 of 24; a few files of each kind under the first; the sanity checks are on |
| `sensors` | TypeOK, SlotsRight, OwnFiles, NoBug, SearchesRight | five drivers: an optional file, an optional device with two temperatures, two drivers of a required entry found by name and model, thinkpad_acpi with 3 or 4 temperatures; eight trees, two cyclic, some too deep; `Config::init` any number of times |
| `startup` | TypeOK, SoleDaemon, NoStaleFile, FanGivenBack | three processes; as a daemon, with -n, and with -D; any `unlink()` and any restoring write may fail |
| `watchdog` | TypeOK, LateByDelay, CaughtUp | a watchdog of 9 units, sleeps of up to 3, delays of up to 2, two levels, the clock set once |
| `libsensors` | TypeOK, PointersLive, StableUnharmed, Rediscovered | 3 clients: one whose chip is always there, one optional, one with max_errors 2; Grace = 1 |

One device of each kind is enough because the loops treat devices one by one
and the only thing that connects them is the exception that ends all; two fans
are there so that one can fail while the other is held, and two LM sensors
because the lookup of one takes away the path of the other. Three levels are enough
for a level with two neighbours. Temperatures matter only relative to limits.
Grace counts rounds; the code's value is 4, the runs use 1 or 2, and
`GraceTheorem` is about every value. Of the clients of libsensors one is the one
whose lookup fails, one has been looked up before it and one comes after. Three
fan entries let two wait for the levels of a third, or two of three come after
the last section; a statement of the legacy syntax meets at most the one before
it and the one after. Two processes can race for the PID file while a third, let
through by -D or late, meets the winner. A watchdog of three sleeps has a ping
that is due before, at and after its time. In `sensors` an optional driver without
slots of its own comes before those it can harm, and the trees differ where a
search ends: at the right depth, one too deep, in a cycle, at a link to nothing.
The configuration reader runs with the checks on because the properties of
levels are about what these let through; with `ChkSanity = FALSE` in
`MCConfigFile.cfg` LevelsAgree has nothing to say, and the other invariants and
Onward are theorems for both values.
What the small instances cannot show, the theorems do.

The process may stop at "over" (and a refused table at "rejected"), so
deadlock is not checked in those runs; `TempState`, `FanWatchdog` and
`SensorSlots` (but for an exception that ends it) never stop.

Fairness. `FairSpec` is weak fairness of the program's steps: the process is
scheduled, `sleep()` has a time limit, and I/O calls return. Nothing is assumed
of signals. `LiveSpec` adds strong fairness of `InitSucceeds` for each device:
one that is tried again and again is found at last. Without it
`try_init_driver` may retry for ever by design. UsrServed and StopHonoured need
it; the run that refutes TermTerminates uses the same specification, so its
counterexample is not a device that stays away.

In `Libsensors`, `FairSpec` is weak fairness of the program and strong fairness
of `LookupSucceeds`: `sensors_init()` does not fail each time it is called while a
chip that is wanted is there. `Rediscovered` has as its premise that from some
time on all chips are there, and allows that an error ends the process.

In `ConfigFile` the reading is a loop of a process that runs, so `Ends` needs weak
fairness of `Next` only: that each step leaves less to be done is `Onward`, which
needs none. In `FanWatchdog`, `FairSpec` is weak fairness of the loop
and says besides that of infinitely many attempts to write infinitely many
succeed: the code keeps trying while errors are forgiven, but a fan that fails
for ever is beyond it. No fairness is assumed of changes of level or of signals,
so what `CaughtUp` promises comes from the ping alone.

### Where the code departs from its documentation

Three have a run that ends in a counterexample (see "findings"):

- `term_lost`, TermTerminates: one variable for all signals, cleared after one
  was served; a SIGTERM is lost.
- `levels_exclusive`, MutuallyExclusive: a YAML file with global and fan-specific
  levels is accepted, because the check comes before any fan has been added.
- `optional_delays`, OptionalNotRequired: while an optional hwmon sensor is missing,
  limits for all sensors are refused, because it has no temperatures yet.

Others are stated in the modules without a run; given to the run of the module
as an INVARIANT (`UnderscoreAccepted`: a PROPERTY), each yields a counterexample:

- `OnlyTermStops` (`DaemonSignals`, with `Configs <- StrictOnly`): a SIGHUP or
  SIGUSR2 that arrives between two comparisons ends the process.
- `KeepsOldConfig` (`DaemonSignals`): a new configuration ends the process if only
  `ensure_consistency` finds it bad.
- `ResetFanRecovered` (`DaemonSignals`, with `Configs <- StrictOnly`): the handler
  for EINVAL never sees its exception, because `throw e` has sliced it.
- `OptionalForgiven` (`Libsensors`): an optional LM sensor that is unplugged ends
  the process, without unwinding, if another client's failure has made it look
  up again.
- `UnderscoreAccepted` (`Stepwise`): an underscore in a lower limit is refused.
- `HighestUsed` (`TempState`): a stale `tmax` when its own temperature falls.

Smaller ones, which the models contain as the code has them:

- When a restoring write fails at a reload the new driver takes thinkfan's own
  setting for the initial state (such fans are in `unreturned`).
- A SIGHUP is lost in the same ways as a SIGTERM; while a device is waited for,
  signals are not looked at; the tolerance after SIGPWR may last 3 loops instead
  of 4 (`GraceHeld` states what is sure).
- Integer levels have unchecked limits, and equal limits of neighbouring levels
  pass although the manual wants hysteresis.
- thinkpad_acpi's `lookup` and `set_correction` of a driver without a path name the
  path in their complaint, which throws `bad_optional_access` instead; the same
  in the legacy syntax for a correction of an hwmon or tp_thermal sensor.
- An NVML sensor whose library is missing is fatal, optional or not.
- An index of thinkpad_acpi that is too high, or a `correction` that is too short,
  is not refused: a bit or an offset behind the vector is used.
- Fans after the last `levels:` section are dropped silently; in the legacy
  syntax a second fan replaces the first, and a text without one is accepted
  with a mapping that has no fan.
- The PID file that could not be written stays, empty; with -D the file of
  another thinkfan is overwritten and later unlinked, and after a failed `fork`
  there is none.
- An error in a write of a `HwmonFanDriver` that is forgiven is not made up for
  before the level changes.
- -p has no effect: nothing calls `set_depulse`.

## 4. Proofs

All for any values of the constants under the assumptions named in the modules
(`ChkSanityAssumption`, `DaemonAssumption`, `LibsensorsAssumption`,
`StepwiseAssumption`, `TempStateAssumption`, `DirsAssumption`, `TreesAssumption`,
`EntriesAssumption`, `SensorsAssumption`, `NamesAssumption`, `FilesAssumption`,
`OptionsAssumption`, `WatchdogAssumption`). They give the constants their types:
a tree has finitely many directories, linked in any way; a file is any text or
any YAML document, well-formed or not. Beyond that, `SensorsAssumption` and
`EntriesAssumption` have what the configuration syntaxes make sure of (an entry
has no more drivers than indices, all of them optional or none),
`NamesAssumption` that there is a file to try, and `WatchdogAssumption` that the
time to sleep is shorter than the watchdog (15 and 120 seconds in the code).

`Daemon_proofs`. `TypeOK`, `FanReturned` and `RunsInitialised` are not
inductive. `FanReturned` excepts the end by `out_of_range`, and only that: what
a crash leaves driven is limited by `OnlyHeldFansDriven`, which excepts no end.
`IInv` adds: `Known`, a fan driver that is initialised has an initial state
(without it the destructor might restore nothing, and not even the type of
`mode` is kept); `Held`, every driven fan that was never left behind is held by
an initialised driver of `*config` and no such driver remembers thinkfan's own
mode; `InitProgress`, which says at each place in `Config::init` which devices
are done (`Past`); and `FoundFirst`, that no driver of a fan is initialised
while a TpSensorDriver without a path may still be tried, so that its
`bad_optional_access` leaves no fan behind. Every operation on a device is shown
to satisfy `Fits`, and `Fits` to keep the invariant whether the operation
succeeds, is forgiven or throws (`SucceedKeeps`, `FailKeeps`, `ThrowKeeps`).
`Held` is where "the state is read only while there is none" matters: an
uninitialised driver's fan cannot be driven, so what it reads is the firmware's
mode (`RememberedState`).

`ServiceTheorem`, in the same module, is the refinement: `Init` maps to
`FanService`'s, and each step to one of its steps or to none (`StepServes`). An
operation on a device is a `Take` of its fan or nothing that can be seen
(`DeviceServes`), which needs `Held`: else `init()` could turn a fan that was left
behind into a held one unnoticed. A reload and every way to end are `GiveBack`,
and here what the destructors do to all fans at once is what the theorem is
about; the two exceptions without a handler are `Crash`.

`GraceTheorem`, at its end, is about `DaemonSignals`. `GraceHeld` follows from
`Paid`: since the last SIGPWR each tick of `tolerate_errors` goes with a round
of reading, but for one tick of the round in which the signal came; inside a
round the sum of both is still Grace or more. `SSpecRefines` shows that the
recording variables restrict nothing.

`Libsensors_proofs`. `Coherent` says how `path_`, `clients_`, the library's
state and what it has detected go together. `StableUnharmed` needs that a
libsensors that runs has detected every chip that is always there
(`StableKnown`).

`Stepwise_proofs`. `Settled` and `RestartNotSlower` rest on the table: limits of
neighbouring levels overlap (`TableInvariant`), so a level that is left upwards
is not left downwards at the same temperatures (`NoWayBack`). They assume the
sanity checks are on; with -D nothing of the kind holds.

`TempState_proofs`. `TmaxTracks` follows from what one `add_temp` does
(`AddTempEffect`); `BiasFades` from the arithmetic of the fading step
(`FadeFades`), for every bias.

`Startup_proofs`. `Possessions` ties what a process has to where it is;
`AloneInside` says that without a race or -D one process at most is between
making the file and deleting it, and that the file is empty or names it;
`AloneHeld` the same of the fan, with what its driver remembers. `SoleDaemon`
and `FanGivenBack` are read off these. `NoStaleFile` needs no such premise: it
follows from `Numbered`; a failed `unlink()` is one of the three reasons it
names, and there is no other. The number of processes does not matter.

`SensorSlots_proofs` has two inductive invariants, besides what it says of the
searches. `Placed`, in the first, says that the references lie one after the
other; `RightSoFar`, that during a round the drivers before the current one have
what they wrote, because a driver writes behind its own base only, so that
whatever it writes too much is overwritten by those it belongs to
(`FilledKeeps`). From these comes `SlotsRight`. The second, `DInv`, says how far
the lookups have come: the drivers of an entry that have a file have different
ones, of the directory that its first lookup found (`Files`); those that are not
optional have taken them in their order (`InPlace`), because Config::init waits
for each (`Waited`); and the references are counted as the slots were
(`Counted`). It gives `OwnFiles` and `NoBug`. `SearchesRight` is proved of each
tree: the search functions are given level by level, a search of a level being
made from the search of the next (`Labelling`, `Indexing`), and induction over
the depth is by the least depth at which they would be wrong.

`ConfigFile_proofs` has an inductive invariant, and three more on top of it.
`IInv` says that the names before the queue are those of no file (`Opened`),
that the decoder goes over sections that are lists (`Sections`), that what is
built has its types, where a fan's levels agree in every mapping and at any time
(`Shaped`, `Mapped`), and that the legacy parser stays within its text
(`LegacyAt`). It gives `TypeOK`, `FirstFileDecides` and `LevelsAgree`, the
latter if the sanity checks are on: with -D nothing makes levels agree.
`RangeInv` says how far `at` and `mark` can have come in a section or in a turn
of the legacy parser's loop (`InRange`), so that what is left to be done
(`Remaining`: names, sections, entries, steps of an entry) is of natural
numbers. Each action is shown to make it smaller in lexicographic order
(`NextNearer`); that is `Onward`, and why the reading of no file can go on for
ever. `WholeInv` adds `Taken`: of the text up to `at`, everything was of a kind
that a parser takes, and the sensors, levels and the fan are exactly those in
it. At the end of the text that is `LegacyWhole`. `YamlInv` says which fans have
been collected, which wait, and how many of their levels have been read
(`InFans`, `InOwn`, `InGlobal`), all in terms of `Lists`: a sequence that has
the fans of a set, each once and in order. `FansOnce` and `LevelsWhereWritten`
are `Good` in the words of the properties; after a `BadConversion` nothing of
the first attempt may be left, and the invariant says that nothing is.

`FanWatchdog_proofs`. `InTime`: while writes succeed and the clock is left alone
`since` equals `age`, and a sleep begins only if it can end before the watchdog.

Only model-checked: the liveness properties UsrServed, StopHonoured, Rediscovered,
CaughtUp and Ends, since fairness is out of the prover's reach. Of `Ends`, the
run has to show only that the reader is never stuck before its end: `Onward` is
proved. Every invariant that a passing run checks, `BiasFades` and
`KeepsToService` are theorems too.

## 5. Not modelled

The wording of messages, the logger and its syslog; yaml-cpp and the regular
expressions, but for what they tell apart; vendored headers and libraries;
SIGUSR1 and SIGSEGV, which only print; the options other than -n and -D, apart
from the values they set (constants here); an empty list of ids of an LM sensor
and libsensors' fatal errors, which abort; how long a write takes, beyond the
delay of `FanWatchdog`. `TempState` has each driver in its own slots: that the -128
of an optional driver whose last temperature was read already, or of one without
slots, passes through the bias and `tmax` of the next driver's slot before that
driver overwrites it, is in none of the modules (`SensorSlots` has who writes
where). The loop of `Daemon` and the temperatures of `TempState`
and `Stepwise` are not composed: `set_fanspeed` may or may not write there, which
is more than the temperatures would allow.
