----------------------------- MODULE SensorSlots -----------------------------
(***************************************************************************)
(* The sensor drivers and the slots of the TemperatureState that they      *)
(* write to: how each driver finds its device and the number of its        *)
(* temperatures, how the slots are given out from these numbers, and who   *)
(* has written what after a round of readings.                             *)
(*                                                                         *)
(* Temperatures are left out (TempState has them).  Whether an error is    *)
(* forgiven is a choice here for drivers that are not optional (Daemon has *)
(* the counters).                                                          *)
(***************************************************************************)
EXTENDS HwmonLookup

CONSTANTS
  Sensors,      \* the sensors of the configuration, in order: kind "hwmon",
                \* "tp" or "fixed", optional, correction (its length), and
                \* entry: for "hwmon" the name of a configuration entry, for
                \* "tp" the indices or Absent, for "fixed" how many
                \* temperatures its constructor knows of
  Entries,      \* hwmon entries: base, name, model, indices
  Trees,        \* what sysfs may look like
  Counts,       \* how many temperatures thinkpad_acpi may show
  Limits        \* the number of limits of each level; 0: simple levels

Ds == DOMAIN Sensors
Kind(d) == Sensors[d].kind
Optional(d) == Sensors[d].optional

VARIABLES
  tree,         \* sysfs
  found,        \* found_paths_ of each entry: the directory they are in
  it,           \* paths_it_: which of them is next; 0 before the search
  path,         \* path_ of each driver
  initialized,  \* initialized_
  numTemps,     \* num_temps_
  correction,   \* the length of correction_
  inUse,        \* in_use_
  slots,        \* the number of temperatures in the TemperatureState
  refd,         \* refd_temps_
  base,         \* temp_state_ of each driver: the slot before its first
  given,        \* and the number of slots it was made for
  holds,        \* whose temperature is in each slot: driver and place
  wrote,        \* how many temperatures a reading without error has written
                \* in this round
  pc, at        \* the phase of Config::init() or run(), and whose turn it is

drivers == <<path, initialized, numTemps, correction, inUse>>
refs == <<refd, base, given>>
state == <<holds, wrote>>
vars == <<tree, found, it, drivers, slots, refs, state, pc, at>>

\* A path: the directory of an hwmon entry and which of the files, or what the
\* configuration says.
NoPath == <<>>
Given == <<Absent, 0>>
Nobody == <<>>

\* What Config::init() and run() end with: an error that main() reports, a
\* Bug, an exception that nobody catches, undefined behaviour.
Ends == {"error", "ConfigError", "Bug", "bad_optional_access", "crash"}

End(how) ==
  /\ pc' = how
  /\ UNCHANGED <<tree, found, it, drivers, slots, refs, state, at>>

-----------------------------------------------------------------------------
(* lookup() *)

FilesOf(e) == IF Entries[e].indices = Absent THEN 1 ELSE Len(Entries[e].indices)

\* HwmonInterface::lookup.  The drivers of an entry take the files in turn.
TakesNext(d) ==
  LET e == Sensors[d].entry
      r == Search(tree, Entries[e])
  IN  /\ it[e] # 0 \/ r.is = "found"
      /\ it[e] <= FilesOf(e)
      /\ IF it[e] # 0
         THEN /\ it' = [it EXCEPT ![e] = @ + 1]
              /\ path' = [path EXCEPT ![d] = <<found[e], it[e]>>]
              /\ UNCHANGED found
         ELSE /\ found' = [found EXCEPT ![e] = r.dir]
              /\ it' = [it EXCEPT ![e] = 2]
              /\ path' = [path EXCEPT ![d] = <<r.dir, 1>>]

\* A mutant: a driver that has its path looks it up again.
LooksAlways(d) == TRUE

\* ! Driver::available()
Looks(d) == path[d] = NoPath

\* thinkpad_acpi's file shows n temperatures; it is not there when n is 0.
LookupSucceeds(d, n) ==
  IF ~Looks(d)
  THEN UNCHANGED <<found, it, path>>
  ELSE CASE Kind(d) = "hwmon" -> TakesNext(d)
         [] Kind(d) = "tp" ->
              n > 0 /\ path' = [path EXCEPT ![d] = Given] /\ UNCHANGED <<found, it>>
         [] Kind(d) = "fixed" ->
              path' = [path EXCEPT ![d] = Given] /\ UNCHANGED <<found, it>>

LookupFails(d) ==
  /\ Looks(d) /\ Kind(d) = "hwmon"
  /\ it[Sensors[d].entry] = 0 /\ Search(tree, Entries[Sensors[d].entry]).is # "found"

\* TpSensorDriver::lookup names path() in its complaint, which is not there.
LookupThrows(d, n) ==
  \/ Looks(d) /\ Kind(d) = "tp" /\ n = 0 /\ End("bad_optional_access")
  \/ /\ Looks(d) /\ Kind(d) = "hwmon"
     /\ it[Sensors[d].entry] > FilesOf(Sensors[d].entry)
     /\ End("Bug")

-----------------------------------------------------------------------------
(* init() *)

\* SensorDriver::set_num_temps, check_correction_length
SetNumTemps(d, n) ==
  /\ correction[d] <= n
  /\ numTemps' = [numTemps EXCEPT ![d] = n]
  /\ correction' = [correction EXCEPT ![d] = IF @ = 0 THEN n ELSE @]

\* in_use_ after TpSensorDriver::init(), for a file that shows n temperatures.
\* An index beyond them is set in memory that is not in_use_'s.
InUse(d, n) ==
  [i \in 1..n |-> Sensors[d].entry = Absent \/ i - 1 \in ToSet(Sensors[d].entry)]

InitHwmon(d) == SetNumTemps(d, 1) /\ UNCHANGED inUse

InitTp(d, n) ==
  /\ n > 0
  /\ inUse' = [inUse EXCEPT ![d] = InUse(d, n)]
  /\ IF Sensors[d].entry = Absent
     THEN SetNumTemps(d, n)
     ELSE Len(Sensors[d].entry) <= n /\ UNCHANGED <<numTemps, correction>>

\* The devices that have been opened by name: nothing is counted again.
InitFixed(d) == UNCHANGED <<numTemps, correction, inUse>>

InitSucceeds(d, n) ==
  /\ \/ Kind(d) = "hwmon" /\ InitHwmon(d)
     \/ Kind(d) = "tp" /\ InitTp(d, n)
     \/ Kind(d) = "fixed" /\ InitFixed(d)
  /\ initialized' = [initialized EXCEPT ![d] = TRUE]

\* Too few temperatures for the indices or for the correction.
InitRefuses(d, n) ==
  /\ Kind(d) = "tp" /\ n > 0
  /\ IF Sensors[d].entry = Absent THEN correction[d] > n ELSE Len(Sensors[d].entry) > n

-----------------------------------------------------------------------------
(* Driver::try_init *)

Calm == UNCHANGED <<tree, slots, refs, state>>

\* It is done, and the next step of the caller is `Then'.
TrySucceeds(d, Then) ==
  \E n \in Counts :
    LookupSucceeds(d, n) /\ InitSucceeds(d, n) /\ Then /\ Calm

\* lookup() or init() has thrown an error that is forgiven.
TryForgiven(d, Then) ==
  /\ \/ LookupFails(d) /\ UNCHANGED <<found, it, path>>
     \/ \E n \in Counts : LookupSucceeds(d, n)
  /\ UNCHANGED <<initialized, numTemps, correction, inUse>>
  /\ Then /\ Calm

TryThrows(d) ==
  \/ ~Optional(d) /\ End("error")
  \/ \E n \in Counts : LookupThrows(d, n)
  \/ /\ \E n \in Counts : InitRefuses(d, n)
     /\ End("ConfigError")

-----------------------------------------------------------------------------
(* Config::init *)

ToNext == at' = at + 1 /\ UNCHANGED pc
Phase(p) == pc' = p /\ at' = 1

\* A mutant: try_init_driver does not wait for a device.
TurnOverAnyway(d) == ToNext

\* try_init_driver: whether the turn is over after an error was forgiven.  A
\* driver stays initialised when it cannot be initialised again.
TurnOver(d) ==
  IF Optional(d) \/ initialized[d] THEN ToNext ELSE UNCHANGED <<pc, at>>

InitSensor ==
  /\ pc = "init" /\ at \in Ds
  /\ \/ TrySucceeds(at, ToNext)
     \/ TryForgiven(at, TurnOver(at))
     \/ TryThrows(at)

SensorsDone ==
  /\ pc = "init" /\ at \notin Ds
  /\ Phase("count") /\ slots' = 0
  /\ UNCHANGED <<tree, found, it, drivers, refs, state>>

\* Config::num_temps
Count ==
  /\ pc = "count" /\ at \in Ds
  /\ slots' = slots + numTemps[at] /\ ToNext
  /\ UNCHANGED <<tree, found, it, drivers, refs, state>>

\* ComplexLevel::ensure_consistency; then a new TemperatureState.
Consistency ==
  /\ pc = "count" /\ at \notin Ds
  /\ IF Limits \notin {0, slots}
     THEN End("ConfigError")
     ELSE /\ Phase("refs")
          /\ refd' = 0 /\ holds' = [s \in 1..slots |-> Nobody]
          /\ UNCHANGED <<tree, found, it, drivers, slots, base, given, wrote>>

\* A mutant: refd_temps_ is not advanced.
RefSame(d) ==
  /\ refd + numTemps[d] <= slots
  /\ base' = [base EXCEPT ![d] = refd]
  /\ given' = [given EXCEPT ![d] = numTemps[d]]
  /\ UNCHANGED refd

\* TemperatureState::ref
Ref(d) ==
  /\ refd + numTemps[d] <= slots
  /\ base' = [base EXCEPT ![d] = refd]
  /\ given' = [given EXCEPT ![d] = numTemps[d]]
  /\ refd' = refd + numTemps[d]

InitRef ==
  /\ pc = "refs" /\ at \in Ds
  /\ IF refd + numTemps[at] <= slots
     THEN Ref(at) /\ ToNext /\ UNCHANGED <<tree, found, it, drivers, slots, state>>
     ELSE End("Bug")

-----------------------------------------------------------------------------
(* run(): a round of SensorDriver::read_temps *)

NewRound ==
  /\ \/ pc = "refs" /\ at \notin Ds
     \/ pc = "round"
  /\ Phase("read") /\ wrote' = [d \in Ds |-> 0]
  /\ UNCHANGED <<tree, found, it, drivers, slots, refs, holds>>

\* robust_io tries to initialise a driver that was not there so far.
RetrySensor ==
  /\ pc = "read" /\ at \in Ds /\ ~initialized[at]
  /\ \/ TrySucceeds(at, UNCHANGED <<pc, at>>)
     \/ TryForgiven(at, ToNext)
     \/ TryThrows(at)

\* A mutant: slots are added for what does not fit.
FilledAll(d, n) ==
  [s \in DOMAIN holds \union (1 .. base[d] + n) |->
     IF s - base[d] \in 1..n THEN <<d, s - base[d]>> ELSE holds[s]]

\* temp_state_.add_temp, n times, the k-th time for the k-th temperature that is
\* in use.  What is written behind the last slot is somewhere else in memory;
\* a temperature without an offset in correction_ is anything.
Filled(d, n) ==
  [s \in DOMAIN holds |->
     IF s - base[d] \in 1..n
     THEN IF s - base[d] <= correction[d] THEN <<d, s - base[d]>> ELSE Nobody
     ELSE holds[s]]

\* How many temperatures a driver can write before its reading ends: as many
\* as it has or, in thinkpad_acpi's file, as many of those shown as are in use;
\* of one behind the end of in_use_ that is anybody's guess.
Known(d, n) == Cardinality({i \in DOMAIN inUse[d] : i <= n /\ inUse[d][i]})
Behind(d, n) == IF n > Len(inUse[d]) THEN n - Len(inUse[d]) ELSE 0
Writes(d) ==
  IF Kind(d) # "tp" THEN {numTemps[d]}
  ELSE UNION {Known(d, n) .. Known(d, n) + Behind(d, n) : n \in Counts}

\* Memory behind the last slot may be anybody's.
Fits(d, n) == base[d] + n <= slots

ReadSucceeds ==
  /\ pc = "read" /\ at \in Ds /\ initialized[at]
  /\ \E n \in Writes(at) :
       \/ /\ holds' = Filled(at, n)
          /\ wrote' = [wrote EXCEPT ![at] = n]
          /\ ToNext
          /\ UNCHANGED <<tree, found, it, drivers, slots, refs>>
       \/ ~Fits(at, n) /\ End("crash")

\* An error after n temperatures.  skip_io_error writes one more for an optional
\* driver, and passes over the rest.
ReadFails ==
  /\ pc = "read" /\ at \in Ds /\ initialized[at]
  /\ \/ \E n \in IF Kind(at) = "tp" THEN UNION {0..m : m \in Writes(at)} ELSE {0} :
          LET m == IF Optional(at) THEN n + 1 ELSE n IN
          \/ /\ holds' = Filled(at, m)
             /\ ToNext
             /\ UNCHANGED <<tree, found, it, drivers, slots, refs, wrote>>
          \/ ~Fits(at, m) /\ End("crash")
     \/ ~Optional(at) /\ End("error")

EndRound ==
  /\ pc = "read" /\ at \notin Ds
  /\ Phase("round")
  /\ UNCHANGED <<tree, found, it, drivers, slots, refs, state>>

\* SIGUSR2, or SIGHUP and a new configuration that is refused: Config::init once
\* more, with the drivers as they are.
Reinit ==
  /\ pc = "round" /\ Phase("init")
  /\ UNCHANGED <<tree, found, it, drivers, slots, refs, state>>

\* Kernel modules are loaded and devices are plugged in.
Plug ==
  /\ pc \in {"init", "round"}
  /\ tree' \in Trees
  /\ UNCHANGED <<found, it, drivers, slots, refs, state, pc, at>>

-----------------------------------------------------------------------------

\* What the two syntaxes make sure of (ConfigFile): a driver that knows its
\* number of temperatures has no more offsets than these.
ASSUME SensorsAssumption ==
  /\ Sensors \in Seq({Sensors[d] : d \in Ds})
  /\ Limits \in Nat /\ Counts \subseteq Nat
  /\ \A d \in Ds :
       /\ Kind(d) \in {"hwmon", "tp", "fixed"} /\ Optional(d) \in BOOLEAN
       /\ Kind(d) = "hwmon" => Sensors[d].entry \in DOMAIN Entries /\ Sensors[d].correction \in {0, 1}
       /\ Kind(d) = "fixed" => Sensors[d].entry \in Nat /\ Sensors[d].correction \in 0..Sensors[d].entry
       /\ Kind(d) = "tp" => Sensors[d].correction \in Nat

\* The drivers of an entry.
EntryOf(d) == Sensors[d].entry
Users(e) == {d \in Ds : Kind(d) = "hwmon" /\ EntryOf(d) = e}

\* The file system; and what the constructors are called with: an entry has no
\* more drivers than files, all of them optional or none (yamlconfig.cpp:132).
ASSUME TreesAssumption == \A t \in Trees : IsTree(t)
ASSUME EntriesAssumption ==
  \A e \in DOMAIN Entries :
    /\ Entries[e].base \in Dirs
    /\ Entries[e].indices = Absent \/ Entries[e].indices \in Seq(Nat)
    /\ Cardinality(Users(e)) <= FilesOf(e)
    /\ \A c, d \in Users(e) : Optional(c) = Optional(d)

\* The constructors: all drivers but hwmon's, and thinkpad_acpi's without
\* indices, know their number of temperatures.
Configured(d) ==
  CASE Kind(d) = "hwmon" -> 0
    [] Kind(d) = "fixed" -> Sensors[d].entry
    [] Kind(d) = "tp" -> IF Sensors[d].entry = Absent THEN 0 ELSE Len(Sensors[d].entry)

Init ==
  /\ tree \in Trees
  /\ found = [e \in DOMAIN Entries |-> Absent]
  /\ it = [e \in DOMAIN Entries |-> 0]
  /\ path = [d \in Ds |-> NoPath]
  /\ initialized = [d \in Ds |-> FALSE]
  /\ numTemps = [d \in Ds |-> Configured(d)]
  /\ correction = [d \in Ds |-> IF Sensors[d].correction = 0 THEN Configured(d)
                                 ELSE Sensors[d].correction]
  /\ inUse = [d \in Ds |-> <<>>]
  /\ slots = 0 /\ refd = 0
  /\ base = [d \in Ds |-> 0] /\ given = [d \in Ds |-> 0]
  /\ holds = <<>> /\ wrote = [d \in Ds |-> 0]
  /\ pc = "init" /\ at = 1

Next ==
  \/ InitSensor \/ SensorsDone \/ Count \/ Consistency \/ InitRef
  \/ NewRound \/ RetrySensor \/ ReadSucceeds \/ ReadFails \/ EndRound
  \/ Reinit \/ Plug

Spec == Init /\ [][Next]_vars

-----------------------------------------------------------------------------
(* Properties *)

\* The shape of the drivers' state and of the slots; a driver that has been
\* initialised has a path.
TypeOK ==
  /\ tree \in Trees
  /\ \A e \in DOMAIN Entries : it[e] \in 0..FilesOf(e) + 1
  /\ path \in [Ds -> {NoPath} \union (Dirs \union {Absent}) \X Nat]
  /\ initialized \in [Ds -> BOOLEAN]
  /\ numTemps \in [Ds -> Nat] /\ correction \in [Ds -> Nat]
  /\ inUse \in [Ds -> Seq(BOOLEAN)]
  /\ slots \in Nat /\ refd \in Nat
  /\ base \in [Ds -> Nat] /\ given \in [Ds -> Nat]
  /\ holds \in [DOMAIN holds -> {Nobody} \union (Ds \X Nat)]
  /\ pc \in {"refs", "read", "round"} => DOMAIN holds = 1..slots
  /\ wrote \in [Ds -> Nat]
  /\ pc \in {"init", "count", "refs", "read", "round"} \union Ends
  /\ at \in Nat
  /\ \A d \in Ds : initialized[d] => path[d] # NoPath

\* After a round each slot has the temperature of the driver it was given to,
\* if that driver was read without an error, whatever the others do: also
\* drivers that are found when the slots have long been given out and have
\* none of their own (sensors.cpp:159, temperature_state.cpp:120), that show
\* more temperatures than before, or that fail at any of them
\* (sensors.cpp:112, 252).
SlotsRight ==
  pc = "round" =>
    \A d \in Ds : \A k \in 1..given[d] :
      k <= wrote[d] /\ k <= correction[d] => holds[base[d] + k] = <<d, k>>

PlaceInEntry(d) == Cardinality({c \in Users(EntryOf(d)) : c <= d})

\* The drivers of an entry have different files of one directory, and those of
\* an entry that is not optional have them in the order of its indices, so that
\* each gets the offset that is written for it (yamlconfig.cpp:132, hwmon.cpp:271).
OwnFiles ==
  \A c, d \in {i \in Ds : Kind(i) = "hwmon" /\ path[i] # NoPath} :
    /\ EntryOf(c) = EntryOf(d) /\ c # d => path[c][1] = path[d][1] /\ path[c][2] # path[d][2]
    /\ ~Optional(d) => path[d][2] = PlaceInEntry(d)

\* The exceptions that are there to find errors in thinkfan are never thrown:
\* hwmon.cpp:269 (more lookups than files), temperature_state.cpp:123 (more
\* references than temperatures).
NoBug == pc # "Bug"

\* Whatever is in sysfs, the searches are right about what they return.
SearchesRight ==
  \A e \in DOMAIN Entries :
    LET E == Entries[e] IN
    /\ E.indices # Absent => SearchRight(tree, ToSet(E.indices), E.base)
    /\ E.name # Absent => LabelsRight(tree, "name", E.name, E.base)
    /\ E.model # Absent => LabelsRight(tree, "model", E.model, E.base)

\* thinkfan.conf(5): "An optional device will not delay startup.  Instead,
\* thinkfan will commence normal operation with the remaining devices": limits
\* for all the sensors of the configuration are not refused.
Temps(d) == IF Kind(d) = "hwmon" THEN 1 ELSE Configured(d)
OptionalNotRequired ==
  pc = "ConfigError" => Limits # FoldLeft(LAMBDA n, d : n + Temps(d), 0, [d \in Ds |-> d])

=============================================================================
