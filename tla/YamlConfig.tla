----------------------------- MODULE YamlConfig -----------------------------
(***************************************************************************)
(* yamlconfig.cpp: a YAML node tree becomes a Config, entry by entry.      *)
(*                                                                         *)
(* Which exception a bad entry throws matters: while the `fans:' section   *)
(* is decoded, a BadConversion means "not this syntax", and Config's       *)
(* decode() starts again with the syntax of a single fan.                  *)
(***************************************************************************)
EXTENDS ConfigReader

\* The root node that is being decoded: does it have an unknown keyword, and
\* what is under `sensors:', `fans:' and `levels:'.
doc == fs[queue[1]].yaml

\* What a node tree is made of: a level entry in brackets has one speed and one
\* pair of limits.
IsLevel(l) ==
  /\ l.form \in {"seq", "map"} /\ l.speeds \in Seq(Int) /\ l.dim \in Nat
  /\ l.form = "seq" => Len(l.speeds) = 1 /\ l.dim = 1
IsEntry(e) == e.indices = Absent \/ e.indices \in Nat
IsSection(s, IsOne(_)) ==
  s \in {Absent, Scalar} \/ (IsSeq(s) /\ \A i \in DOMAIN s : IsOne(s[i]))
IsFan(e) == IsEntry(e) /\ IsSection(e.levels, IsLevel)
IsDoc(d) ==
  /\ IsSection(d.sensors, IsEntry)
  /\ IsSection(d.fans, IsFan)
  /\ IsSection(d.levels, IsLevel)

-----------------------------------------------------------------------------
(* Sensor entries *)

\* check_correction_length(), while the driver has no path(): to say what is
\* wrong it asks for the path, which throws std::bad_optional_access.
CorrectionFault(e, temps) ==
  <<e.correction \notin {Absent, 0, temps}, "bad_optional_access">>

UnknownKeyword(e) == <<e.stray, "YamlError">>
IllTyped(e) == <<e.illtyped, "BadConversion">>

\* convert_driver<vector<wtf_ptr<HwmonSensorDriver>>>
HwmonSensorFault(e) == FirstOf(<<
  UnknownKeyword(e),
  IllTyped(e),
  <<e.indices # Absent /\ e.correction \notin {Absent, e.indices}, "YamlError">>,
  <<e.indices = Absent /\ e.optional, "YamlError">>,
  <<e.indices = Absent /\ e.correction \notin {Absent, 1}, "YamlError">> >>)

\* convert_driver<wtf_ptr<TpSensorDriver>>, and the constructor
TpSensorFault(e) == FirstOf(<<
  UnknownKeyword(e),
  IllTyped(e),
  <<e.indices = Absent /\ e.optional, "YamlError">>,
  IF e.indices = Absent THEN <<FALSE, "none">> ELSE CorrectionFault(e, e.indices) >>)

\* convert_driver<wtf_ptr<NvmlSensorDriver>>.  The constructor throws when
\* the library is not there, optional or not.
NvmlSensorFault(e, lib) == FirstOf(<<
  UnknownKeyword(e), IllTyped(e), LibraryFault(lib), CorrectionFault(e, 1) >>)

\* convert_driver<wtf_ptr<AtasmartSensorDriver>>
AtasmartSensorFault(e) == FirstOf(<<
  UnknownKeyword(e), IllTyped(e), CorrectionFault(e, 1) >>)

\* convert_driver<wtf_ptr<LMSensorsDriver>>.  `indices' are the `ids:'.
LMSensorFault(e) == FirstOf(<<
  UnknownKeyword(e),
  <<e.indices = Absent, "YamlError">>,
  IllTyped(e),
  <<e.correction \notin {Absent, e.indices}, "YamlError">> >>)

SensorFault(e, lib) ==
  CASE e.kind = "hwmon"    -> HwmonSensorFault(e)
    [] e.kind = "tpacpi"   -> TpSensorFault(e)
    [] e.kind = "nvml"     -> NvmlSensorFault(e, lib)
    [] e.kind = "atasmart" -> AtasmartSensorFault(e)
    [] e.kind = "chip"     -> LMSensorFault(e)
    [] OTHER               -> "YamlError"

\* How many drivers an entry makes: an hwmon entry one for each index.
DriversOf(e) == IF e.kind = "hwmon" /\ e.indices # Absent THEN e.indices ELSE 1

\* A driver is known by its entry and its place in it.
Drivers(i, e) == [k \in 1..DriversOf(e) |-> <<i, k>>]

-----------------------------------------------------------------------------
(* Fan entries *)

\* convert_driver<vector<wtf_ptr<HwmonFanDriver>>>
HwmonFanFault(e) == FirstOf(<<
  <<e.kind # "hwmon", "BadConversion">>,
  UnknownKeyword(e),
  IllTyped(e),
  <<e.indices = Absent /\ e.optional, "YamlError">> >>)

\* convert_driver<wtf_ptr<TpFanDriver>>
TpFanFault(e) == FirstOf(<<
  <<e.kind # "tpacpi", "BadConversion">>, UnknownKeyword(e), IllTyped(e) >>)

\* Which of the two drivers is tried first, and when the other one is.
Or(fault, otherwise) == IF fault = "BadConversion" THEN otherwise ELSE fault

-----------------------------------------------------------------------------
(* Level entries *)

\* convert<LevelEntry>, with get_limit() and get_fan_level()
LevelEntryFault(l) == FirstOf(<<
  <<l.form # "map" \/ l.speeds = <<>> \/ l.limits = "missing", "BadConversion">>,
  <<Error(\E i \in DOMAIN l.speeds : l.speeds[i] = Garbage), "ConfigError">>,
  <<l.limits \in {"scalar", "illegal"}, "YamlError">> >>)

\* convert<wtf_ptr<SimpleLevel>>.  A map that is no LevelEntry is none of these
\* either: the code for a map with scalar limits is out of reach, because
\* LevelEntry has refused it for good.
SimpleLevelFault(l) == FirstOf(<<
  <<l.form = "map" \/ l.limits = "illtyped", "BadConversion">>,
  <<l.limits = "short", "InvalidNode">>,
  <<l.form = "seq" /\ LevelRefused(l.speeds[1], l.limits, l.quoted), "ConfigError">>,
  <<\E i \in DOMAIN filling :
      l.form = "seq" /\ Misplaced(filling[i].levels, l.speeds[1], l.limits, 1), "ConfigError">> >>)

\* A level for each of the mappings, in their order.
Places(l) == DOMAIN filling \intersect DOMAIN l.speeds

\* assign_fan_levels: a LevelEntry has a speed for each fan; a SimpleLevel goes
\* to each of them.
AssignFault(l) ==
  IF LevelEntryFault(l) = "BadConversion"
  THEN IF filling = <<>> THEN "none" ELSE SimpleLevelFault(l)
  ELSE FirstOf(<<
    <<LevelEntryFault(l) # "none", LevelEntryFault(l)>>,
    <<Len(l.speeds) # Len(filling), "YamlError">>,
    <<\E i \in Places(l) : \/ LevelRefused(l.speeds[i], l.limits, TRUE)
                           \/ Misplaced(filling[i].levels, l.speeds[i], l.limits, l.dim),
      "YamlError">> >>)

\* A mutant: fan_idx stays where it is.
FirstSpeed(l, i) == l.speeds[1]

SpeedFor(l, i) == IF l.form = "map" THEN l.speeds[i] ELSE l.speeds[1]
Dim(l) == IF l.form = "map" THEN l.dim ELSE 1

Filled(l) ==
  [i \in DOMAIN filling |-> Added(filling[i], SpeedFor(l, i), Dim(l))]

-----------------------------------------------------------------------------
(* The exceptions *)

\* try_read_config turns what yaml-cpp and yamlconfig.cpp throw into a
\* ConfigError that has the place in the text.
Wrapped(e) ==
  IF e \in {"YamlError", "BadConversion", "InvalidNode"} THEN "ConfigError" ELSE e

\* decode() of Config catches a BadConversion of the `fans:' section.  What the
\* section had yielded so far was in vectors of its own.
Throw(e) ==
  IF e = "BadConversion" /\ pc \in {"fans", "own"}
  THEN /\ pc' = "single"
       /\ drivers' = <<>> /\ filling' = <<>>
       /\ config' = [config EXCEPT !.fans = <<>>]
       /\ UNCHANGED <<fs, queue, at, mark, outcome>>
  ELSE Finish(Wrapped(e))

Continue == UNCHANGED <<fs, queue, outcome>>

-----------------------------------------------------------------------------
(* convert<wtf_ptr<Config>>::decode, convert<vector<wtf_ptr<SensorDriver>>> *)

Keys ==
  /\ pc = "keys"
  /\ IF doc.stray \/ doc.sensors \in {Absent, Scalar}
     THEN Throw("YamlError")
     ELSE /\ pc' = "sensors" /\ at' = 1
          /\ UNCHANGED <<mark, drivers, filling, config>> /\ Continue

SensorEntry ==
  /\ pc = "sensors" /\ at <= Len(doc.sensors)
  /\ LET e == doc.sensors[at] IN
     \E lib \in BOOLEAN :
       IF SensorFault(e, lib) # "none"
       THEN Throw(SensorFault(e, lib))
       ELSE /\ config' = [config EXCEPT !.sensors = @ \o Drivers(at, e)]
            /\ at' = at + 1
            /\ UNCHANGED <<pc, mark, drivers, filling>> /\ Continue

SensorsDone ==
  /\ pc = "sensors" /\ at > Len(doc.sensors)
  /\ LET fault == FirstOf(<< <<config.sensors = <<>>, "BadConversion">>,
                             <<doc.fans \in {Absent, Scalar}, "YamlError">> >>)
     IN  IF fault # "none"
         THEN Throw(fault)
         ELSE /\ pc' = "fans" /\ at' = 1
              /\ UNCHANGED <<mark, drivers, filling, config>> /\ Continue

-----------------------------------------------------------------------------
(* convert<vector<wtf_ptr<FanConfig>>> *)

Mappings(ds) == [i \in DOMAIN ds |-> Mapping(ds[i])]

\* A mutant: fan_drivers is not cleared.
MovedAndKept(waiting) == filling' = Mappings(waiting) /\ drivers' = waiting

\* The drivers move into StepwiseMappings.
Moved(waiting) == filling' = Mappings(waiting) /\ drivers' = <<>>

\* The drivers wait until an entry has levels; then they all get these.
FanEntry ==
  /\ pc = "fans" /\ at <= Len(doc.fans)
  /\ LET e == doc.fans[at]
         fault == FirstOf(<<
           <<Or(HwmonFanFault(e), TpFanFault(e)) # "none",
             Or(HwmonFanFault(e), TpFanFault(e))>>,
           <<e.levels = Scalar, "YamlError">> >>)
         waiting == drivers \o Drivers(at, e)
     IN  IF fault # "none"
         THEN Throw(fault)
         ELSE /\ IF e.levels = Absent
                 THEN drivers' = waiting /\ at' = at + 1 /\ UNCHANGED <<pc, mark, filling>>
                 ELSE /\ Moved(waiting)
                      /\ pc' = "own" /\ mark' = 1 /\ UNCHANGED at
              /\ UNCHANGED config /\ Continue

\* One entry of a `levels:' section.
Level(section) ==
  /\ mark <= Len(section)
  /\ IF AssignFault(section[mark]) # "none"
     THEN Throw(AssignFault(section[mark]))
     ELSE /\ filling' = Filled(section[mark])
          /\ mark' = mark + 1
          /\ UNCHANGED <<pc, at, drivers, config>> /\ Continue

OwnLevel == pc = "own" /\ Level(doc.fans[at].levels)

OwnDone ==
  /\ pc = "own" /\ mark > Len(doc.fans[at].levels)
  /\ config' = [config EXCEPT !.fans = @ \o filling]
  /\ filling' = <<>>
  /\ pc' = "fans" /\ at' = at + 1
  /\ UNCHANGED <<mark, drivers>> /\ Continue

\* Drivers that still wait for levels go away with the vector they are in.
FansDone ==
  /\ pc = "fans" /\ at > Len(doc.fans)
  /\ IF config.fans = <<>> THEN Throw("BadConversion") ELSE Finish("config")

-----------------------------------------------------------------------------
(* The rest of Config's decode(): a single fan and `levels:' at the top *)

SingleFan ==
  /\ pc = "single"
  /\ LET e == doc.fans[1]
         fault ==
           IF doc.fans = <<>> THEN "InvalidNode"
           ELSE FirstOf(<<
             <<Len(doc.fans) > 1, "YamlError">>,
             <<Or(TpFanFault(e), HwmonFanFault(e)) # "none",
               Or(TpFanFault(e), HwmonFanFault(e))>>,
             <<doc.levels \in {Absent, Scalar}, "YamlError">> >>)
     IN  IF fault # "none"
         THEN Throw(fault)
         ELSE /\ filling' = Mappings(Drivers(1, e))
              /\ pc' = "global" /\ mark' = 1
              /\ UNCHANGED <<at, drivers, config>> /\ Continue

GlobalLevel == pc = "global" /\ Level(doc.levels)

GlobalDone ==
  /\ pc = "global" /\ mark > Len(doc.levels)
  /\ config' = [config EXCEPT !.fans = @ \o filling]
  /\ pc' = "over" /\ outcome' = "config"
  /\ UNCHANGED <<fs, queue, at, mark, drivers, filling>>

Decode ==
  \/ Keys \/ SensorEntry \/ SensorsDone
  \/ FanEntry \/ OwnLevel \/ OwnDone \/ FansDone
  \/ SingleFan \/ GlobalLevel \/ GlobalDone

=============================================================================
