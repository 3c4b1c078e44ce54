---------------------------- MODULE MCConfigFile ----------------------------
(***************************************************************************)
(* Two names.  Under the second is anything: a YAML tree in which one of   *)
(* the three sections varies while the other two are good, or a legacy     *)
(* text of up to four statements.  Under the first is nothing, a file that *)
(* cannot be read, or one of a few files of each kind.                     *)
(***************************************************************************)
EXTENDS ConfigFile

CONSTANTS etcConf, etcYaml

MCNames == <<etcConf, etcYaml>>

SeqsUpTo(S, n) == UNION {[1..m -> S] : m \in 0..n}

-----------------------------------------------------------------------------
(* YAML *)

Sensor(kind, indices, correction) ==
  [kind |-> kind, stray |-> FALSE, illtyped |-> FALSE, indices |-> indices,
   correction |-> correction, optional |-> FALSE]
SensorKinds == {"hwmon", "tpacpi", "nvml", "atasmart", "chip", "unknown"}
SensorEntries ==
  {Sensor(k, i, c) : k \in SensorKinds, i \in {Absent, 1, 2}, c \in {Absent, 1, 2}}
    \union {[Sensor(k, i, Absent) EXCEPT !.optional = TRUE] :
              k \in SensorKinds, i \in {Absent, 2}}
    \union {[Sensor(k, 1, Absent) EXCEPT !.stray = TRUE] : k \in SensorKinds}
    \union {[Sensor(k, 1, Absent) EXCEPT !.illtyped = TRUE] : k \in SensorKinds}

Entry(speed, limits, quoted) ==
  [form |-> "seq", speeds |-> <<speed>>, limits |-> limits, quoted |-> quoted, dim |-> 1]
Map(speeds, limits, dim) ==
  [form |-> "map", speeds |-> speeds, limits |-> limits, quoted |-> TRUE, dim |-> dim]

LevelEntries ==
  {Entry(0, "fine", FALSE), Entry(7, "fine", FALSE), Entry(7, "apart", FALSE),
   Entry(7, "crossed", TRUE), Entry(7, "short", FALSE), Entry(7, "illtyped", FALSE),
   Entry(LevelAuto, "fine", TRUE), Entry(Garbage, "fine", TRUE),
   Map(<<>>, "fine", 1), Map(<<Garbage>>, "fine", 1)}
    \union {Map(<<7>>, l, 1) : l \in {"missing", "scalar", "illegal", "crossed", "fine"}}
    \union {Map(<<0>>, "fine", 2), Map(<<0, 7>>, "fine", 1), Map(<<7, 0>>, "fine", 1)}

GoodLevels == <<Entry(0, "fine", FALSE), Entry(7, "fine", FALSE)>>

Fan(kind, indices, levels) ==
  [kind |-> kind, stray |-> FALSE, illtyped |-> FALSE, indices |-> indices,
   optional |-> FALSE, levels |-> levels]
GoodFan == Fan("tpacpi", Absent, Absent)
FanEntries ==
  {GoodFan, Fan("hwmon", Absent, Absent), Fan("hwmon", 2, Absent),
   Fan("tpacpi", Absent, GoodLevels), Fan("hwmon", 2, GoodLevels),
   Fan("hwmon", Absent, <<Map(<<0, 7>>, "fine", 1), Entry(7, "fine", FALSE)>>),
   Fan("hwmon", Absent, <<Entry(7, "illtyped", FALSE)>>),
   Fan("hwmon", Absent, Scalar), Fan("chip", Absent, Absent),
   [Fan("hwmon", Absent, Absent) EXCEPT !.optional = TRUE],
   [Fan("hwmon", 2, Absent) EXCEPT !.stray = TRUE],
   [GoodFan EXCEPT !.illtyped = TRUE]}

Doc(stray, sensors, fans, levels) ==
  [stray |-> stray, sensors |-> sensors, fans |-> fans, levels |-> levels]
GoodSensors == <<Sensor("tpacpi", Absent, Absent)>>

SomeSensors ==
  {Doc(x, s, <<GoodFan>>, GoodLevels) :
     x \in BOOLEAN, s \in SeqsUpTo(SensorEntries, 1) \union {Absent, Scalar}}
    \union {Doc(FALSE, <<Sensor("hwmon", 2, 2), e>>, <<GoodFan>>, GoodLevels) :
              e \in SensorEntries}
SomeFans ==
  {Doc(FALSE, GoodSensors, f, l) :
     f \in SeqsUpTo(FanEntries, 3) \union {Absent, Scalar},
     l \in {Absent, Scalar, GoodLevels}}
SomeLevels ==
  {Doc(FALSE, GoodSensors, <<Fan("hwmon", i, Absent)>>, l) :
     i \in {Absent, 0, 2}, l \in SeqsUpTo(LevelEntries, 2)}
    \union {Doc(FALSE, GoodSensors, <<Fan("hwmon", 2, l)>>, Absent) :
              l \in SeqsUpTo(LevelEntries, 2)}

Docs == SomeSensors \union SomeFans \union SomeLevels

-----------------------------------------------------------------------------
(* The legacy syntax *)

Statement(kind, correction) == [is |-> kind, correction |-> correction]
Lvl(speed, body, lower, upper, quoted) ==
  [is |-> "level", matched |-> TRUE, body |-> body, lower |-> lower, upper |-> upper,
   speed |-> speed, quoted |-> quoted, limits |-> "fine"]
Statements ==
  {Statement("space", Absent), Statement("tp_fan", Absent),
   Statement("tp_thermal", Absent), Statement("hwmon", 1), Statement("junk", Absent),
   Lvl(0, "ints", 1, 1, FALSE), Lvl(7, "ints", 1, 1, TRUE),
   Lvl(7, "tuples", 2, 2, TRUE)}
RareStatements ==
  {Statement("comment", Absent), Statement("fan", Absent), Statement("sensor", Absent),
   Statement("pwm_fan", Absent), Statement("atasmart", 1), Statement("nv_thermal", Absent),
   Lvl(LevelAuto, "ints", 1, 1, TRUE), Lvl(Garbage, "ints", 1, 1, TRUE),
   Lvl(7, "ints", 0, 1, FALSE), Lvl(7, "tuples", 1, 1, TRUE), Lvl(7, "tuples", 1, 2, FALSE),
   Lvl(7, "tuples", 1, 2, TRUE), Lvl(7, "tuples", 0, 2, TRUE),
   [Lvl(7, "ints", 1, 1, TRUE) EXCEPT !.limits = "crossed"],
   [Lvl(7, "ints", 1, 1, FALSE) EXCEPT !.limits = "apart"],
   [Lvl(7, "ints", 1, 1, FALSE) EXCEPT !.matched = FALSE]}
Texts ==
  SeqsUpTo(Statements, 4) \union SeqsUpTo(Statements \union RareStatements, 2)

-----------------------------------------------------------------------------

File(state, ext, yaml, legacy) ==
  [state |-> state, ext |-> ext, yaml |-> yaml, legacy |-> legacy]
Nothing == File("missing", "other", Absent, <<>>)
GoodDoc == Doc(FALSE, GoodSensors, <<GoodFan>>, GoodLevels)
BadDoc == Doc(FALSE, GoodSensors, <<GoodFan>>, Absent)
GoodText == <<Statement("tp_fan", Absent), Lvl(0, "ints", 1, 1, FALSE)>>

FewFiles ==
  {Nothing, File("unreadable", "other", Absent, <<>>)}
    \union {File("ok", "yaml", d, <<>>) : d \in {GoodDoc, BadDoc, Absent, Scalar}}
    \union {File("ok", "other", GoodDoc, <<>>), File("ok", "other", Scalar, GoodText)}
ManyFiles ==
  FewFiles \union {File("ok", "yaml", d, <<>>) : d \in Docs}
    \union {File("ok", "other", y, t) : y \in {Absent, Scalar}, t \in Texts}

Pair(first, second) == [n \in {etcConf, etcYaml} |-> IF n = etcConf THEN first ELSE second]
MCFileSystems ==
  {Pair(Nothing, f) : f \in ManyFiles} \union {Pair(f, g) : f \in FewFiles, g \in FewFiles}
=============================================================================
