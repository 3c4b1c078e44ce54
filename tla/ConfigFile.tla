----------------------------- MODULE ConfigFile -----------------------------
(***************************************************************************)
(* Config::read_config and try_read_config: which file is read, and in     *)
(* which of the two syntaxes.                                              *)
(***************************************************************************)
EXTENDS YamlConfig, LegacyConfig

ASSUME FilesAssumption ==
  \A s \in FileSystems : \A i \in DOMAIN Names :
    LET f == s[Names[i]] IN IsText(f.legacy) /\ (f.yaml \in {Absent, Scalar} \/ IsDoc(f.yaml))

file == fs[queue[1]]

\* YAML::Load threw a ParserException, or decode() did, because the root has no
\* children: most legacy files are one long YAML scalar.
NotYaml == file.yaml \in {Absent, Scalar}

\* A mutant: an error of any kind makes read_config go on.
OpenNext ==
  /\ pc = "open" /\ file.state # "ok"
  /\ IF Len(queue) > 1
     THEN /\ queue' = Tail(queue)
          /\ UNCHANGED <<fs, pc, building, outcome>>
     ELSE Finish("IOerror")

\* Only a file that does not exist is passed over, if it is not the last one.
CannotOpen ==
  /\ pc = "open" /\ file.state # "ok"
  /\ IF file.state = "missing" /\ Len(queue) > 1
     THEN /\ queue' = Tail(queue)
          /\ UNCHANGED <<fs, pc, building, outcome>>
     ELSE Finish("IOerror")

OpenYaml ==
  /\ pc = "open" /\ file.state = "ok" /\ ~NotYaml
  /\ pc' = "keys"
  /\ UNCHANGED <<fs, queue, building, outcome>>

\* The legacy parser begins with a StepwiseMapping that has no fan.
OpenLegacy ==
  /\ pc = "open" /\ file.state = "ok" /\ NotYaml
  /\ IF file.ext = "yaml" THEN Finish("ConfigError")
     ELSE /\ pc' = "blanks" /\ at' = 1
          /\ filling' = <<Mapping(Absent)>>
          /\ UNCHANGED <<fs, queue, mark, drivers, config, outcome>>

Init ==
  /\ fs \in FileSystems
  /\ queue = Names
  /\ pc = "open" /\ at = 1 /\ mark = 1
  /\ drivers = <<>> /\ filling = <<>>
  /\ config = Empty
  /\ outcome = "none"

Next == CannotOpen \/ OpenYaml \/ OpenLegacy \/ Decode \/ ParseLegacy

\* read_config is one loop of a process that runs.
Spec == Init /\ [][Next]_vars /\ WF_vars(Next)

-----------------------------------------------------------------------------
(* Properties *)

Results == {"config", "IOerror", "ConfigError", "SyntaxError", "SystemError",
            "bad_optional_access"}

Levels == [speed : Int, dim : Nat]
Fans == (Nat \X Nat) \union Nat \union {Absent}

\* The reader's state keeps its shape, and it is over exactly when there is a
\* result.
TypeOK ==
  /\ \E i \in DOMAIN Names : queue = SubSeq(Names, i, Len(Names))
  /\ pc \in {"open", "keys", "sensors", "fans", "own", "single", "global",
             "blanks", "fan", "sensor", "simple", "complex", "while", "over"}
  /\ at \in Nat \ {0} /\ mark \in Nat \ {0}
  /\ \A i \in DOMAIN drivers : drivers[i] \in Nat \X Nat
  /\ \A i \in DOMAIN filling : filling[i].levels \in Seq(Levels)
  /\ \A i \in DOMAIN config.fans : config.fans[i].levels \in Seq(Levels)
  /\ outcome \in Results \union {"none"}
  /\ (pc = "over") <=> (outcome # "none")

Accepted == outcome = "config"
FromYaml == Accepted /\ ~NotYaml
FromLegacy == Accepted /\ NotYaml

\* A file that exists is never passed over for a later one, whatever is wrong
\* with it (config.cpp:146: ENOENT only): what thinkfan runs with, or what it
\* complains of, is the first file there is.
FirstFileDecides ==
  outcome # "none" =>
    \/ \A i \in DOMAIN Names : fs[Names[i]].state = "missing"
    \/ /\ file.state # "missing"
       /\ \A i \in DOMAIN Names :
            i + Len(queue) <= Len(Names) => fs[Names[i]].state = "missing"

\* The entries of `fans:' that have levels of their own, and those that share
\* them.
OwnSections == {i \in DOMAIN doc.fans : doc.fans[i].levels # Absent}
DriversUpTo(n) ==
  UNION {{<<i, k>> : k \in 1..DriversOf(doc.fans[i])} : i \in 1..n}
SectionAfter(i) ==
  CHOOSE s \in OwnSections : s >= i /\ \A t \in OwnSections : t >= i => s <= t
GroupBefore(i) ==
  CHOOSE n \in 0..(i - 1) :
    /\ n = 0 \/ n \in OwnSections
    /\ \A t \in OwnSections : t < i => t <= n

Reads(section, n) ==
  [l \in DOMAIN section |->
     LET entry == section[l] IN
     [speed |-> entry.speeds[IF entry.form = "map" THEN n ELSE 1], dim |-> entry.dim]]

\* Each fan of a YAML configuration has exactly the levels of one section, in
\* the order in which they are written, and of the speeds of an entry its own:
\* the section at the first entry from its own on that has one, where the
\* group of fans that wait together shares it; or the section at the top, when
\* there is a single entry (yamlconfig.cpp:397-430, 603-619).
LevelsWhereWritten ==
  FromYaml =>
    \A p \in DOMAIN config.fans :
      LET m == config.fans[p]
          i == m.fan[1]
      IN  \/ /\ \E s \in OwnSections : s >= i
             /\ m.levels = Reads(doc.fans[SectionAfter(i)].levels,
                                p - Cardinality(DriversUpTo(GroupBefore(i))))
          \/ /\ Len(doc.fans) = 1 /\ doc.levels # Absent
             /\ m.levels = Reads(doc.levels, p)

\* Each fan up to the last entry that has levels is in the configuration, once
\* and in its place, also when a half-read `fans:' section was read again as a
\* single fan (yamlconfig.cpp:585); those after that entry are not.
FansOnce ==
  FromYaml =>
    LET n == IF OwnSections = {} THEN Len(doc.fans)
             ELSE CHOOSE s \in OwnSections : \A t \in OwnSections : t <= s
    IN  /\ {config.fans[p].fan : p \in DOMAIN config.fans} = DriversUpTo(n)
        /\ Len(config.fans) = Cardinality(DriversUpTo(n))
        /\ \A p, q \in DOMAIN config.fans :
             p < q => \/ config.fans[p].fan[1] < config.fans[q].fan[1]
                      \/ /\ config.fans[p].fan[1] = config.fans[q].fan[1]
                         /\ config.fans[p].fan[2] < config.fans[q].fan[2]

Where(kinds) == {i \in DOMAIN text : text[i].is \in kinds}

\* A legacy text is accepted as a whole: each of its statements went to the one
\* parser that takes it, in the order in which they are written, however the
\* statements follow on each other within one turn of the loop
\* (parser.cpp, ConfigParser::_parse).  Of several fans it is the last.
LegacyWhole ==
  FromLegacy =>
    LET sensors == Where(SensorKeywords)
        levels == Where({"level"})
        fans == Where(FanKeywords)
        got == config.fans[1].levels
    IN  /\ Where(Blanks) \union sensors \union levels \union fans = DOMAIN text
        /\ Len(config.sensors) = Cardinality(sensors)
        /\ \A p \in DOMAIN config.sensors : config.sensors[p] \in sensors
        /\ \A p, q \in DOMAIN config.sensors :
             p < q => config.sensors[p] < config.sensors[q]
        /\ Len(got) = Cardinality(levels)
        /\ \A i \in levels :
             got[Cardinality({j \in levels : j <= i})].speed = text[i].speed
        /\ config.fans[1].fan =
             IF fans = {} THEN Absent ELSE CHOOSE i \in fans : \A j \in fans : j <= i

\* Without -D, the levels of a fan can be used together: all limits have one
\* dimension, which neighbours pass on to each other, and no speed is below the
\* one before it, "level auto" apart (config.cpp, add_level).
LevelsAgree ==
  ChkSanity =>
    \A p \in DOMAIN config.fans :
      LET levels == config.fans[p].levels IN
      /\ \A i, j \in DOMAIN levels : levels[i].dim = levels[j].dim
      /\ \A i \in DOMAIN levels :
           i > 1 /\ levels[i].speed # LevelAuto => levels[i - 1].speed <= levels[i].speed

\* Whatever is in the file, read_config comes to an end: in particular the loop
\* of the legacy parser, which goes on only while it gets on in the text
\* (parser.cpp, `while (*input != 0 && some_match)').
Ends == <>(pc = "over")

\* What is still to be done: names to try, the stages of reading a file, entries
\* of the section or statements of the text, and levels of the entry or parsers
\* in this turn of the loop.  Two ranks of an entry keep it apart from its levels.
Stage ==
  CASE pc = "open" -> 6 [] pc = "keys" -> 5 [] pc = "sensors" -> 4
    [] pc \in {"fans", "own"} -> 3 [] pc = "single" -> 2 [] pc = "over" -> 0
    [] OTHER -> 1
EntriesLeft ==
  CASE pc = "sensors" -> Len(doc.sensors) + 1 - at
    [] pc = "fans" -> 2 * (Len(doc.fans) + 1 - at) + 1
    [] pc = "own" -> 2 * (Len(doc.fans) + 1 - at)
    [] pc = "blanks" -> Len(text) + 1 - at
    [] pc \in {"fan", "sensor", "simple", "complex", "while"} -> Len(text) + 1 - mark
    [] OTHER -> 0
StepsLeft ==
  CASE pc = "own" -> Len(doc.fans[at].levels) + 1 - mark
    [] pc = "global" -> Len(doc.levels) + 1 - mark
    [] pc = "blanks" -> 5 [] pc = "fan" -> 4 [] pc = "sensor" -> 3
    [] pc = "simple" -> 2 [] pc = "complex" -> 1
    [] OTHER -> 0
Remaining == <<Len(queue), Stage, EntriesLeft, StepsLeft>>

InNumbers == Remaining \in Nat \X Nat \X Nat \X Nat

\* A step after which less is to be done, in lexicographic order.
Nearer ==
  \E i \in 1..4 : /\ Remaining'[i] < Remaining[i]
                  /\ \A j \in 1..(i - 1) : Remaining'[j] = Remaining[j]

\* Every step leaves less to be done, of natural numbers: neither the second
\* attempt at `fans:' nor a turn of the legacy parser's loop can bring the
\* reading back to where it was (yamlconfig.cpp:585, parser.cpp:388).
Onward == [][InNumbers /\ Nearer]_vars

\* The manual: "Global and fan-specific levels: are mutually exclusive".  The
\* error that would say so (yamlconfig.cpp:609) comes where no fan can have
\* levels of its own yet.
MutuallyExclusive ==
  FromYaml => (OwnSections = {} \/ doc.levels = Absent)

=============================================================================
