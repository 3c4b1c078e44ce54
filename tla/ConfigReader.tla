---------------------------- MODULE ConfigReader ----------------------------
(***************************************************************************)
(* What the two configuration syntaxes share: the configuration that is    *)
(* being built, the table of fan levels of each fan, and the exceptions.   *)
(*                                                                         *)
(* A text is seen at the level at which the code looks at it: a YAML node  *)
(* tree, or the statements of the legacy syntax.  Names, paths and         *)
(* temperatures are left out; what is kept of a level is its speed for     *)
(* each fan and whether its limits are good (Stepwise has the limits).     *)
(***************************************************************************)
EXTENDS Integers, Sequences, FiniteSets

CONSTANTS
  Names,        \* the names in config_files, in order
  FileSystems,  \* what may be found under them
  Absent,       \* an optional entry that is not written
  Scalar,       \* a YAML scalar where the code expects a sequence
  ChkSanity     \* FALSE is "-D"

\* A sequence of anything.
IsSeq(s) == s \in Seq({s[i] : i \in DOMAIN s})

\* config_files: the names on the command line, or two that are built in.
ASSUME NamesAssumption == Names # <<>> /\ IsSeq(Names)
ASSUME ChkSanityAssumption == ChkSanity \in BOOLEAN

VARIABLES
  fs,           \* what is found under each name
  queue,        \* the names that read_config has still to try
  pc,           \* where the reading is
  at,           \* the entry or statement that comes next
  mark,         \* the entry of a `levels:' section that comes next; in the
                \* legacy syntax, where the iteration of the loop began
  drivers,      \* fan drivers that have no StepwiseMapping yet
  filling,      \* the StepwiseMappings to which levels are being added
  config,       \* the Config object: sensors_ and temp_mappings_
  outcome       \* "none", "config", or the exception that read_config threw

vars == <<fs, queue, pc, at, mark, drivers, filling, config, outcome>>

building == <<at, mark, drivers, filling, config>>

Empty == [sensors |-> <<>>, fans |-> <<>>]

\* A StepwiseMapping.  Its fan is Absent before set_fan().
Mapping(fan) == [fan |-> fan, levels |-> <<>>]

\* The speed "level auto", which may follow any other, and a string that is no
\* level at all.
LevelAuto == -1
Garbage == -2

\* The exception of the first condition that holds, in the order in which the
\* code looks at them; "none" when none does.
FirstOf(checks) ==
  LET hit == {i \in DOMAIN checks : checks[i][1]}
  IN  IF hit = {} THEN "none"
      ELSE checks[CHOOSE i \in hit : \A j \in hit : i <= j][2]

\* The constructor of NvmlSensorDriver opens its library, which may not be
\* there or not be the right one.
LibraryFault(lib) == <<~lib, "SystemError">>

-----------------------------------------------------------------------------
(* Levels *)

\* error<ConfigError>: with -D it only logs the complaint, and the level is used
\* as it is.  The speed of a string that is no level is then what the
\* uninitialised `rv' of string_to_int held; Garbage stands for that as well.
Error(complaint) == ChkSanity /\ complaint

\* Level::Level: the constructors that take a string look at the string, and
\* for limits that are "crossed": a lower one above the upper one, or not as
\* many of each.
LevelRefused(speed, limits, quoted) ==
  Error(quoted /\ (speed = Garbage \/ limits = "crossed"))

\* A mutant: dimensions may differ.
MisplacedFlat(levels, speed, limits, dim) ==
  levels # <<>> /\ LET last == levels[Len(levels)] IN
    \/ Error(speed # LevelAuto /\ last.speed > speed)
    \/ Error(limits = "apart")

\* StepwiseMapping::add_level.  Limits are "apart" when they leave a gap to the
\* upper limits of the level before.
Misplaced(levels, speed, limits, dim) ==
  levels # <<>> /\ LET last == levels[Len(levels)] IN
    \/ Error(speed # LevelAuto /\ last.speed > speed)
    \/ Error(last.dim # dim)
    \/ Error(limits = "apart")

Added(mapping, speed, dim) ==
  [mapping EXCEPT !.levels = Append(@, [speed |-> speed, dim |-> dim])]

-----------------------------------------------------------------------------

\* read_config is over.
Finish(result) ==
  /\ pc' = "over" /\ outcome' = result
  /\ UNCHANGED <<fs, queue, building>>

=============================================================================
