-------------------------- MODULE ConfigFile_proofs --------------------------
(***************************************************************************)
(* For any list of file names, any files and any contents: the first file  *)
(* that exists decides, what is read has its types and levels that can be  *)
(* used together, an accepted legacy file was read as a whole, and the     *)
(* fans of a YAML file have the levels that were written for them.         *)
(***************************************************************************)
EXTENDS ConfigFile, SequenceTheorems, FunctionTheorems, WellFoundedInduction,
        FiniteSetTheorems, TLAPS

-----------------------------------------------------------------------------
(* The exceptions of the readers *)

\* A set of naturals that is not empty has a least element.
LEMMA LeastNatural ==
  ASSUME NEW T \in SUBSET Nat, T # {}
  PROVE  \E m \in T : \A k \in T : m <= k
<1>1. PICK m \in T : \A k \in T : ~ (<<k, m>> \in OpToRel(<, Nat))
  BY Zenon, NatLessThanWellFounded, WFMin
<1>2. \A k \in T : ~(k < m)
  BY <1>1, Zenon DEF OpToRel
<1> HIDE <1>1
<1> QED
  BY <1>2

\* What FirstOf returns is the exception of a check that holds, or there is none.
LEMMA FirstOfProperties ==
  ASSUME NEW checks, DOMAIN checks \subseteq Nat
  PROVE  \/ FirstOf(checks) = "none" /\ \A i \in DOMAIN checks : ~checks[i][1]
         \/ \E i \in DOMAIN checks : checks[i][1] /\ FirstOf(checks) = checks[i][2]
<1> DEFINE hit == {i \in DOMAIN checks : checks[i][1]}
<1>1. CASE hit = {}
  BY <1>1 DEF FirstOf
<1>2. CASE hit # {}
  <2>1. \E i \in hit : \A j \in hit : i <= j
    BY <1>2, LeastNatural
  <2>2. PICK i \in hit : FirstOf(checks) = checks[i][2]
    BY <1>2, <2>1 DEF FirstOf
  <2> QED
    BY <2>2
<1> QED
  BY <1>1, <1>2

\* The exceptions that the readers throw.
Exceptions == {"YamlError", "BadConversion", "InvalidNode", "ConfigError", "SystemError",
               "bad_optional_access"}
Faults == Exceptions \union {"none"}

\* FirstOf returns what one of its checks names, or nothing.
LEMMA FirstOfType ==
  ASSUME NEW checks, DOMAIN checks \subseteq Nat,
         \A i \in DOMAIN checks : checks[i][2] \in Faults
  PROVE  FirstOf(checks) \in Faults
  BY FirstOfProperties DEF Faults

\* Whatever an exception is wrapped in ends the reading.
LEMMA WrappedType ==
  ASSUME NEW e \in Exceptions
  PROVE  Wrapped(e) \in Results \ {"config"}
  BY DEF Exceptions, Wrapped, Results

\* The decoder of any sensor entry throws one of them or nothing.
LEMMA SensorFaultType ==
  ASSUME NEW e, NEW lib \in BOOLEAN
  PROVE  SensorFault(e, lib) \in Faults
<1>1. HwmonSensorFault(e) \in Faults
  BY FirstOfType DEF HwmonSensorFault, UnknownKeyword, IllTyped, Faults, Exceptions
<1>2. TpSensorFault(e) \in Faults
  <2>1. CASE e.indices = Absent
    BY <2>1, FirstOfType DEF TpSensorFault, UnknownKeyword, IllTyped, Faults, Exceptions
  <2>2. CASE e.indices # Absent
    <3>1. TpSensorFault(e) = FirstOf(<<
            <<e.stray, "YamlError">>, <<e.illtyped, "BadConversion">>,
            <<FALSE, "YamlError">>, CorrectionFault(e, e.indices) >>)
      BY <2>2 DEF TpSensorFault, UnknownKeyword, IllTyped
    <3> QED
      BY <3>1, FirstOfType DEF CorrectionFault, Faults, Exceptions
  <2> QED
    BY <2>1, <2>2
<1>3. NvmlSensorFault(e, lib) \in Faults
  BY FirstOfType DEF NvmlSensorFault, UnknownKeyword, IllTyped, CorrectionFault,
                     LibraryFault, Faults, Exceptions
<1>4. AtasmartSensorFault(e) \in Faults
  BY FirstOfType DEF AtasmartSensorFault, UnknownKeyword, IllTyped, CorrectionFault,
                     Faults, Exceptions
<1>5. LMSensorFault(e) \in Faults
  BY FirstOfType DEF LMSensorFault, UnknownKeyword, IllTyped, Faults, Exceptions
<1> QED
  BY <1>1, <1>2, <1>3, <1>4, <1>5 DEF SensorFault, Faults, Exceptions

\* So does that of any fan entry.
LEMMA FanFaultType ==
  ASSUME NEW e
  PROVE  /\ HwmonFanFault(e) \in Faults /\ TpFanFault(e) \in Faults
         /\ Or(HwmonFanFault(e), TpFanFault(e)) \in Faults
         /\ Or(TpFanFault(e), HwmonFanFault(e)) \in Faults
<1>1. HwmonFanFault(e) \in Faults
  BY FirstOfType DEF HwmonFanFault, UnknownKeyword, IllTyped, Faults, Exceptions
<1>2. TpFanFault(e) \in Faults
  BY FirstOfType DEF TpFanFault, UnknownKeyword, IllTyped, Faults, Exceptions
<1> QED
  BY <1>1, <1>2 DEF Or

\* So does assigning a level to the fans of a group.
LEMMA AssignFaultType ==
  ASSUME NEW l
  PROVE  AssignFault(l) \in Faults
<1>1. LevelEntryFault(l) \in Faults
  BY FirstOfType DEF LevelEntryFault, Faults, Exceptions
<1>2. SimpleLevelFault(l) \in Faults
  BY FirstOfType DEF SimpleLevelFault, Faults, Exceptions
<1>3. FirstOf(<<
    <<LevelEntryFault(l) # "none", LevelEntryFault(l)>>,
    <<Len(l.speeds) # Len(filling), "YamlError">>,
    <<\E i \in Places(l) : \/ LevelRefused(l.speeds[i], l.limits, TRUE)
                           \/ Misplaced(filling[i].levels, l.speeds[i], l.limits, l.dim),
      "YamlError">> >>) \in Faults
  BY <1>1, FirstOfType DEF Faults, Exceptions
<1> QED
  BY <1>1, <1>2, <1>3 DEF AssignFault, Faults

\* When FirstOf finds nothing, no check holds.
LEMMA FirstOfNone ==
  ASSUME NEW checks, DOMAIN checks \subseteq Nat, FirstOf(checks) = "none",
         \A j \in DOMAIN checks : checks[j][1] => checks[j][2] # "none"
  PROVE  \A j \in DOMAIN checks : ~checks[j][1]
  BY FirstOfProperties

\* Of two checks, in the form in which the handlers use FirstOf.
LEMMA FirstOfTwo ==
  ASSUME NEW a \in BOOLEAN, NEW b \in BOOLEAN, NEW x, NEW y,
         FirstOf(<< <<a, x>>, <<b, y>> >>) = "none", a => x # "none", b => y # "none"
  PROVE  ~a /\ ~b
<1> DEFINE checks == << <<a, x>>, <<b, y>> >>
<1>1. /\ DOMAIN checks = 1..2 /\ checks[1] = <<a, x>> /\ checks[2] = <<b, y>>
      /\ FirstOf(checks) = "none"
  OBVIOUS
<1> HIDE DEF checks
<1>2. \A j \in DOMAIN checks : checks[j][1] => checks[j][2] # "none"
  <2>1. \A j \in DOMAIN checks : j = 1 \/ j = 2
    BY <1>1
  <2> QED
    BY <1>1, <2>1
<1>3. 1 \in DOMAIN checks /\ 2 \in DOMAIN checks
  BY <1>1
<1>4. ~checks[1][1] /\ ~checks[2][1]
  BY <1>1, <1>2, <1>3, FirstOfNone
<1> QED
  BY <1>1, <1>4

\* Of three.
LEMMA FirstOfThree ==
  ASSUME NEW a \in BOOLEAN, NEW b \in BOOLEAN, NEW c \in BOOLEAN, NEW x, NEW y, NEW z,
         FirstOf(<< <<a, x>>, <<b, y>>, <<c, z>> >>) = "none",
         a => x # "none", b => y # "none", c => z # "none"
  PROVE  ~a /\ ~b /\ ~c
<1> DEFINE checks == << <<a, x>>, <<b, y>>, <<c, z>> >>
<1>1. /\ DOMAIN checks = 1..3 /\ checks[1] = <<a, x>> /\ checks[2] = <<b, y>>
      /\ checks[3] = <<c, z>> /\ FirstOf(checks) = "none"
  OBVIOUS
<1> HIDE DEF checks
<1>2. \A j \in DOMAIN checks : checks[j][1] => checks[j][2] # "none"
  <2>1. \A j \in DOMAIN checks : j = 1 \/ j = 2 \/ j = 3
    BY <1>1
  <2> QED
    BY <1>1, <2>1
<1>3. 1 \in DOMAIN checks /\ 2 \in DOMAIN checks /\ 3 \in DOMAIN checks
  BY <1>1
<1>4. ~checks[1][1] /\ ~checks[2][1] /\ ~checks[3][1]
  BY <1>1, <1>2, <1>3, FirstOfNone
<1> QED
  BY <1>1, <1>4

\* Of four.
LEMMA FirstOfFour ==
  ASSUME NEW a \in BOOLEAN, NEW b \in BOOLEAN, NEW c \in BOOLEAN, NEW d \in BOOLEAN,
         NEW x, NEW y, NEW z, NEW w,
         FirstOf(<< <<a, x>>, <<b, y>>, <<c, z>>, <<d, w>> >>) = "none",
         a => x # "none", b => y # "none", c => z # "none", d => w # "none"
  PROVE  ~a /\ ~b /\ ~c /\ ~d
<1> DEFINE checks == << <<a, x>>, <<b, y>>, <<c, z>>, <<d, w>> >>
<1>1. /\ DOMAIN checks = 1..4 /\ checks[1] = <<a, x>> /\ checks[2] = <<b, y>>
      /\ checks[3] = <<c, z>> /\ checks[4] = <<d, w>> /\ FirstOf(checks) = "none"
  OBVIOUS
<1> HIDE DEF checks
<1>2. \A j \in DOMAIN checks : checks[j][1] => checks[j][2] # "none"
  <2>1. \A j \in DOMAIN checks : j = 1 \/ j = 2 \/ j = 3 \/ j = 4
    BY <1>1
  <2> QED
    BY <1>1, <2>1
<1>3. {1, 2, 3, 4} \subseteq DOMAIN checks
  BY <1>1
<1>4. ~checks[1][1] /\ ~checks[2][1] /\ ~checks[3][1] /\ ~checks[4][1]
  BY <1>1, <1>2, <1>3, FirstOfNone
<1> QED
  BY <1>1, <1>4

-----------------------------------------------------------------------------
(* The inductive invariant of the reading *)

\* The places of the YAML decoder,
YamlPhases == {"keys", "sensors", "fans", "own", "single", "global"}

\* and those of the legacy parser.
LegacyPhases == {"blanks", "fan", "sensor", "simple", "complex", "while"}

\* Levels that can be used together: what LevelsAgree says of one fan.
Agree(levels) ==
  ChkSanity =>
    /\ \A i, j \in DOMAIN levels : levels[i].dim = levels[j].dim
    /\ \A i \in DOMAIN levels :
         i > 1 /\ levels[i].speed # LevelAuto => levels[i - 1].speed <= levels[i].speed

\* What a StepwiseMapping may be at any time.
Mapped == [fan : Fans, levels : {l \in Seq(Levels) : Agree(l)}]

\* What a Config may be at any time.
Configs == [sensors : Seq(Nat \union (Nat \X Nat)), fans : Seq(Mapped)]

\* The files are tried in the order of Names, up to the first one that is there, and
\* the reader is where its syntax has it.
Opened ==
  /\ fs \in FileSystems
  /\ \E i \in DOMAIN Names :
       /\ queue = SubSeq(Names, i, Len(Names))
       /\ \A j \in 1..(i - 1) : fs[Names[j]].state = "missing"
  /\ pc \in {"open", "over"} \union YamlPhases \union LegacyPhases
  /\ pc \in YamlPhases => file.state = "ok" /\ ~NotYaml
  /\ pc \in LegacyPhases => file.state = "ok" /\ NotYaml
  /\ outcome \in Results \union {"none"}
  /\ (pc = "over") <=> (outcome # "none")
  /\ FirstFileDecides

\* A section that is a list, as the decoder's loop over it needs.
Written(section) == section \notin {Absent, Scalar}

\* The decoder goes over sections that are written.
Sections ==
  /\ pc = "sensors" => Written(doc.sensors)
  /\ pc \in {"fans", "own", "single", "global"} => Written(doc.fans)
  /\ pc = "own" => at \in DOMAIN doc.fans /\ Written(doc.fans[at].levels)
  /\ pc = "global" => Len(doc.fans) = 1 /\ Written(doc.levels)

\* The variables that build the configuration have their types.
Shaped ==
  /\ at \in Nat \ {0} /\ mark \in Nat \ {0}
  /\ drivers \in Seq(Nat \X Nat)
  /\ filling \in Seq(Mapped)
  /\ config \in Configs
  /\ pc \in LegacyPhases => Len(filling) = 1

ReadInv == Opened /\ Sections /\ Shaped

\* There is at least one file to try.
LEMMA NamesType == Names # <<>> /\ Len(Names) \in Nat \ {0} /\ DOMAIN Names = 1..Len(Names)
<1>1. Names \in Seq({Names[i] : i \in DOMAIN Names}) /\ Names # <<>>
  BY NamesAssumption DEF IsSeq
<1> QED
  BY <1>1

\* The queue is a suffix of Names, and its tail a shorter one.
LEMMA QueueSplit ==
  ASSUME NEW i \in DOMAIN Names, queue = SubSeq(Names, i, Len(Names))
  PROVE  /\ Len(queue) = Len(Names) - i + 1
         /\ queue[1] = Names[i]
         /\ Len(queue) > 1 => /\ Tail(queue) = SubSeq(Names, i + 1, Len(Names))
                              /\ i + 1 \in DOMAIN Names
<1> DEFINE S == {Names[k] : k \in DOMAIN Names}
<1>1. Names \in Seq(S) /\ Len(Names) \in Nat /\ DOMAIN Names = 1..Len(Names)
  BY NamesAssumption, NamesType DEF IsSeq
<1> HIDE DEF S
<1> DEFINE rest == SubSeq(Names, i, Len(Names))
<1>2. /\ rest \in Seq(S) /\ Len(rest) = Len(Names) - i + 1
      /\ \A k \in 1..Len(rest) : rest[k] = Names[i + k - 1]
  BY <1>1, SubSeqProperties
<1>3. Len(rest) > 1 => Tail(rest) = SubSeq(Names, i + 1, Len(Names)) /\ i + 1 \in DOMAIN Names
  <2>1. i \in 1..Len(Names) /\ Len(Names) \in i..Len(Names)
    BY <1>1
  <2>2. Tail(rest) = SubSeq(Names, i + 1, Len(Names))
    BY <1>1, <2>1, HeadTailOfSubSeq
  <2> QED
    BY <1>1, <1>2, <2>2
<1>4. queue = rest /\ 1 \in 1..Len(rest)
  BY <1>1, <1>2
<1>5. queue[1] = Names[i]
  BY <1>1, <1>2, <1>4
<1> HIDE DEF rest
<1> QED
  BY <1>2, <1>3, <1>4, <1>5

\* The file that is being read is well-formed.
LEMMA FileType ==
  ASSUME Opened
  PROVE  /\ IsText(file.legacy)
         /\ ~NotYaml => IsDoc(doc)
<1>1. PICK i \in DOMAIN Names : queue = SubSeq(Names, i, Len(Names))
  BY DEF Opened
<1>2. file = fs[Names[i]] /\ doc = file.yaml
  BY <1>1, QueueSplit DEF file, doc
<1>3. fs \in FileSystems
  BY DEF Opened
<1> QED
  BY <1>2, <1>3, FilesAssumption, Zenon DEF NotYaml

\* A section of level entries.
IsLevels(s) == Len(s) \in Nat /\ DOMAIN s = 1..Len(s) /\ \A i \in DOMAIN s : IsLevel(s[i])

\* What a section that is written consists of.
LEMMA DocType ==
  ASSUME Opened, ~NotYaml
  PROVE  /\ Written(doc.sensors) =>
              /\ Len(doc.sensors) \in Nat /\ DOMAIN doc.sensors = 1..Len(doc.sensors)
              /\ \A i \in DOMAIN doc.sensors : IsEntry(doc.sensors[i])
         /\ Written(doc.fans) =>
              /\ Len(doc.fans) \in Nat /\ DOMAIN doc.fans = 1..Len(doc.fans)
              /\ \A i \in DOMAIN doc.fans :
                   /\ IsEntry(doc.fans[i])
                   /\ Written(doc.fans[i].levels) => IsLevels(doc.fans[i].levels)
         /\ Written(doc.levels) => IsLevels(doc.levels)
<1>1. IsDoc(doc)
  BY FileType
<1>2. Written(doc.sensors) =>
              /\ Len(doc.sensors) \in Nat /\ DOMAIN doc.sensors = 1..Len(doc.sensors)
              /\ \A i \in DOMAIN doc.sensors : IsEntry(doc.sensors[i])
  BY <1>1 DEF IsDoc, IsSection, IsSeq, Written
<1>3. Written(doc.levels) => IsLevels(doc.levels)
  BY <1>1 DEF IsDoc, IsSection, IsSeq, Written, IsLevels
<1>4. ASSUME Written(doc.fans)
      PROVE  /\ Len(doc.fans) \in Nat /\ DOMAIN doc.fans = 1..Len(doc.fans)
             /\ \A i \in DOMAIN doc.fans : IsFan(doc.fans[i])
  BY <1>1, <1>4 DEF IsDoc, IsSection, IsSeq, Written
<1>5. ASSUME NEW e, IsFan(e)
      PROVE  IsEntry(e) /\ (Written(e.levels) => IsLevels(e.levels))
  BY <1>5 DEF IsFan, IsSection, IsSeq, Written, IsLevels
<1> QED
  BY <1>2, <1>3, <1>4, <1>5

\* The end of read_config, in the middle of a file.
LEMMA FinishOpened ==
  ASSUME Opened, pc \in YamlPhases \union LegacyPhases, NEW result \in Results,
         pc' = "over", outcome' = result, UNCHANGED <<fs, queue>>
  PROVE  Opened'
<1>1. PICK i \in DOMAIN Names :
        /\ queue = SubSeq(Names, i, Len(Names))
        /\ \A j \in 1..(i - 1) : fs[Names[j]].state = "missing"
  BY DEF Opened
<1>2. file.state # "missing"
  BY DEF Opened
<1>3. \A k \in DOMAIN Names : k + Len(queue) <= Len(Names) => k \in 1..(i - 1)
  BY <1>1, QueueSplit, NamesType
<1>4. FirstFileDecides'
  BY <1>1, <1>2, <1>3 DEF FirstFileDecides, file
<1>5. "none" \notin Results
  BY DEF Results
<1> QED
  BY <1>4, <1>5 DEF Opened, YamlPhases, LegacyPhases, file

\* A step within a file.
LEMMA ReadOpened ==
  ASSUME Opened, UNCHANGED <<fs, queue, outcome>>,
         \/ pc \in YamlPhases /\ pc' \in YamlPhases
         \/ pc \in LegacyPhases /\ pc' \in LegacyPhases
  PROVE  Opened'
  BY DEF Opened, YamlPhases, LegacyPhases, FirstFileDecides, file, NotYaml

\* A Config remains one with other fans,
LEMMA FansReplaced ==
  ASSUME NEW c \in Configs, NEW f \in Seq(Mapped)
  PROVE  [c EXCEPT !.fans = f] \in Configs
  BY DEF Configs

\* and with other sensors.
LEMMA SensorsReplaced ==
  ASSUME NEW c \in Configs, NEW s \in Seq(Nat \union (Nat \X Nat))
  PROVE  [c EXCEPT !.sensors = s] \in Configs
  BY DEF Configs

\* The end of read_config leaves the invariant as it was.
LEMMA FinishReadInv ==
  ASSUME ReadInv, pc \in YamlPhases \union LegacyPhases, NEW result \in Results, Finish(result)
  PROVE  ReadInv'
<1>1. Opened'
  BY FinishOpened DEF ReadInv, Finish
<1>2. Sections' /\ Shaped'
  BY DEF ReadInv, Finish, Sections, Shaped, building, LegacyPhases
<1> QED
  BY <1>1, <1>2 DEF ReadInv

\* So does an exception in the YAML decoder, and the second attempt at `fans:'.
LEMMA ThrowReadInv ==
  ASSUME ReadInv, pc \in YamlPhases, NEW e \in Exceptions, Throw(e)
  PROVE  ReadInv'
<1>1. CASE e = "BadConversion" /\ pc \in {"fans", "own"}
  <2>1. Opened'
    BY <1>1, ReadOpened DEF ReadInv, Throw, YamlPhases
  <2>2. Sections'
    BY <1>1 DEF ReadInv, Throw, Sections, doc, Written
  <2>3. config' \in Configs
    <3>1. <<>> \in Seq(Mapped) /\ config \in Configs /\ config' = [config EXCEPT !.fans = <<>>]
      BY <1>1 DEF ReadInv, Throw, Shaped
    <3> QED
      BY <3>1, FansReplaced, Zenon
  <2>4. Shaped'
    BY <1>1, <2>3 DEF ReadInv, Throw, Shaped, LegacyPhases
  <2> QED
    BY <2>1, <2>2, <2>4 DEF ReadInv
<1>2. CASE ~(e = "BadConversion" /\ pc \in {"fans", "own"})
  <2>1. Wrapped(e) \in Results /\ Finish(Wrapped(e))
    BY <1>2, WrappedType DEF Throw
  <2> QED
    BY <2>1, FinishReadInv
<1> QED
  BY <1>1, <1>2

-----------------------------------------------------------------------------
(* Levels and mappings *)

\* add_level keeps the levels of a mapping together, when it does not refuse; with
\* -D it never does, and nothing is said of them.
LEMMA AddedAgrees ==
  ASSUME NEW m \in Mapped, NEW speed \in Int, NEW limits, NEW dim \in Nat,
         ~Misplaced(m.levels, speed, limits, dim)
  PROVE  /\ Added(m, speed, dim) \in Mapped
         /\ Added(m, speed, dim).fan = m.fan
         /\ Added(m, speed, dim).levels = Append(m.levels, [speed |-> speed, dim |-> dim])
<1> DEFINE ls == m.levels
           new == [speed |-> speed, dim |-> dim]
           more == Append(ls, new)
<1>1. ls \in Seq(Levels) /\ Agree(ls) /\ m.fan \in Fans
  BY DEF Mapped
<1>2. new \in Levels
  BY DEF Levels
<1>3. /\ more \in Seq(Levels) /\ Len(more) = Len(ls) + 1
      /\ more[Len(ls) + 1] = new
      /\ \A i \in 1..Len(ls) : more[i] = ls[i]
      /\ Len(ls) \in Nat /\ DOMAIN ls = 1..Len(ls)
      /\ DOMAIN more = 1..(Len(ls) + 1)
  BY <1>1, <1>2
<1>4. ChkSanity /\ ls # <<>> => /\ ~(speed # LevelAuto /\ ls[Len(ls)].speed > speed)
                                /\ ls[Len(ls)].dim = dim
  BY Zenon DEF Misplaced, Error
<1>5. \A i \in DOMAIN ls : ls[i].dim \in Nat /\ ls[i].speed \in Int
  <2>1. \A i \in DOMAIN ls : ls[i] \in Levels
    BY <1>1
  <2> QED
    BY <2>1 DEF Levels
<1>6. ChkSanity => \A i \in DOMAIN ls : ls[i].dim = dim
  <2> SUFFICES ASSUME ChkSanity, NEW i \in DOMAIN ls PROVE ls[i].dim = dim
    OBVIOUS
  <2>1. ls # <<>> /\ Len(ls) \in DOMAIN ls
    BY <1>1, <1>3
  <2> QED
    BY <1>1, <1>4, <2>1 DEF Agree
<1>7. new.dim = dim /\ new.speed = speed
  OBVIOUS
<1> HIDE DEF ls, more, new
<1>8. ChkSanity => \A i \in DOMAIN more : more[i].dim = dim
  BY <1>3, <1>6, <1>7
<1>9. ASSUME ChkSanity, NEW i \in DOMAIN more, i > 1, more[i].speed # LevelAuto
      PROVE  more[i - 1].speed <= more[i].speed
  <2>1. CASE i <= Len(ls)
    BY <1>1, <1>3, <1>9, <2>1 DEF Agree
  <2>2. CASE i = Len(ls) + 1
    <3>1. Len(ls) \in DOMAIN ls /\ ls # <<>> /\ more[i - 1] = ls[Len(ls)] /\ more[i] = new
      BY <1>3, <1>9, <2>2
    <3> QED
      BY <1>4, <1>5, <1>7, <1>9, <3>1
  <2> QED
    BY <1>3, <1>9, <2>1, <2>2
<1>10. Agree(more)
  <2> SUFFICES ASSUME ChkSanity
               PROVE  /\ \A i, j \in DOMAIN more : more[i].dim = more[j].dim
                      /\ \A i \in DOMAIN more :
                           i > 1 /\ more[i].speed # LevelAuto =>
                             more[i - 1].speed <= more[i].speed
    BY DEF Agree
  <2> QED
    BY <1>8, <1>9
<1>11. Added(m, speed, dim) = [m EXCEPT !.levels = more]
  BY DEF Added, ls, more, new
<1> QED
  BY <1>3, <1>10, <1>11 DEF Mapped, ls, more, new

\* What an entry that is not refused looks like.
LEMMA AssignedShape ==
  ASSUME NEW l, IsLevel(l), filling \in Seq(Mapped), AssignFault(l) = "none", filling # <<>>
  PROVE  \A i \in DOMAIN filling :
           /\ SpeedFor(l, i) \in Int /\ Dim(l) \in Nat /\ Dim(l) = l.dim
           /\ ~Misplaced(filling[i].levels, SpeedFor(l, i), l.limits, Dim(l))
<1>1. CASE LevelEntryFault(l) = "BadConversion"
  <2> DEFINE a == l.form = "map" \/ l.limits = "illtyped"
             b == l.limits = "short"
             c == l.form = "seq" /\ LevelRefused(l.speeds[1], l.limits, l.quoted)
             d == \E i \in DOMAIN filling :
                    l.form = "seq" /\ Misplaced(filling[i].levels, l.speeds[1], l.limits, 1)
  <2>1. FirstOf(<< <<a, "BadConversion">>, <<b, "InvalidNode">>, <<c, "ConfigError">>,
                   <<d, "ConfigError">> >>) = "none"
    BY <1>1 DEF AssignFault, SimpleLevelFault
  <2>2. a \in BOOLEAN /\ b \in BOOLEAN /\ c \in BOOLEAN /\ d \in BOOLEAN
    OBVIOUS
  <2> HIDE DEF a, b, c, d
  <2>3. ~a /\ ~d
    BY <2>1, <2>2, FirstOfFour
  <2> USE DEF a, d
  <2>4. l.form = "seq" /\ ~\E i \in DOMAIN filling :
                            Misplaced(filling[i].levels, l.speeds[1], l.limits, 1)
    BY <2>3 DEF IsLevel
  <2> QED
    BY <2>4 DEF SpeedFor, Dim, IsLevel
<1>2. CASE LevelEntryFault(l) # "BadConversion"
  <2> DEFINE a == LevelEntryFault(l) # "none"
             b == Len(l.speeds) # Len(filling)
             c == \E i \in Places(l) :
                    \/ LevelRefused(l.speeds[i], l.limits, TRUE)
                    \/ Misplaced(filling[i].levels, l.speeds[i], l.limits, l.dim)
  <2>1. FirstOf(<< <<a, LevelEntryFault(l)>>, <<b, "YamlError">>, <<c, "YamlError">> >>)
          = "none"
    BY <1>2 DEF AssignFault
  <2>2. a \in BOOLEAN /\ b \in BOOLEAN /\ c \in BOOLEAN /\ (a => LevelEntryFault(l) # "none")
    OBVIOUS
  <2> HIDE DEF a, b, c
  <2>3. ~a /\ ~b /\ ~c
    BY <2>1, <2>2, FirstOfThree
  <2> USE DEF a, b, c
  <2>4. LevelEntryFault(l) = "none" /\ Len(l.speeds) = Len(filling)
    BY <2>3
  <2>5. \A i \in Places(l) : ~Misplaced(filling[i].levels, l.speeds[i], l.limits, l.dim)
    BY <2>3
  <2>6. l.form = "map"
    <3> DEFINE e == l.form # "map" \/ l.speeds = <<>> \/ l.limits = "missing"
               f == Error(\E i \in DOMAIN l.speeds : l.speeds[i] = Garbage)
               g == l.limits \in {"scalar", "illegal"}
    <3>1. FirstOf(<< <<e, "BadConversion">>, <<f, "ConfigError">>, <<g, "YamlError">> >>) = "none"
      BY <2>4 DEF LevelEntryFault
    <3>2. e \in BOOLEAN /\ f \in BOOLEAN /\ g \in BOOLEAN
      BY DEF Error
    <3> HIDE DEF e, f, g
    <3>3. ~e
      BY <3>1, <3>2, FirstOfThree
    <3> QED
      BY <3>3 DEF e
  <2>7. \A i \in DOMAIN filling : i \in Places(l) /\ l.speeds[i] \in Int
    BY <2>4 DEF Places, IsLevel
  <2> QED
    BY <2>5, <2>6, <2>7 DEF SpeedFor, Dim, IsLevel
<1> QED
  BY <1>1, <1>2

\* Every mapping of the group has one level more, and no other one.
LEMMA FilledShape ==
  ASSUME NEW l, IsLevel(l), filling \in Seq(Mapped), AssignFault(l) = "none"
  PROVE  /\ Filled(l) \in Seq(Mapped) /\ Len(Filled(l)) = Len(filling)
         /\ \A i \in DOMAIN filling :
              /\ Filled(l)[i].fan = filling[i].fan
              /\ Filled(l)[i].levels =
                   Append(filling[i].levels, [speed |-> SpeedFor(l, i), dim |-> l.dim])
<1>1. \A i \in DOMAIN filling :
        /\ filling[i] \in Mapped
        /\ Added(filling[i], SpeedFor(l, i), Dim(l)) \in Mapped
        /\ Added(filling[i], SpeedFor(l, i), Dim(l)).fan = filling[i].fan
        /\ Added(filling[i], SpeedFor(l, i), Dim(l)).levels =
             Append(filling[i].levels, [speed |-> SpeedFor(l, i), dim |-> Dim(l)])
        /\ Dim(l) = l.dim
  <2> SUFFICES ASSUME NEW i \in DOMAIN filling
               PROVE  /\ filling[i] \in Mapped
                      /\ Added(filling[i], SpeedFor(l, i), Dim(l)) \in Mapped
                      /\ Added(filling[i], SpeedFor(l, i), Dim(l)).fan = filling[i].fan
                      /\ Added(filling[i], SpeedFor(l, i), Dim(l)).levels =
                           Append(filling[i].levels, [speed |-> SpeedFor(l, i), dim |-> Dim(l)])
                      /\ Dim(l) = l.dim
    OBVIOUS
  <2>1. filling[i] \in Mapped /\ filling # <<>>
    OBVIOUS
  <2>2. /\ SpeedFor(l, i) \in Int /\ Dim(l) \in Nat /\ Dim(l) = l.dim
        /\ ~Misplaced(filling[i].levels, SpeedFor(l, i), l.limits, Dim(l))
    BY <2>1, AssignedShape
  <2> QED
    BY <2>1, <2>2, AddedAgrees
<1>2. DOMAIN filling = 1..Len(filling) /\ Len(filling) \in Nat
  OBVIOUS
<1>3. \A i \in DOMAIN filling : Filled(l)[i] = Added(filling[i], SpeedFor(l, i), Dim(l))
  BY DEF Filled
<1>4. Filled(l) \in [1..Len(filling) -> Mapped]
  BY <1>1, <1>2 DEF Filled
<1>5. Filled(l) \in Seq(Mapped) /\ Len(Filled(l)) = Len(filling)
  BY <1>2, <1>4
<1> QED
  BY <1>1, <1>3, <1>5

\* The drivers of an entry, and the mappings they move into.
LEMMA DriversType ==
  ASSUME NEW e, IsEntry(e), NEW i \in Nat
  PROVE  /\ DriversOf(e) \in Nat
         /\ Drivers(i, e) \in Seq(Nat \X Nat) /\ Len(Drivers(i, e)) = DriversOf(e)
         /\ \A k \in 1..DriversOf(e) : Drivers(i, e)[k] = <<i, k>>
<1>1. DriversOf(e) \in Nat
  BY DEF DriversOf, IsEntry
<1>2. Drivers(i, e) \in [1..DriversOf(e) -> Nat \X Nat]
  BY <1>1 DEF Drivers
<1> QED
  BY <1>1, <1>2 DEF Drivers

\* The fans of an entry become mappings without levels.
LEMMA MappingsType ==
  ASSUME NEW ds \in Seq(Nat \X Nat)
  PROVE  /\ Mappings(ds) \in Seq(Mapped) /\ Len(Mappings(ds)) = Len(ds)
         /\ \A i \in DOMAIN ds : Mappings(ds)[i] = Mapping(ds[i])
<1>1. \A i \in DOMAIN ds : ds[i] \in Nat \X Nat
  OBVIOUS
<1>2. \A i \in DOMAIN ds : Mapping(ds[i]) \in Mapped
  BY <1>1 DEF Mapping, Mapped, Fans, Agree
<1>3. DOMAIN ds = 1..Len(ds) /\ Len(ds) \in Nat
  OBVIOUS
<1>4. Mappings(ds) \in [1..Len(ds) -> Mapped]
  BY <1>2, <1>3 DEF Mappings
<1> QED
  BY <1>3, <1>4 DEF Mappings

\* The legacy parser begins with a fan that is not there.
LEMMA EmptyMapping == Mapping(Absent) \in Mapped
  BY DEF Mapping, Mapped, Fans, Agree

-----------------------------------------------------------------------------
(* The YAML decoder *)

\* A step of the decoding that goes on.
LEMMA StepReadInv ==
  ASSUME ReadInv, UNCHANGED <<fs, queue, outcome>>, pc \in YamlPhases, pc' \in YamlPhases,
         Sections', at' \in Nat \ {0}, mark' \in Nat \ {0}, drivers' \in Seq(Nat \X Nat),
         filling' \in Seq(Mapped), config' \in Configs
  PROVE  ReadInv'
<1>1. Opened'
  BY ReadOpened DEF ReadInv
<1>2. pc' \notin LegacyPhases
  BY DEF YamlPhases, LegacyPhases
<1> QED
  BY <1>1, <1>2 DEF ReadInv, Shaped

\* The top level of the document is looked through.
LEMMA KeysReadInv ==
  ASSUME ReadInv, Keys
  PROVE  ReadInv'
<1>1. pc = "keys" /\ pc \in YamlPhases
  BY DEF Keys, YamlPhases
<1>2. CASE doc.stray \/ doc.sensors \in {Absent, Scalar}
  BY <1>1, <1>2, ThrowReadInv DEF Keys, Exceptions
<1>3. CASE ~(doc.stray \/ doc.sensors \in {Absent, Scalar})
  <2>1. /\ pc' = "sensors" /\ at' = 1
        /\ UNCHANGED <<fs, queue, outcome, mark, drivers, filling, config>>
    BY <1>3 DEF Keys, Continue
  <2>2. Sections'
    BY <1>3, <2>1 DEF Sections, Written, doc
  <2> QED
    BY <1>1, <2>1, <2>2, StepReadInv DEF YamlPhases, ReadInv, Shaped
<1> QED
  BY <1>2, <1>3

\* One entry of `sensors:' is decoded.
LEMMA SensorEntryReadInv ==
  ASSUME ReadInv, SensorEntry
  PROVE  ReadInv'
<1>1. pc = "sensors" /\ pc \in YamlPhases /\ at <= Len(doc.sensors)
  BY DEF SensorEntry, YamlPhases
<1> DEFINE e == doc.sensors[at]
<1>2. PICK lib \in BOOLEAN :
        IF SensorFault(e, lib) # "none"
        THEN Throw(SensorFault(e, lib))
        ELSE /\ config' = [config EXCEPT !.sensors = @ \o Drivers(at, e)]
             /\ at' = at + 1
             /\ UNCHANGED <<pc, mark, drivers, filling>> /\ Continue
  BY DEF SensorEntry
<1>3. CASE SensorFault(e, lib) # "none"
  <2>1. SensorFault(e, lib) \in Exceptions
    BY <1>3, SensorFaultType DEF Faults
  <2> QED
    BY <1>1, <1>2, <1>3, <2>1, ThrowReadInv
<1>4. CASE SensorFault(e, lib) = "none"
  <2>1. Written(doc.sensors) /\ Opened /\ ~NotYaml
    BY <1>1 DEF ReadInv, Sections, Opened
  <2>2. IsEntry(e) /\ at \in Nat \ {0}
    BY <1>1, <2>1, DocType DEF ReadInv, Shaped
  <2>3. Drivers(at, e) \in Seq(Nat \union (Nat \X Nat))
    BY <2>2, DriversType
  <2>4. config.sensors \in Seq(Nat \union (Nat \X Nat)) /\ config \in Configs
    BY DEF ReadInv, Shaped, Configs
  <2>5. config.sensors \o Drivers(at, e) \in Seq(Nat \union (Nat \X Nat))
    BY <2>3, <2>4, ConcatProperties
  <2>6. /\ config' = [config EXCEPT !.sensors = config.sensors \o Drivers(at, e)]
        /\ at' = at + 1 /\ pc' = "sensors"
        /\ UNCHANGED <<fs, queue, outcome, mark, drivers, filling>>
    BY <1>1, <1>2, <1>4 DEF Continue
  <2>7. config' \in Configs
    BY <2>4, <2>5, <2>6, SensorsReplaced
  <2>8. Sections'
    BY <1>1, <2>6 DEF Sections, ReadInv, doc
  <2> QED
    BY <1>1, <2>2, <2>6, <2>7, <2>8, StepReadInv DEF ReadInv, Shaped
<1> QED
  BY <1>3, <1>4

\* `sensors:' has been decoded.
LEMMA SensorsDoneReadInv ==
  ASSUME ReadInv, SensorsDone
  PROVE  ReadInv'
<1> DEFINE a == config.sensors = <<>>
           b == doc.fans \in {Absent, Scalar}
           fault == FirstOf(<< <<a, "BadConversion">>, <<b, "YamlError">> >>)
<1>1. pc = "sensors" /\ pc \in YamlPhases
  BY DEF SensorsDone, YamlPhases
<1>2. fault \in Faults
  BY FirstOfType DEF Faults, Exceptions
<1>3. CASE fault # "none"
  BY <1>1, <1>2, <1>3, ThrowReadInv DEF SensorsDone, Faults
<1>4. CASE fault = "none"
  <2>1. /\ pc' = "fans" /\ at' = 1
        /\ UNCHANGED <<fs, queue, outcome, mark, drivers, filling, config>>
    BY <1>4 DEF SensorsDone, Continue
  <2>2. a \in BOOLEAN /\ b \in BOOLEAN
    OBVIOUS
  <2>3. ~b
    <3> HIDE DEF a, b
    <3> QED
      BY <1>4, <2>2, FirstOfTwo
  <2>4. Sections'
    BY <2>1, <2>3 DEF Sections, Written, doc
  <2> QED
    BY <1>1, <2>1, <2>4, StepReadInv DEF YamlPhases, ReadInv, Shaped
<1> QED
  BY <1>3, <1>4

\* One entry of `fans:' is decoded.
LEMMA FanEntryReadInv ==
  ASSUME ReadInv, FanEntry
  PROVE  ReadInv'
<1> DEFINE e == doc.fans[at]
           tried == Or(HwmonFanFault(e), TpFanFault(e))
           a == tried # "none"
           b == e.levels = Scalar
           fault == FirstOf(<< <<a, tried>>, <<b, "YamlError">> >>)
           waiting == drivers \o Drivers(at, e)
<1>1. pc = "fans" /\ pc \in YamlPhases /\ at <= Len(doc.fans)
  BY DEF FanEntry, YamlPhases
<1>2. tried \in Faults
  BY FanFaultType
<1>3. fault \in Faults
  <2> HIDE DEF tried
  <2> QED
    BY <1>2, FirstOfType DEF Faults, Exceptions
<1>4. IF fault # "none"
      THEN Throw(fault)
      ELSE /\ IF e.levels = Absent
              THEN drivers' = waiting /\ at' = at + 1 /\ UNCHANGED <<pc, mark, filling>>
              ELSE /\ Moved(waiting)
                   /\ pc' = "own" /\ mark' = 1 /\ UNCHANGED at
           /\ UNCHANGED config /\ Continue
  BY DEF FanEntry
<1>5. CASE fault # "none"
  BY <1>1, <1>3, <1>4, <1>5, ThrowReadInv DEF Faults
<1>6. CASE fault = "none"
  <2>1. a \in BOOLEAN /\ b \in BOOLEAN /\ (a => tried # "none")
    OBVIOUS
  <2>2. ~b
    <3> HIDE DEF a, b, tried
    <3> QED
      BY <1>6, <2>1, FirstOfTwo
  <2>3. Written(doc.fans) /\ Opened /\ ~NotYaml
    BY <1>1 DEF ReadInv, Sections, Opened
  <2>4. IsEntry(e) /\ at \in DOMAIN doc.fans /\ at \in Nat \ {0}
    BY <1>1, <2>3, DocType DEF ReadInv, Shaped
  <2>5. waiting \in Seq(Nat \X Nat)
    BY <2>4, DriversType, ConcatProperties DEF ReadInv, Shaped
  <2> HIDE DEF fault, waiting, a, b, tried
  <2>6. CASE e.levels = Absent
    <3>1. /\ drivers' = waiting /\ at' = at + 1
          /\ UNCHANGED <<pc, mark, filling, config, fs, queue, outcome>>
      BY <1>4, <1>6, <2>6 DEF Continue
    <3>2. Sections'
      BY <1>1, <3>1 DEF Sections, ReadInv, doc
    <3> QED
      BY <1>1, <2>4, <2>5, <3>1, <3>2, StepReadInv DEF ReadInv, Shaped
  <2>7. CASE e.levels # Absent
    <3>1. /\ filling' = Mappings(waiting) /\ drivers' = <<>> /\ pc' = "own" /\ mark' = 1
          /\ UNCHANGED <<at, config, fs, queue, outcome>>
      BY <1>4, <1>6, <2>7 DEF Continue, Moved
    <3>2. Sections'
      BY <1>1, <2>2, <2>3, <2>4, <2>7, <3>1 DEF Sections, ReadInv, doc, Written, b
    <3>3. filling' \in Seq(Mapped)
      BY <2>5, <3>1, MappingsType
    <3> QED
      BY <1>1, <2>4, <3>1, <3>2, <3>3, StepReadInv DEF ReadInv, Shaped, YamlPhases
  <2> QED
    BY <2>6, <2>7
<1> QED
  BY <1>5, <1>6

\* One level of a section is decoded, wherever the section is written,
LEMMA LevelReadInv ==
  ASSUME ReadInv, NEW section, IsLevels(section), pc \in {"own", "global"}, Level(section)
  PROVE  ReadInv'
<1> DEFINE l == section[mark]
<1>1. pc \in YamlPhases /\ mark <= Len(section) /\ mark \in Nat \ {0}
  BY DEF Level, YamlPhases, ReadInv, Shaped
<1>2. IsLevel(l)
  BY <1>1 DEF IsLevels
<1>3. CASE AssignFault(l) # "none"
  <2>1. AssignFault(l) \in Exceptions
    BY <1>3, AssignFaultType DEF Faults
  <2> QED
    BY <1>1, <1>3, <2>1, ThrowReadInv DEF Level
<1>4. CASE AssignFault(l) = "none"
  <2>1. /\ filling' = Filled(l) /\ mark' = mark + 1
        /\ UNCHANGED <<pc, at, drivers, config, fs, queue, outcome>>
    BY <1>4 DEF Level, Continue
  <2>2. filling' \in Seq(Mapped)
    BY <1>2, <1>4, <2>1, FilledShape DEF ReadInv, Shaped
  <2>3. Sections'
    BY <2>1 DEF Sections, ReadInv, doc
  <2> QED
    BY <1>1, <2>1, <2>2, <2>3, StepReadInv DEF ReadInv, Shaped
<1> QED
  BY <1>3, <1>4

\* within a fan entry,
LEMMA OwnLevelReadInv ==
  ASSUME ReadInv, OwnLevel
  PROVE  ReadInv'
<1>1. pc = "own" /\ Level(doc.fans[at].levels)
  BY DEF OwnLevel
<1>2. Opened /\ ~NotYaml /\ Written(doc.fans) /\ at \in DOMAIN doc.fans
      /\ Written(doc.fans[at].levels)
  BY <1>1 DEF ReadInv, Opened, Sections, YamlPhases
<1>3. IsLevels(doc.fans[at].levels)
  BY <1>2, DocType
<1> QED
  BY <1>1, <1>3, LevelReadInv

\* or at the top level.
LEMMA GlobalLevelReadInv ==
  ASSUME ReadInv, GlobalLevel
  PROVE  ReadInv'
<1>1. pc = "global" /\ Level(doc.levels)
  BY DEF GlobalLevel
<1>2. Opened /\ ~NotYaml /\ Written(doc.levels)
  BY <1>1 DEF ReadInv, Opened, Sections, YamlPhases
<1>3. IsLevels(doc.levels)
  BY <1>2, DocType
<1> QED
  BY <1>1, <1>3, LevelReadInv

\* The mappings that are ready join the configuration.
LEMMA FansJoin ==
  ASSUME ReadInv, config' = [config EXCEPT !.fans = @ \o filling]
  PROVE  config' \in Configs /\ config'.fans = config.fans \o filling
                             /\ config'.sensors = config.sensors
<1>1. config \in Configs /\ config.fans \in Seq(Mapped) /\ filling \in Seq(Mapped)
  BY DEF ReadInv, Shaped, Configs
<1>2. config.fans \o filling \in Seq(Mapped)
  BY <1>1, ConcatProperties
<1>3. config' = [config EXCEPT !.fans = config.fans \o filling]
  OBVIOUS
<1>4. config' \in Configs
  BY <1>1, <1>2, <1>3, FansReplaced
<1> QED
  BY <1>1, <1>3, <1>4 DEF Configs

\* The levels of a group have been decoded.
LEMMA OwnDoneReadInv ==
  ASSUME ReadInv, OwnDone
  PROVE  ReadInv'
<1>1. /\ pc = "own" /\ pc \in YamlPhases /\ filling' = <<>> /\ pc' = "fans" /\ at' = at + 1
      /\ UNCHANGED <<mark, drivers, fs, queue, outcome>>
  BY DEF OwnDone, YamlPhases, Continue
<1>2. config' \in Configs
  BY FansJoin DEF OwnDone
<1>3. Sections'
  BY <1>1 DEF Sections, ReadInv, doc
<1>4. <<>> \in Seq(Mapped)
  OBVIOUS
<1> QED
  BY <1>1, <1>2, <1>3, <1>4, StepReadInv DEF ReadInv, Shaped, YamlPhases

\* `fans:' has been decoded.
LEMMA FansDoneReadInv ==
  ASSUME ReadInv, FansDone
  PROVE  ReadInv'
<1>1. pc = "fans" /\ pc \in YamlPhases
  BY DEF FansDone, YamlPhases
<1>2. Throw("BadConversion") \/ Finish("config")
  BY DEF FansDone
<1> QED
  BY <1>1, <1>2, ThrowReadInv, FinishReadInv DEF Exceptions, Results

\* What a single fan is, when it is not refused.
LEMMA SingleFanKept ==
  ASSUME ReadInv, SingleFan
  PROVE  \/ \E e \in Exceptions : Throw(e)
         \/ /\ Len(doc.fans) = 1 /\ Written(doc.levels) /\ IsEntry(doc.fans[1])
            /\ filling' = Mappings(Drivers(1, doc.fans[1]))
            /\ pc' = "global" /\ mark' = 1
            /\ UNCHANGED <<at, drivers, config, fs, queue, outcome>>
<1> DEFINE e == doc.fans[1]
           tried == Or(TpFanFault(e), HwmonFanFault(e))
           a == Len(doc.fans) > 1
           b == tried # "none"
           c == doc.levels \in {Absent, Scalar}
           rest == FirstOf(<< <<a, "YamlError">>, <<b, tried>>, <<c, "YamlError">> >>)
           fault == IF doc.fans = <<>> THEN "InvalidNode" ELSE rest
<1>1. tried \in Faults
  BY FanFaultType
<1>2. rest \in Faults
  <2> HIDE DEF tried
  <2> QED
    BY <1>1, FirstOfType DEF Faults, Exceptions
<1>3. IF fault # "none"
      THEN Throw(fault)
      ELSE /\ filling' = Mappings(Drivers(1, e))
           /\ pc' = "global" /\ mark' = 1
           /\ UNCHANGED <<at, drivers, config>> /\ Continue
  BY DEF SingleFan
<1>4. CASE fault # "none"
  <2>1. fault \in Exceptions
    <3> HIDE DEF rest
    <3> QED
      BY <1>2, <1>4 DEF Faults, Exceptions
  <2> HIDE DEF fault
  <2> QED
    BY <1>3, <1>4, <2>1
<1>5. CASE fault = "none"
  <2>1. doc.fans # <<>> /\ rest = "none"
    BY <1>5
  <2>2. a \in BOOLEAN /\ b \in BOOLEAN /\ c \in BOOLEAN /\ (b => tried # "none")
    OBVIOUS
  <2>3. ~a /\ ~b /\ ~c
    <3> HIDE DEF a, b, c, tried
    <3> QED
      BY <2>1, <2>2, FirstOfThree
  <2>4. Written(doc.fans) /\ Opened /\ ~NotYaml
    BY DEF SingleFan, ReadInv, Sections, Opened, YamlPhases
  <2>5. Len(doc.fans) \in Nat /\ DOMAIN doc.fans = 1..Len(doc.fans)
        /\ \A i \in DOMAIN doc.fans : IsEntry(doc.fans[i])
    BY <2>4, DocType
  <2>6. Len(doc.fans) # 0
    <3>1. doc.fans \in Seq({doc.fans[i] : i \in DOMAIN doc.fans})
      BY <2>4, FileType DEF IsDoc, IsSection, IsSeq, Written
    <3> QED
      BY <2>1, <3>1
  <2>7. Len(doc.fans) = 1 /\ IsEntry(e)
    <3>1. ~(Len(doc.fans) > 1)
      BY <2>3
    <3>2. \A n \in Nat : ~(n > 1) /\ n # 0 => n = 1
      OBVIOUS
    <3>3. Len(doc.fans) \in Nat
      BY <2>5
    <3>4. Len(doc.fans) = 1
      <4> HIDE DEF a, b, c, rest, fault, tried, e
      <4> QED
        BY <3>1, <3>2, <3>3, <2>6, Zenon
    <3> QED
      BY <2>5, <3>4
  <2>8. Written(doc.levels)
    BY <2>3 DEF Written
  <2> HIDE DEF fault
  <2> QED
    BY <1>3, <1>5, <2>7, <2>8 DEF Continue
<1> QED
  BY <1>4, <1>5

\* `fans:' is decoded as a single fan.
LEMMA SingleFanReadInv ==
  ASSUME ReadInv, SingleFan
  PROVE  ReadInv'
<1>1. pc = "single" /\ pc \in YamlPhases
  BY DEF SingleFan, YamlPhases
<1>2. CASE \E e \in Exceptions : Throw(e)
  BY <1>1, <1>2, ThrowReadInv
<1>3. CASE /\ Len(doc.fans) = 1 /\ Written(doc.levels) /\ IsEntry(doc.fans[1])
           /\ filling' = Mappings(Drivers(1, doc.fans[1]))
           /\ pc' = "global" /\ mark' = 1
           /\ UNCHANGED <<at, drivers, config, fs, queue, outcome>>
  <2>1. filling' \in Seq(Mapped)
    BY <1>3, DriversType, MappingsType
  <2>2. Sections'
    BY <1>1, <1>3 DEF Sections, ReadInv, doc, Written
  <2> QED
    BY <1>1, <1>3, <2>1, <2>2, StepReadInv DEF ReadInv, Shaped, YamlPhases
<1> QED
  BY <1>2, <1>3, SingleFanKept

\* The levels of the top level have been decoded.
LEMMA GlobalDoneReadInv ==
  ASSUME ReadInv, GlobalDone
  PROVE  ReadInv'
<1>1. /\ pc = "global" /\ pc' = "over" /\ outcome' = "config"
      /\ UNCHANGED <<fs, queue, at, mark, drivers, filling>>
  BY DEF GlobalDone
<1>2. config' \in Configs
  BY FansJoin DEF GlobalDone
<1>3. Opened'
  BY <1>1, FinishOpened DEF ReadInv, YamlPhases, Results
<1>4. Sections' /\ Shaped'
  BY <1>1, <1>2 DEF ReadInv, Sections, Shaped, LegacyPhases
<1> QED
  BY <1>3, <1>4 DEF ReadInv

-----------------------------------------------------------------------------
(* The legacy parser, and the opening of files *)

\* The text of a legacy file is a sequence of statements.
LEMMA TextType ==
  ASSUME Opened
  PROVE  /\ Len(text) \in Nat /\ DOMAIN text = 1..Len(text)
         /\ \A i \in DOMAIN text :
              text[i].is = "level" => text[i].speed \in Int /\ text[i].upper \in Nat
<1>1. IsText(text)
  BY FileType DEF text, file
<1> QED
  BY <1>1 DEF IsText, IsSeq

\* Past the blanks is further on, and not beyond the end of the text.
LEMMA PastBlanksProperties ==
  ASSUME Opened, NEW i \in Nat \ {0}, i <= Len(text) + 1
  PROVE  /\ PastBlanks(i) \in i..(Len(text) + 1)
         /\ \A k \in i..(PastBlanks(i) - 1) : text[k].is \in Blanks
         /\ PastBlanks(i) <= Len(text) => text[PastBlanks(i)].is \notin Blanks
<1> DEFINE T == {j \in i..(Len(text) + 1) : j <= Len(text) => text[j].is \notin Blanks}
<1>1. Len(text) \in Nat
  BY TextType
<1>2. Len(text) + 1 \in T /\ T \subseteq Nat
  BY <1>1
<1>3. PICK m \in T : \A k \in T : m <= k
  BY <1>2, LeastNatural
<1>4. \A k \in i..(m - 1) : text[k].is \in Blanks
  BY <1>1, <1>3
<1>5. \E j \in i..(Len(text) + 1) :
        /\ \A k \in i..(j - 1) : text[k].is \in Blanks
        /\ j <= Len(text) => text[j].is \notin Blanks
  BY <1>3, <1>4
<1> QED
  BY <1>5, Zenon DEF PastBlanks

\* The legacy parser never goes beyond the end of the text.
LegacyAt == pc \in LegacyPhases => at <= Len(text) + 1

\* The inductive invariant of the reading.
IInv == ReadInv /\ LegacyAt

\* A step of the legacy parser that goes on.
LEMMA LegacyStep ==
  ASSUME IInv, pc \in LegacyPhases, pc' \in LegacyPhases,
         UNCHANGED <<fs, queue, outcome, drivers>>,
         at' \in Nat \ {0}, at' <= Len(text) + 1, mark' \in Nat \ {0},
         filling' \in Seq(Mapped), Len(filling') = 1, config' \in Configs
  PROVE  IInv'
<1>1. Opened'
  BY ReadOpened DEF IInv, ReadInv
<1>2. Sections'
  BY DEF Sections, LegacyPhases
<1>3. LegacyAt'
  BY DEF LegacyAt, text
<1> QED
  BY <1>1, <1>2, <1>3 DEF IInv, ReadInv, Shaped

\* The legacy parser ends.
LEMMA LegacyFinish ==
  ASSUME IInv, pc \in LegacyPhases, NEW result \in Results, Finish(result)
  PROVE  IInv'
<1>1. ReadInv'
  BY FinishReadInv DEF IInv
<1>2. LegacyAt'
  BY DEF LegacyAt, Finish, LegacyPhases
<1> QED
  BY <1>1, <1>2 DEF IInv

\* The statement that comes next is one of the text, when it has a kind.
LEMMA NextStatement ==
  ASSUME IInv, pc \in LegacyPhases, Next1.is # "end"
  PROVE  at \in DOMAIN text /\ at + 1 <= Len(text) + 1 /\ Next1 = text[at]
<1>1. Len(text) \in Nat /\ DOMAIN text = 1..Len(text) /\ at \in Nat \ {0}
  BY TextType DEF IInv, ReadInv, Shaped
<1>2. ~AtEnd
  BY DEF Next1
<1> QED
  BY <1>1, <1>2 DEF AtEnd, Next1

\* One of its parsers leaves without having found its keyword.
LEMMA LeftStep ==
  ASSUME IInv, pc \in LegacyPhases, pc' \in LegacyPhases, Left
  PROVE  IInv'
<1>1. UNCHANGED <<fs, queue, outcome, drivers, at, mark, filling, config>>
  BY DEF Left, building
<1>2. at <= Len(text) + 1
  BY DEF IInv, LegacyAt
<1> QED
  BY <1>1, <1>2, LegacyStep DEF IInv, ReadInv, Shaped

\* A turn of the loop begins.
LEMMA BeginIterationInv ==
  ASSUME IInv, BeginIteration
  PROVE  IInv'
<1>1. /\ pc \in LegacyPhases /\ pc' \in LegacyPhases /\ mark' = at /\ at' = PastBlanks(at)
      /\ UNCHANGED <<fs, queue, drivers, filling, config, outcome>>
  BY DEF BeginIteration, LegacyPhases
<1>2. at \in Nat \ {0} /\ at <= Len(text) + 1 /\ Opened
  BY <1>1 DEF IInv, ReadInv, Shaped, LegacyAt
<1>3. PastBlanks(at) \in at..(Len(text) + 1) /\ Len(text) \in Nat
  BY <1>2, PastBlanksProperties, TextType
<1>4. filling \in Seq(Mapped) /\ Len(filling) = 1 /\ config \in Configs
  BY <1>1 DEF IInv, ReadInv, Shaped
<1> QED
  BY <1>1, <1>2, <1>3, <1>4, LegacyStep

\* The one fan of a legacy file is replaced.
LEMMA FillingReplaced ==
  ASSUME NEW f \in Seq(Mapped), Len(f) = 1, NEW m \in Mapped
  PROVE  [f EXCEPT ![1] = m] \in Seq(Mapped) /\ Len([f EXCEPT ![1] = m]) = 1
         /\ [f EXCEPT ![1] = m][1] = m
<1>1. 1 \in 1..Len(f)
  OBVIOUS
<1> QED
  BY <1>1, ExceptSeq

\* The fan parsers take a statement, or leave.
LEMMA FanStatementInv ==
  ASSUME IInv, FanStatement
  PROVE  IInv'
<1>1. pc = "fan" /\ pc \in LegacyPhases
  BY DEF FanStatement, LegacyPhases
<1>2. CASE Next1.is = "fan"
  BY <1>1, <1>2, LegacyFinish DEF FanStatement, Results
<1>3. CASE Next1.is # "fan" /\ Next1.is \notin FanKeywords
  <2>1. Left /\ pc' \in LegacyPhases
    BY <1>3 DEF FanStatement, LegacyPhases
  <2> QED
    BY <1>1, <2>1, LeftStep
<1>4. CASE Next1.is # "fan" /\ Next1.is \in FanKeywords
  <2>1. /\ pc' = "sensor" /\ filling' = [filling EXCEPT ![1].fan = at] /\ at' = at + 1
        /\ UNCHANGED <<fs, queue, mark, drivers, outcome, config>>
    BY <1>4 DEF FanStatement, Took
  <2>2. at \in DOMAIN text /\ at + 1 <= Len(text) + 1
    BY <1>1, <1>4, NextStatement DEF FanKeywords
  <2>3. filling \in Seq(Mapped) /\ Len(filling) = 1 /\ at \in Nat \ {0} /\ mark \in Nat \ {0}
        /\ config \in Configs
    BY <1>1 DEF IInv, ReadInv, Shaped
  <2>4. [filling[1] EXCEPT !.fan = at] \in Mapped
    <3>1. filling[1] \in Mapped /\ at \in Fans
      BY <2>3 DEF Fans
    <3> QED
      BY <3>1 DEF Mapped
  <2>5. filling' = [filling EXCEPT ![1] = [filling[1] EXCEPT !.fan = at]]
    BY <2>1, <2>3
  <2>6. filling' \in Seq(Mapped) /\ Len(filling') = 1
    BY <2>3, <2>4, <2>5, FillingReplaced
  <2>7. pc' \in LegacyPhases
    BY <2>1 DEF LegacyPhases
  <2> QED
    BY <1>1, <2>1, <2>2, <2>3, <2>6, <2>7, LegacyStep
<1> QED
  BY <1>2, <1>3, <1>4

\* The parsers of the sensors throw one of two exceptions, or nothing.
LEMMA SensorFaultLType ==
  ASSUME NEW st, NEW lib \in BOOLEAN
  PROVE  SensorFaultL(st, lib) \in {"none", "SystemError", "bad_optional_access"}
<1> DEFINE a == ~(st.is = "nv_thermal" => lib)
           b == st.correction \notin {Absent, TempsSoFar(st)}
           checks == << <<a, "SystemError">>, <<b, "bad_optional_access">> >>
<1>1. SensorFaultL(st, lib) = FirstOf(checks) /\ DOMAIN checks = 1..2
  BY DEF SensorFaultL, LibraryFault
<1>2. \A i \in 1..2 : checks[i][2] \in {"SystemError", "bad_optional_access"}
  OBVIOUS
<1> HIDE DEF checks
<1> QED
  BY <1>1, <1>2, FirstOfProperties

\* The sensor parsers take a statement, or leave.
LEMMA SensorStatementInv ==
  ASSUME IInv, SensorStatement
  PROVE  IInv'
<1>1. pc = "sensor" /\ pc \in LegacyPhases
  BY DEF SensorStatement, LegacyPhases
<1>2. CASE Next1.is = "sensor"
  BY <1>1, <1>2, LegacyFinish DEF SensorStatement, Results
<1>3. CASE Next1.is # "sensor" /\ Next1.is \notin SensorKeywords
  <2>1. Left /\ pc' \in LegacyPhases
    BY <1>3 DEF SensorStatement, LegacyPhases
  <2> QED
    BY <1>1, <2>1, LeftStep
<1>4. CASE Next1.is # "sensor" /\ Next1.is \in SensorKeywords
  <2>1. PICK lib \in BOOLEAN :
          IF SensorFaultL(Next1, lib) # "none"
          THEN Finish(SensorFaultL(Next1, lib))
          ELSE /\ pc' = "simple"
               /\ config' = [config EXCEPT !.sensors = Append(@, at)]
               /\ Took /\ UNCHANGED filling
    BY <1>4 DEF SensorStatement
  <2>2. CASE SensorFaultL(Next1, lib) # "none"
    <3>1. SensorFaultL(Next1, lib) \in Results
      BY <2>2, SensorFaultLType DEF Results
    <3> QED
      BY <1>1, <2>1, <2>2, <3>1, LegacyFinish
  <2>3. CASE SensorFaultL(Next1, lib) = "none"
    <3>1. /\ pc' = "simple" /\ config' = [config EXCEPT !.sensors = Append(config.sensors, at)]
          /\ at' = at + 1 /\ UNCHANGED <<fs, queue, mark, drivers, outcome, filling>>
      BY <2>1, <2>3 DEF Took
    <3>2. at \in DOMAIN text /\ at + 1 <= Len(text) + 1
      BY <1>1, <1>4, NextStatement DEF SensorKeywords
    <3>3. filling \in Seq(Mapped) /\ Len(filling) = 1 /\ at \in Nat \ {0} /\ mark \in Nat \ {0}
          /\ config \in Configs
      BY <1>1 DEF IInv, ReadInv, Shaped
    <3>4. Append(config.sensors, at) \in Seq(Nat \union (Nat \X Nat))
      BY <3>3 DEF Configs
    <3>5. config' \in Configs
      BY <3>1, <3>3, <3>4, SensorsReplaced
    <3>6. pc' \in LegacyPhases
      BY <3>1 DEF LegacyPhases
    <3> QED
      BY <1>1, <3>1, <3>2, <3>3, <3>5, <3>6, LegacyStep
  <2> QED
    BY <2>1, <2>2, <2>3
<1> QED
  BY <1>2, <1>3, <1>4

\* A level that is not refused does not contradict the level before it.
LEMMA LevelFaultType ==
  ASSUME NEW st, NEW dim
  PROVE  /\ LevelFault(st, dim) \in {"none", "ConfigError"}
         /\ LevelFault(st, dim) = "none" =>
              ~Misplaced(filling[1].levels, st.speed, st.limits, dim)
<1> DEFINE a == LevelRefused(st.speed, st.limits, st.quoted)
           b == Error(st.quoted /\ st.lower # st.upper)
           c == Misplaced(filling[1].levels, st.speed, st.limits, dim)
           checks == << <<a, "ConfigError">>, <<b, "ConfigError">>, <<c, "ConfigError">> >>
<1>1. LevelFault(st, dim) = FirstOf(checks) /\ DOMAIN checks = 1..3
      /\ \A i \in 1..3 : checks[i][2] = "ConfigError"
  BY DEF LevelFault
<1>2. FirstOf(checks) \in {"none", "ConfigError"}
  <2> HIDE DEF checks
  <2> QED
    BY <1>1, FirstOfProperties
<1>3. a \in BOOLEAN /\ b \in BOOLEAN /\ c \in BOOLEAN
  BY DEF LevelRefused, Misplaced, Error
<1>4. FirstOf(<< <<a, "ConfigError">>, <<b, "ConfigError">>, <<c, "ConfigError">> >>) = "none"
        => ~c
  <2> HIDE DEF a, b, c
  <2> QED
    BY <1>3, FirstOfThree
<1> QED
  BY <1>1, <1>2, <1>4

\* One level of the legacy syntax.
LEMMA LevelStatementInv ==
  ASSUME IInv, pc \in LegacyPhases, Next1.is = "level", NEW dim \in Nat,
         LevelStatement(Next1, dim), LevelFault(Next1, dim) = "none" => pc' \in LegacyPhases
  PROVE  IInv'
<1>1. CASE LevelFault(Next1, dim) # "none"
  <2>1. LevelFault(Next1, dim) \in Results
    BY <1>1, LevelFaultType DEF Results
  <2> QED
    BY <1>1, <2>1, LegacyFinish DEF LevelStatement
<1>2. CASE LevelFault(Next1, dim) = "none"
  <2> DEFINE st == Next1
  <2>1. /\ filling' = [filling EXCEPT ![1] = Added(filling[1], st.speed, dim)] /\ at' = at + 1
        /\ UNCHANGED <<fs, queue, mark, drivers, outcome, config>>
    BY <1>2 DEF LevelStatement, Took
  <2>2. at \in DOMAIN text /\ at + 1 <= Len(text) + 1 /\ st = text[at]
    BY NextStatement
  <2>3. filling \in Seq(Mapped) /\ Len(filling) = 1 /\ at \in Nat \ {0} /\ mark \in Nat \ {0}
        /\ config \in Configs /\ Opened
    BY DEF IInv, ReadInv, Shaped
  <2>4. st.speed \in Int
    BY <2>2, <2>3, TextType
  <2> HIDE DEF st
  <2>5. Added(filling[1], st.speed, dim) \in Mapped
    <3>1. filling[1] \in Mapped
      BY <2>3
    <3>2. ~Misplaced(filling[1].levels, st.speed, st.limits, dim)
      BY <1>2, LevelFaultType DEF st
    <3> QED
      BY <2>4, <3>1, <3>2, AddedAgrees
  <2>6. filling' \in Seq(Mapped) /\ Len(filling') = 1
    BY <2>1, <2>3, <2>5, FillingReplaced
  <2> QED
    BY <1>2, <2>1, <2>2, <2>3, <2>6, LegacyStep
<1> QED
  BY <1>1, <1>2

\* The parser of the simple levels takes a statement, or leaves.
LEMMA SimpleStatementInv ==
  ASSUME IInv, SimpleStatement
  PROVE  IInv'
<1>1. pc = "simple" /\ pc \in LegacyPhases
  BY DEF SimpleStatement, LegacyPhases
<1>2. CASE IsSimple(Next1)
  BY <1>1, <1>2, LevelStatementInv DEF SimpleStatement, IsSimple, LegacyPhases
<1>3. CASE ~IsSimple(Next1)
  BY <1>1, <1>3, LeftStep DEF SimpleStatement, LegacyPhases
<1> QED
  BY <1>2, <1>3

\* The parser of the complex levels takes a statement, or leaves.
LEMMA ComplexStatementInv ==
  ASSUME IInv, ComplexStatement
  PROVE  IInv'
<1>1. pc = "complex" /\ pc \in LegacyPhases
  BY DEF ComplexStatement, LegacyPhases
<1>2. CASE IsComplex(Next1)
  <2>1. Next1.is = "level"
    BY <1>2 DEF IsComplex
  <2>2. Next1.upper \in Nat
    BY <1>1, <2>1, NextStatement, TextType DEF IInv, ReadInv
  <2> QED
    BY <1>1, <1>2, <2>1, <2>2, LevelStatementInv DEF ComplexStatement, LegacyPhases
<1>3. CASE ~IsComplex(Next1)
  BY <1>1, <1>3, LeftStep DEF ComplexStatement, LegacyPhases
<1> QED
  BY <1>2, <1>3

\* A turn of the loop ends.
LEMMA EndIterationInv ==
  ASSUME IInv, EndIteration
  PROVE  IInv'
  BY LeftStep DEF EndIteration, LegacyPhases

\* The loop ends.
LEMMA EndOfTextInv ==
  ASSUME IInv, EndOfText
  PROVE  IInv'
<1>1. /\ pc = "while" /\ pc \in LegacyPhases /\ config' = [config EXCEPT !.fans = filling]
      /\ pc' = "over" /\ outcome' \in {"config", "SyntaxError"}
      /\ UNCHANGED <<fs, queue, at, mark, drivers, filling>>
  BY DEF EndOfText, LegacyPhases
<1>2. outcome' \in Results
  BY <1>1 DEF Results
<1>3. Opened'
  <2>1. PICK result \in Results : outcome' = result
    BY <1>2
  <2> QED
    BY <1>1, <2>1, FinishOpened DEF IInv, ReadInv
<1>4. config' \in Configs
  BY <1>1, FansReplaced DEF IInv, ReadInv, Shaped
<1>5. Sections' /\ Shaped' /\ LegacyAt'
  BY <1>1, <1>4 DEF Sections, Shaped, LegacyAt, IInv, ReadInv, LegacyPhases
<1> QED
  BY <1>3, <1>5 DEF IInv, ReadInv

\* Opening a file.
LEMMA CannotOpenInv ==
  ASSUME IInv, CannotOpen
  PROVE  IInv'
<1>1. pc = "open" /\ file.state # "ok" /\ outcome = "none"
  BY DEF CannotOpen, IInv, ReadInv, Opened
<1>2. PICK i \in DOMAIN Names :
        /\ queue = SubSeq(Names, i, Len(Names))
        /\ \A j \in 1..(i - 1) : fs[Names[j]].state = "missing"
  BY DEF IInv, ReadInv, Opened
<1>3. file = fs[Names[i]] /\ Len(queue) = Len(Names) - i + 1 /\ i \in 1..Len(Names)
      /\ Len(Names) \in Nat /\ DOMAIN Names = 1..Len(Names)
  BY <1>2, QueueSplit, NamesType DEF file
<1>4. CASE file.state = "missing" /\ Len(queue) > 1
  <2>1. queue' = Tail(queue) /\ UNCHANGED <<fs, pc, at, mark, drivers, filling, config, outcome>>
    BY <1>4 DEF CannotOpen, building
  <2>2. queue' = SubSeq(Names, i + 1, Len(Names)) /\ i + 1 \in DOMAIN Names
    BY <1>2, <1>4, <2>1, QueueSplit
  <2>3. \A j \in 1..((i + 1) - 1) : fs'[Names[j]].state = "missing"
    BY <1>2, <1>3, <1>4, <2>1
  <2>4. Opened'
    BY <1>1, <2>1, <2>2, <2>3 DEF IInv, ReadInv, Opened, FirstFileDecides,
                                  YamlPhases, LegacyPhases
  <2>5. Sections' /\ Shaped' /\ LegacyAt'
    BY <1>1, <2>1 DEF IInv, ReadInv, Sections, Shaped, LegacyAt, LegacyPhases
  <2> QED
    BY <2>4, <2>5 DEF IInv, ReadInv
<1>5. CASE ~(file.state = "missing" /\ Len(queue) > 1)
  <2>1. pc' = "over" /\ outcome' = "IOerror"
        /\ UNCHANGED <<fs, queue, at, mark, drivers, filling, config>>
    BY <1>5 DEF CannotOpen, Finish, building
  <2>2. \A k \in DOMAIN Names : k + Len(queue) <= Len(Names) => k \in 1..(i - 1)
    BY <1>3
  <2>3. FirstFileDecides'
    <3>1. CASE file.state # "missing"
      BY <1>2, <2>1, <2>2, <3>1 DEF FirstFileDecides, file
    <3>2. CASE file.state = "missing"
      <4>1. i = Len(Names)
        BY <1>3, <1>5, <3>2
      <4> QED
        BY <1>2, <1>3, <2>1, <3>2, <4>1 DEF FirstFileDecides
    <3> QED
      BY <3>1, <3>2
  <2>4. Opened'
    BY <2>1, <2>3 DEF IInv, ReadInv, Opened, YamlPhases, LegacyPhases, Results
  <2>5. Sections' /\ Shaped' /\ LegacyAt'
    BY <2>1 DEF IInv, ReadInv, Sections, Shaped, LegacyAt, LegacyPhases
  <2> QED
    BY <2>4, <2>5 DEF IInv, ReadInv
<1> QED
  BY <1>4, <1>5

\* The file is there and is refused.
LEMMA OpenFinish ==
  ASSUME IInv, pc = "open", file.state = "ok", Finish("ConfigError")
  PROVE  IInv'
<1>1. PICK i \in DOMAIN Names :
        /\ queue = SubSeq(Names, i, Len(Names))
        /\ \A j \in 1..(i - 1) : fs[Names[j]].state = "missing"
  BY DEF IInv, ReadInv, Opened
<1>2. \A k \in DOMAIN Names : k + Len(queue) <= Len(Names) => k \in 1..(i - 1)
  BY <1>1, QueueSplit, NamesType
<1>3. pc' = "over" /\ outcome' = "ConfigError"
      /\ UNCHANGED <<fs, queue, at, mark, drivers, filling, config>>
  BY DEF Finish, building
<1>4. FirstFileDecides'
  BY <1>1, <1>2, <1>3 DEF FirstFileDecides, file
<1>5. Opened'
  BY <1>3, <1>4 DEF IInv, ReadInv, Opened, YamlPhases, LegacyPhases, Results
<1>6. Sections' /\ Shaped' /\ LegacyAt'
  BY <1>3 DEF IInv, ReadInv, Sections, Shaped, LegacyAt, LegacyPhases
<1> QED
  BY <1>5, <1>6 DEF IInv, ReadInv

\* The file that is opened is a YAML document.
LEMMA OpenYamlInv ==
  ASSUME IInv, OpenYaml
  PROVE  IInv'
<1>1. /\ pc = "open" /\ file.state = "ok" /\ ~NotYaml /\ pc' = "keys"
      /\ UNCHANGED <<fs, queue, outcome, at, mark, drivers, filling, config>>
  BY DEF OpenYaml, building
<1>2. Opened'
  BY <1>1 DEF IInv, ReadInv, Opened, YamlPhases, LegacyPhases, FirstFileDecides, file,
              NotYaml
<1>3. Sections' /\ Shaped' /\ LegacyAt'
  BY <1>1 DEF IInv, ReadInv, Sections, Shaped, LegacyAt, LegacyPhases
<1> QED
  BY <1>2, <1>3 DEF IInv, ReadInv

\* The file that is opened is a legacy text.
LEMMA OpenLegacyInv ==
  ASSUME IInv, OpenLegacy
  PROVE  IInv'
<1>1. pc = "open" /\ file.state = "ok" /\ NotYaml
  BY DEF OpenLegacy
<1>2. CASE file.ext = "yaml"
  BY <1>1, <1>2, OpenFinish DEF OpenLegacy
<1>3. CASE file.ext # "yaml"
  <2>1. /\ pc' = "blanks" /\ at' = 1 /\ filling' = <<Mapping(Absent)>>
        /\ UNCHANGED <<fs, queue, mark, drivers, config, outcome>>
    BY <1>3 DEF OpenLegacy
  <2>2. Opened'
    BY <1>1, <2>1 DEF IInv, ReadInv, Opened, YamlPhases, LegacyPhases, FirstFileDecides,
                      file, NotYaml
  <2>3. filling' \in Seq(Mapped) /\ Len(filling') = 1
    BY <2>1, EmptyMapping
  <2>4. LegacyAt'
    <3>1. Len(text) \in Nat
      BY TextType DEF IInv, ReadInv
    <3> QED
      BY <2>1, <3>1 DEF LegacyAt, text
  <2>5. Sections' /\ Shaped'
    BY <2>1, <2>3 DEF IInv, ReadInv, Sections, Shaped
  <2> QED
    BY <2>2, <2>4, <2>5 DEF IInv, ReadInv
<1> QED
  BY <1>2, <1>3

-----------------------------------------------------------------------------
(* Every step keeps the invariant, and what it gives *)

\* What a YAML step leaves is not in the middle of a legacy text.
LEMMA DecodeInv ==
  ASSUME IInv, Decode
  PROVE  IInv'
<1>1. ReadInv
  BY DEF IInv
<1>2. ReadInv'
  BY <1>1, KeysReadInv, SensorEntryReadInv, SensorsDoneReadInv, FanEntryReadInv,
     OwnLevelReadInv, OwnDoneReadInv, FansDoneReadInv, SingleFanReadInv,
     GlobalLevelReadInv, GlobalDoneReadInv DEF Decode
<1>3. pc \in YamlPhases
  BY DEF Decode, Keys, SensorEntry, SensorsDone, FanEntry, OwnLevel, OwnDone, FansDone,
         SingleFan, GlobalLevel, GlobalDone, YamlPhases
<1>4. file.state = "ok" /\ ~NotYaml /\ UNCHANGED <<fs, queue>>
  <2>1. UNCHANGED <<fs, queue>>
    BY DEF Decode, Keys, SensorEntry, SensorsDone, FanEntry, OwnLevel, OwnDone, FansDone,
           SingleFan, GlobalLevel, GlobalDone, Level, Throw, Finish, Continue
  <2> QED
    BY <1>1, <1>3, <2>1 DEF ReadInv, Opened
<1>5. pc' \notin LegacyPhases
  BY <1>2, <1>4 DEF ReadInv, Opened, NotYaml, file
<1> QED
  BY <1>2, <1>5 DEF IInv, LegacyAt

\* The invariant holds at first.
LEMMA InitInv ==
  ASSUME Init
  PROVE  IInv
<1>1. Names \in Seq({Names[i] : i \in DOMAIN Names}) /\ Len(Names) \in Nat \ {0}
      /\ DOMAIN Names = 1..Len(Names)
  BY NamesType, NamesAssumption DEF IsSeq
<1>2. queue = SubSeq(Names, 1, Len(Names)) /\ 1 \in DOMAIN Names
  BY <1>1, SubSeqFull DEF Init
<1>3. Opened
  BY <1>2 DEF Init, Opened, YamlPhases, LegacyPhases, FirstFileDecides
<1>4. Sections /\ Shaped /\ LegacyAt
  BY DEF Init, Sections, Shaped, LegacyAt, LegacyPhases, Configs, Empty
<1> QED
  BY <1>3, <1>4 DEF IInv, ReadInv

\* Every step keeps it.
LEMMA NextInv ==
  ASSUME IInv, [Next]_vars
  PROVE  IInv'
<1>1. CASE ParseLegacy
  BY <1>1, BeginIterationInv, FanStatementInv, SensorStatementInv, SimpleStatementInv,
     ComplexStatementInv, EndIterationInv, EndOfTextInv DEF ParseLegacy
<1>2. CASE UNCHANGED vars
  BY <1>2 DEF vars, IInv, ReadInv, Opened, Sections, Shaped, LegacyAt, FirstFileDecides,
              file, doc, text, NotYaml
<1> QED
  BY <1>1, <1>2, DecodeInv, CannotOpenInv, OpenYamlInv, OpenLegacyInv DEF Next

\* So it holds always, for any names, any files and any contents.
THEOREM Invariant == Spec => []IInv
  BY InitInv, NextInv, PTL DEF Spec

\* It gives the types.
LEMMA IInvTypeOK ==
  ASSUME IInv
  PROVE  TypeOK
<1>1. \A s \in Seq(Mapped) : \A i \in DOMAIN s : s[i].levels \in Seq(Levels)
  <2>1. \A s \in Seq(Mapped) : \A i \in DOMAIN s : s[i] \in Mapped
    OBVIOUS
  <2> QED
    BY <2>1 DEF Mapped
<1>2. pc \in {"open", "over", "keys", "sensors", "fans", "own", "single", "global",
              "blanks", "fan", "sensor", "simple", "complex", "while"}
  BY DEF IInv, ReadInv, Opened, YamlPhases, LegacyPhases
<1>3. \E i \in DOMAIN Names : queue = SubSeq(Names, i, Len(Names))
  BY DEF IInv, ReadInv, Opened
<1>4. filling \in Seq(Mapped) /\ config.fans \in Seq(Mapped) /\ drivers \in Seq(Nat \X Nat)
  BY DEF IInv, ReadInv, Shaped, Configs
<1>5. \A i \in DOMAIN drivers : drivers[i] \in Nat \X Nat
  BY <1>4
<1> QED
  BY <1>1, <1>2, <1>3, <1>4, <1>5 DEF TypeOK, IInv, ReadInv, Opened, Shaped

\* The variables of the reader have the types that TypeOK states.
THEOREM TypeCorrect == Spec => []TypeOK
  BY Invariant, IInvTypeOK, PTL

\* The first file that exists decides (config.cpp:138-153): no file is looked at
\* after it, and all the names before it are those of no file.
THEOREM FirstFileTheorem == Spec => []FirstFileDecides
<1>1. IInv => FirstFileDecides
  BY DEF IInv, ReadInv, Opened
<1> QED
  BY <1>1, Invariant, PTL

\* With the sanity checks on, the levels of one fan all have the same number of
\* limits, and none that sets a speed sets a lower one than the level before it
\* (config.cpp:111-133).  The premise is part of the property: with -D the checks
\* only log, and any levels are taken.
THEOREM LevelsAgreeTheorem == Spec => []LevelsAgree
<1>1. IInv => LevelsAgree
  <2> SUFFICES ASSUME IInv PROVE LevelsAgree
    OBVIOUS
  <2>1. config.fans \in Seq(Mapped)
    BY DEF IInv, ReadInv, Shaped, Configs
  <2>2. \A p \in DOMAIN config.fans : config.fans[p] \in Mapped
    BY <2>1
  <2>3. \A p \in DOMAIN config.fans : Agree(config.fans[p].levels)
    BY <2>2 DEF Mapped
  <2> QED
    BY <2>3 DEF LevelsAgree, Agree
<1> QED
  BY <1>1, Invariant, PTL

-----------------------------------------------------------------------------
(* What is left to be done *)

\* How far the reading can have come in a section or a turn of the loop.
InRange ==
  /\ pc = "sensors" => at <= Len(doc.sensors) + 1
  /\ pc = "fans" => at <= Len(doc.fans) + 1
  /\ pc = "own" => mark <= Len(doc.fans[at].levels) + 1
  /\ pc = "global" => mark <= Len(doc.levels) + 1
  /\ pc \in LegacyPhases \ {"blanks"} => mark <= at

\* The inductive invariant of the way to the end.
RangeInv == IInv /\ InRange

\* The four ways to get nearer to the end.
LEMMA NearerWays ==
  ASSUME \/ Len(queue') < Len(queue)
         \/ queue' = queue /\ Stage' < Stage
         \/ queue' = queue /\ Stage' = Stage /\ EntriesLeft' < EntriesLeft
         \/ /\ queue' = queue /\ Stage' = Stage /\ EntriesLeft' = EntriesLeft
            /\ StepsLeft' < StepsLeft
  PROVE  Nearer
<1> DEFINE a == Len(queue)
           b == Stage
           c == EntriesLeft
           d == StepsLeft
<1>1. /\ Remaining[1] = a /\ Remaining[2] = b /\ Remaining[3] = c /\ Remaining[4] = d
      /\ Remaining'[1] = a' /\ Remaining'[2] = b' /\ Remaining'[3] = c' /\ Remaining'[4] = d'
  BY DEF Remaining
<1>2. \/ a' < a
      \/ a' = a /\ b' < b
      \/ a' = a /\ b' = b /\ c' < c
      \/ a' = a /\ b' = b /\ c' = c /\ d' < d
  OBVIOUS
<1> HIDE DEF a, b, c, d
<1>3. CASE a' < a
  BY <1>1, <1>3 DEF Nearer
<1>4. CASE a' = a /\ b' < b
  BY <1>1, <1>4 DEF Nearer
<1>5. CASE a' = a /\ b' = b /\ c' < c
  BY <1>1, <1>5 DEF Nearer
<1>6. CASE a' = a /\ b' = b /\ c' = c /\ d' < d
  BY <1>1, <1>6 DEF Nearer
<1> QED
  BY <1>2, <1>3, <1>4, <1>5, <1>6

\* The arithmetic of what is left.
LEMMA OneLess ==
  ASSUME NEW n \in Nat, NEW i \in Nat, NEW x, NEW y
  PROVE  /\ x = n + 1 - i /\ y = n + 1 - (i + 1) => y < x
         /\ x = 2 * (n + 1 - i) + 1 /\ y = 2 * (n + 1 - (i + 1)) + 1 => y < x
         /\ x = 2 * (n + 1 - i) + 1 /\ y = 2 * (n + 1 - i) => y < x
         /\ x = 2 * (n + 1 - i) /\ y = 2 * (n + 1 - (i + 1)) + 1 => y < x
  OBVIOUS

\* A stage is a number.
LEMMA StageType == Stage \in 0..6
  BY DEF Stage

\* What is in the file, where the reading needs it.
LEMMA RangeTypes ==
  ASSUME IInv
  PROVE  /\ at \in Nat \ {0} /\ mark \in Nat \ {0} /\ Len(queue) \in Nat
         /\ pc = "sensors" => Len(doc.sensors) \in Nat
         /\ pc \in {"fans", "own"} => Len(doc.fans) \in Nat
         /\ pc = "own" => at <= Len(doc.fans) /\ Len(doc.fans[at].levels) \in Nat
         /\ pc = "global" => Len(doc.levels) \in Nat
         /\ pc \in LegacyPhases => Len(text) \in Nat /\ at <= Len(text) + 1
<1>1. Opened /\ Sections /\ Shaped /\ LegacyAt
  BY DEF IInv, ReadInv
<1>2. pc \in YamlPhases => ~NotYaml
  BY <1>1 DEF Opened
<1>3. Len(queue) \in Nat
  <2>1. PICK i \in DOMAIN Names : queue = SubSeq(Names, i, Len(Names))
    BY <1>1 DEF Opened
  <2>2. i \in Nat /\ Len(Names) \in Nat /\ i <= Len(Names)
    BY NamesType
  <2>3. Len(queue) = Len(Names) - i + 1
    BY <2>1, QueueSplit
  <2> QED
    BY <2>2, <2>3
<1>4. pc = "sensors" => Len(doc.sensors) \in Nat
  BY <1>1, <1>2, DocType DEF Sections, YamlPhases
<1>5. pc \in {"fans", "own"} => Len(doc.fans) \in Nat /\ DOMAIN doc.fans = 1..Len(doc.fans)
  BY <1>1, <1>2, DocType DEF Sections, YamlPhases
<1>6. pc = "own" => at <= Len(doc.fans) /\ Len(doc.fans[at].levels) \in Nat
  <2>1. SUFFICES ASSUME pc = "own"
                 PROVE  at <= Len(doc.fans) /\ Len(doc.fans[at].levels) \in Nat
    OBVIOUS
  <2>2. at \in DOMAIN doc.fans /\ Written(doc.fans) /\ Written(doc.fans[at].levels) /\ ~NotYaml
    BY <1>1, <1>2, <2>1 DEF Sections, YamlPhases
  <2>3. IsLevels(doc.fans[at].levels)
    BY <1>1, <2>2, DocType
  <2> QED
    BY <1>5, <2>1, <2>2, <2>3 DEF IsLevels
<1>7. pc = "global" => Len(doc.levels) \in Nat
  BY <1>1, <1>2, DocType DEF Sections, YamlPhases, IsLevels
<1>8. pc \in LegacyPhases => Len(text) \in Nat /\ at <= Len(text) + 1
  BY <1>1, TextType DEF LegacyAt
<1> QED
  BY <1>1, <1>3, <1>4, <1>5, <1>6, <1>7, <1>8 DEF Shaped

\* What is left is natural numbers.
LEMMA RemainingType ==
  ASSUME RangeInv
  PROVE  Remaining \in Nat \X Nat \X Nat \X Nat
<1>1. IInv /\ InRange
  BY DEF RangeInv
<1>2. EntriesLeft \in Nat
  BY <1>1, RangeTypes DEF EntriesLeft, InRange, LegacyPhases
<1>3. StepsLeft \in Nat
  BY <1>1, RangeTypes DEF StepsLeft, InRange
<1> QED
  BY <1>1, <1>2, <1>3, RangeTypes, StageType DEF Remaining

-----------------------------------------------------------------------------
(* Every step leaves less: the YAML decoder *)

\* The end of read_config is the end.
LEMMA FinishNearer ==
  ASSUME pc # "over", NEW result, Finish(result)
  PROVE  InRange' /\ Nearer
<1>1. pc' = "over" /\ queue' = queue
  BY DEF Finish
<1>2. InRange'
  BY <1>1 DEF InRange, LegacyPhases
<1>3. Stage' < Stage
  BY <1>1 DEF Stage
<1> QED
  BY <1>1, <1>2, <1>3, NearerWays

\* An exception is, too, or leads to the second attempt at `fans:'.
LEMMA ThrowNearer ==
  ASSUME pc \in YamlPhases, NEW e, Throw(e)
  PROVE  InRange' /\ Nearer
<1>1. CASE e = "BadConversion" /\ pc \in {"fans", "own"}
  <2>1. pc' = "single" /\ queue' = queue
    BY <1>1 DEF Throw
  <2>2. InRange'
    BY <2>1 DEF InRange, LegacyPhases
  <2>3. Stage' < Stage
    BY <1>1, <2>1 DEF Stage
  <2> QED
    BY <2>1, <2>2, <2>3, NearerWays
<1>2. CASE ~(e = "BadConversion" /\ pc \in {"fans", "own"})
  BY <1>2, FinishNearer DEF Throw, YamlPhases
<1> QED
  BY <1>1, <1>2

\* A step to a later stage, of a file that stays the same.
LEMMA StageNearer ==
  ASSUME queue' = queue, Stage' < Stage, InRange'
  PROVE  InRange' /\ Nearer
  BY NearerWays

\* Opening a file.
LEMMA OpenNearer ==
  ASSUME RangeInv, IInv', CannotOpen \/ OpenYaml \/ OpenLegacy
  PROVE  InRange' /\ Nearer
<1>1. pc = "open"
  BY DEF CannotOpen, OpenYaml, OpenLegacy
<1>2. CASE \E result : Finish(result)
  BY <1>1, <1>2, FinishNearer
<1>3. CASE pc' = pc /\ queue' = Tail(queue) /\ Len(queue) > 1
  <2>1. PICK i \in DOMAIN Names : queue = SubSeq(Names, i, Len(Names))
    BY DEF RangeInv, IInv, ReadInv, Opened
  <2>2. i + 1 \in DOMAIN Names /\ queue' = SubSeq(Names, i + 1, Len(Names))
    BY <1>3, <2>1, QueueSplit
  <2>3. i \in Nat /\ Len(Names) \in Nat /\ i + 1 <= Len(Names)
    BY <2>2, NamesType
  <2>4. Len(queue) = Len(Names) - i + 1
    BY <2>1, QueueSplit
  <2>5. Len(queue') = Len(Names) - (i + 1) + 1
    <3>1. /\ Names \in Seq({Names[k] : k \in DOMAIN Names}) /\ i + 1 \in 1..Len(Names)
      BY <2>2, NamesAssumption, NamesType DEF IsSeq
    <3> QED
      BY <2>2, <2>3, <3>1, SubSeqProperties
  <2>6. Len(queue') < Len(queue)
    BY <2>3, <2>4, <2>5
  <2>7. InRange'
    BY <1>1, <1>3 DEF InRange, LegacyPhases
  <2> QED
    BY <2>6, <2>7, NearerWays
<1>4. CASE pc' \in {"keys", "blanks"} /\ queue' = queue
  <2>1. InRange'
    BY <1>4 DEF InRange, LegacyPhases
  <2>2. Stage' < Stage
    BY <1>1, <1>4 DEF Stage
  <2> QED
    BY <1>4, <2>1, <2>2, StageNearer
<1> QED
  BY <1>2, <1>3, <1>4 DEF CannotOpen, OpenYaml, OpenLegacy

\* What DocType says of the document, in a YAML file.
LEMMA YamlDoc ==
  ASSUME RangeInv, pc \in YamlPhases
  PROVE  /\ Written(doc.sensors) => Len(doc.sensors) \in Nat
         /\ Written(doc.fans) => Len(doc.fans) \in Nat /\ DOMAIN doc.fans = 1..Len(doc.fans)
         /\ Written(doc.levels) => Len(doc.levels) \in Nat
         /\ \A i \in DOMAIN doc.fans : Written(doc.fans) /\ Written(doc.fans[i].levels)
              => Len(doc.fans[i].levels) \in Nat
<1>1. Opened /\ ~NotYaml
  BY DEF RangeInv, IInv, ReadInv, Opened
<1> QED
  BY <1>1, DocType DEF IsLevels

\* The top level of the document is looked through.
LEMMA KeysNearer ==
  ASSUME RangeInv, IInv', Keys
  PROVE  InRange' /\ Nearer
<1>1. pc = "keys" /\ pc \in YamlPhases
  BY DEF Keys, YamlPhases
<1>2. CASE Throw("YamlError")
  BY <1>1, <1>2, ThrowNearer
<1>3. CASE ~Throw("YamlError")
  <2>1. pc' = "sensors" /\ at' = 1 /\ UNCHANGED <<fs, queue>> /\ Written(doc.sensors)
    BY <1>3 DEF Keys, Continue, Written
  <2>2. Len(doc.sensors) \in Nat /\ doc' = doc
    BY <1>1, <2>1, YamlDoc DEF doc
  <2>3. InRange'
    BY <2>1, <2>2 DEF InRange, LegacyPhases
  <2>4. Stage' < Stage
    BY <1>1, <2>1 DEF Stage
  <2> QED
    BY <2>1, <2>3, <2>4, StageNearer
<1> QED
  BY <1>2, <1>3

\* A sensor is decoded.
LEMMA SensorEntryNearer ==
  ASSUME RangeInv, IInv', SensorEntry
  PROVE  InRange' /\ Nearer
<1>1. pc = "sensors" /\ pc \in YamlPhases /\ at <= Len(doc.sensors)
  BY DEF SensorEntry, YamlPhases
<1>2. CASE \E e : Throw(e)
  BY <1>1, <1>2, ThrowNearer
<1>3. CASE ~\E e : Throw(e)
  <2>1. pc' = pc /\ at' = at + 1 /\ UNCHANGED <<fs, queue>>
    BY <1>3 DEF SensorEntry, Continue
  <2>2. Len(doc.sensors) \in Nat /\ at \in Nat /\ doc' = doc
    BY <1>1, <2>1, RangeTypes DEF RangeInv, doc
  <2>3. InRange'
    BY <1>1, <2>1, <2>2 DEF InRange, LegacyPhases
  <2>4. Stage' = Stage /\ EntriesLeft' < EntriesLeft
    <3>1. Stage' = Stage
      BY <2>1 DEF Stage
    <3>2. EntriesLeft = Len(doc.sensors) + 1 - at
      BY <1>1 DEF EntriesLeft
    <3>3. EntriesLeft' = Len(doc.sensors) + 1 - (at + 1)
      BY <1>1, <2>1, <2>2 DEF EntriesLeft
    <3> QED
      BY <2>2, <3>1, <3>2, <3>3, OneLess, Zenon
  <2> QED
    BY <2>1, <2>3, <2>4, NearerWays
<1> QED
  BY <1>2, <1>3

\* `sensors:' has been decoded.
LEMMA SensorsDoneNearer ==
  ASSUME RangeInv, IInv', SensorsDone
  PROVE  InRange' /\ Nearer
<1>1. pc = "sensors" /\ pc \in YamlPhases
  BY DEF SensorsDone, YamlPhases
<1>2. CASE \E e : Throw(e)
  BY <1>1, <1>2, ThrowNearer
<1>3. CASE ~\E e : Throw(e)
  <2>1. pc' = "fans" /\ at' = 1 /\ UNCHANGED <<fs, queue>>
    BY <1>3 DEF SensorsDone, Continue
  <2>2. Written(doc.fans) /\ doc' = doc
    BY <2>1 DEF IInv, ReadInv, Sections, doc
  <2>3. Len(doc.fans) \in Nat
    BY <1>1, <2>2, YamlDoc
  <2>4. InRange'
    BY <2>1, <2>2, <2>3 DEF InRange, LegacyPhases
  <2>5. Stage' < Stage
    BY <1>1, <2>1 DEF Stage
  <2> QED
    BY <2>1, <2>4, <2>5, StageNearer
<1> QED
  BY <1>2, <1>3

\* A fan entry is decoded: it waits, or its levels are next.
LEMMA FanEntryNearer ==
  ASSUME RangeInv, IInv', FanEntry
  PROVE  InRange' /\ Nearer
<1>1. pc = "fans" /\ pc \in YamlPhases /\ at <= Len(doc.fans)
  BY DEF FanEntry, YamlPhases
<1>2. Len(doc.fans) \in Nat /\ at \in Nat \ {0}
  BY <1>1, RangeTypes DEF RangeInv
<1>3. CASE \E e : Throw(e)
  BY <1>1, <1>3, ThrowNearer
<1>4. CASE pc' = pc /\ at' = at + 1 /\ UNCHANGED <<fs, queue>>
  <2>1. doc' = doc
    BY <1>4 DEF doc
  <2>2. InRange'
    BY <1>1, <1>2, <1>4, <2>1 DEF InRange, LegacyPhases
  <2>3. Stage' = Stage /\ EntriesLeft' < EntriesLeft
    <3>1. Stage' = Stage
      BY <1>4 DEF Stage
    <3>2. EntriesLeft = 2 * (Len(doc.fans) + 1 - at) + 1
      BY <1>1 DEF EntriesLeft
    <3>3. EntriesLeft' = 2 * (Len(doc.fans) + 1 - (at + 1)) + 1
      BY <1>1, <1>4, <2>1 DEF EntriesLeft
    <3> QED
      BY <1>2, <3>1, <3>2, <3>3, OneLess, Zenon
  <2> QED
    BY <1>4, <2>2, <2>3, NearerWays
<1>5. CASE pc' = "own" /\ mark' = 1 /\ at' = at /\ UNCHANGED <<fs, queue>>
  <2>1. doc' = doc
    BY <1>5 DEF doc
  <2>2. at \in DOMAIN doc.fans /\ Written(doc.fans) /\ Written(doc.fans[at].levels)
    BY <1>5, <2>1 DEF IInv, ReadInv, Sections
  <2>3. Len(doc.fans[at].levels) \in Nat
    BY <1>1, <2>2, YamlDoc
  <2>4. InRange'
    BY <1>5, <2>1, <2>3 DEF InRange, LegacyPhases
  <2>5. Stage' = Stage /\ EntriesLeft' < EntriesLeft
    <3>1. Stage' = Stage
      BY <1>1, <1>5 DEF Stage
    <3>2. EntriesLeft = 2 * (Len(doc.fans) + 1 - at) + 1
      BY <1>1 DEF EntriesLeft
    <3>3. EntriesLeft' = 2 * (Len(doc.fans) + 1 - at)
      BY <1>5, <2>1 DEF EntriesLeft
    <3> QED
      BY <1>2, <3>1, <3>2, <3>3, OneLess, Zenon
  <2> QED
    BY <1>5, <2>4, <2>5, NearerWays
<1> QED
  BY <1>3, <1>4, <1>5 DEF FanEntry, Continue

\* A level is decoded.
LEMMA LevelNearer ==
  ASSUME RangeInv, IInv', OwnLevel \/ GlobalLevel
  PROVE  InRange' /\ Nearer
<1>1. pc \in YamlPhases
  BY DEF OwnLevel, GlobalLevel, YamlPhases
<1>2. CASE \E e : Throw(e)
  BY <1>1, <1>2, ThrowNearer
<1>3. CASE ~\E e : Throw(e)
  <2>1. pc' = pc /\ at' = at /\ mark' = mark + 1 /\ UNCHANGED <<fs, queue>>
    BY <1>3 DEF OwnLevel, GlobalLevel, Level, Continue
  <2>2. doc' = doc /\ mark \in Nat
    BY <2>1, RangeTypes DEF doc, RangeInv
  <2>3. Stage' = Stage
    BY <2>1 DEF Stage
  <2>4. CASE pc = "own"
    <3>1. mark <= Len(doc.fans[at].levels) /\ Len(doc.fans[at].levels) \in Nat
      BY <2>4, RangeTypes DEF OwnLevel, GlobalLevel, Level, RangeInv
    <3>2. InRange'
      BY <2>1, <2>2, <2>4, <3>1 DEF InRange, LegacyPhases
    <3>3. EntriesLeft' = EntriesLeft
      BY <2>1, <2>2, <2>4 DEF EntriesLeft
    <3>4. StepsLeft' < StepsLeft
      <4>1. StepsLeft = Len(doc.fans[at].levels) + 1 - mark
        BY <2>4 DEF StepsLeft
      <4>2. StepsLeft' = Len(doc.fans[at].levels) + 1 - (mark + 1)
        BY <2>1, <2>2, <2>4 DEF StepsLeft
      <4> QED
        BY <2>2, <3>1, <4>1, <4>2, OneLess, Zenon
    <3> QED
      BY <2>1, <2>3, <3>2, <3>3, <3>4, NearerWays
  <2>5. CASE pc = "global"
    <3>1. mark <= Len(doc.levels) /\ Len(doc.levels) \in Nat
      BY <2>5, RangeTypes DEF OwnLevel, GlobalLevel, Level, RangeInv
    <3>2. InRange'
      BY <2>1, <2>2, <2>5, <3>1 DEF InRange, LegacyPhases
    <3>3. EntriesLeft' = EntriesLeft /\ StepsLeft' < StepsLeft
      BY <2>1, <2>2, <2>5, <3>1 DEF EntriesLeft, StepsLeft
    <3> QED
      BY <2>1, <2>3, <3>2, <3>3, NearerWays
  <2> QED
    BY <2>4, <2>5 DEF OwnLevel, GlobalLevel
<1> QED
  BY <1>2, <1>3

\* The levels of a group have been decoded: on with the next entry.
LEMMA OwnDoneNearer ==
  ASSUME RangeInv, IInv', OwnDone
  PROVE  InRange' /\ Nearer
<1>1. pc = "own" /\ pc' = "fans" /\ at' = at + 1 /\ UNCHANGED <<fs, queue>>
  BY DEF OwnDone, Continue
<1>2. Len(doc.fans) \in Nat /\ at \in Nat \ {0} /\ at <= Len(doc.fans) /\ doc' = doc
  BY <1>1, RangeTypes DEF RangeInv, doc
<1>3. InRange'
  BY <1>1, <1>2 DEF InRange, LegacyPhases
<1>4. Stage' = Stage /\ EntriesLeft' < EntriesLeft
  <2>1. Stage' = Stage
    BY <1>1 DEF Stage
  <2>2. EntriesLeft = 2 * (Len(doc.fans) + 1 - at)
    BY <1>1 DEF EntriesLeft
  <2>3. EntriesLeft' = 2 * (Len(doc.fans) + 1 - (at + 1)) + 1
    BY <1>1, <1>2 DEF EntriesLeft
  <2> QED
    BY <1>2, <2>1, <2>2, <2>3, OneLess, Zenon
<1> QED
  BY <1>1, <1>3, <1>4, NearerWays

\* `fans:' has been decoded.
LEMMA FansDoneNearer ==
  ASSUME RangeInv, FansDone
  PROVE  InRange' /\ Nearer
<1>1. pc = "fans" /\ pc \in YamlPhases
  BY DEF FansDone, YamlPhases
<1> QED
  BY <1>1, ThrowNearer, FinishNearer DEF FansDone

\* The second attempt at `fans:' ends, or the levels of the top level are next.
LEMMA SingleFanNearer ==
  ASSUME RangeInv, IInv', SingleFan
  PROVE  InRange' /\ Nearer
<1>1. pc = "single" /\ pc \in YamlPhases
  BY DEF SingleFan, YamlPhases
<1>2. CASE \E e : Throw(e)
  BY <1>1, <1>2, ThrowNearer
<1>3. CASE ~\E e : Throw(e)
  <2>1. pc' = "global" /\ mark' = 1 /\ UNCHANGED <<fs, queue>>
    BY <1>3 DEF SingleFan, Continue
  <2>2. Written(doc.levels) /\ doc' = doc
    BY <2>1 DEF IInv, ReadInv, Sections, doc
  <2>3. Len(doc.levels) \in Nat
    BY <1>1, <2>2, YamlDoc
  <2>4. InRange'
    BY <2>1, <2>2, <2>3 DEF InRange, LegacyPhases
  <2>5. Stage' < Stage
    BY <1>1, <2>1 DEF Stage
  <2> QED
    BY <2>1, <2>4, <2>5, StageNearer
<1> QED
  BY <1>2, <1>3

\* The levels of the top level have been decoded.
LEMMA GlobalDoneNearer ==
  ASSUME GlobalDone
  PROVE  InRange' /\ Nearer
<1>1. pc = "global" /\ pc' = "over" /\ queue' = queue
  BY DEF GlobalDone
<1>2. InRange'
  BY <1>1 DEF InRange, LegacyPhases
<1>3. Stage' < Stage
  BY <1>1 DEF Stage
<1> QED
  BY <1>1, <1>2, <1>3, StageNearer

-----------------------------------------------------------------------------
(* Every step leaves less: the legacy parser *)

\* A step of the legacy parser within a turn of its loop, or to the next turn.
LEMMA TurnNearer ==
  ASSUME RangeInv, UNCHANGED <<fs, queue>>,
         pc \in LegacyPhases, pc' \in LegacyPhases, InRange',
         \/ EntriesLeft' < EntriesLeft
         \/ EntriesLeft' = EntriesLeft /\ StepsLeft' < StepsLeft
  PROVE  Nearer
<1>1. Stage' = Stage
  BY DEF Stage, LegacyPhases
<1> QED
  BY <1>1, NearerWays

\* A turn begins.
LEMMA BeginIterationNearer ==
  ASSUME RangeInv, BeginIteration
  PROVE  InRange' /\ Nearer
<1>1. pc = "blanks" /\ pc' = "fan" /\ mark' = at /\ at' = PastBlanks(at)
      /\ UNCHANGED <<fs, queue>>
  BY DEF BeginIteration
<1>2. at \in Nat \ {0} /\ at <= Len(text) + 1 /\ Opened
  BY <1>1, RangeTypes DEF RangeInv, LegacyPhases, IInv, ReadInv
<1>3. PastBlanks(at) \in at..(Len(text) + 1)
  BY <1>2, PastBlanksProperties
<1>4. mark' <= at'
  BY <1>1, <1>2, <1>3
<1>5. InRange'
  BY <1>1, <1>4 DEF InRange, LegacyPhases
<1>6. EntriesLeft' = EntriesLeft
  BY <1>1 DEF EntriesLeft, text
<1>7. StepsLeft' < StepsLeft
  BY <1>1 DEF StepsLeft
<1> QED
  BY <1>1, <1>5, <1>6, <1>7, TurnNearer DEF LegacyPhases

\* The next parser has its turn, whether this one took a statement or left.
LEMMA ParserNearer ==
  ASSUME RangeInv, UNCHANGED <<fs, queue, mark>>, at' = at \/ at' = at + 1,
         \/ pc = "fan" /\ pc' = "sensor"
         \/ pc = "sensor" /\ pc' = "simple"
         \/ pc = "simple" /\ pc' = "complex"
         \/ pc = "complex" /\ pc' = "while"
  PROVE  InRange' /\ Nearer
<1>1. pc \in LegacyPhases \ {"blanks"} /\ pc' \in LegacyPhases \ {"blanks"}
  BY DEF LegacyPhases
<1>2. mark <= at /\ at \in Nat /\ mark \in Nat
  BY <1>1, RangeTypes DEF RangeInv, InRange
<1>3. mark' <= at'
  BY <1>2
<1>4. InRange'
  BY <1>1, <1>3 DEF InRange, LegacyPhases
<1>5. EntriesLeft' = EntriesLeft
  BY DEF EntriesLeft, text
<1>6. StepsLeft' < StepsLeft
  BY DEF StepsLeft
<1> QED
  BY <1>1, <1>4, <1>5, <1>6, TurnNearer

\* Any of the parsers: it ends the reading, or the next has its turn.
LEMMA StatementNearer ==
  ASSUME RangeInv,
         FanStatement \/ SensorStatement \/ SimpleStatement \/ ComplexStatement
  PROVE  InRange' /\ Nearer
<1>1. pc # "over"
  BY DEF FanStatement, SensorStatement, SimpleStatement, ComplexStatement
<1>2. CASE \E result : Finish(result)
  BY <1>1, <1>2, FinishNearer
<1>3. CASE ~\E result : Finish(result)
  <2>1. UNCHANGED <<fs, queue, mark>> /\ (at' = at \/ at' = at + 1)
    BY <1>3 DEF FanStatement, SensorStatement, SimpleStatement, ComplexStatement,
                LevelStatement, Took, Left, building
  <2>2. \/ pc = "fan" /\ pc' = "sensor"
        \/ pc = "sensor" /\ pc' = "simple"
        \/ pc = "simple" /\ pc' = "complex"
        \/ pc = "complex" /\ pc' = "while"
    BY <1>3 DEF FanStatement, SensorStatement, SimpleStatement, ComplexStatement,
                LevelStatement
  <2> QED
    BY <2>1, <2>2, ParserNearer
<1> QED
  BY <1>2, <1>3

\* Another turn comes only if this one got on in the text.
LEMMA EndIterationNearer ==
  ASSUME RangeInv, EndIteration
  PROVE  InRange' /\ Nearer
<1>1. pc = "while" /\ pc' = "blanks" /\ at > mark /\ UNCHANGED <<fs, queue, at, mark>>
  BY DEF EndIteration, Left, building
<1>2. at \in Nat /\ mark \in Nat /\ Len(text) \in Nat
  BY <1>1, RangeTypes DEF RangeInv, LegacyPhases
<1>3. InRange'
  BY <1>1 DEF InRange, LegacyPhases
<1>4. EntriesLeft' < EntriesLeft
  <2>1. EntriesLeft = Len(text) + 1 - mark
    BY <1>1 DEF EntriesLeft
  <2>2. EntriesLeft' = Len(text) + 1 - at
    BY <1>1 DEF EntriesLeft, text
  <2>3. \A x, y : \A n, i, j \in Nat :
          i > j /\ x = n + 1 - j /\ y = n + 1 - i => y < x
    OBVIOUS
  <2> QED
    BY <1>1, <1>2, <2>1, <2>2, <2>3, Zenon
<1> QED
  BY <1>1, <1>3, <1>4, TurnNearer DEF LegacyPhases

\* The loop ends.
LEMMA EndOfTextNearer ==
  ASSUME EndOfText
  PROVE  InRange' /\ Nearer
<1>1. pc = "while" /\ pc' = "over" /\ queue' = queue
  BY DEF EndOfText
<1>2. InRange'
  BY <1>1 DEF InRange, LegacyPhases
<1>3. Stage' < Stage
  BY <1>1 DEF Stage
<1> QED
  BY <1>1, <1>2, <1>3, StageNearer

\* Every step gets nearer to the end.
LEMMA NextNearer ==
  ASSUME RangeInv, Next
  PROVE  RangeInv' /\ Nearer
<1>1. IInv'
  BY NextInv DEF RangeInv
<1>2. CASE Decode
  BY <1>1, <1>2, KeysNearer, SensorEntryNearer, SensorsDoneNearer, FanEntryNearer,
     LevelNearer, OwnDoneNearer, FansDoneNearer, SingleFanNearer, GlobalDoneNearer
     DEF Decode, RangeInv
<1>3. CASE ParseLegacy
  BY <1>1, <1>3, BeginIterationNearer, StatementNearer, EndIterationNearer,
     EndOfTextNearer DEF ParseLegacy, RangeInv
<1>4. CASE CannotOpen \/ OpenYaml \/ OpenLegacy
  BY <1>1, <1>4, OpenNearer DEF RangeInv
<1> QED
  BY <1>2, <1>3, <1>4 DEF Next

\* It holds always.
LEMMA RangeInvariance == Spec => []RangeInv
<1>1. Init => RangeInv
  BY InitInv DEF Init, RangeInv, InRange, LegacyPhases
<1>2. RangeInv /\ UNCHANGED vars => RangeInv'
  <2> SUFFICES ASSUME RangeInv, UNCHANGED vars PROVE RangeInv'
    OBVIOUS
  <2>1. IInv'
    BY NextInv DEF RangeInv
  <2>2. InRange'
    BY DEF vars, RangeInv, InRange, doc, file
  <2> QED
    BY <2>1, <2>2 DEF RangeInv
<1>3. RangeInv /\ [Next]_vars => RangeInv'
  BY <1>2, NextNearer
<1> QED
  BY <1>1, <1>3, PTL DEF Spec

\* For any files and contents, each step of the reading leaves less to be done:
\* of natural numbers in lexicographic order, so that there cannot be steps for
\* ever (config.cpp:141, yamlconfig.cpp:585, parser.cpp:365-388).
THEOREM OnwardTheorem == Spec => Onward
<1>1. RangeInv /\ [Next]_vars => [InNumbers /\ Nearer]_vars
  BY RemainingType, NextNearer DEF InNumbers
<1> QED
  BY <1>1, RangeInvariance, PTL DEF Spec, Onward

-----------------------------------------------------------------------------
(* The inductive invariant of the legacy parser *)

\* The statements of some kinds before the n-th of a text.
Before(t, n, kinds) == {i \in 1..(n - 1) : t[i].is \in kinds}

\* The keywords that one of the parsers takes.
Kinds == Blanks \union SensorKeywords \union {"level"} \union FanKeywords

\* Everything that was passed is of a kind that some parser takes.
PassedAll == \A i \in 1..(at - 1) : text[i].is \in Kinds

\* The configuration has the sensors that have been passed, each once and in order.
SensorsTaken ==
  /\ Len(config.sensors) = Cardinality(Before(text, at, SensorKeywords))
  /\ \A p \in DOMAIN config.sensors : config.sensors[p] \in Before(text, at, SensorKeywords)
  /\ \A p, q \in DOMAIN config.sensors : p < q => config.sensors[p] < config.sensors[q]

\* The fan has the levels that have been passed, each once and in order.
LevelsTaken ==
  /\ Len(filling[1].levels) = Cardinality(Before(text, at, {"level"}))
  /\ \A i \in Before(text, at, {"level"}) :
       filling[1].levels[Cardinality(Before(text, i + 1, {"level"}))].speed = text[i].speed

\* The fan is the last that has been passed.
FanTaken ==
  \/ Before(text, at, FanKeywords) = {} /\ filling[1].fan = Absent
  \/ /\ filling[1].fan \in Before(text, at, FanKeywords)
     /\ \A i \in Before(text, at, FanKeywords) : i <= filling[1].fan

\* All of this is said of the text up to `at'.
Taken == PassedAll /\ SensorsTaken /\ LevelsTaken /\ FanTaken

\* The inductive invariant of the legacy parser.
WholeInv ==
  /\ IInv
  /\ pc = "open" => config = Empty
  /\ pc \in LegacyPhases => Taken
  /\ FromLegacy => /\ Taken /\ at = Len(text) + 1
                   /\ config.fans = filling /\ Len(filling) = 1

\* There are finitely many statements before the n-th.
LEMMA BeforeFinite ==
  ASSUME NEW t, NEW n \in Nat, NEW kinds
  PROVE  IsFiniteSet(Before(t, n, kinds)) /\ Cardinality(Before(t, n, kinds)) \in Nat
<1>1. Before(t, n, kinds) \subseteq 1..(n - 1)
  BY DEF Before
<1>2. IsFiniteSet(1..(n - 1))
  BY FS_Interval
<1> QED
  BY <1>1, <1>2, FS_Subset, FS_CardinalityType

\* The n-th statement is one more if it is of the kind, and else nothing changes.
LEMMA BeforeNext ==
  ASSUME NEW t, NEW n \in Nat \ {0}, NEW kinds
  PROVE  /\ t[n].is \notin kinds => Before(t, n + 1, kinds) = Before(t, n, kinds)
         /\ t[n].is \in kinds =>
              /\ Before(t, n + 1, kinds) = Before(t, n, kinds) \union {n}
              /\ n \notin Before(t, n, kinds)
              /\ Cardinality(Before(t, n + 1, kinds)) = Cardinality(Before(t, n, kinds)) + 1
<1>1. \A i : i \in 1..((n + 1) - 1) <=> (i \in 1..(n - 1) \/ i = n)
  OBVIOUS
<1>2. n \notin 1..(n - 1)
  OBVIOUS
<1>3. t[n].is \notin kinds => Before(t, n + 1, kinds) = Before(t, n, kinds)
  BY <1>1 DEF Before
<1>4. t[n].is \in kinds =>
        Before(t, n + 1, kinds) = Before(t, n, kinds) \union {n} /\ n \notin Before(t, n, kinds)
  BY <1>1, <1>2 DEF Before
<1> QED
  BY <1>3, <1>4, BeforeFinite, FS_AddElement

\* Of those before the n-th, those up to the i-th are not more.
LEMMA BeforeLess ==
  ASSUME NEW t, NEW n \in Nat, NEW kinds, NEW i \in Before(t, n, kinds)
  PROVE  Cardinality(Before(t, i + 1, kinds)) \in 1..Cardinality(Before(t, n, kinds))
<1>1. i \in Nat \ {0} /\ i <= n - 1 /\ t[i].is \in kinds
  BY DEF Before
<1>2. Before(t, i + 1, kinds) \subseteq Before(t, n, kinds)
  BY <1>1 DEF Before
<1>3. Cardinality(Before(t, i + 1, kinds)) <= Cardinality(Before(t, n, kinds))
  BY <1>2, BeforeFinite, FS_Subset
<1>4. Cardinality(Before(t, i + 1, kinds)) = Cardinality(Before(t, i, kinds)) + 1
  BY <1>1, BeforeNext
<1> QED
  BY <1>1, <1>3, <1>4, BeforeFinite

\* Skipping the white space takes no statement.
LEMMA BlanksBefore ==
  ASSUME NEW t, NEW n \in Nat \ {0}, NEW m \in Nat, n <= m,
         \A k \in n..(m - 1) : t[k].is \in Blanks, NEW kinds, kinds \intersect Blanks = {}
  PROVE  Before(t, m, kinds) = Before(t, n, kinds)
<1>1. \A i \in 1..(m - 1) : i \in 1..(n - 1) \/ i \in n..(m - 1)
  OBVIOUS
<1>2. 1..(n - 1) \subseteq 1..(m - 1)
  OBVIOUS
<1> QED
  BY <1>1, <1>2 DEF Before

\* No statement is of two kinds.
LEMMA KindsApart ==
  /\ SensorKeywords \intersect Blanks = {} /\ FanKeywords \intersect Blanks = {}
  /\ {"level"} \intersect Blanks = {}
  /\ SensorKeywords \intersect FanKeywords = {}
  /\ "level" \notin SensorKeywords /\ "level" \notin FanKeywords
  BY DEF SensorKeywords, FanKeywords, Blanks

\* A statement that is taken.
LEMMA PassedTook ==
  ASSUME PassedAll, at \in Nat \ {0}, at' = at + 1, UNCHANGED <<fs, queue>>,
         text[at].is \in Kinds
  PROVE  PassedAll'
<1>1. \A i \in 1..(at' - 1) : i \in 1..(at - 1) \/ i = at
  OBVIOUS
<1>2. text' = text
  BY DEF text
<1> QED
  BY <1>1, <1>2 DEF PassedAll

\* A step that takes no sensor keeps what is said of the sensors; and so on.
LEMMA SensorsKept ==
  ASSUME SensorsTaken, UNCHANGED <<fs, queue>>, config'.sensors = config.sensors,
         Before(text, at', SensorKeywords) = Before(text, at, SensorKeywords)
  PROVE  SensorsTaken'
<1>1. text' = text
  BY DEF text
<1> QED
  BY <1>1 DEF SensorsTaken

\* If it takes no level, what is said of the levels;
LEMMA LevelsKept ==
  ASSUME LevelsTaken, UNCHANGED <<fs, queue>>, filling'[1].levels = filling[1].levels,
         Before(text, at', {"level"}) = Before(text, at, {"level"})
  PROVE  LevelsTaken'
<1>1. text' = text
  BY DEF text
<1> QED
  BY <1>1 DEF LevelsTaken

\* if it takes no fan, what is said of the fan.
LEMMA FanKept ==
  ASSUME FanTaken, UNCHANGED <<fs, queue>>, filling'[1].fan = filling[1].fan,
         Before(text, at', FanKeywords) = Before(text, at, FanKeywords)
  PROVE  FanTaken'
<1>1. text' = text
  BY DEF text
<1> QED
  BY <1>1 DEF FanTaken

\* A sensor is taken.
LEMMA SensorsGrow ==
  ASSUME SensorsTaken, UNCHANGED <<fs, queue>>, at \in Nat \ {0}, at' = at + 1,
         config.sensors \in Seq(Nat \union (Nat \X Nat)), text[at].is \in SensorKeywords,
         config'.sensors = Append(config.sensors, at)
  PROVE  SensorsTaken'
<1> DEFINE old == Before(text, at, SensorKeywords)
           new == Before(text, at + 1, SensorKeywords)
           s == config.sensors
           t == Append(s, at)
<1>1. text' = text
  BY DEF text
<1>2. new = old \union {at} /\ Cardinality(new) = Cardinality(old) + 1
  BY BeforeNext
<1>3. \A i \in old : i \in Nat /\ i < at
  BY DEF Before
<1>4. Len(s) = Cardinality(old) /\ (\A p \in DOMAIN s : s[p] \in old)
      /\ (\A p, q \in DOMAIN s : p < q => s[p] < s[q])
  BY DEF SensorsTaken
<1>5. /\ Len(t) = Len(s) + 1 /\ t[Len(s) + 1] = at /\ Len(s) \in Nat
      /\ \A p \in 1..Len(s) : t[p] = s[p]
      /\ DOMAIN s = 1..Len(s) /\ DOMAIN t = 1..(Len(s) + 1)
  OBVIOUS
<1> HIDE DEF s, t, old, new
<1>6. \A p \in DOMAIN t : p \in DOMAIN s \/ p = Len(s) + 1
  BY <1>5
<1>7. \A p \in DOMAIN t : t[p] \in new
  BY <1>2, <1>4, <1>5, <1>6
<1>8. \A p, q \in DOMAIN t : p < q => t[p] < t[q]
  <2> SUFFICES ASSUME NEW p \in DOMAIN t, NEW q \in DOMAIN t, p < q PROVE t[p] < t[q]
    OBVIOUS
  <2>1. p \in DOMAIN s /\ p \in 1..Len(s)
    BY <1>5, <1>6
  <2>2. CASE q \in DOMAIN s
    BY <1>4, <1>5, <2>1, <2>2
  <2>3. CASE q = Len(s) + 1
    <3>1. t[p] \in old /\ t[q] = at
      BY <1>4, <1>5, <2>1, <2>3
    <3> QED
      BY <1>3, <3>1
  <2> QED
    BY <1>6, <2>2, <2>3
<1>9. Len(t) = Cardinality(new)
  BY <1>2, <1>4, <1>5
<1>10. config'.sensors = t /\ Before(text, at, SensorKeywords)' = new
  BY <1>1 DEF s, t, new
<1> QED
  BY <1>7, <1>8, <1>9, <1>10 DEF SensorsTaken

\* A level is taken.
LEMMA LevelsGrow ==
  ASSUME LevelsTaken, UNCHANGED <<fs, queue>>, at \in Nat \ {0}, at' = at + 1,
         filling[1].levels \in Seq(Levels), text[at].is = "level", NEW dim \in Nat,
         text[at].speed \in Int,
         filling'[1].levels = Append(filling[1].levels, [speed |-> text[at].speed, dim |-> dim])
  PROVE  LevelsTaken'
<1> DEFINE old == Before(text, at, {"level"})
           new == Before(text, at + 1, {"level"})
           upto(i) == Cardinality(Before(text, i + 1, {"level"}))
           s == filling[1].levels
           t == Append(s, [speed |-> text[at].speed, dim |-> dim])
<1>1. text' = text
  BY DEF text
<1>2. new = old \union {at} /\ Cardinality(new) = Cardinality(old) + 1
  BY BeforeNext
<1>3. Len(s) = Cardinality(old) /\ \A i \in old : s[upto(i)].speed = text[i].speed
  BY DEF LevelsTaken
<1>4. /\ Len(t) = Len(s) + 1 /\ Len(s) \in Nat
      /\ t[Len(s) + 1] = [speed |-> text[at].speed, dim |-> dim]
      /\ \A p \in 1..Len(s) : t[p] = s[p]
  BY DEF Levels
<1>5. \A i \in old : upto(i) \in 1..Len(s)
  BY <1>3, BeforeLess
<1>6. upto(at) = Len(s) + 1
  BY <1>2, <1>3
<1> HIDE DEF s, t, old, upto
<1>7. \A i \in new : t[upto(i)].speed = text[i].speed
  <2>1. \A i \in old : t[upto(i)].speed = text[i].speed
    BY <1>3, <1>4, <1>5
  <2>2. t[upto(at)].speed = text[at].speed
    BY <1>4, <1>6
  <2> HIDE DEF new
  <2> QED
    BY <1>2, <2>1, <2>2
<1>8. Len(t) = Cardinality(new)
  BY <1>2, <1>3, <1>4
<1>9. filling'[1].levels = t /\ Before(text, at, {"level"})' = new
  BY <1>1 DEF s, t
<1> HIDE DEF new
<1>10. \A i \in new : filling'[1].levels[Cardinality(Before(text', i + 1, {"level"}))].speed
                        = text'[i].speed
  BY <1>1, <1>7, <1>9 DEF upto
<1> QED
  BY <1>8, <1>9, <1>10 DEF LevelsTaken

\* A fan is taken.
LEMMA FanReplaced ==
  ASSUME UNCHANGED <<fs, queue>>, at \in Nat \ {0}, at' = at + 1,
         text[at].is \in FanKeywords, filling'[1].fan = at
  PROVE  FanTaken'
<1>1. text' = text
  BY DEF text
<1>2. Before(text, at + 1, FanKeywords) = Before(text, at, FanKeywords) \union {at}
  BY BeforeNext
<1>3. \A i \in Before(text, at, FanKeywords) : i <= at
  BY DEF Before
<1>4. \A i \in Before(text, at + 1, FanKeywords) : i <= at
  BY <1>2, <1>3
<1>5. Before(text, at, FanKeywords)' = Before(text, at + 1, FanKeywords)
  BY <1>1
<1> QED
  BY <1>2, <1>4, <1>5 DEF FanTaken

-----------------------------------------------------------------------------
(* Every step keeps it *)

\* The legacy parser in the middle of a text.
LEMMA WholeState ==
  ASSUME WholeInv, pc \in LegacyPhases
  PROVE  /\ IInv /\ Taken /\ at \in Nat \ {0} /\ at <= Len(text) + 1
         /\ Len(text) \in Nat /\ DOMAIN text = 1..Len(text)
         /\ filling \in Seq(Mapped) /\ Len(filling) = 1 /\ filling[1] \in Mapped
         /\ config \in Configs /\ Opened
<1>1. IInv /\ Taken /\ Opened
  BY DEF WholeInv, IInv, ReadInv
<1>2. at \in Nat \ {0} /\ at <= Len(text) + 1 /\ filling \in Seq(Mapped) /\ Len(filling) = 1
      /\ config \in Configs
  BY <1>1 DEF IInv, LegacyAt, ReadInv, Shaped
<1>3. filling[1] \in Mapped
  BY <1>2
<1> QED
  BY <1>1, <1>2, <1>3, TextType

\* A step that leaves the legacy parser without a configuration.
LEMMA WholeFinish ==
  ASSUME IInv', pc' = "over", outcome' # "config"
  PROVE  WholeInv'
  BY DEF WholeInv, LegacyPhases, FromLegacy, Accepted

\* When the reading ends without a configuration, no configuration is promised.
LEMMA FaultsAreFinal ==
  ASSUME IInv', NEW result, result # "config", Finish(result)
  PROVE  WholeInv'
  BY WholeFinish DEF Finish

\* A parser that leaves has taken nothing.
LEMMA WholeLeft ==
  ASSUME WholeInv, pc \in LegacyPhases, Left, IInv', pc' \in LegacyPhases
  PROVE  WholeInv'
<1>1. UNCHANGED <<fs, queue, at, filling, config, outcome>>
  BY DEF Left, building
<1>2. Taken'
  <2>1. text' = text
    BY <1>1 DEF text
  <2>2. (PassedAll' <=> PassedAll) /\ (FanTaken' <=> FanTaken)
    BY <1>1, <2>1 DEF PassedAll, FanTaken, Before
  <2>3. (SensorsTaken' <=> SensorsTaken) /\ (LevelsTaken' <=> LevelsTaken)
    BY <1>1, <2>1 DEF SensorsTaken, LevelsTaken, Before
  <2> QED
    BY <2>2, <2>3, WholeState DEF Taken
<1>3. outcome' = "none"
  BY DEF WholeInv, IInv, ReadInv, Opened, LegacyPhases, Left
<1> QED
  BY <1>2, <1>3 DEF WholeInv, LegacyPhases, FromLegacy, Accepted

\* A step in the middle of the text need only keep what was taken.
LEMMA WholeTook ==
  ASSUME WholeInv, pc \in LegacyPhases, pc' \in LegacyPhases, IInv', Taken',
         outcome' = outcome
  PROVE  WholeInv'
<1>1. outcome' = "none"
  BY DEF WholeInv, IInv, ReadInv, Opened, LegacyPhases
<1> QED
  BY <1>1 DEF WholeInv, LegacyPhases, FromLegacy, Accepted

\* White space is skipped, and nothing else.
LEMMA BeginIterationWhole ==
  ASSUME WholeInv, BeginIteration
  PROVE  WholeInv'
<1>1. /\ pc \in LegacyPhases /\ pc' \in LegacyPhases /\ at' = PastBlanks(at)
      /\ UNCHANGED <<fs, queue, filling, config, outcome>>
  BY DEF BeginIteration, LegacyPhases
<1>2. IInv'
  BY BeginIterationInv DEF WholeInv
<1>3. at' \in at..(Len(text) + 1) /\ (\A k \in at..(at' - 1) : text[k].is \in Blanks)
  BY <1>1, WholeState, PastBlanksProperties
<1>4. at \in Nat \ {0} /\ at' \in Nat /\ at <= at'
  BY <1>1, <1>3, WholeState
<1> DEFINE next == at'
<1>5. \A kinds : kinds \intersect Blanks = {} => Before(text, next, kinds) = Before(text, at, kinds)
  <2>1. next \in Nat /\ at <= next /\ \A k \in at..(next - 1) : text[k].is \in Blanks
    BY <1>3, <1>4
  <2> HIDE DEF next
  <2> QED
    BY <1>4, <2>1, BlanksBefore
<1>6. /\ Before(text, at', SensorKeywords) = Before(text, at, SensorKeywords)
      /\ Before(text, at', FanKeywords) = Before(text, at, FanKeywords)
  BY <1>5, KindsApart
<1>7. Before(text, at', {"level"}) = Before(text, at, {"level"})
  BY <1>5, KindsApart
<1>8. PassedAll'
  <2>1. \A i \in 1..(at' - 1) : i \in 1..(at - 1) \/ i \in at..(at' - 1)
    <3>1. \A m, n \in Nat : \A i \in 1..(n - 1) : i \in 1..(m - 1) \/ i \in m..(n - 1)
      OBVIOUS
    <3> QED
      BY <1>4, <3>1
  <2>2. text' = text
    BY <1>1 DEF text
  <2>3. PassedAll
    BY <1>1, WholeState DEF Taken
  <2> QED
    BY <1>3, <2>1, <2>2, <2>3 DEF PassedAll, Kinds
<1>9. SensorsTaken' /\ LevelsTaken' /\ FanTaken'
  BY <1>1, <1>5, <1>6, <1>7, WholeState, SensorsKept, LevelsKept, FanKept DEF Taken
<1> QED
  BY <1>1, <1>2, <1>8, <1>9, WholeTook DEF Taken

\* The fan parsers take one fan, which replaces the one before.
LEMMA FanStatementWhole ==
  ASSUME WholeInv, FanStatement
  PROVE  WholeInv'
<1>1. pc = "fan" /\ pc \in LegacyPhases
  BY DEF FanStatement, LegacyPhases
<1>2. IInv'
  BY FanStatementInv DEF WholeInv
<1>3. CASE Next1.is = "fan"
  BY <1>2, <1>3, FaultsAreFinal DEF FanStatement
<1>4. CASE Next1.is # "fan" /\ Next1.is \notin FanKeywords
  BY <1>1, <1>2, <1>4, WholeLeft DEF FanStatement, LegacyPhases
<1>5. CASE Next1.is # "fan" /\ Next1.is \in FanKeywords
  <2>1. /\ pc' \in LegacyPhases /\ filling' = [filling EXCEPT ![1].fan = at] /\ at' = at + 1
        /\ UNCHANGED <<fs, queue, outcome, config>>
    BY <1>5 DEF FanStatement, Took, LegacyPhases
  <2>2. text[at].is \in FanKeywords
    BY <1>1, <1>5, NextStatement DEF WholeInv, FanKeywords
  <2>3. Taken /\ at \in Nat \ {0} /\ filling \in Seq(Mapped) /\ Len(filling) = 1
        /\ filling[1] \in Mapped
    BY <1>1, WholeState
  <2>4. filling'[1].fan = at /\ filling'[1].levels = filling[1].levels
    BY <2>1, <2>3 DEF Mapped
  <2>5. PassedAll'
    BY <2>1, <2>2, <2>3, PassedTook DEF Taken, Kinds
  <2>6. SensorsTaken'
    BY <2>1, <2>2, <2>3, SensorsKept, BeforeNext, KindsApart DEF Taken
  <2>7. LevelsTaken'
    BY <2>1, <2>2, <2>3, <2>4, LevelsKept, BeforeNext, KindsApart DEF Taken
  <2>8. FanTaken'
    BY <2>1, <2>2, <2>3, <2>4, FanReplaced
  <2> QED
    BY <1>1, <1>2, <2>1, <2>5, <2>6, <2>7, <2>8, WholeTook DEF Taken
<1> QED
  BY <1>3, <1>4, <1>5

\* The sensor parsers take one sensor, which is the last of all.
LEMMA SensorStatementWhole ==
  ASSUME WholeInv, SensorStatement
  PROVE  WholeInv'
<1>1. pc = "sensor" /\ pc \in LegacyPhases
  BY DEF SensorStatement, LegacyPhases
<1>2. IInv'
  BY SensorStatementInv DEF WholeInv
<1>3. CASE Next1.is = "sensor"
  BY <1>2, <1>3, FaultsAreFinal DEF SensorStatement
<1>4. CASE Next1.is # "sensor" /\ Next1.is \notin SensorKeywords
  BY <1>1, <1>2, <1>4, WholeLeft DEF SensorStatement, LegacyPhases
<1>5. CASE Next1.is # "sensor" /\ Next1.is \in SensorKeywords
  <2>1. PICK lib \in BOOLEAN :
          IF SensorFaultL(Next1, lib) # "none"
          THEN Finish(SensorFaultL(Next1, lib))
          ELSE /\ pc' = "simple"
               /\ config' = [config EXCEPT !.sensors = Append(@, at)]
               /\ Took /\ UNCHANGED filling
    BY <1>5 DEF SensorStatement
  <2>2. CASE SensorFaultL(Next1, lib) # "none"
    <3>1. SensorFaultL(Next1, lib) # "config"
      BY SensorFaultLType
    <3> QED
      BY <1>2, <2>1, <2>2, <3>1, FaultsAreFinal
  <2>3. CASE SensorFaultL(Next1, lib) = "none"
    <3>1. /\ pc' \in LegacyPhases
          /\ config' = [config EXCEPT !.sensors = Append(config.sensors, at)]
          /\ at' = at + 1 /\ UNCHANGED <<fs, queue, outcome, filling>>
      BY <2>1, <2>3 DEF Took, LegacyPhases
    <3>2. text[at].is \in SensorKeywords
      BY <1>1, <1>5, NextStatement DEF WholeInv, SensorKeywords
    <3>3. Taken /\ at \in Nat \ {0} /\ config \in Configs
      BY <1>1, WholeState
    <3>4. config'.sensors = Append(config.sensors, at)
          /\ config.sensors \in Seq(Nat \union (Nat \X Nat))
      BY <3>1, <3>3 DEF Configs
    <3>5. PassedAll'
      BY <3>1, <3>2, <3>3, PassedTook DEF Taken, Kinds
    <3>6. SensorsTaken'
      BY <3>1, <3>2, <3>3, <3>4, SensorsGrow DEF Taken
    <3>7. LevelsTaken'
      BY <3>1, <3>2, <3>3, LevelsKept, BeforeNext, KindsApart DEF Taken
    <3>8. FanTaken'
      BY <3>1, <3>2, <3>3, FanKept, BeforeNext, KindsApart DEF Taken
    <3> QED
      BY <1>1, <1>2, <3>1, <3>5, <3>6, <3>7, <3>8, WholeTook DEF Taken
  <2> QED
    BY <2>1, <2>2, <2>3
<1> QED
  BY <1>3, <1>4, <1>5

\* One level of the legacy syntax is the last of all.
LEMMA LevelStatementWhole ==
  ASSUME WholeInv, pc \in LegacyPhases, Next1.is = "level", NEW dim \in Nat,
         LevelStatement(Next1, dim), LevelFault(Next1, dim) = "none" => pc' \in LegacyPhases
  PROVE  WholeInv'
<1>1. IInv'
  BY LevelStatementInv DEF WholeInv
<1>2. CASE LevelFault(Next1, dim) # "none"
  <2>1. LevelFault(Next1, dim) # "config"
    BY LevelFaultType
  <2> QED
    BY <1>1, <1>2, <2>1, FaultsAreFinal DEF LevelStatement
<1>3. CASE LevelFault(Next1, dim) = "none"
  <2> DEFINE st == Next1
  <2>1. /\ filling' = [filling EXCEPT ![1] = Added(filling[1], st.speed, dim)] /\ at' = at + 1
        /\ UNCHANGED <<fs, queue, outcome, config>>
    BY <1>3 DEF LevelStatement, Took
  <2>2. at \in DOMAIN text /\ st = text[at]
    BY NextStatement DEF WholeInv
  <2>3. /\ Taken /\ at \in Nat \ {0} /\ filling \in Seq(Mapped) /\ Len(filling) = 1
        /\ filling[1] \in Mapped /\ Opened
    BY WholeState
  <2>4. st.speed \in Int /\ st.is = "level"
    BY <2>2, <2>3, TextType
  <2>5. ~Misplaced(filling[1].levels, st.speed, st.limits, dim)
    BY <1>3, LevelFaultType
  <2> HIDE DEF st
  <2>6. /\ filling'[1].fan = filling[1].fan
        /\ filling'[1].levels = Append(filling[1].levels, [speed |-> st.speed, dim |-> dim])
    <3>1. filling'[1] = Added(filling[1], st.speed, dim)
      BY <2>1, <2>3
    <3>2. /\ Added(filling[1], st.speed, dim).fan = filling[1].fan
          /\ Added(filling[1], st.speed, dim).levels =
               Append(filling[1].levels, [speed |-> st.speed, dim |-> dim])
      BY <2>3, <2>4, <2>5, AddedAgrees
    <3> HIDE DEF Added
    <3> QED
      BY <3>1, <3>2
  <2>7. filling[1].levels \in Seq(Levels)
    BY <2>3 DEF Mapped
  <2>8. PassedAll'
    BY <2>1, <2>2, <2>3, <2>4, PassedTook DEF Taken, Kinds
  <2>9. SensorsTaken'
    BY <2>1, <2>2, <2>3, <2>4, SensorsKept, BeforeNext, KindsApart DEF Taken
  <2>10. LevelsTaken'
    BY <2>1, <2>2, <2>3, <2>4, <2>6, <2>7, LevelsGrow DEF Taken
  <2>11. FanTaken'
    BY <2>1, <2>2, <2>3, <2>4, <2>6, FanKept, BeforeNext, KindsApart DEF Taken
  <2> QED
    BY <1>1, <1>3, <2>1, <2>8, <2>9, <2>10, <2>11, WholeTook DEF Taken
<1> QED
  BY <1>2, <1>3

\* The same, in the parser of the simple levels,
LEMMA SimpleStatementWhole ==
  ASSUME WholeInv, SimpleStatement
  PROVE  WholeInv'
<1>1. pc = "simple" /\ pc \in LegacyPhases
  BY DEF SimpleStatement, LegacyPhases
<1>2. CASE IsSimple(Next1)
  BY <1>1, <1>2, LevelStatementWhole DEF SimpleStatement, IsSimple, LegacyPhases
<1>3. CASE ~IsSimple(Next1)
  BY <1>1, <1>3, WholeLeft, SimpleStatementInv DEF SimpleStatement, LegacyPhases, WholeInv
<1> QED
  BY <1>2, <1>3

\* and in the parser of the complex ones.
LEMMA ComplexStatementWhole ==
  ASSUME WholeInv, ComplexStatement
  PROVE  WholeInv'
<1>1. pc = "complex" /\ pc \in LegacyPhases
  BY DEF ComplexStatement, LegacyPhases
<1>2. CASE IsComplex(Next1)
  <2>1. Next1.is = "level"
    BY <1>2 DEF IsComplex
  <2>2. Next1.upper \in Nat
    BY <1>1, <2>1, NextStatement, TextType, WholeState DEF WholeInv
  <2> QED
    BY <1>1, <1>2, <2>1, <2>2, LevelStatementWhole DEF ComplexStatement, LegacyPhases
<1>3. CASE ~IsComplex(Next1)
  BY <1>1, <1>3, WholeLeft, ComplexStatementInv DEF ComplexStatement, LegacyPhases, WholeInv
<1> QED
  BY <1>2, <1>3

\* A turn of the loop ends.
LEMMA EndIterationWhole ==
  ASSUME WholeInv, EndIteration
  PROVE  WholeInv'
  BY WholeLeft, EndIterationInv DEF EndIteration, LegacyPhases, WholeInv

\* The loop ends: the whole text has been taken, or the reading fails.
LEMMA EndOfTextWhole ==
  ASSUME WholeInv, EndOfText
  PROVE  WholeInv'
<1>1. /\ pc = "while" /\ pc \in LegacyPhases /\ pc' = "over"
      /\ config' = [config EXCEPT !.fans = filling]
      /\ outcome' = IF AtEnd THEN "config" ELSE "SyntaxError"
      /\ UNCHANGED <<fs, queue, at, mark, drivers, filling>>
  BY DEF EndOfText, LegacyPhases
<1>2. IInv'
  BY EndOfTextInv DEF WholeInv
<1>3. CASE ~AtEnd
  BY <1>1, <1>2, <1>3, WholeFinish
<1>4. CASE AtEnd
  <2>1. Taken /\ at = Len(text) + 1 /\ Len(filling) = 1 /\ config \in Configs
    BY <1>1, <1>4, WholeState DEF AtEnd
  <2>2. config'.fans = filling /\ config'.sensors = config.sensors
    BY <1>1, <2>1 DEF Configs
  <2>4. text' = text /\ at' = at /\ filling' = filling
    BY <1>1 DEF text
  <2>5. PassedAll' /\ LevelsTaken' /\ FanTaken'
    BY <2>1, <2>4 DEF Taken, PassedAll, LevelsTaken, FanTaken
  <2>6. SensorsTaken'
    BY <2>1, <2>2, <2>4 DEF Taken, SensorsTaken
  <2>3. Taken' /\ (at = Len(text) + 1)'
    BY <2>1, <2>4, <2>5, <2>6 DEF Taken
  <2> QED
    BY <1>1, <1>2, <2>1, <2>2, <2>3 DEF WholeInv, LegacyPhases
<1> QED
  BY <1>3, <1>4

\* The other steps are not in a legacy text.
LEMMA OtherWhole ==
  ASSUME WholeInv, CannotOpen \/ OpenYaml \/ OpenLegacy \/ Decode
  PROVE  WholeInv'
<1>1. IInv'
  BY CannotOpenInv, OpenYamlInv, OpenLegacyInv, DecodeInv DEF WholeInv
<1>2. CASE CannotOpen
  <2>1. pc = "open" /\ config = Empty /\ outcome = "none"
    BY <1>2 DEF CannotOpen, WholeInv, IInv, ReadInv, Opened
  <2>2. \/ pc' = "open" /\ outcome' = "none" /\ config' = config
        \/ pc' = "over" /\ outcome' = "IOerror"
    BY <1>2, <2>1 DEF CannotOpen, Finish, building
  <2> QED
    BY <1>1, <2>1, <2>2 DEF WholeInv, LegacyPhases, FromLegacy, Accepted
<1>3. CASE OpenYaml
  <2>1. pc' = "keys" /\ outcome' = "none"
    BY <1>3 DEF OpenYaml, WholeInv, IInv, ReadInv, Opened
  <2> QED
    BY <1>1, <2>1 DEF WholeInv, LegacyPhases, FromLegacy, Accepted
<1>4. CASE OpenLegacy
  <2>1. pc = "open" /\ config = Empty /\ outcome = "none"
    BY <1>4 DEF OpenLegacy, WholeInv, IInv, ReadInv, Opened
  <2>2. CASE file.ext = "yaml"
    BY <1>1, <1>4, <2>2, FaultsAreFinal DEF OpenLegacy
  <2>3. CASE file.ext # "yaml"
    <3>1. /\ pc' = "blanks" /\ at' = 1 /\ filling' = <<Mapping(Absent)>> /\ config' = Empty
          /\ outcome' = "none"
      BY <1>4, <2>1, <2>3 DEF OpenLegacy
    <3>2. \A kinds : Before(text', 1, kinds) = {}
      BY DEF Before
    <3>3. filling'[1].fan = Absent /\ filling'[1].levels = <<>>
      BY <3>1 DEF Mapping
    <3>4. PassedAll'
      BY <3>1 DEF PassedAll
    <3>5. SensorsTaken'
      <4>1. config'.sensors = <<>>
        BY <3>1 DEF Empty
      <4>2. Len(<<>>) = 0 /\ \A p : p \notin DOMAIN <<>>
        OBVIOUS
      <4> QED
        BY <3>1, <3>2, <4>1, <4>2, FS_EmptySet DEF SensorsTaken
    <3>6. LevelsTaken' /\ FanTaken'
      BY <3>1, <3>2, <3>3, FS_EmptySet DEF LevelsTaken, FanTaken
    <3> QED
      BY <1>1, <3>1, <3>4, <3>5, <3>6 DEF WholeInv, Taken, FromLegacy, Accepted
  <2> QED
    BY <2>2, <2>3
<1>5. CASE Decode
  <2>1. pc \in YamlPhases
    BY <1>5 DEF Decode, Keys, SensorEntry, SensorsDone, FanEntry, OwnLevel, OwnDone, FansDone,
           SingleFan, GlobalLevel, GlobalDone, YamlPhases
  <2>2. UNCHANGED <<fs, queue>>
    BY <1>5 DEF Decode, Keys, SensorEntry, SensorsDone, FanEntry, OwnLevel, OwnDone, FansDone,
           SingleFan, GlobalLevel, GlobalDone, Level, Throw, Finish, Continue
  <2>3. ~NotYaml'
    BY <2>1, <2>2 DEF WholeInv, IInv, ReadInv, Opened, NotYaml, file
  <2>4. pc' # "open"
    BY <1>5 DEF Decode, Keys, SensorEntry, SensorsDone, FanEntry, OwnLevel, OwnDone, FansDone,
           SingleFan, GlobalLevel, GlobalDone, Level, Throw, Finish
  <2>5. pc' \notin LegacyPhases
    BY <1>1, <2>3 DEF IInv, ReadInv, Opened
  <2> QED
    BY <1>1, <2>3, <2>4, <2>5 DEF WholeInv, FromLegacy
<1> QED
  BY <1>2, <1>3, <1>4, <1>5

\* The invariant holds at first.
LEMMA InitWhole ==
  ASSUME Init
  PROVE  WholeInv
  BY InitInv DEF Init, WholeInv, LegacyPhases, FromLegacy, Accepted

\* Every step keeps it.
LEMMA NextWhole ==
  ASSUME WholeInv, [Next]_vars
  PROVE  WholeInv'
<1>1. CASE ParseLegacy
  BY <1>1, BeginIterationWhole, FanStatementWhole, SensorStatementWhole, SimpleStatementWhole,
     ComplexStatementWhole, EndIterationWhole, EndOfTextWhole DEF ParseLegacy
<1>2. CASE UNCHANGED vars
  <2>1. IInv'
    BY <1>2, NextInv DEF WholeInv
  <2>2. UNCHANGED <<fs, queue, pc, at, filling, config, outcome>>
    BY <1>2 DEF vars
  <2>3. UNCHANGED <<text, NotYaml>>
    BY <2>2 DEF text, NotYaml, file
  <2> QED
    BY <2>1, <2>2, <2>3 DEF WholeInv, Taken, PassedAll, SensorsTaken, LevelsTaken, FanTaken,
                            FromLegacy, Accepted
<1> QED
  BY <1>1, <1>2, OtherWhole DEF Next

\* A legacy file that is accepted was read as a whole (parser.cpp:358-393): the parsers
\* that take turns have passed over nothing but what they took, each sensor and each
\* level is in the configuration once and in the order of the text.
THEOREM LegacyWholeTheorem == Spec => []LegacyWhole
<1>1. WholeInv => LegacyWhole
  <2> SUFFICES ASSUME WholeInv, FromLegacy PROVE LegacyWhole
    BY DEF LegacyWhole
  <2>1. Taken /\ at = Len(text) + 1 /\ config.fans = filling /\ Opened
    BY DEF WholeInv, IInv, ReadInv
  <2>2. Len(text) \in Nat /\ DOMAIN text = 1..Len(text)
    BY <2>1, TextType
  <2>3. \A kinds : Where(kinds) = Before(text, at, kinds)
    BY <2>1, <2>2 DEF Where, Before
  <2>4. \A i \in Where({"level"}) :
          {j \in Where({"level"}) : j <= i} = Before(text, i + 1, {"level"})
    BY <2>2 DEF Where, Before
  <2>5. Where(Blanks) \union Where(SensorKeywords) \union Where({"level"})
          \union Where(FanKeywords) = DOMAIN text
    BY <2>1, <2>2 DEF Taken, PassedAll, Where, Kinds
  <2>6. /\ Len(config.sensors) = Cardinality(Where(SensorKeywords))
        /\ \A p \in DOMAIN config.sensors : config.sensors[p] \in Where(SensorKeywords)
        /\ \A p, q \in DOMAIN config.sensors :
             p < q => config.sensors[p] < config.sensors[q]
    BY <2>1, <2>3 DEF Taken, SensorsTaken
  <2>7. /\ Len(config.fans[1].levels) = Cardinality(Where({"level"}))
        /\ \A i \in Where({"level"}) :
             config.fans[1].levels[Cardinality({j \in Where({"level"}) : j <= i})].speed
               = text[i].speed
    BY <2>1, <2>3, <2>4 DEF Taken, LevelsTaken
  <2>8. config.fans[1].fan = IF Where(FanKeywords) = {} THEN Absent
          ELSE CHOOSE i \in Where(FanKeywords) : \A j \in Where(FanKeywords) : j <= i
    <3>1. CASE Where(FanKeywords) = {}
      BY <2>1, <2>3, <3>1 DEF Taken, FanTaken
    <3>2. CASE Where(FanKeywords) # {}
      <4> DEFINE fan == config.fans[1].fan
                 last == CHOOSE i \in Where(FanKeywords) : \A j \in Where(FanKeywords) : j <= i
      <4>1. fan \in Where(FanKeywords) /\ \A j \in Where(FanKeywords) : j <= fan
        BY <2>1, <2>3, <3>2 DEF Taken, FanTaken
      <4>2. last \in Where(FanKeywords) /\ \A j \in Where(FanKeywords) : j <= last
        BY <4>1
      <4>3. Where(FanKeywords) \subseteq Nat
        BY <2>2 DEF Where
      <4> HIDE DEF fan, last
      <4>4. fan = last
        BY <4>1, <4>2, <4>3
      <4> QED
        BY <3>2, <4>4 DEF fan, last
    <3> QED
      BY <3>1, <3>2
  <2> QED
    BY <2>5, <2>6, <2>7, <2>8 DEF LegacyWhole
<1>2. Spec => []WholeInv
  BY InitWhole, NextWhole, PTL DEF Spec
<1> QED
  BY <1>1, <1>2, PTL

-----------------------------------------------------------------------------
(* Lists of fans *)

\* The fans of a YAML configuration: the entry and the number within the entry.
Pairs == Nat \X Nat

\* The order in which fans are written.
Lex(a, b) == a[1] < b[1] \/ (a[1] = b[1] /\ a[2] < b[2])

\* A sequence has the elements of a set, each once and in the order of the text.
Lists(s, S) ==
  /\ {s[p] : p \in DOMAIN s} = S
  /\ \A p, q \in DOMAIN s : p < q => Lex(s[p], s[q])

\* The fans of the mappings, in their order.
FansOf(mappings) == [p \in DOMAIN mappings |-> mappings[p].fan]

\* A pair has two parts.
LEMMA PairParts ==
  ASSUME NEW a \in Pairs
  PROVE  a[1] \in Nat /\ a[2] \in Nat /\ a = <<a[1], a[2]>>
  BY DEF Pairs

\* A list is as long as the set has elements.
LEMMA ListsLength ==
  ASSUME NEW s \in Seq(Pairs), NEW S, Lists(s, S)
  PROVE  /\ S \subseteq Pairs
         /\ Cardinality(S) = Len(s)
         /\ \A p \in 1..Len(s) : s[p] \in S
<1>1. /\ Len(s) \in Nat /\ DOMAIN s = 1..Len(s)
      /\ \A p \in 1..Len(s) : s[p] \in Pairs /\ s[p] \in S
      /\ \A x \in S : \E p \in 1..Len(s) : s[p] = x
      /\ \A p, q \in 1..Len(s) : p < q => Lex(s[p], s[q])
  BY DEF Lists
<1>2. s \in [1..Len(s) -> S]
  BY <1>1
<1>3. \A p, q \in 1..Len(s) : s[p] = s[q] => p = q
  <2> SUFFICES ASSUME NEW p \in 1..Len(s), NEW q \in 1..Len(s), s[p] = s[q], p < q
               PROVE  FALSE
    BY <1>1
  <2>1. Lex(s[p], s[q]) /\ s[p] \in Pairs
    BY <1>1
  <2> QED
    BY <2>1, PairParts DEF Lex
<1>4. s \in Bijection(1..Len(s), S)
  BY <1>1, <1>2, <1>3, Fun_IsBij
<1>5. ExistsBijection(1..Len(s), S)
  BY <1>4, Fun_ExistsBij
<1>6. Cardinality(S) = Len(s)
  BY <1>1, <1>5, FS_CountingElements
<1>7. S \subseteq Pairs
  BY <1>1
<1> QED
  BY <1>1, <1>6, <1>7

\* The empty list.
LEMMA ListsEmpty == Lists(<<>>, {})
  BY DEF Lists

\* Two lists, one after the other.
LEMMA ListsConcat ==
  ASSUME NEW s \in Seq(Pairs), NEW t \in Seq(Pairs), NEW S, NEW T, Lists(s, S), Lists(t, T),
         \A a \in S, b \in T : a[1] < b[1]
  PROVE  Lists(s \o t, S \union T)
<1> DEFINE u == s \o t
<1>1. /\ Len(s) \in Nat /\ Len(t) \in Nat /\ DOMAIN s = 1..Len(s) /\ DOMAIN t = 1..Len(t)
      /\ DOMAIN u = 1..(Len(s) + Len(t))
      /\ \A p \in 1..Len(s) : u[p] = s[p]
      /\ \A p \in 1..Len(t) : u[Len(s) + p] = t[p]
  <2>1. u \in Seq(Pairs) /\ Len(u) = Len(s) + Len(t)
        /\ \A i \in 1..(Len(s) + Len(t)) : u[i] = IF i <= Len(s) THEN s[i] ELSE t[i - Len(s)]
    BY ConcatProperties
  <2>2. Len(s) \in Nat /\ Len(t) \in Nat /\ DOMAIN s = 1..Len(s) /\ DOMAIN t = 1..Len(t)
    OBVIOUS
  <2> HIDE DEF u
  <2>3. DOMAIN u = 1..(Len(s) + Len(t))
    BY <2>1
  <2>4. \A p \in 1..Len(s) : u[p] = s[p]
    BY <2>1, <2>2
  <2>5. \A p \in 1..Len(t) : u[Len(s) + p] = t[p]
    <3> SUFFICES ASSUME NEW p \in 1..Len(t) PROVE u[Len(s) + p] = t[p]
      OBVIOUS
    <3>1. /\ Len(s) + p \in 1..(Len(s) + Len(t)) /\ ~(Len(s) + p <= Len(s))
          /\ (Len(s) + p) - Len(s) = p
      BY <2>2
    <3>2. u[Len(s) + p] = t[(Len(s) + p) - Len(s)]
      BY <2>1, <3>1
    <3> QED
      BY <3>1, <3>2
  <2> QED
    BY <2>2, <2>3, <2>4, <2>5
<1> HIDE DEF u
<1>2. \A p \in DOMAIN u : p \in 1..Len(s) \/ \E q \in 1..Len(t) : p = Len(s) + q
  <2> SUFFICES ASSUME NEW p \in DOMAIN u, p \notin 1..Len(s)
               PROVE  \E q \in 1..Len(t) : p = Len(s) + q
    OBVIOUS
  <2>1. p - Len(s) \in 1..Len(t) /\ p = Len(s) + (p - Len(s))
    BY <1>1
  <2> QED
    BY <2>1
<1>3. {u[p] : p \in DOMAIN u} = S \union T
  <2>1. \A p \in DOMAIN u : u[p] \in S \union T
    BY <1>1, <1>2 DEF Lists
  <2>2. \A x \in S : \E p \in DOMAIN u : u[p] = x
    <3> SUFFICES ASSUME NEW x \in S PROVE \E p \in DOMAIN u : u[p] = x
      OBVIOUS
    <3>1. PICK p \in 1..Len(s) : s[p] = x
      BY <1>1 DEF Lists
    <3>2. p \in DOMAIN u /\ u[p] = x
      BY <1>1, <3>1
    <3> QED
      BY <3>2
  <2>3. \A x \in T : \E p \in DOMAIN u : u[p] = x
    <3> SUFFICES ASSUME NEW x \in T PROVE \E p \in DOMAIN u : u[p] = x
      OBVIOUS
    <3>1. PICK p \in 1..Len(t) : t[p] = x
      BY <1>1 DEF Lists
    <3>2. Len(s) + p \in DOMAIN u /\ u[Len(s) + p] = x
      BY <1>1, <3>1
    <3> QED
      BY <3>2
  <2> QED
    BY <2>1, <2>2, <2>3
<1>4. \A p, q \in DOMAIN u : p < q => Lex(u[p], u[q])
  <2> SUFFICES ASSUME NEW p \in DOMAIN u, NEW q \in DOMAIN u, p < q PROVE Lex(u[p], u[q])
    OBVIOUS
  <2>1. CASE p \in 1..Len(s) /\ q \in 1..Len(s)
    BY <1>1, <2>1 DEF Lists
  <2>2. CASE p \in 1..Len(s) /\ q \notin 1..Len(s)
    <3>1. PICK r \in 1..Len(t) : q = Len(s) + r
      BY <1>2, <2>2
    <3>2. u[p] \in S /\ u[q] \in T
      BY <1>1, <2>2, <3>1 DEF Lists
    <3> QED
      BY <3>2 DEF Lex
  <2>3. CASE p \notin 1..Len(s)
    <3>1. PICK k \in 1..Len(t) : p = Len(s) + k
      BY <1>2, <2>3
    <3>2. q \notin 1..Len(s)
      BY <1>1, <3>1
    <3>3. PICK r \in 1..Len(t) : q = Len(s) + r
      BY <1>2, <3>2
    <3>4. k < r
      BY <1>1, <3>1, <3>3
    <3> QED
      BY <1>1, <3>1, <3>3, <3>4 DEF Lists
  <2> QED
    BY <2>1, <2>2, <2>3
<1> QED
  BY <1>3, <1>4 DEF Lists, u

\* The drivers of one entry are listed.
LEMMA DriversList ==
  ASSUME NEW e, IsEntry(e), NEW i \in Nat
  PROVE  Lists(Drivers(i, e), {<<i, k>> : k \in 1..DriversOf(e)})
<1>1. /\ DriversOf(e) \in Nat /\ Len(Drivers(i, e)) = DriversOf(e)
      /\ Drivers(i, e) \in Seq(Nat \X Nat)
      /\ \A k \in 1..DriversOf(e) : Drivers(i, e)[k] = <<i, k>>
  BY DriversType
<1> DEFINE ds == Drivers(i, e)
           n == DriversOf(e)
<1>2. DOMAIN ds = 1..n
  BY <1>1
<1>3. \A k \in 1..n : ds[k] = <<i, k>>
  BY <1>1
<1> HIDE DEF ds, n
<1>4. {ds[p] : p \in DOMAIN ds} = {<<i, k>> : k \in 1..n}
  BY <1>2, <1>3
<1>5. \A p, q \in DOMAIN ds : p < q => Lex(ds[p], ds[q])
  <2>1. \A p, q \in 1..n : p < q => Lex(<<i, p>>, <<i, q>>)
    BY DEF Lex
  <2> QED
    BY <1>2, <1>3, <2>1
<1> QED
  BY <1>4, <1>5 DEF Lists, ds, n

\* There are as many fans as mappings.
LEMMA FansOfType ==
  ASSUME NEW m \in Seq(Mapped)
  PROVE  /\ FansOf(m) \in Seq(Fans) /\ Len(FansOf(m)) = Len(m) /\ DOMAIN FansOf(m) = DOMAIN m
         /\ \A p \in DOMAIN m : FansOf(m)[p] = m[p].fan
<1>1. DOMAIN m = 1..Len(m) /\ Len(m) \in Nat /\ \A p \in DOMAIN m : m[p] \in Mapped
  OBVIOUS
<1>2. FansOf(m) \in [1..Len(m) -> Fans]
  BY <1>1 DEF FansOf, Mapped
<1> QED
  BY <1>1, <1>2 DEF FansOf

\* The fans of two sequences of mappings, one after the other.
LEMMA FansOfConcat ==
  ASSUME NEW m \in Seq(Mapped), NEW n \in Seq(Mapped)
  PROVE  FansOf(m \o n) = FansOf(m) \o FansOf(n)
<1>1. /\ m \o n \in Seq(Mapped) /\ Len(m \o n) = Len(m) + Len(n)
      /\ \A i \in 1..(Len(m) + Len(n)) : (m \o n)[i] = IF i <= Len(m) THEN m[i] ELSE n[i - Len(m)]
  BY ConcatProperties
<1>2. /\ FansOf(m) \in Seq(Fans) /\ Len(FansOf(m)) = Len(m)
      /\ \A p \in 1..Len(m) : FansOf(m)[p] = m[p].fan
  BY FansOfType
<1>3. /\ FansOf(n) \in Seq(Fans) /\ Len(FansOf(n)) = Len(n)
      /\ \A p \in 1..Len(n) : FansOf(n)[p] = n[p].fan
  BY FansOfType
<1> DEFINE f == FansOf(m)
           g == FansOf(n)
           c == m \o n
<1> HIDE DEF f, g, c
<1>4. /\ f \o g \in Seq(Fans) /\ Len(f \o g) = Len(m) + Len(n)
      /\ \A i \in 1..(Len(m) + Len(n)) : (f \o g)[i] =
           IF i <= Len(m) THEN f[i] ELSE g[i - Len(m)]
  <2>1. f \in Seq(Fans) /\ g \in Seq(Fans) /\ Len(f) = Len(m) /\ Len(g) = Len(n)
    BY <1>2, <1>3 DEF f, g
  <2>2. /\ f \o g \in Seq(Fans) /\ Len(f \o g) = Len(f) + Len(g)
        /\ \A i \in 1..(Len(f) + Len(g)) : (f \o g)[i] =
             IF i <= Len(f) THEN f[i] ELSE g[i - Len(f)]
    BY <2>1, ConcatProperties
  <2> QED
    BY <2>1, <2>2
<1>5. /\ FansOf(c) \in Seq(Fans) /\ Len(FansOf(c)) = Len(m) + Len(n)
      /\ \A p \in 1..(Len(m) + Len(n)) : FansOf(c)[p] = c[p].fan
  <2>1. c \in Seq(Mapped) /\ Len(c) = Len(m) + Len(n)
    BY <1>1 DEF c
  <2> QED
    BY <2>1, FansOfType
<1>6. \A p \in 1..(Len(m) + Len(n)) : FansOf(c)[p] = (f \o g)[p]
  <2> SUFFICES ASSUME NEW p \in 1..(Len(m) + Len(n))
               PROVE  FansOf(c)[p] = (f \o g)[p]
    OBVIOUS
  <2>0. Len(m) \in Nat /\ Len(n) \in Nat
    OBVIOUS
  <2>1. c[p] = IF p <= Len(m) THEN m[p] ELSE n[p - Len(m)]
    BY <1>1 DEF c
  <2>2. CASE p <= Len(m)
    <3>1. p \in 1..Len(m)
      BY <2>0, <2>2
    <3> QED
      BY <1>2, <1>4, <1>5, <2>1, <2>2, <3>1 DEF f
  <2>3. CASE p > Len(m)
    <3>1. p - Len(m) \in 1..Len(n) /\ ~(p <= Len(m))
      BY <2>0, <2>3
    <3> QED
      BY <1>3, <1>4, <1>5, <2>1, <3>1 DEF g
  <2>4. p <= Len(m) \/ p > Len(m)
    BY <2>0
  <2> QED
    BY <2>2, <2>3, <2>4, Zenon
<1>7. FansOf(c) = f \o g
  BY <1>4, <1>5, <1>6, SeqEqual
<1> QED
  BY <1>7 DEF f, g, c

\* The mappings that drivers move into have these drivers as their fans.
LEMMA FansOfMappings ==
  ASSUME NEW ds \in Seq(Pairs)
  PROVE  FansOf(Mappings(ds)) = ds
<1>1. ds \in Seq(Nat \X Nat)
  BY DEF Pairs
<1>2. /\ Mappings(ds) \in Seq(Mapped) /\ Len(Mappings(ds)) = Len(ds)
      /\ \A i \in DOMAIN ds : Mappings(ds)[i].fan = ds[i]
  <2>1. \A i \in DOMAIN ds : Mappings(ds)[i] = Mapping(ds[i])
    BY <1>1, MappingsType
  <2>2. \A x : Mapping(x).fan = x
    BY DEF Mapping
  <2> QED
    BY <1>1, <2>1, <2>2, MappingsType
<1>3. /\ FansOf(Mappings(ds)) \in Seq(Fans) /\ Len(FansOf(Mappings(ds))) = Len(ds)
      /\ \A p \in 1..Len(ds) : FansOf(Mappings(ds))[p] = Mappings(ds)[p].fan
  BY <1>2, FansOfType
<1>4. ds \in Seq(Fans) /\ DOMAIN ds = 1..Len(ds)
  <2>1. Pairs \subseteq Fans
    BY DEF Fans, Pairs
  <2> QED
    BY <2>1, SeqMonotonic
<1> QED
  BY <1>2, <1>3, <1>4, SeqEqual

-----------------------------------------------------------------------------
(* The inductive invariant of the YAML decoder *)

\* What the properties say of `fans:', of any document.
Own(d) == {i \in DOMAIN d.fans : d.fans[i].levels # Absent}

\* The fans of the entries up to the n-th.
UpTo(d, n) == UNION {{<<i, k>> : k \in 1..DriversOf(d.fans[i])} : i \in 1..n}

\* Those after the m-th.
After(d, m, n) == {x \in UpTo(d, n) : m < x[1]}

\* The last entry before the i-th that has levels of its own, or 0.
IsLast(d, n, i) ==
  /\ n \in 0..(i - 1)
  /\ n = 0 \/ n \in Own(d)
  /\ \A t \in Own(d) : t < i => t <= n

\* A mapping that has the levels of the section of its group.
PlacedAt(d, m, p) ==
  \E s \in Own(d), n \in Nat :
    /\ IsLast(d, n, s) /\ n < m.fan[1] /\ m.fan[1] <= s
    /\ m.levels = Reads(d.fans[s].levels, p - Cardinality(UpTo(d, n)))

\* The fans up to the n-th entry have been collected.
Collected(d, n, i) ==
  /\ IsLast(d, n, i)
  /\ Lists(FansOf(config.fans), UpTo(d, n))
  /\ \A p \in DOMAIN config.fans : PlacedAt(d, config.fans[p], p)

\* The levels read so far are those of the section.
Prefix(section) ==
  /\ mark <= Len(section) + 1
  /\ \A q \in DOMAIN filling :
       /\ Len(filling[q].levels) = mark - 1
       /\ \A k \in 1..(mark - 1) :
            filling[q].levels[k] =
              [speed |-> section[k].speeds[IF section[k].form = "map" THEN q ELSE 1],
               dim |-> section[k].dim]

\* Between two entries, the drivers wait that come after the last group.
InFans ==
  \E n \in 0..(at - 1) : Collected(doc, n, at) /\ Lists(drivers, After(doc, n, at - 1))

\* Within the levels of an entry, the group waits that ends with it.
InOwn ==
  /\ drivers = <<>> /\ at \in Own(doc)
  /\ \E n \in 0..(at - 1) : Collected(doc, n, at) /\ Lists(FansOf(filling), After(doc, n, at))
  /\ Prefix(doc.fans[at].levels)

\* Within the levels of the top level, the drivers of the single fan wait.
InGlobal ==
  /\ config.fans = <<>> /\ FansOf(filling) = Drivers(1, doc.fans[1])
  /\ Prefix(doc.levels)

\* The fans of a configuration that has been read.
Good(d, fans) ==
  /\ FansOf(fans) \in Seq(Pairs) /\ Own(d) \subseteq Nat \ {0}
  /\ \/ \E n \in Own(d) :
          /\ \A t \in Own(d) : t <= n
          /\ Lists(FansOf(fans), UpTo(d, n))
          /\ \A p \in DOMAIN fans : PlacedAt(d, fans[p], p)
     \/ /\ Len(d.fans) = 1 /\ DOMAIN d.fans = 1..1 /\ Written(d.levels)
        /\ Lists(FansOf(fans), UpTo(d, 1))
        /\ \A p \in DOMAIN fans : fans[p].levels = Reads(d.levels, p)

\* The inductive invariant of the YAML decoder.
YamlInv ==
  /\ IInv
  /\ pc \in {"open", "keys", "sensors", "single"} => config.fans = <<>> /\ drivers = <<>>
  /\ pc = "fans" => InFans
  /\ pc = "own" => InOwn
  /\ pc = "global" => InGlobal
  /\ FromYaml => Good(doc, config.fans)

\* What is in UpTo.
LEMMA UpToMember ==
  ASSUME NEW d, NEW n
  PROVE  \A x : x \in UpTo(d, n) <=>
           \E i \in 1..n : \E k \in 1..DriversOf(d.fans[i]) : x = <<i, k>>
  BY DEF UpTo

\* Before the first entry there is no fan.
LEMMA UpToZero ==
  ASSUME NEW d
  PROVE  UpTo(d, 0) = {} /\ After(d, 0, 0) = {}
  BY UpToMember DEF After

\* The fans are pairs, of the entries up to the n-th.
LEMMA UpToPairs ==
  ASSUME NEW d, NEW n \in Nat, \A i \in 1..n : DriversOf(d.fans[i]) \in Nat
  PROVE  UpTo(d, n) \subseteq Pairs /\ \A x \in UpTo(d, n) : x[1] \in 1..n
<1> SUFFICES ASSUME NEW x \in UpTo(d, n) PROVE x \in Pairs /\ x[1] \in 1..n
  OBVIOUS
<1>1. PICK i \in 1..n : \E k \in 1..DriversOf(d.fans[i]) : x = <<i, k>>
  BY UpToMember
<1>2. PICK k \in 1..DriversOf(d.fans[i]) : x = <<i, k>>
  BY <1>1
<1> QED
  BY <1>2 DEF Pairs

\* One entry more.
LEMMA UpToNext ==
  ASSUME NEW d, NEW n \in Nat
  PROVE  UpTo(d, n + 1) = UpTo(d, n) \union {<<n + 1, k>> : k \in 1..DriversOf(d.fans[n + 1])}
<1>1. \A i : i \in 1..(n + 1) <=> (i \in 1..n \/ i = n + 1)
  OBVIOUS
<1> QED
  BY <1>1, UpToMember

\* The fans of one entry more, after the m-th.
LEMMA AfterNext ==
  ASSUME NEW d, NEW m \in Nat, NEW n \in Nat, m <= n
  PROVE  After(d, m, n + 1) =
           After(d, m, n) \union {<<n + 1, k>> : k \in 1..DriversOf(d.fans[n + 1])}
<1>1. \A k : m < <<n + 1, k>>[1]
  OBVIOUS
<1> QED
  BY <1>1, UpToNext DEF After

\* What is up to one entry and what comes after it.
LEMMA UpToSplit ==
  ASSUME NEW d, NEW m \in Nat, NEW n \in Nat, m <= n,
         \A i \in 1..n : DriversOf(d.fans[i]) \in Nat
  PROVE  /\ UpTo(d, n) = UpTo(d, m) \union After(d, m, n)
         /\ \A a \in UpTo(d, m), b \in After(d, m, n) : a[1] < b[1]
         /\ After(d, n, n) = {}
<1>1. \A i : i \in 1..m => i \in 1..n
  OBVIOUS
<1>2. \A x \in UpTo(d, m) : x[1] \in 1..m
  BY <1>1, UpToPairs
<1>3. \A x \in UpTo(d, n) : x[1] \in 1..n
  BY UpToPairs
<1>4. UpTo(d, m) \subseteq UpTo(d, n)
  BY <1>1, UpToMember
<1>5. \A x \in UpTo(d, n) : ~(m < x[1]) => x \in UpTo(d, m)
  <2> SUFFICES ASSUME NEW x \in UpTo(d, n), ~(m < x[1]) PROVE x \in UpTo(d, m)
    OBVIOUS
  <2>1. PICK i \in 1..n : \E k \in 1..DriversOf(d.fans[i]) : x = <<i, k>>
    BY UpToMember
  <2>2. x[1] = i /\ i \in 1..m
    BY <2>1
  <2> QED
    BY <2>1, <2>2, UpToMember
<1>6. UpTo(d, n) = UpTo(d, m) \union After(d, m, n)
  BY <1>4, <1>5 DEF After
<1>7. \A a \in UpTo(d, m), b \in After(d, m, n) : a[1] < b[1]
  <2> SUFFICES ASSUME NEW a \in UpTo(d, m), NEW b \in After(d, m, n) PROVE a[1] < b[1]
    OBVIOUS
  <2>1. a[1] \in 1..m /\ m < b[1] /\ b[1] \in 1..n
    BY <1>2, <1>3 DEF After
  <2> QED
    BY <2>1
<1>8. After(d, n, n) = {}
  <2>1. \A x \in UpTo(d, n) : ~(n < x[1])
    BY <1>3
  <2> QED
    BY <2>1 DEF After
<1> QED
  BY <1>6, <1>7, <1>8

-----------------------------------------------------------------------------
(* Decoding `fans:' *)

\* While the fans are decoded: the types of what is there.
LEMMA YamlState ==
  ASSUME YamlInv, pc \in {"fans", "own", "single", "global"}
  PROVE  /\ IInv /\ ReadInv /\ outcome = "none" /\ ~NotYaml
         /\ at \in Nat \ {0} /\ mark \in Nat \ {0}
         /\ filling \in Seq(Mapped) /\ config \in Configs /\ config.fans \in Seq(Mapped)
         /\ drivers \in Seq(Pairs)
         /\ Len(doc.fans) \in Nat /\ DOMAIN doc.fans = 1..Len(doc.fans)
         /\ \A i \in 1..Len(doc.fans) : IsEntry(doc.fans[i]) /\ DriversOf(doc.fans[i]) \in Nat
         /\ Own(doc) \subseteq 1..Len(doc.fans)
<1>1. IInv /\ ReadInv /\ Opened /\ Sections /\ Shaped
  BY DEF YamlInv, IInv, ReadInv
<1>2. ~NotYaml /\ outcome = "none"
  BY <1>1 DEF Opened, YamlPhases
<1>3. Written(doc.fans)
  BY <1>1 DEF Sections
<1>4. /\ Len(doc.fans) \in Nat /\ DOMAIN doc.fans = 1..Len(doc.fans)
      /\ \A i \in DOMAIN doc.fans : IsEntry(doc.fans[i])
  BY <1>1, <1>2, <1>3, DocType
<1>5. \A i \in 1..Len(doc.fans) : DriversOf(doc.fans[i]) \in Nat
  BY <1>4 DEF IsEntry, DriversOf
<1>6. config.fans \in Seq(Mapped) /\ drivers \in Seq(Pairs)
  BY <1>1 DEF Shaped, Configs, Pairs
<1>7. Own(doc) \subseteq 1..Len(doc.fans)
  BY <1>4 DEF Own
<1> QED
  BY <1>1, <1>2, <1>4, <1>5, <1>6, <1>7 DEF Shaped

\* Mappings that list a set of pairs have pairs for fans.
LEMMA FansArePairs ==
  ASSUME NEW m \in Seq(Mapped), NEW S, S \subseteq Pairs, Lists(FansOf(m), S)
  PROVE  FansOf(m) \in Seq(Pairs) /\ Len(FansOf(m)) = Len(m)
<1> DEFINE f == FansOf(m)
<1>1. f \in Seq(Fans) /\ Len(f) = Len(m)
  BY FansOfType
<1>2. \A p \in DOMAIN f : f[p] \in Pairs
  BY DEF Lists
<1> HIDE DEF f
<1>3. f \in Seq(Pairs)
  BY <1>1, <1>2
<1> QED
  BY <1>1, <1>3 DEF f

\* An exception ends the reading, or it begins again with a single fan.
LEMMA ThrowYaml ==
  ASSUME YamlInv, IInv', NEW e \in Exceptions, Throw(e),
         pc \in {"fans", "own", "single", "global", "keys", "sensors"}
  PROVE  YamlInv'
<1>1. CASE e = "BadConversion" /\ pc \in {"fans", "own"}
  <2>1. pc' = "single" /\ drivers' = <<>> /\ config' = [config EXCEPT !.fans = <<>>]
        /\ outcome' = outcome
    BY <1>1 DEF Throw
  <2>2. outcome = "none" /\ config \in Configs
    BY <1>1, YamlState
  <2>3. config'.fans = <<>>
    BY <2>1, <2>2 DEF Configs
  <2> QED
    BY <2>1, <2>2, <2>3 DEF YamlInv, FromYaml, Accepted
<1>2. CASE ~(e = "BadConversion" /\ pc \in {"fans", "own"})
  <2>1. Wrapped(e) # "config" /\ pc' = "over" /\ outcome' = Wrapped(e)
    BY <1>2, WrappedType DEF Throw, Finish
  <2> QED
    BY <2>1 DEF YamlInv, FromYaml, Accepted
<1> QED
  BY <1>1, <1>2

\* The fans that wait, with those of one entry more.
LEMMA WaitingLists ==
  ASSUME YamlInv, pc = "fans", at <= Len(doc.fans), NEW n \in 0..(at - 1),
         Lists(drivers, After(doc, n, at - 1))
  PROVE  /\ drivers \o Drivers(at, doc.fans[at]) \in Seq(Pairs)
         /\ Lists(drivers \o Drivers(at, doc.fans[at]), After(doc, n, at))
<1> DEFINE e == doc.fans[at]
           new == {<<at, k>> : k \in 1..DriversOf(e)}
<1>1. at \in Nat \ {0} /\ at - 1 \in Nat /\ (at - 1) + 1 = at /\ n \in Nat /\ n <= at - 1
      /\ IsEntry(e) /\ drivers \in Seq(Pairs)
  BY YamlState
<1>2. After(doc, n, at) = After(doc, n, at - 1) \union new
  <2>1. After(doc, n, (at - 1) + 1) = After(doc, n, at - 1) \union
          {<<(at - 1) + 1, k>> : k \in 1..DriversOf(doc.fans[(at - 1) + 1])}
    BY <1>1, AfterNext
  <2> QED
    BY <1>1, <2>1
<1>3. Drivers(at, e) \in Seq(Pairs) /\ Lists(Drivers(at, e), new)
  BY <1>1, DriversType, DriversList DEF Pairs
<1>4. \A a \in After(doc, n, at - 1), b \in new : a[1] < b[1]
  <2> SUFFICES ASSUME NEW a \in After(doc, n, at - 1), NEW b \in new PROVE a[1] < b[1]
    OBVIOUS
  <2>1. \A i \in 1..(at - 1) : DriversOf(doc.fans[i]) \in Nat
    BY <1>1, YamlState
  <2>2. a[1] \in 1..(at - 1)
    BY <1>1, <2>1, UpToPairs DEF After
  <2>3. b[1] = at
    OBVIOUS
  <2> QED
    BY <1>1, <2>2, <2>3
<1> HIDE DEF e, new
<1>5. Lists(drivers \o Drivers(at, e), After(doc, n, at - 1) \union new)
  BY <1>1, <1>3, <1>4, ListsConcat
<1>6. drivers \o Drivers(at, e) \in Seq(Pairs)
  BY <1>1, <1>3, ConcatProperties
<1> QED
  BY <1>2, <1>5, <1>6 DEF e

\* One entry of `fans:' is decoded: its drivers wait, or its group begins.
LEMMA FanEntryYaml ==
  ASSUME YamlInv, FanEntry, IInv'
  PROVE  YamlInv'
<1> DEFINE e == doc.fans[at]
           tried == Or(HwmonFanFault(e), TpFanFault(e))
           fault == FirstOf(<< <<tried # "none", tried>>, <<e.levels = Scalar, "YamlError">> >>)
           waiting == drivers \o Drivers(at, e)
<1>1. pc = "fans" /\ at <= Len(doc.fans)
  BY DEF FanEntry
<1>2. fault \in Faults
  <2>1. tried \in Faults
    BY FanFaultType
  <2> HIDE DEF tried
  <2> QED
    BY <2>1, FirstOfType DEF Faults, Exceptions
<1>3. IF fault # "none"
      THEN Throw(fault)
      ELSE /\ IF e.levels = Absent
              THEN drivers' = waiting /\ at' = at + 1 /\ UNCHANGED <<pc, mark, filling>>
              ELSE /\ Moved(waiting)
                   /\ pc' = "own" /\ mark' = 1 /\ UNCHANGED at
           /\ UNCHANGED config /\ Continue
  BY DEF FanEntry
<1> HIDE DEF fault, waiting
<1>4. CASE fault # "none"
  BY <1>1, <1>2, <1>3, <1>4, ThrowYaml DEF Faults
<1>5. CASE fault = "none"
  <2>1. PICK n \in 0..(at - 1) : Collected(doc, n, at) /\ Lists(drivers, After(doc, n, at - 1))
    BY <1>1 DEF YamlInv, InFans
  <2>2. waiting \in Seq(Pairs) /\ Lists(waiting, After(doc, n, at))
    BY <1>1, <2>1, WaitingLists DEF waiting
  <2>3. at \in 1..Len(doc.fans) /\ DOMAIN doc.fans = 1..Len(doc.fans) /\ outcome = "none"
        /\ Own(doc) \subseteq 1..Len(doc.fans)
    BY <1>1, YamlState
  <2>4. CASE e.levels = Absent
    <3>1. /\ drivers' = waiting /\ at' = at + 1 /\ doc' = doc /\ pc' = "fans"
          /\ UNCHANGED <<filling, config, outcome>>
      BY <1>1, <1>3, <1>5, <2>4 DEF Continue, doc
    <3>2. IsLast(doc, n, at + 1)
      <4>1. IsLast(doc, n, at) /\ at \notin Own(doc)
        BY <2>1, <2>4 DEF Collected, Own
      <4> QED
        BY <2>3, <4>1 DEF IsLast
    <3>3. Collected(doc, n, at + 1)
      BY <2>1, <3>2 DEF Collected
    <3>4. n \in 0..(at' - 1) /\ at' - 1 = at
      BY <2>3, <3>1
    <3>5. Collected(doc, n, at)'
      BY <3>1, <3>3 DEF Collected
    <3>6. InFans'
      BY <2>2, <3>1, <3>4, <3>5 DEF InFans
    <3> QED
      BY <2>3, <3>1, <3>6 DEF YamlInv, FromYaml, Accepted
  <2>5. CASE e.levels # Absent
    <3>1. /\ filling' = Mappings(waiting) /\ drivers' = <<>> /\ pc' = "own" /\ mark' = 1
          /\ doc' = doc /\ UNCHANGED <<at, config, outcome>>
      BY <1>3, <1>5, <2>5 DEF Continue, Moved, doc
    <3>2. FansOf(filling') = waiting
      BY <2>2, <3>1, FansOfMappings
    <3>3. at \in Own(doc)
      BY <2>3, <2>5 DEF Own
    <3>4. Collected(doc, n, at)'
      BY <2>1, <3>1 DEF Collected
    <3>5. \A q \in DOMAIN filling' : filling'[q].levels = <<>>
      <4>1. /\ filling' \in Seq(Mapped) /\ Len(filling') = Len(waiting)
            /\ \A i \in DOMAIN waiting : filling'[i] = Mapping(waiting[i])
        BY <2>2, <3>1, MappingsType DEF Pairs
      <4>2. DOMAIN filling' = DOMAIN waiting
        BY <2>2, <4>1
      <4>3. \A x : Mapping(x).levels = <<>>
        BY DEF Mapping
      <4> QED
        BY <4>1, <4>2, <4>3
    <3>6. Len(doc.fans[at].levels) \in Nat
      <4>1. Sections' /\ Opened' /\ ~NotYaml'
        BY <3>1 DEF IInv, ReadInv, Opened, YamlPhases
      <4>2. Written(doc.fans) /\ Written(doc.fans[at].levels)
        BY <3>1, <4>1 DEF Sections
      <4>3. Opened /\ ~NotYaml
        BY <1>1, YamlState DEF ReadInv
      <4> QED
        BY <2>3, <4>2, <4>3, DocType DEF IsLevels
    <3>7. Prefix(doc.fans[at].levels)'
      BY <3>1, <3>5, <3>6 DEF Prefix
    <3>8. InOwn'
      BY <2>1, <2>2, <3>1, <3>2, <3>3, <3>4, <3>7 DEF InOwn
    <3> QED
      BY <2>3, <3>1, <3>8 DEF YamlInv, FromYaml, Accepted
  <2> QED
    BY <2>4, <2>5
<1> QED
  BY <1>4, <1>5

-----------------------------------------------------------------------------
(* Decoding the levels of a group *)

\* One level more is read into each of the mappings.
LEMMA PrefixGrows ==
  ASSUME NEW section, Prefix(section), IsLevels(section), filling \in Seq(Mapped),
         mark \in Nat \ {0}, mark <= Len(section), AssignFault(section[mark]) = "none",
         filling' = Filled(section[mark]), mark' = mark + 1
  PROVE  /\ mark' <= Len(section) + 1
         /\ \A q \in DOMAIN filling' :
              /\ Len(filling'[q].levels) = mark' - 1
              /\ \A k \in 1..(mark' - 1) :
                   filling'[q].levels[k] =
                     [speed |-> section[k].speeds[IF section[k].form = "map" THEN q ELSE 1],
                      dim |-> section[k].dim]
         /\ FansOf(filling') = FansOf(filling)
<1> DEFINE l == section[mark]
           Read(q, k) == [speed |-> section[k].speeds[IF section[k].form = "map" THEN q ELSE 1],
                          dim |-> section[k].dim]
<1>1. IsLevel(l) /\ Len(section) \in Nat
  BY DEF IsLevels
<1>2. /\ filling' \in Seq(Mapped) /\ Len(filling') = Len(filling)
      /\ \A q \in DOMAIN filling :
           /\ filling'[q].fan = filling[q].fan
           /\ filling'[q].levels =
                Append(filling[q].levels, [speed |-> SpeedFor(l, q), dim |-> l.dim])
  BY <1>1, FilledShape
<1>3. DOMAIN filling' = DOMAIN filling /\ DOMAIN filling = 1..Len(filling)
  BY <1>2
<1>4. \A q \in DOMAIN filling : [speed |-> SpeedFor(l, q), dim |-> l.dim] = Read(q, mark)
  BY DEF SpeedFor
<1>5. \A q \in DOMAIN filling : filling[q].levels \in Seq(Levels)
  <2>1. \A q \in DOMAIN filling : filling[q] \in Mapped
    OBVIOUS
  <2> QED
    BY <2>1 DEF Mapped
<1> HIDE DEF Read
<1>6. ASSUME NEW q \in DOMAIN filling
      PROVE  /\ Len(filling'[q].levels) = mark' - 1
             /\ \A k \in 1..(mark' - 1) : filling'[q].levels[k] = Read(q, k)
  <2> DEFINE old == filling[q].levels
  <2>1. old \in Seq(Levels) /\ Len(old) = mark - 1
        /\ \A k \in 1..(mark - 1) : old[k] = Read(q, k)
    BY <1>5 DEF Prefix, Read
  <2>2. PICK new : new = Append(old, Read(q, mark)) /\ filling'[q].levels = new
    BY <1>2, <1>4
  <2> HIDE DEF old
  <2>3. Len(new) = mark /\ new[mark] = Read(q, mark) /\ \A k \in 1..(mark - 1) : new[k] = old[k]
    BY <2>1, <2>2
  <2>4. mark' - 1 = mark /\ \A k \in 1..mark : k \in 1..(mark - 1) \/ k = mark
    OBVIOUS
  <2>5. \A k \in 1..mark : new[k] = Read(q, k)
    BY <2>1, <2>3, <2>4
  <2> QED
    BY <2>2, <2>3, <2>4, <2>5
<1>7. FansOf(filling') = FansOf(filling)
  BY <1>2, <1>3 DEF FansOf
<1>8. mark' <= Len(section) + 1
  BY <1>1
<1> QED
  BY <1>3, <1>6, <1>7, <1>8 DEF Read

\* When a section has been read to its end, the mappings have its levels.
LEMMA PrefixWhole ==
  ASSUME NEW section, Prefix(section), IsLevels(section), filling \in Seq(Mapped),
         mark \in Nat \ {0}, mark > Len(section)
  PROVE  \A q \in DOMAIN filling : filling[q].levels = Reads(section, q)
<1> SUFFICES ASSUME NEW q \in DOMAIN filling PROVE filling[q].levels = Reads(section, q)
  OBVIOUS
<1> DEFINE ls == filling[q].levels
           rs == Reads(section, q)
<1>1. ls \in Seq(Levels)
  <2>1. filling[q] \in Mapped
    OBVIOUS
  <2> QED
    BY <2>1 DEF Mapped
<1>2. Len(section) \in Nat /\ DOMAIN section = 1..Len(section) /\ mark - 1 = Len(section)
  BY DEF IsLevels, Prefix
<1>3. Len(ls) = Len(section) /\ \A k \in 1..Len(section) : ls[k] = rs[k]
  <2>1. \A k \in 1..Len(section) :
          rs[k] = [speed |-> section[k].speeds[IF section[k].form = "map" THEN q ELSE 1],
                   dim |-> section[k].dim]
    BY <1>2 DEF Reads
  <2> HIDE DEF rs
  <2> QED
    BY <1>2, <2>1 DEF Prefix
<1>4. ls = [k \in 1..Len(section) |-> ls[k]]
  <2> HIDE DEF ls
  <2>1. ls \in [1..Len(section) -> Levels]
    BY <1>1, <1>3
  <2> QED
    BY <2>1
<1>5. rs = [k \in 1..Len(section) |-> rs[k]]
  BY <1>2 DEF Reads
<1> HIDE DEF ls, rs
<1>6. ls = rs
  BY <1>3, <1>4, <1>5, Zenon
<1> QED
  BY <1>6 DEF ls, rs

\* The section within an entry is a list of levels.
LEMMA OwnSectionType ==
  ASSUME YamlInv, pc = "own"
  PROVE  IsLevels(doc.fans[at].levels)
<1>1. Opened /\ ~NotYaml /\ Written(doc.fans) /\ at \in DOMAIN doc.fans
      /\ Written(doc.fans[at].levels)
  BY YamlState DEF ReadInv, Sections
<1> QED
  BY <1>1, DocType

\* The section of the top level is a list of levels.
LEMMA GlobalSectionType ==
  ASSUME YamlInv, pc = "global"
  PROVE  IsLevels(doc.levels) /\ Written(doc.levels) /\ Len(doc.fans) = 1
<1>1. Opened /\ ~NotYaml /\ Written(doc.levels) /\ Len(doc.fans) = 1
  BY YamlState DEF ReadInv, Sections
<1> QED
  BY <1>1, DocType

\* One level of a group is decoded.
LEMMA OwnLevelYaml ==
  ASSUME YamlInv, OwnLevel, IInv'
  PROVE  YamlInv'
<1> DEFINE section == doc.fans[at].levels
           fault == AssignFault(section[mark])
<1>1. pc = "own" /\ Level(section)
  BY DEF OwnLevel
<1>2. CASE fault # "none"
  <2>1. fault \in Exceptions
    BY <1>2, AssignFaultType DEF Faults
  <2> QED
    BY <1>1, <1>2, <2>1, ThrowYaml DEF Level
<1>3. CASE fault = "none"
  <2>1. /\ filling' = Filled(section[mark]) /\ mark' = mark + 1 /\ mark <= Len(section)
        /\ doc' = doc /\ UNCHANGED <<pc, at, drivers, config, outcome>>
    BY <1>1, <1>3 DEF Level, Continue, doc
  <2>2. /\ drivers = <<>> /\ at \in Own(doc) /\ Prefix(section)
        /\ \E n \in 0..(at - 1) : Collected(doc, n, at) /\ Lists(FansOf(filling), After(doc, n, at))
    BY <1>1 DEF YamlInv, InOwn
  <2>3. Prefix(section)' /\ FansOf(filling') = FansOf(filling)
    <3>1. IsLevels(section) /\ filling \in Seq(Mapped) /\ mark \in Nat \ {0}
      BY <1>1, OwnSectionType, YamlState
    <3>2. PICK s : s = section
      OBVIOUS
    <3>3. IsLevels(s) /\ Prefix(s) /\ AssignFault(s[mark]) = "none" /\ mark <= Len(s)
          /\ filling' = Filled(s[mark])
      BY <1>3, <2>1, <2>2, <3>1, <3>2
    <3>4. FansOf(filling') = FansOf(filling) /\ Prefix(s)'
      BY <2>1, <3>1, <3>3, PrefixGrows DEF Prefix
    <3>5. section' = s
      BY <2>1, <3>2
    <3> QED
      BY <3>4, <3>5 DEF Prefix
  <2>4. \A n : Collected(doc, n, at) => Collected(doc, n, at)'
    BY <2>1 DEF Collected
  <2>5. PICK n \in 0..(at - 1) : Collected(doc, n, at) /\ Lists(FansOf(filling), After(doc, n, at))
    BY <2>2
  <2>6. Collected(doc, n, at)' /\ Lists(FansOf(filling), After(doc, n, at))'
    BY <2>1, <2>3, <2>4, <2>5
  <2>7. InOwn'
    BY <2>1, <2>2, <2>3, <2>6 DEF InOwn
  <2> QED
    BY <1>1, <2>1, <2>7, YamlState DEF YamlInv, FromYaml, Accepted
<1> QED
  BY <1>2, <1>3

\* The levels of a group have been decoded: the group joins the configuration.
LEMMA OwnDoneYaml ==
  ASSUME YamlInv, OwnDone, IInv'
  PROVE  YamlInv'
<1> DEFINE section == doc.fans[at].levels
<1>1. /\ pc = "own" /\ mark > Len(section) /\ config' = [config EXCEPT !.fans = @ \o filling]
      /\ filling' = <<>> /\ pc' = "fans" /\ at' = at + 1 /\ doc' = doc
      /\ UNCHANGED <<drivers, outcome>>
  BY DEF OwnDone, Continue, doc
<1>2. /\ at \in 1..Len(doc.fans) /\ at \in Nat \ {0} /\ outcome = "none"
      /\ filling \in Seq(Mapped) /\ config.fans \in Seq(Mapped) /\ mark \in Nat \ {0}
      /\ \A i \in 1..Len(doc.fans) : DriversOf(doc.fans[i]) \in Nat
      /\ Own(doc) \subseteq 1..Len(doc.fans) /\ Len(doc.fans) \in Nat
  <2>1. at \in Own(doc)
    BY <1>1 DEF YamlInv, InOwn
  <2> QED
    BY <1>1, <2>1, YamlState
<1>3. config'.fans = config.fans \o filling
  BY <1>1, FansJoin, YamlState
<1>4. PICK n \in 0..(at - 1) : Collected(doc, n, at) /\ Lists(FansOf(filling), After(doc, n, at))
  BY <1>1 DEF YamlInv, InOwn
<1>5. at \in Own(doc) /\ drivers = <<>> /\ Prefix(section)
  BY <1>1 DEF YamlInv, InOwn
<1>6. \A q \in DOMAIN filling : filling[q].levels = Reads(section, q)
  BY <1>1, <1>2, <1>5, PrefixWhole, OwnSectionType
<1>7. /\ UpTo(doc, at) = UpTo(doc, n) \union After(doc, n, at)
      /\ \A a \in UpTo(doc, n), b \in After(doc, n, at) : a[1] < b[1]
      /\ After(doc, at, at) = {} /\ UpTo(doc, at) \subseteq Pairs
      /\ \A x \in UpTo(doc, at) : x[1] \in 1..at
  <2>1. \A i \in 1..at : DriversOf(doc.fans[i]) \in Nat
    BY <1>2
  <2>2. n \in Nat /\ at \in Nat /\ n <= at
    BY <1>2
  <2> QED
    BY <2>1, <2>2, UpToSplit, UpToPairs
<1>8. /\ FansOf(config.fans) \in Seq(Pairs) /\ Len(FansOf(config.fans)) = Len(config.fans)
      /\ FansOf(filling) \in Seq(Pairs) /\ Len(FansOf(filling)) = Len(filling)
  <2>1. UpTo(doc, n) \subseteq Pairs /\ After(doc, n, at) \subseteq Pairs
    BY <1>7
  <2> QED
    BY <1>2, <1>4, <2>1, FansArePairs DEF Collected
<1>9. Lists(FansOf(config'.fans), UpTo(doc, at))
  <2>1. FansOf(config'.fans) = FansOf(config.fans) \o FansOf(filling)
    BY <1>2, <1>3, FansOfConcat
  <2>2. Lists(FansOf(config.fans), UpTo(doc, n))
    BY <1>4 DEF Collected
  <2>3. Lists(FansOf(config.fans) \o FansOf(filling), UpTo(doc, n) \union After(doc, n, at))
    BY <1>4, <1>7, <1>8, <2>2, ListsConcat
  <2> QED
    BY <1>7, <2>1, <2>3
<1>10. IsLast(doc, n, at) /\ n \in Nat
  BY <1>4 DEF Collected
<1>11. IsLast(doc, at, at + 1)
  <2>1. at \in 0..((at + 1) - 1) /\ \A t \in Own(doc) : t < at + 1 => t <= at
    BY <1>2
  <2> QED
    BY <1>5, <2>1 DEF IsLast
<1>12. ASSUME NEW q \in DOMAIN filling
       PROVE  PlacedAt(doc, filling[q], Len(config.fans) + q)
  <2>1. filling[q].fan \in After(doc, n, at)
    <3>1. FansOf(filling)[q] = filling[q].fan /\ q \in DOMAIN FansOf(filling)
      BY DEF FansOf
    <3>2. FansOf(filling)[q] \in After(doc, n, at)
      BY <1>4, <3>1 DEF Lists
    <3> QED
      BY <3>1, <3>2
  <2>2. n < filling[q].fan[1] /\ filling[q].fan[1] <= at
    BY <1>2, <1>7, <2>1 DEF After
  <2>3. Cardinality(UpTo(doc, n)) = Len(config.fans)
    <3>1. Lists(FansOf(config.fans), UpTo(doc, n))
      BY <1>4 DEF Collected
    <3> QED
      BY <1>8, <3>1, ListsLength
  <2>4. (Len(config.fans) + q) - Cardinality(UpTo(doc, n)) = q
    BY <1>2, <2>3
  <2>5. filling[q].levels = Reads(section, (Len(config.fans) + q) - Cardinality(UpTo(doc, n)))
    BY <1>6, <2>4
  <2> QED
    BY <1>5, <1>10, <2>2, <2>5 DEF PlacedAt
<1>13. \A p \in DOMAIN config'.fans : PlacedAt(doc, config'.fans[p], p)
  <2> DEFINE c == config.fans
             u == c \o filling
  <2>1. /\ Len(c) \in Nat /\ Len(filling) \in Nat /\ DOMAIN c = 1..Len(c)
        /\ DOMAIN filling = 1..Len(filling)
        /\ u \in Seq(Mapped) /\ Len(u) = Len(c) + Len(filling)
        /\ \A i \in 1..(Len(c) + Len(filling)) :
             u[i] = IF i <= Len(c) THEN c[i] ELSE filling[i - Len(c)]
    BY <1>2, ConcatProperties
  <2>2. \A p \in DOMAIN c : PlacedAt(doc, c[p], p)
    BY <1>4 DEF Collected
  <2>3. \A q \in DOMAIN filling : PlacedAt(doc, filling[q], Len(c) + q)
    BY <1>12
  <2> HIDE DEF c, u
  <2>4. DOMAIN u = 1..(Len(c) + Len(filling))
    BY <2>1
  <2>5. ASSUME NEW p \in DOMAIN u
        PROVE  PlacedAt(doc, u[p], p)
    <3>1. CASE p <= Len(c)
      <4>1. p \in DOMAIN c /\ u[p] = c[p]
        BY <2>1, <2>4, <3>1
      <4> QED
        BY <2>2, <4>1
    <3>2. CASE p > Len(c)
      <4>1. p - Len(c) \in DOMAIN filling /\ u[p] = filling[p - Len(c)]
            /\ Len(c) + (p - Len(c)) = p
        BY <2>1, <2>4, <3>2
      <4>2. PlacedAt(doc, filling[p - Len(c)], Len(c) + (p - Len(c)))
        BY <2>3, <4>1
      <4> QED
        BY <4>1, <4>2
    <3>3. p <= Len(c) \/ p > Len(c)
      BY <2>1, <2>4
    <3> QED
      BY <3>1, <3>2, <3>3, Zenon
  <2> QED
    BY <1>3, <2>5 DEF u, c
<1>14. PICK m \in 0..at : m = at
  BY <1>2
<1>15. Collected(doc, m, at)'
  BY <1>1, <1>9, <1>11, <1>13, <1>14 DEF Collected
<1>16. Lists(drivers', After(doc', m, at' - 1)) /\ m \in 0..(at' - 1)
  <2>1. drivers' = <<>> /\ doc' = doc /\ at' - 1 = m /\ After(doc, m, m) = {}
    BY <1>1, <1>2, <1>5, <1>7, <1>14
  <2> QED
    BY <1>14, <2>1, ListsEmpty
<1>17. InFans'
  BY <1>15, <1>16 DEF InFans
<1> QED
  BY <1>1, <1>2, <1>17 DEF YamlInv, FromYaml, Accepted

-----------------------------------------------------------------------------
(* The end of `fans:', and every other step *)

\* `fans:' has been decoded: the last entry had levels, or the reading begins again.
LEMMA FansDoneYaml ==
  ASSUME YamlInv, FansDone, IInv'
  PROVE  YamlInv'
<1>1. pc = "fans" /\ at > Len(doc.fans)
  BY DEF FansDone
<1>2. CASE config.fans = <<>>
  BY <1>1, <1>2, ThrowYaml DEF FansDone, Exceptions
<1>3. CASE config.fans # <<>>
  <2>1. pc' = "over" /\ doc' = doc /\ config' = config
    BY <1>3 DEF FansDone, Finish, building, doc
  <2>2. /\ config.fans \in Seq(Mapped) /\ Own(doc) \subseteq 1..Len(doc.fans)
        /\ Len(doc.fans) \in Nat /\ at \in Nat
        /\ \A i \in 1..Len(doc.fans) : DriversOf(doc.fans[i]) \in Nat
    BY <1>1, YamlState
  <2>3. PICK n \in 0..(at - 1) : Collected(doc, n, at)
    BY <1>1 DEF YamlInv, InFans
  <2>4. n \in Own(doc)
    <3>1. n = 0 \/ n \in Own(doc)
      BY <2>3 DEF Collected, IsLast
    <3>2. CASE n = 0
      <4>1. Lists(FansOf(config.fans), {})
        BY <2>3, <3>2, UpToZero DEF Collected
      <4>2. 1 \in DOMAIN FansOf(config.fans)
        BY <1>3, <2>2, FansOfType
      <4> QED
        BY <4>1, <4>2 DEF Lists
    <3> QED
      BY <3>1, <3>2
  <2>5. \A t \in Own(doc) : t <= n
    BY <1>1, <2>2, <2>3 DEF Collected, IsLast
  <2>6. UpTo(doc, n) \subseteq Pairs
    <3>1. n \in Nat /\ \A i \in 1..n : DriversOf(doc.fans[i]) \in Nat
      BY <2>2, <2>4
    <3> QED
      BY <3>1, UpToPairs
  <2>7. FansOf(config.fans) \in Seq(Pairs)
    BY <2>2, <2>3, <2>6, FansArePairs DEF Collected
  <2>8. Good(doc, config.fans)
    BY <2>2, <2>3, <2>4, <2>5, <2>7 DEF Good, Collected
  <2> QED
    BY <2>1, <2>8 DEF YamlInv
<1> QED
  BY <1>2, <1>3

\* `fans:' is decoded as a single fan.
LEMMA SingleFanYaml ==
  ASSUME YamlInv, SingleFan, IInv'
  PROVE  YamlInv'
<1>1. pc = "single" /\ config.fans = <<>>
  BY DEF SingleFan, YamlInv
<1>2. CASE \E e \in Exceptions : Throw(e)
  BY <1>1, <1>2, ThrowYaml
<1>3. CASE /\ Len(doc.fans) = 1 /\ Written(doc.levels) /\ IsEntry(doc.fans[1])
           /\ filling' = Mappings(Drivers(1, doc.fans[1]))
           /\ pc' = "global" /\ mark' = 1
           /\ UNCHANGED <<at, drivers, config, fs, queue, outcome>>
  <2> DEFINE ds == Drivers(1, doc.fans[1])
  <2>1. ds \in Seq(Pairs) /\ ds \in Seq(Nat \X Nat)
    BY <1>3, DriversType DEF Pairs
  <2>2. doc' = doc
    BY <1>3 DEF doc
  <2> HIDE DEF ds
  <2>3. filling' = Mappings(ds)
    BY <1>3 DEF ds
  <2>4. FansOf(filling') = ds
    BY <2>1, <2>3, FansOfMappings
  <2>5. \A q \in DOMAIN filling' : filling'[q].levels = <<>>
    <3>1. /\ filling' \in Seq(Mapped) /\ Len(filling') = Len(ds)
          /\ \A i \in DOMAIN ds : filling'[i] = Mapping(ds[i])
      BY <2>1, <2>3, MappingsType
    <3>2. DOMAIN filling' = DOMAIN ds
      BY <2>1, <3>1
    <3>3. \A x : Mapping(x).levels = <<>>
      BY DEF Mapping
    <3> QED
      BY <3>1, <3>2, <3>3
  <2>6. Len(doc.levels) \in Nat
    <3>1. Opened /\ ~NotYaml
      BY <1>1, YamlState DEF ReadInv
    <3> QED
      BY <1>3, <3>1, DocType DEF IsLevels
  <2>7. Prefix(doc.levels)'
    BY <1>3, <2>2, <2>5, <2>6 DEF Prefix
  <2>8. InGlobal'
    BY <1>1, <1>3, <2>2, <2>4, <2>7 DEF InGlobal, ds
  <2> QED
    BY <1>1, <1>3, <2>8, YamlState DEF YamlInv, FromYaml, Accepted
<1>4. ReadInv
  BY DEF YamlInv, IInv
<1> QED
  BY <1>2, <1>3, <1>4, SingleFanKept

\* One level of the top level is decoded.
LEMMA GlobalLevelYaml ==
  ASSUME YamlInv, GlobalLevel, IInv'
  PROVE  YamlInv'
<1> DEFINE section == doc.levels
           fault == AssignFault(section[mark])
<1>1. pc = "global" /\ Level(section)
  BY DEF GlobalLevel
<1>2. CASE fault # "none"
  <2>1. fault \in Exceptions
    BY <1>2, AssignFaultType DEF Faults
  <2> QED
    BY <1>1, <1>2, <2>1, ThrowYaml DEF Level
<1>3. CASE fault = "none"
  <2>1. /\ filling' = Filled(section[mark]) /\ mark' = mark + 1 /\ mark <= Len(section)
        /\ doc' = doc /\ UNCHANGED <<pc, config, outcome>>
    BY <1>1, <1>3 DEF Level, Continue, doc
  <2>2. InGlobal
    BY <1>1 DEF YamlInv
  <2>3. Prefix(section)' /\ FansOf(filling') = FansOf(filling)
    <3>1. IsLevels(section) /\ filling \in Seq(Mapped) /\ mark \in Nat \ {0}
      BY <1>1, GlobalSectionType, YamlState
    <3>2. PICK s : s = section
      OBVIOUS
    <3>3. IsLevels(s) /\ Prefix(s) /\ AssignFault(s[mark]) = "none" /\ mark <= Len(s)
          /\ filling' = Filled(s[mark])
      BY <1>3, <2>1, <2>2, <3>1, <3>2 DEF InGlobal
    <3>4. FansOf(filling') = FansOf(filling) /\ Prefix(s)'
      BY <2>1, <3>1, <3>3, PrefixGrows DEF Prefix
    <3>5. section' = s
      BY <2>1, <3>2
    <3> QED
      BY <3>4, <3>5 DEF Prefix
  <2>4. InGlobal'
    BY <2>1, <2>2, <2>3 DEF InGlobal
  <2> QED
    BY <1>1, <2>1, <2>4, YamlState DEF YamlInv, FromYaml, Accepted
<1> QED
  BY <1>2, <1>3

\* The levels of the top level have been decoded: the fans join the configuration.
LEMMA GlobalDoneYaml ==
  ASSUME YamlInv, GlobalDone, IInv'
  PROVE  YamlInv'
<1>1. /\ pc = "global" /\ mark > Len(doc.levels)
      /\ config' = [config EXCEPT !.fans = @ \o filling] /\ pc' = "over" /\ doc' = doc
  BY DEF GlobalDone, doc
<1>2. InGlobal
  BY <1>1 DEF YamlInv
<1>3. /\ filling \in Seq(Mapped) /\ mark \in Nat \ {0}
      /\ Len(doc.fans) = 1 /\ DOMAIN doc.fans = 1..1 /\ Own(doc) \subseteq 1..1
      /\ IsEntry(doc.fans[1]) /\ IsLevels(doc.levels) /\ Written(doc.levels)
  <2>1. Len(doc.fans) = 1 /\ IsLevels(doc.levels) /\ Written(doc.levels)
    BY <1>1, GlobalSectionType
  <2> QED
    BY <1>1, <2>1, YamlState
<1>4. config'.fans = filling
  <2>1. config'.fans = config.fans \o filling /\ config.fans = <<>>
    BY <1>1, <1>2, FansJoin, YamlState DEF InGlobal
  <2> QED
    BY <1>3, <2>1, ConcatEmptySeq
<1>5. \A p \in DOMAIN filling : filling[p].levels = Reads(doc.levels, p)
  BY <1>1, <1>2, <1>3, PrefixWhole DEF InGlobal
<1>6. FansOf(filling) = Drivers(1, doc.fans[1])
  BY <1>2 DEF InGlobal
<1>7. FansOf(filling) \in Seq(Pairs)
  BY <1>3, <1>6, DriversType DEF Pairs
<1>8. UpTo(doc, 1) = {<<1, k>> : k \in 1..DriversOf(doc.fans[1])}
  <2>1. UpTo(doc, 0 + 1) = UpTo(doc, 0) \union {<<0 + 1, k>> : k \in 1..DriversOf(doc.fans[0 + 1])}
    BY UpToNext
  <2>2. 0 + 1 = 1 /\ UpTo(doc, 0) = {}
    BY UpToZero
  <2> QED
    BY <2>1, <2>2
<1>9. Lists(FansOf(filling), UpTo(doc, 1))
  BY <1>3, <1>6, <1>8, DriversList
<1>10. Good(doc, filling)
  BY <1>3, <1>5, <1>7, <1>9 DEF Good
<1> QED
  BY <1>1, <1>4, <1>10 DEF YamlInv

\* Before the fans nothing is known of them.
LEMMA SensorsYaml ==
  ASSUME YamlInv, Keys \/ SensorEntry \/ SensorsDone, IInv'
  PROVE  YamlInv'
<1>1. pc \in {"keys", "sensors"} /\ config.fans = <<>> /\ drivers = <<>> /\ outcome = "none"
      /\ config \in Configs /\ ReadInv
  BY DEF Keys, SensorEntry, SensorsDone, YamlInv, IInv, ReadInv, Opened, Shaped
<1>2. CASE Keys
  <2>1. \/ Throw("YamlError")
        \/ pc' = "sensors" /\ UNCHANGED <<config, drivers, outcome>>
    BY <1>2 DEF Keys, Continue
  <2> QED
    BY <1>1, <2>1, ThrowYaml DEF YamlInv, FromYaml, Accepted, Exceptions
<1>3. CASE SensorEntry
  <2> DEFINE e == doc.sensors[at]
  <2>1. PICK lib \in BOOLEAN :
          IF SensorFault(e, lib) # "none"
          THEN Throw(SensorFault(e, lib))
          ELSE /\ config' = [config EXCEPT !.sensors = @ \o Drivers(at, e)]
               /\ at' = at + 1
               /\ UNCHANGED <<pc, mark, drivers, filling>> /\ Continue
    BY <1>3 DEF SensorEntry
  <2>2. CASE SensorFault(e, lib) # "none"
    <3>1. SensorFault(e, lib) \in Exceptions
      BY <2>2, SensorFaultType DEF Faults
    <3> QED
      BY <1>1, <2>1, <2>2, <3>1, ThrowYaml
  <2>3. CASE SensorFault(e, lib) = "none"
    <3>1. /\ config' = [config EXCEPT !.sensors = config.sensors \o Drivers(at, e)]
          /\ UNCHANGED <<pc, drivers, outcome>>
      BY <2>1, <2>3 DEF Continue
    <3>2. config'.fans = <<>>
      BY <1>1, <3>1 DEF Configs
    <3> QED
      BY <1>1, <3>1, <3>2 DEF YamlInv, FromYaml, Accepted
  <2> QED
    BY <2>2, <2>3
<1>4. CASE SensorsDone
  <2> DEFINE a == config.sensors = <<>>
             b == doc.fans \in {Absent, Scalar}
             fault == FirstOf(<< <<a, "BadConversion">>, <<b, "YamlError">> >>)
  <2>1. fault \in Faults
    BY FirstOfType DEF Faults, Exceptions
  <2>2. CASE fault # "none"
    BY <1>1, <1>4, <2>1, <2>2, ThrowYaml DEF SensorsDone, Faults
  <2>3. CASE fault = "none"
    <3>1. /\ pc' = "fans" /\ at' = 1 /\ doc' = doc
          /\ UNCHANGED <<drivers, config, outcome>>
      BY <1>4, <2>3 DEF SensorsDone, Continue, doc
    <3>2. Opened' /\ Sections' /\ ~NotYaml'
      BY <3>1 DEF IInv, ReadInv, Opened, YamlPhases
    <3>3. DOMAIN doc.fans = 1..Len(doc.fans) /\ Len(doc.fans) \in Nat
      <4>1. Opened /\ ~NotYaml
        BY <1>1 DEF ReadInv, Opened, YamlPhases
      <4>2. Written(doc.fans)
        BY <3>1, <3>2 DEF Sections
      <4> QED
        BY <4>1, <4>2, DocType
    <3>4. IsLast(doc, 0, 1)
      BY <3>3 DEF IsLast, Own
    <3>5. FansOf(<<>>) = <<>>
      BY DEF FansOf
    <3>6. Lists(FansOf(config.fans), UpTo(doc, 0)) /\ Lists(drivers, After(doc, 0, 0))
      BY <1>1, <3>5, UpToZero, ListsEmpty
    <3>7. DOMAIN config.fans = {}
      BY <1>1
    <3>8. Collected(doc, 0, at)'
      BY <3>1, <3>4, <3>6, <3>7 DEF Collected
    <3>9. 0 \in 0..(at' - 1) /\ at' - 1 = 0
      BY <3>1
    <3>10. InFans'
      BY <3>1, <3>6, <3>8, <3>9 DEF InFans
    <3> QED
      BY <1>1, <3>1, <3>10 DEF YamlInv, FromYaml, Accepted
  <2> QED
    BY <2>2, <2>3
<1> QED
  BY <1>2, <1>3, <1>4

\* Opening a file, and the legacy syntax.
LEMMA OtherYaml ==
  ASSUME YamlInv, IInv', CannotOpen \/ OpenYaml \/ OpenLegacy \/ ParseLegacy
  PROVE  YamlInv'
<1>1. CASE CannotOpen \/ OpenYaml \/ OpenLegacy
  <2>1. pc = "open" /\ config.fans = <<>> /\ drivers = <<>> /\ outcome = "none"
    BY <1>1 DEF CannotOpen, OpenYaml, OpenLegacy, YamlInv, IInv, ReadInv, Opened
  <2>2. \/ pc' \in {"open", "keys", "blanks"} /\ UNCHANGED <<config, drivers, outcome>>
        \/ pc' = "over" /\ outcome' \in {"IOerror", "ConfigError"}
    BY <1>1, <2>1 DEF CannotOpen, OpenYaml, OpenLegacy, Finish, building
  <2> QED
    BY <2>1, <2>2 DEF YamlInv, FromYaml, Accepted
<1>2. CASE ParseLegacy
  <2>1. pc \in LegacyPhases
    BY <1>2 DEF ParseLegacy, BeginIteration, FanStatement, SensorStatement, SimpleStatement,
                ComplexStatement, EndIteration, EndOfText, LegacyPhases
  <2>2. UNCHANGED <<fs, queue>>
    BY <1>2 DEF ParseLegacy, BeginIteration, FanStatement, SensorStatement, SimpleStatement,
                ComplexStatement, EndIteration, EndOfText, LevelStatement, Took, Left, Finish
  <2>3. NotYaml'
    BY <2>1, <2>2 DEF YamlInv, IInv, ReadInv, Opened, NotYaml, file
  <2>4. pc' \in LegacyPhases \union {"over"}
    BY <1>2 DEF ParseLegacy, BeginIteration, FanStatement, SensorStatement, SimpleStatement,
                ComplexStatement, EndIteration, EndOfText, LevelStatement, Finish, LegacyPhases
  <2> QED
    BY <2>3, <2>4 DEF YamlInv, FromYaml, LegacyPhases
<1> QED
  BY <1>1, <1>2

\* The invariant holds at first.
LEMMA InitYaml ==
  ASSUME Init
  PROVE  YamlInv
  BY InitInv DEF Init, YamlInv, FromYaml, Accepted, Empty

\* Every step keeps it.
LEMMA NextYaml ==
  ASSUME YamlInv, [Next]_vars
  PROVE  YamlInv'
<1>1. IInv'
  BY NextInv DEF YamlInv
<1>2. CASE Decode
  BY <1>1, <1>2, SensorsYaml, FanEntryYaml, OwnLevelYaml, OwnDoneYaml, FansDoneYaml,
     SingleFanYaml, GlobalLevelYaml, GlobalDoneYaml DEF Decode
<1>3. CASE UNCHANGED vars
  <2>1. UNCHANGED <<fs, queue, pc, at, mark, drivers, filling, config, outcome>>
    BY <1>3 DEF vars
  <2>2. doc' = doc /\ (FromYaml' <=> FromYaml)
    BY <2>1 DEF doc, FromYaml, Accepted, NotYaml, file
  <2>3. (InFans' <=> InFans) /\ (InOwn' <=> InOwn) /\ (InGlobal' <=> InGlobal)
    BY <2>1, <2>2 DEF InFans, InOwn, InGlobal, Collected, Prefix
  <2> QED
    BY <1>1, <2>1, <2>2, <2>3 DEF YamlInv
<1> QED
  BY <1>1, <1>2, <1>3, OtherYaml DEF Next

\* So it holds always.
THEOREM YamlInvariant == Spec => []YamlInv
  BY InitYaml, NextYaml, PTL DEF Spec

-----------------------------------------------------------------------------
(* What a configuration read from YAML has *)

\* The proof's names for the fans of a document are those of the properties.
LEMMA SameNames ==
  /\ OwnSections = Own(doc)
  /\ \A n : DriversUpTo(n) = UpTo(doc, n)
  BY DEF OwnSections, Own, DriversUpTo, UpTo

\* What Lists says of mappings.
LEMMA FansOfMember ==
  ASSUME NEW fans, NEW S, Lists(FansOf(fans), S)
  PROVE  /\ {fans[p].fan : p \in DOMAIN fans} = S
         /\ \A p, q \in DOMAIN fans : p < q => Lex(fans[p].fan, fans[q].fan)
  BY DEF Lists, FansOf

\* The fans of a configuration are those that FansOnce names.
LEMMA GoodFansOnce ==
  ASSUME YamlInv, FromYaml
  PROVE  FansOnce
<1> DEFINE n == IF OwnSections = {} THEN Len(doc.fans)
                ELSE CHOOSE s \in OwnSections : \A t \in OwnSections : t <= s
           fans == config.fans
<1>1. Good(doc, fans) /\ fans \in Seq(Mapped)
  BY DEF YamlInv, IInv, ReadInv, Shaped, Configs
<1>2. FansOf(fans) \in Seq(Pairs) /\ Len(FansOf(fans)) = Len(fans)
  BY <1>1, FansOfType DEF Good
<1>3. Lists(FansOf(fans), UpTo(doc, n))
  <2>1. OwnSections = Own(doc) /\ Own(doc) \subseteq Nat \ {0}
    BY <1>1, SameNames DEF Good
  <2>2. ASSUME NEW m \in Own(doc), \A t \in Own(doc) : t <= m
        PROVE  n = m
    <3> DEFINE last == CHOOSE s \in OwnSections : \A t \in OwnSections : t <= s
    <3>1. last \in Own(doc) /\ \A t \in Own(doc) : t <= last
      BY <2>1, <2>2
    <3> HIDE DEF last
    <3>2. last = m
      BY <2>1, <2>2, <3>1
    <3> USE DEF last
    <3> QED
      BY <2>1, <3>2
  <2>3. CASE \E m \in Own(doc) : /\ \A t \in Own(doc) : t <= m
                                 /\ Lists(FansOf(fans), UpTo(doc, m))
    <3>1. PICK m \in Own(doc) : /\ \A t \in Own(doc) : t <= m
                                /\ Lists(FansOf(fans), UpTo(doc, m))
      BY <2>3
    <3>2. n = m
      BY <2>2, <3>1
    <3> QED
      BY <3>1, <3>2
  <2>4. CASE Len(doc.fans) = 1 /\ DOMAIN doc.fans = 1..1 /\ Lists(FansOf(fans), UpTo(doc, 1))
    <3>1. CASE Own(doc) = {}
      BY <2>1, <2>4, <3>1
    <3>2. CASE Own(doc) # {}
      <4>1. \A t \in Own(doc) : t = 1
        BY <2>4 DEF Own
      <4>2. 1 \in Own(doc) /\ \A t \in Own(doc) : t <= 1
        BY <3>2, <4>1
      <4>3. n = 1
        BY <2>2, <4>2
      <4> QED
        BY <2>4, <4>3
    <3> QED
      BY <3>1, <3>2
  <2> HIDE DEF n, fans
  <2> QED
    BY <1>1, <2>3, <2>4 DEF Good
<1> HIDE DEF n
<1>4. {fans[p].fan : p \in DOMAIN fans} = DriversUpTo(n)
  BY <1>3, FansOfMember, SameNames
<1>5. Len(fans) = Cardinality(DriversUpTo(n))
  BY <1>2, <1>3, ListsLength, SameNames
<1>6. \A p, q \in DOMAIN fans :
        p < q => \/ fans[p].fan[1] < fans[q].fan[1]
                 \/ fans[p].fan[1] = fans[q].fan[1] /\ fans[p].fan[2] < fans[q].fan[2]
  BY <1>3, FansOfMember DEF Lex
<1> QED
  BY <1>4, <1>5, <1>6 DEF FansOnce, n

\* The levels of its fans are those that LevelsWhereWritten names.
LEMMA GoodLevels ==
  ASSUME YamlInv, FromYaml
  PROVE  LevelsWhereWritten
<1> SUFFICES ASSUME NEW p \in DOMAIN config.fans
             PROVE  LET m == config.fans[p]
                        i == m.fan[1]
                    IN  \/ /\ \E s \in OwnSections : s >= i
                           /\ m.levels = Reads(doc.fans[SectionAfter(i)].levels,
                                           p - Cardinality(DriversUpTo(GroupBefore(i))))
                        \/ /\ Len(doc.fans) = 1 /\ doc.levels # Absent
                           /\ m.levels = Reads(doc.levels, p)
  BY DEF LevelsWhereWritten
<1> DEFINE m == config.fans[p]
           i == m.fan[1]
<1>1. Good(doc, config.fans) /\ config.fans \in Seq(Mapped)
  BY DEF YamlInv, IInv, ReadInv, Shaped, Configs
<1>2. i \in Nat
  <2>1. FansOf(config.fans) \in Seq(Pairs) /\ p \in DOMAIN FansOf(config.fans)
        /\ FansOf(config.fans)[p] = m.fan
    BY <1>1 DEF Good, FansOf
  <2>2. m.fan \in Pairs
    BY <2>1
  <2> QED
    BY <2>2, PairParts
<1>3. OwnSections = Own(doc) /\ Own(doc) \subseteq Nat \ {0}
  BY <1>1, SameNames DEF Good
<1>4. CASE PlacedAt(doc, m, p)
  <2>1. PICK s \in Own(doc), n \in Nat :
          /\ IsLast(doc, n, s) /\ n < i /\ i <= s
          /\ m.levels = Reads(doc.fans[s].levels, p - Cardinality(UpTo(doc, n)))
    BY <1>4 DEF PlacedAt
  <2> HIDE DEF i, m
  <2>2. SectionAfter(i) = s
    <3>1. s >= i /\ \A t \in Own(doc) : t >= i => s <= t
      BY <1>2, <1>3, <2>1 DEF IsLast
    <3>2. \A x \in Own(doc) : x >= i /\ (\A t \in Own(doc) : t >= i => x <= t) => x = s
      BY <1>2, <1>3, <3>1
    <3> QED
      BY <1>3, <3>1, <3>2 DEF SectionAfter
  <2>3. GroupBefore(i) = n
    <3> DEFINE Is(x) == /\ x = 0 \/ x \in OwnSections
                        /\ \A t \in OwnSections : t < i => t <= x
    <3>1. n \in 0..(i - 1) /\ Is(n)
      BY <1>2, <1>3, <2>1 DEF IsLast
    <3>2. \A x \in 0..(i - 1) : Is(x) => x = n
      <4> SUFFICES ASSUME NEW x \in 0..(i - 1), Is(x) PROVE x = n
        OBVIOUS
      <4>1. n <= x
        BY <1>2, <1>3, <3>1
      <4>2. x <= n
        BY <1>2, <1>3, <3>1
      <4> QED
        BY <1>2, <3>1, <4>1, <4>2
    <3>3. GroupBefore(i) = CHOOSE x \in 0..(i - 1) : Is(x)
      BY DEF GroupBefore
    <3> HIDE DEF Is
    <3> QED
      BY <3>1, <3>2, <3>3
  <2>4. DriversUpTo(n) = UpTo(doc, n)
    BY SameNames
  <2>5. /\ \E t \in OwnSections : t >= i
        /\ m.levels = Reads(doc.fans[SectionAfter(i)].levels,
                            p - Cardinality(DriversUpTo(GroupBefore(i))))
    BY <1>2, <1>3, <2>1, <2>2, <2>3, <2>4
  <2> QED
    BY <2>5 DEF i, m
<1>5. CASE Len(doc.fans) = 1 /\ Written(doc.levels) /\ m.levels = Reads(doc.levels, p)
  BY <1>5 DEF Written
<1> QED
  BY <1>1, <1>4, <1>5 DEF Good

\* Every fan that has levels is in the configuration exactly once and in the order of
\* the file (yamlconfig.cpp:397-430 and 585-619).
THEOREM FansOnceTheorem == Spec => []FansOnce
<1>1. YamlInv => FansOnce
  BY GoodFansOnce DEF FansOnce
<1> QED
  BY <1>1, YamlInvariant, PTL

\* A fan has the levels that are written where its group ends, all of them, and of each
\* level the speed at its own place within the group (yamlconfig.cpp:397-430, 603-619).
THEOREM LevelsTheorem == Spec => []LevelsWhereWritten
<1>1. YamlInv => LevelsWhereWritten
  BY GoodLevels DEF LevelsWhereWritten
<1> QED
  BY <1>1, YamlInvariant, PTL
=============================================================================
