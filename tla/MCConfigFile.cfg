CONSTANTS
  etcConf = etcConf
  etcYaml = etcYaml
  Absent = Absent
  Scalar = Scalar
  ChkSanity = TRUE
  Names <- MCNames
  FileSystems <- MCFileSystems
SPECIFICATION Spec
CHECK_DEADLOCK FALSE
INVARIANTS
  TypeOK
  FirstFileDecides
  LevelsWhereWritten
  FansOnce
  LegacyWhole
  LevelsAgree
PROPERTIES
  Ends
  Onward
