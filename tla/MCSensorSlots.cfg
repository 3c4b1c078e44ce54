CONSTANTS
  class = class
  hwmon0 = hwmon0
  device0 = device0
  hwmon1 = hwmon1
  deep1 = deep1
  deep2 = deep2
  coretemp = coretemp
  nvme = nvme
  xeon = xeon
  Absent = Absent
  Dirs <- MCDirs
  HwmonDirs <- MCDirs
  Sensors <- MCSensors
  Entries <- MCEntries
  Trees <- MCTrees
  Counts = {0, 2, 3}
  Limits = 0
SPECIFICATION Spec
CHECK_DEADLOCK FALSE
INVARIANTS
  TypeOK
  SlotsRight
  OwnFiles
  NoBug
  SearchesRight
