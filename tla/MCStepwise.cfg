CONSTANTS
  NumTemps = 2
  Limits <- MCLimits
  NoLimit = 2
  Nums <- MCNums
  Symbolic <- MCSymbolic
  TopNums <- MCTop
  MaxLevels = 3
  Temps <- MCTemps
  Sleeptime = 1
  Pings = TRUE
  ChkSanity = TRUE
SPECIFICATION Spec
CHECK_DEADLOCK FALSE
INVARIANTS
  TypeOK
  Settled
  RestartNotSlower
