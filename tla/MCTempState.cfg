CONSTANTS
  NumTemps = 3
  Owner <- MCOwner
  Optional <- MCOptional
  Temps <- MCTemps
  Bias <- MCBias
  Sleeptime = 3
SPECIFICATION Spec
INVARIANTS
  TypeOK
  TmaxTracks
PROPERTY
  BiasFades
