CONSTANTS
  cpu = cpu
  disk = disk
  gpu = gpu
  ChkSanity = TRUE
  Clients <- MCClients
  Optional <- MCOptional
  Stable <- MCStable
  MaxErr <- MCMaxErr
  Grace = 1
SPECIFICATION FairSpec
CHECK_DEADLOCK FALSE
INVARIANTS
  TypeOK
  PointersLive
  StableUnharmed
PROPERTY
  Rediscovered
