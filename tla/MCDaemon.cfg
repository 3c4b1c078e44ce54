CONSTANTS
  lm1 = lm1
  lm2 = lm2
  thermal = thermal
  tp = tp
  pwm = pwm
  ChkSanity = TRUE
  Grace = 1
  Sensors <- MCSensors
  Fans <- MCFans
  PwmFans <- MCPwmFans
  LMSensors <- MCLMSensors
  TpSensors <- MCTpSensors
  Configs <- MCConfigs
SPECIFICATION Spec
CHECK_DEADLOCK FALSE
INVARIANTS
  TypeOK
  FanReturned
  OnlyHeldFansDriven
  RunsInitialised
PROPERTY KeepsToService
