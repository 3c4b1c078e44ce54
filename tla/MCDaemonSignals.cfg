CONSTANTS
  s1 = s1
  pwm = pwm
  ChkSanity = TRUE
  Grace = 2
  Sensors <- MCSensors
  Fans <- MCFans
  PwmFans <- MCFans
  LMSensors <- MCLMSensors
  TpSensors <- MCSensors
  Configs <- MCConfigs
SPECIFICATION LiveSpec
CHECK_DEADLOCK FALSE
INVARIANT GraceHeld
PROPERTIES
  UsrServed
  StopHonoured
