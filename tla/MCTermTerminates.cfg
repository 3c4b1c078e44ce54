CONSTANTS
  s1 = s1
  pwm = pwm
  ChkSanity = TRUE
  Grace = 1
  Sensors <- MCSensors
  Fans <- MCFans
  PwmFans <- MCFans
  LMSensors <- MCLMSensors
  TpSensors <- MCSensors
  Configs <- StrictOnly
SPECIFICATION LiveSpec
CHECK_DEADLOCK FALSE
PROPERTY
  TermTerminates
