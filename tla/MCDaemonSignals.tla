--------------------------- MODULE MCDaemonSignals ---------------------------
(***************************************************************************)
(* One sensor of thinkpad_acpi and one PWM fan; a strict configuration,    *)
(* one that gives the sensor an error budget and makes the fan optional,   *)
(* and one that only ensure_consistency() finds to be wrong.               *)
(***************************************************************************)
EXTENDS DaemonSignals

CONSTANTS s1, pwm

MCSensors == {s1}
MCLMSensors == {}
MCFans == {pwm}

Strict == [uses |-> {s1, pwm}, optional |-> {},
           maxErr |-> [x \in {s1, pwm} |-> 0], sane |-> TRUE]
Lenient == [uses |-> {s1, pwm}, optional |-> {pwm},
            maxErr |-> [x \in {s1, pwm} |-> IF x = s1 THEN 2 ELSE 0],
            sane |-> TRUE]
Inconsistent == [Strict EXCEPT !.sane = FALSE]

MCConfigs == {Strict, Lenient, Inconsistent}
StrictOnly == {Strict}
=============================================================================
