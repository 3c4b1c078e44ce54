------------------------------ MODULE MCDaemon ------------------------------
(***************************************************************************)
(* Two LM sensors, one of thinkpad_acpi, one fan of each kind, and three   *)
(* configurations: a strict one, one with LM sensors, an error budget, an  *)
(* optional sensor and an optional fan, which does not use the other fan,  *)
(* and one that only ensure_consistency() finds to be wrong.               *)
(***************************************************************************)
EXTENDS Daemon

CONSTANTS lm1, lm2, thermal, tp, pwm

MCLMSensors == {lm1, lm2}
MCTpSensors == {thermal}
MCSensors == {lm1, lm2, thermal}
MCFans == {tp, pwm}
MCPwmFans == {pwm}

Strict == [uses |-> {thermal, tp, pwm}, optional |-> {},
           maxErr |-> [x \in MCSensors \union MCFans |-> 0], sane |-> TRUE]
Lenient == [uses |-> {lm1, lm2, pwm}, optional |-> {lm2, pwm},
            maxErr |-> [x \in MCSensors \union MCFans |-> IF x = lm1 THEN 2 ELSE 0],
            sane |-> TRUE]
Inconsistent == [Strict EXCEPT !.sane = FALSE]

MCConfigs == {Strict, Lenient, Inconsistent}
=============================================================================
