----------------------------- MODULE MCTempState -----------------------------
(***************************************************************************)
(* Three slots of two drivers, the second of which has two and is          *)
(* optional; two temperatures that are just not a quick rise apart, and    *)
(* one that is reached by a quick rise only; -b 13.                        *)
(***************************************************************************)
EXTENDS TempState

MCOwner == <<1, 2, 2>>
MCOptional == {2}
MCTemps == {40, 42, 48}
MCBias == 13
=============================================================================
