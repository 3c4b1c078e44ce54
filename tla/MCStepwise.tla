----------------------------- MODULE MCStepwise -----------------------------
(***************************************************************************)
(* Small tables: all those of up to three levels with a limit for each of  *)
(* two sensors.  -1 stands for a symbolic level; 9 is more than the fan    *)
(* has at its last level.                                                  *)
(***************************************************************************)
EXTENDS Stepwise

MCTemps == 0..2
MCLimits == 1..2
MCNums == {-1, 9}
MCSymbolic == {-1}
MCTop == {-1}
=============================================================================
