---------------------------- MODULE MCFanWatchdog ----------------------------
(***************************************************************************)
(* The times are in a small proportion to each other: three of the longest *)
(* sleeps take the time of the watchdog, and a loop may take most of       *)
(* another one besides.                                                    *)
(***************************************************************************)
EXTENDS FanWatchdog
=============================================================================
