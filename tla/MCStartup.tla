------------------------------ MODULE MCStartup ------------------------------
(***************************************************************************)
(* Three starts: as a daemon, in the foreground, and as a daemon with the  *)
(* sanity checks off.                                                      *)
(***************************************************************************)
EXTENDS Startup, TLC

CONSTANTS p1, p2, p3

MCProcs == {p1, p2, p3}
MCOptions == {[daemonize |-> TRUE, sane |-> TRUE], [daemonize |-> FALSE, sane |-> TRUE],
              [daemonize |-> TRUE, sane |-> FALSE]}
Symmetry == Permutations(MCProcs)
=============================================================================
