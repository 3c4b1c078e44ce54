---------------------------- MODULE DaemonSignals ----------------------------
(***************************************************************************)
(* The daemon together with what its signals have asked for and not yet    *)
(* got.  The variables added here only record; no step of Daemon depends   *)
(* on them.                                                                *)
(***************************************************************************)
EXTENDS Daemon

VARIABLES
  rounds,       \* times all sensors were set out to be read since the last
                \* SIGPWR, up to RoundsCap, which also stands for "no SIGPWR"
  reinitDue,    \* the fans not tried since the last SIGUSR2
  hupDue,       \* a SIGHUP has come since the configuration was last read
  termed,       \* a SIGTERM has come
  ran           \* the configuration has been accepted at least once

history == <<rounds, reinitDue, hupDue, termed, ran>>
svars == <<vars, history>>

RoundsCap == Grace + 1      \* a bound of the model
SInit ==
  /\ Init
  /\ rounds = RoundsCap /\ reinitDue = {}
  /\ hupDue = FALSE /\ termed = FALSE /\ ran = FALSE

\* A step of the program, and what it settles.
SMain ==
  /\ Main
  /\ rounds' = IF pc' \in ReadPhases \ {pc} /\ rounds < RoundsCap
               THEN rounds + 1 ELSE rounds
  /\ reinitDue' = (reinitDue \ (IF pc \in {"init_fans", "reinit_fans"}
                                THEN todo \ todo' ELSE {})) \intersect cfg'.uses
  /\ hupDue' = (hupDue /\ pc # "reload")
  /\ ran' = (ran \/ pc' \in RunPhases)
  /\ UNCHANGED termed

SRequest(r) ==
  /\ Request(r)
  /\ reinitDue' = IF r = "USR2" THEN cfg.uses \intersect Fans ELSE reinitDue
  /\ hupDue' = (hupDue \/ r = "HUP")
  /\ termed' = (termed \/ r = "TERM")
  /\ UNCHANGED <<rounds, ran>>

SPowerSignal ==
  /\ PowerSignal
  /\ rounds' = 0
  /\ UNCHANGED <<reinitDue, hupDue, termed, ran>>

SWakeUp == (\E f \in Fans : WakeUp(f)) /\ UNCHANGED history

SNext == SMain \/ (\E r \in Requests : SRequest(r)) \/ SPowerSignal \/ SWakeUp

SSpec == SInit /\ [][SNext]_svars

\* The process is scheduled, and neither sleep() nor an I/O call hangs.
FairSpec == SSpec /\ WF_svars(SMain)

\* Moreover no device stays away for good: one that is tried again and again
\* is found at last.
LiveSpec ==
  FairSpec /\ \A x \in Devices : SF_svars(SMain /\ InitSucceeds(x))

-----------------------------------------------------------------------------
(* What the code keeps to *)

\* A read error that robust_op handles does not end the process before the
\* Grace-th time it sets out to read its sensors after a SIGPWR, wherever in the
\* loop the signal arrived and however often the loop was left and entered
\* meanwhile.  (The out_of_range of an LM sensor is no such error, and can.)
GraceHeld == status = "read" => rounds >= Grace

\* A SIGUSR2 is never lost: even when another signal overwrites it, or when it
\* is wiped by `interrupted = 0', every fan of the configuration is tried
\* again after it, because every path back to the loop passes init_fans().
UsrServed ==
  \A f \in Fans : (f \in reinitDue) ~> (f \notin reinitDue \/ pc = "over")

\* Where main() is not about to clear `interrupted', a SIGTERM ends the
\* process unless a later signal takes its place.
StopHonoured ==
  (interrupted = "TERM" /\ pc \notin {"reload", "reinit_fans", "nap_refans", "clear"})
    ~> (pc = "over" \/ interrupted # "TERM")

-----------------------------------------------------------------------------
(* What the manual page says, and the code does not keep to (README, 3) *)

\* thinkfan(1), SIGNALS: "SIGINT and SIGTERM [...] should cause thinkfan to
\* terminate cleanly."
TermTerminates == termed ~> pc = "over"

\* Of the signals only SIGINT and SIGTERM are said to end the process.
OnlyTermStops == status = "clean" => termed

\* "If there's any problem with the new config, we keep the old one."
KeepsOldConfig == ran => status # "config"

\* fans.cpp:271: a fan that the system has reset to automatic control is
\* re-initialised and written once more, which does not end the process.
ResetFanRecovered == status # "einval"

=============================================================================
