------------------------------- MODULE Daemon -------------------------------
(***************************************************************************)
(* The thinkfan process after it has read its first configuration: the     *)
(* do-loop of main(), run(), the signal handler, and the parts of Config   *)
(* and of the fan drivers they call.  One thread executes the program; the *)
(* signal handler interrupts it between any two of its atomic accesses to  *)
(* `interrupted' and `tolerate_errors', so every such access is a step of  *)
(* its own here.                                                           *)
(*                                                                         *)
(* Every I/O operation may succeed or fail, each time anew: a device may   *)
(* be missing for any stretch of time.  What a temperature is does not     *)
(* matter here, so set_fanspeed may or may not want to write a new level.  *)
(*                                                                         *)
(* An exception that main() has a handler for destroys the configuration   *)
(* on its way (Throw); two exceptions have none anywhere and end the       *)
(* process in its terminate handler, with no destructor run (Crash).  That *)
(* the kernel kills the process or libsensors aborts it is not shown here, *)
(* but in Startup; it leaves the fans as Crash does.                       *)
(***************************************************************************)
EXTENDS Driver, FiniteSets

CONSTANTS
  Sensors,      \* sensor devices
  Fans,         \* fan devices
  PwmFans,      \* the fans driven by HwmonFanDriver; the rest are TpFanDriver
  LMSensors,    \* the sensors driven by LMSensorsDriver
  TpSensors,    \* the sensors driven by TpSensorDriver
  Configs,      \* the configurations that read_config may return
  Grace         \* what SIGPWR stores into tolerate_errors: 4 in the code

Devices == Sensors \union Fans

\* What the control flow depends on in a parsed configuration: the devices it
\* names, which of them are optional, the max_errors of each, and whether
\* ensure_consistency() accepts it.
Config == [uses : SUBSET Devices, optional : SUBSET Devices,
           maxErr : [Devices -> Nat], sane : BOOLEAN]

ASSUME DaemonAssumption ==
  /\ Sensors \intersect Fans = {}
  /\ PwmFans \subseteq Fans
  /\ LMSensors \subseteq Sensors /\ TpSensors \subseteq Sensors
  /\ LMSensors \intersect TpSensors = {}
  /\ Configs \subseteq Config /\ Configs # {}
  /\ Grace \in Nat \ {0}

VARIABLES
  pc,           \* where the program is
  todo,         \* the devices the current for-loop has still to visit
  cfg,          \* *config
  drv,          \* the driver objects of *config
  found,        \* the LM and TP sensors of *config whose path_ has a value
  mode,         \* who controls each fan, in the hardware
  interrupted,  \* the last signal stored by sig_handler, "none" is 0
  tolerate,     \* tolerate_errors
  status,       \* why the process ended
  unreturned    \* the fans whose destructor failed to write the initial state

vars == <<pc, todo, cfg, drv, found, mode, interrupted, tolerate, status, unreturned>>

Requests == {"HUP", "USR2", "TERM"}       \* SIGINT is handled like SIGTERM

InitPhases == {"init_sensors", "init_fans", "reinit_fans"}
ReadPhases == {"first_read", "read"}
SpeedPhases == {"first_speed", "speed"}

\* try_init_driver sleeps between two attempts, and then goes on where it was.
NapOf == [init_sensors |-> "nap_sensors", init_fans |-> "nap_fans",
          reinit_fans |-> "nap_refans"]
Naps == {NapOf[p] : p \in InitPhases}

\* The pcs of run().
RunPhases == ReadPhases \union SpeedPhases \union {"loop", "sleep", "woken", "grace"}

Phases == InitPhases \union Naps \union RunPhases \union
          {"consistency", "is_hup", "reload", "is_usr2", "clear", "again", "over"}

\* The exceptions that no handler names.
Uncaught == {"out_of_range", "bad_optional_access"}

Ends == {"none", "clean", "init", "misfit", "config", "read", "speed", "einval"}
        \union Uncaught

Unchanged ==
  UNCHANGED <<cfg, drv, found, mode, interrupted, tolerate, status, unreturned>>

-----------------------------------------------------------------------------
(* Control *)

\* The list a for-loop at p iterates over.
Work(p) ==
  IF p \in ReadPhases \union {"init_sensors"} THEN cfg.uses \intersect Sensors
  ELSE IF p \in SpeedPhases \union {"init_fans", "reinit_fans"}
       THEN cfg.uses \intersect Fans
  ELSE {}

Enter(p) == pc' = p /\ todo' = Work(p)

\* Where the program is after a for-loop.
After == [init_sensors |-> "init_fans", init_fans |-> "consistency",
          first_read |-> "first_speed", first_speed |-> "loop",
          read |-> "grace", speed |-> "loop", reinit_fans |-> "clear"]

\* ~FanDriver of every fan of a configuration that goes away with the driver
\* objects d while the hardware is in the modes m: a driver whose init()
\* succeeded writes back what it remembered, and only logs if it cannot.
Release(d, m) ==
  LET held == {f \in cfg.uses \intersect Fans : d[f].inited}
  IN  \E failed \in SUBSET held :
        /\ mode' = [f \in Fans |-> IF f \in held \ failed THEN d[f].saved ELSE m[f]]
        /\ unreturned' = unreturned \union failed

\* An exception reaches main(): the configuration is destroyed on the way.
Throw(why, d, m) ==
  /\ pc' = "over" /\ todo' = {}
  /\ status' = why
  /\ drv' = d
  /\ Release(d, m)
  /\ UNCHANGED <<cfg, found, interrupted, tolerate>>

\* An exception reaches handle_uncaught: the process is aborted without
\* unwinding, and every fan stays as it is.
Crash(why) ==
  /\ pc' = "over" /\ todo' = {}
  /\ status' = why
  /\ UNCHANGED <<cfg, drv, found, mode, interrupted, tolerate, unreturned>>

-----------------------------------------------------------------------------
(* Drivers *)

MaxErr(x) == cfg.maxErr[x]
Optional(x) == x \in cfg.optional

\* A mutant: init() reads the initial state each time.
RemembersAnew(x) == IF x \in Fans THEN mode[x] ELSE drv[x].saved

\* A fan's init() reads the initial state only while it has none.
Remembered(x) ==
  IF x \in Fans /\ drv[x].saved = "none" THEN mode[x] ELSE drv[x].saved

\* The driver after init(), or any later operation, has succeeded.
Working(x) == [inited |-> TRUE, errors |-> 0, saved |-> Remembered(x)]

\* init() of a HwmonFanDriver also switches the fan to manual control.
ModeAfterInit(x) ==
  IF x \in PwmFans THEN [mode EXCEPT ![x] = "thinkfan"] ELSE mode

\* The driver after init() has failed, before or after it read the state.
InitFailures(x) ==
  {CountError(drv[x], MaxErr(x)),
   CountError([drv[x] EXCEPT !.saved = Remembered(x)], MaxErr(x))}

\* The sensors of which it matters when they have a path_.
Tracked == LMSensors \union TpSensors

\* try_init() of x has found it.
FoundToo(x) == found \union ({x} \intersect Tracked)

\* try_init() of x has failed.  A failed lookup of an LM sensor makes all LM
\* sensors unavailable; a TpSensorDriver whose init() has failed has been found.
FoundAfterFailure(x) ==
  IF x \in LMSensors THEN found \ LMSensors
  ELSE found \union ({x} \intersect TpSensors)

\* The operation on x succeeded and left driver o and fan modes m.
Succeed(x, o, m) ==
  /\ drv' = [drv EXCEPT ![x] = o]
  /\ found' = FoundToo(x)
  /\ mode' = m
  /\ todo' = todo \ {x}
  /\ UNCHANGED <<pc, cfg, interrupted, tolerate, status, unreturned>>

\* A mutant: a device that is not there is passed over.
FailSkips(x, o, m, p, why) ==
  IF Forgives(o, Optional(x), MaxErr(x), tolerate)
  THEN Succeed(x, o, m) ELSE Throw(why, [drv EXCEPT ![x] = o], m)

\* The operation on x failed and left driver o, fan modes m and paths p.  Only
\* try_init_driver insists on a device, and sleeps before it tries again.
Fail(x, o, m, p, why) ==
  IF Forgives(o, Optional(x), MaxErr(x), tolerate)
  THEN /\ drv' = [drv EXCEPT ![x] = o]
       /\ found' = p
       /\ mode' = m
       /\ IF pc \in InitPhases /\ ~o.inited /\ ~Optional(x)
          THEN pc' = NapOf[pc] /\ todo' = todo
          ELSE pc' = pc /\ todo' = todo \ {x}
       /\ UNCHANGED <<cfg, interrupted, tolerate, status, unreturned>>
  ELSE Throw(why, [drv EXCEPT ![x] = o], m)

-----------------------------------------------------------------------------
(* The steps of the program *)

\* Config::init_sensors, Config::init_fans: try_init_driver
InitSucceeds(x) ==
  /\ pc \in InitPhases /\ x \in todo
  /\ Succeed(x, Working(x), ModeAfterInit(x))

\* There is no lookup of an LM sensor that has its path_, and its init() does
\* nothing.
InitFails(x) ==
  /\ pc \in InitPhases /\ x \in todo
  /\ x \notin LMSensors \intersect found
  /\ \E o \in InitFailures(x) : Fail(x, o, mode, FoundAfterFailure(x), "init")

Nap ==
  \E p \in InitPhases :
    /\ pc = NapOf[p]
    /\ pc' = p
    /\ UNCHANGED todo /\ Unchanged

\* try_init() of sensor s: robust_io calls it while s is not initialised, or is
\* not available any more.
Tries(s) ==
  /\ s \in todo
  /\ \/ pc = "init_sensors"
     \/ pc \in ReadPhases /\ (~drv[s].inited \/ s \in Tracked \ found)

\* TpSensorDriver::lookup cannot open the file, and the message of its error
\* names path(), which has no value yet.
LookupCrashes(s) ==
  /\ Tries(s) /\ s \in TpSensors \ found
  /\ Crash("bad_optional_access")

\* TpSensorDriver::init finds fewer temperatures than are configured, or than
\* there are corrections: robust_op does not handle a ConfigError.
Misfits(s) ==
  /\ Tries(s) /\ s \in TpSensors
  /\ Throw("misfit", drv, mode)

\* SensorDriver::read_temps, through robust_io
ReadSucceeds(s) ==
  /\ pc \in ReadPhases /\ s \in todo
  /\ Succeed(s, Working(s), mode)

ReadFails(s) ==
  /\ pc \in ReadPhases /\ s \in todo
  /\ \/ /\ ~Tries(s)
        /\ Fail(s, CountError(drv[s], MaxErr(s)), mode, found, "read")
     \/ /\ Tries(s)
        /\ Fail(s, CountError(Working(s), MaxErr(s)), mode, FoundToo(s), "read")
     \/ /\ Tries(s)
        /\ \E o \in InitFailures(s) :
             /\ ~(drv[s].inited /\ Forgives(o, Optional(s), MaxErr(s), tolerate))
             /\ Fail(s, o, mode, FoundAfterFailure(s), "read")

\* An LM sensor that was initialised, and has lost its path_ by the failed
\* lookup of another one, is not found again, and that is forgiven: robust_io
\* goes on to ask for its temperatures, and clients_.at() throws.
ReadCrashes(s) ==
  /\ pc \in ReadPhases /\ Tries(s) /\ drv[s].inited
  /\ \E o \in InitFailures(s) : Forgives(o, Optional(s), MaxErr(s), tolerate)
  /\ Crash("out_of_range")

\* The kernel refuses a PWM value with EINVAL while the fan is in automatic
\* mode.  A driver that is not initialised is initialised first.
Writable(f) == f \in PwmFans /\ drv[f].inited => mode[f] = "thinkfan"

\* FanDriver::set_speed, through robust_io.  A failure for good is thrown by
\* value as an ExpectedError, so the EINVAL handler of
\* HwmonFanDriver::set_speed, which catches IOerror, does not see it.
SpeedSucceeds(f) ==
  /\ pc \in SpeedPhases /\ f \in todo
  /\ Writable(f)
  /\ Succeed(f, Working(f), [mode EXCEPT ![f] = "thinkfan"])

SpeedFails(f) ==
  /\ pc \in SpeedPhases /\ f \in todo
  /\ IF drv[f].inited
     THEN Fail(f, CountError(drv[f], MaxErr(f)), mode, found,
               IF Writable(f) THEN "speed" ELSE "einval")
     ELSE \/ \E o \in InitFailures(f) : Fail(f, o, mode, found, "speed")
          \/ Fail(f, CountError(Working(f), MaxErr(f)), ModeAfterInit(f), found, "speed")

\* set_fanspeed keeps the level and writes nothing: the fan has no watchdog, or
\* it is not yet time to write the level again for its sake.
SpeedHolds(f) ==
  /\ pc = "speed" /\ f \in todo
  /\ todo' = todo \ {f}
  /\ UNCHANGED pc /\ Unchanged

\* The end of a for-loop.
Advance ==
  /\ pc \in DOMAIN After /\ todo = {}
  /\ Enter(After[pc])
  /\ Unchanged

\* Config::ensure_consistency, after which the sensors' references are set.
Consistency ==
  /\ pc = "consistency"
  /\ \/ cfg.sane /\ Enter("first_read") /\ Unchanged
     \/ ~cfg.sane /\ Throw("config", drv, mode)

\* while (!interrupted)
Loop ==
  /\ pc = "loop"
  /\ Enter(IF interrupted = "none" THEN "sleep" ELSE "is_hup")
  /\ Unchanged

\* sleep() returns at a signal or when its time is up.
Sleep == pc = "sleep" /\ Enter("woken") /\ Unchanged

\* if (interrupted) break
Woken ==
  /\ pc = "woken"
  /\ Enter(IF interrupted = "none" THEN "read" ELSE "is_hup")
  /\ Unchanged

\* A mutant: the counter is decremented at 0 too.
TickAlways ==
  /\ pc = "grace"
  /\ tolerate' = tolerate - 1
  /\ Enter("speed")
  /\ UNCHANGED <<cfg, drv, found, mode, interrupted, status, unreturned>>

\* if (tolerate_errors > 0) tolerate_errors--
Tick ==
  /\ pc = "grace"
  /\ tolerate' = IF tolerate > 0 THEN tolerate - 1 ELSE 0
  /\ Enter("speed")
  /\ UNCHANGED <<cfg, drv, found, mode, interrupted, status, unreturned>>

\* if (interrupted == SIGHUP)
IsHup ==
  /\ pc = "is_hup"
  /\ Enter(IF interrupted = "HUP" THEN "reload" ELSE "is_usr2")
  /\ Unchanged

\* read_config threw: the old configuration stays.
ReloadFails == pc = "reload" /\ Enter("clear") /\ Unchanged

\* A mutant: the old configuration is not destroyed.
ReloadLeaks(c) ==
  /\ pc = "reload"
  /\ cfg' = c
  /\ drv' = [x \in Devices |-> Fresh] /\ found' = {}
  /\ pc' = "clear" /\ todo' = {}
  /\ UNCHANGED <<mode, interrupted, tolerate, status, unreturned>>

\* read_config returned c, which replaces *config; the old one is destroyed.
ReloadSucceeds(c) ==
  /\ pc = "reload"
  /\ Release(drv, mode)
  /\ cfg' = c
  /\ drv' = [x \in Devices |-> Fresh] /\ found' = {}
  /\ pc' = "clear" /\ todo' = {}
  /\ UNCHANGED <<interrupted, tolerate, status>>

\* else if (interrupted == SIGUSR2)
IsUsr2 ==
  /\ pc = "is_usr2"
  /\ Enter(IF interrupted = "USR2" THEN "reinit_fans" ELSE "again")
  /\ Unchanged

\* interrupted = 0
Clear ==
  /\ pc = "clear"
  /\ interrupted' = "none"
  /\ Enter("again")
  /\ UNCHANGED <<cfg, drv, found, mode, tolerate, status, unreturned>>

\* A mutant: the loop goes back to run() without Config::init.
AgainWithoutInit ==
  /\ pc = "again"
  /\ \/ interrupted = "none" /\ Enter("first_read") /\ Unchanged
     \/ interrupted # "none" /\ Throw("clean", drv, mode)

\* A mutant: the loop is left with exit(), which destroys no local object.
AgainExits ==
  /\ pc = "again"
  /\ \/ interrupted = "none" /\ Enter("init_sensors") /\ Unchanged
     \/ /\ interrupted # "none"
        /\ pc' = "over" /\ status' = "clean" /\ todo' = {}
        /\ UNCHANGED <<cfg, drv, found, mode, interrupted, tolerate, unreturned>>

\* A mutant: the loop is left for no signal.
AgainForever == pc = "again" /\ Enter("init_sensors") /\ Unchanged

\* while (!interrupted), and the end of main() if it is set.
Again ==
  /\ pc = "again"
  /\ \/ interrupted = "none" /\ Enter("init_sensors") /\ Unchanged
     \/ interrupted # "none" /\ Throw("clean", drv, mode)

Main ==
  \/ \E x \in Devices : InitSucceeds(x) \/ InitFails(x)
  \/ \E s \in Sensors : ReadSucceeds(s) \/ ReadFails(s) \/ ReadCrashes(s)
  \/ \E s \in TpSensors : LookupCrashes(s) \/ Misfits(s)
  \/ \E f \in Fans : SpeedSucceeds(f) \/ SpeedFails(f) \/ SpeedHolds(f)
  \/ \E c \in Configs : ReloadSucceeds(c)
  \/ Nap \/ Advance \/ Consistency \/ Loop \/ Sleep \/ Woken \/ Tick
  \/ IsHup \/ ReloadFails \/ IsUsr2 \/ Clear \/ Again

-----------------------------------------------------------------------------
(* The steps of the environment *)

\* sig_handler: there is one slot for all three requests.
Request(r) ==
  /\ pc # "over"
  /\ interrupted' = r
  /\ UNCHANGED <<pc, todo, cfg, drv, found, mode, tolerate, status, unreturned>>

\* A mutant: a second SIGPWR does not renew what the first has granted.
PowerSignalOnce ==
  /\ pc # "over"
  /\ tolerate' = IF tolerate > 0 THEN tolerate ELSE Grace
  /\ UNCHANGED <<pc, todo, cfg, drv, found, mode, interrupted, status, unreturned>>

\* sig_handler at SIGPWR
PowerSignal ==
  /\ pc # "over"
  /\ tolerate' = Grace
  /\ UNCHANGED <<pc, todo, cfg, drv, found, mode, interrupted, status, unreturned>>

\* The machine wakes up from suspend, and the fan is back in automatic mode.
WakeUp(f) ==
  /\ pc # "over"
  /\ mode' = [mode EXCEPT ![f] = "firmware"]
  /\ UNCHANGED <<pc, todo, cfg, drv, found, interrupted, tolerate, status, unreturned>>

Environment ==
  \/ \E r \in Requests : Request(r)
  \/ PowerSignal
  \/ \E f \in Fans : WakeUp(f)

-----------------------------------------------------------------------------

Init ==
  /\ cfg \in Configs
  /\ pc = "init_sensors" /\ todo = cfg.uses \intersect Sensors
  /\ drv = [x \in Devices |-> Fresh] /\ found = {}
  /\ mode = [f \in Fans |-> "firmware"]
  /\ interrupted = "none" /\ tolerate = 0
  /\ status = "none" /\ unreturned = {}

Next == Main \/ Environment

Spec == Init /\ [][Next]_vars

-----------------------------------------------------------------------------
(* Properties *)

\* The values the variables can have; the for-loops visit devices of *config,
\* and `status' says how the process ended exactly when it has.
TypeOK ==
  /\ pc \in Phases
  /\ todo \subseteq cfg.uses
  /\ cfg \in Configs
  /\ drv \in [Devices -> Driver]
  /\ found \subseteq cfg.uses \intersect Tracked
  /\ mode \in [Fans -> Modes]
  /\ interrupted \in Requests \union {"none"}
  /\ tolerate \in 0..Grace
  /\ status \in Ends
  /\ unreturned \subseteq Fans
  /\ pc = "over" <=> status # "none"

\* Whenever main() or one of its handlers ends the process, and whatever was
\* reloaded, forgiven or reset by a suspend before, every fan is back under the
\* firmware's control, unless the write that gives it back has failed:
\* ~TpFanDriver and ~HwmonFanDriver restore what the driver found, which is
\* never thinkfan's own setting.  So is it when the file of a TpSensorDriver is
\* missing, although nothing is unwound then: no fan has been taken before.  The
\* out_of_range of clients_.at() is the one end that may leave fans driven, and
\* OnlyHeldFansDriven says which.
FanReturned ==
  pc = "over" /\ status # "out_of_range" =>
    \A f \in Fans \ unreturned : mode[f] = "firmware"

\* A fan that no driver of the running configuration holds is under firmware
\* control too: dropping a fan from the configuration gives it back, and a crash
\* leaves no other fan driven than those held at that moment.
OnlyHeldFansDriven ==
  \A f \in Fans \ unreturned :
    mode[f] = "thinkfan" => f \in cfg.uses /\ drv[f].inited /\ drv[f].saved = "firmware"

\* run() never works with a device of its configuration that has not been
\* initialised, unless the device is optional: try_init_driver does not return
\* before, no matter which errors are forgiven meanwhile.
RunsInitialised ==
  pc \in RunPhases => \A x \in cfg.uses \ cfg.optional : drv[x].inited

\* How the process has ended, and who controls the fans, as FanService sees it.
State ==
  IF pc # "over" THEN "up" ELSE IF status \in Uncaught THEN "crashed" ELSE "done"
Holds(f) == pc # "over" /\ f \in cfg.uses /\ drv[f].inited
Control ==
  [f \in Fans |-> IF mode[f] = "firmware" THEN "firmware"
                  ELSE IF Holds(f) THEN "held" ELSE "left"]

Service ==
  INSTANCE FanService WITH state <- State, control <- Control, failed <- unreturned

\* The program keeps to FanService with each of its steps: in no phase and by no
\* error, reload, signal or crash does a fan change hands in another way.
KeepsToService == Service!Spec

=============================================================================
