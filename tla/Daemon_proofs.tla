---------------------------- MODULE Daemon_proofs ----------------------------
(***************************************************************************)
(* What holds of the daemon for any devices, configurations and Grace: the *)
(* fans are given back, the abstract service is implemented, and the       *)
(* tolerance after a SIGPWR lasts.                                         *)
(***************************************************************************)
EXTENDS DaemonSignals, TLAPS

-----------------------------------------------------------------------------
(* The inductive invariant *)

\* A driver of a fan that has been initialised remembers an initial state.
Known(d) == \A f \in Fans : d[f].inited => d[f].saved # "none"

\* Of the fans that were never left behind: the driven ones are held, and no
\* driver remembers thinkfan's own mode.
Held(d, m) ==
  \A f \in Fans \ unreturned :
    /\ m[f] = "thinkfan" => f \in cfg.uses /\ d[f].inited
    /\ d[f].saved # "thinkfan"

\* The devices that Config::init has dealt with already at this point.
Past ==
  IF pc \in RunPhases \union {"consistency"} THEN cfg.uses
  ELSE IF pc \in {"init_fans", "nap_fans"} THEN cfg.uses \ todo
  ELSE IF pc \in {"init_sensors", "nap_sensors"}
       THEN (cfg.uses \intersect Sensors) \ todo
  ELSE {}

InitProgress == \A x \in Past \ cfg.optional : drv[x].inited

\* The thinkpad_acpi sensors that have not been looked up yet.  The first lookup
\* finds the file or ends the process, and none comes after a fan is taken.
Missing(u, p) == (u \intersect TpSensors) \ p

SensorPhases == {"init_sensors", "nap_sensors"}

FoundFirst ==
  /\ pc \in SensorPhases => Missing(cfg.uses, found) \subseteq todo /\ todo \subseteq Sensors
  /\ pc \notin SensorPhases \union {"clear", "again", "over"} => Missing(cfg.uses, found) = {}
  /\ pc # "over" /\ Missing(cfg.uses, found) # {} => \A f \in Fans : ~drv[f].inited

IInv ==
  /\ TypeOK /\ Known(drv) /\ Held(drv, mode)
  /\ FanReturned /\ InitProgress /\ FoundFirst

-----------------------------------------------------------------------------
(* Lemmas about configurations and drivers *)

\* What *config names is a device, and every device has a max_errors.
LEMMA ConfigType ==
  ASSUME TypeOK
  PROVE  /\ cfg.uses \subseteq Devices
         /\ \A x \in Devices : MaxErr(x) \in Nat
<1>1. cfg \in Config
  BY DaemonAssumption DEF TypeOK
<1> QED
  BY <1>1 DEF Config, MaxErr

\* Counting an error changes nothing else.
LEMMA CountErrorEffect ==
  ASSUME NEW o \in Driver, NEW n \in Nat
  PROVE  /\ CountError(o, n) \in Driver
         /\ CountError(o, n).inited = o.inited
         /\ CountError(o, n).saved = o.saved
  BY DEF CountError, Driver

\* What init() leaves when it has succeeded.
LEMMA WorkingType ==
  ASSUME TypeOK, NEW x \in Devices
  PROVE  /\ Working(x) \in Driver
         /\ Working(x).inited
         /\ Working(x).saved = Remembered(x)
         /\ x \in Fans => Remembered(x) # "none"
         /\ ModeAfterInit(x) \in [Fans -> Modes]
<1>1. drv[x] \in Driver
  BY DEF TypeOK
<1>2. Remembered(x) \in Saved /\ (x \in Fans => Remembered(x) # "none")
  BY <1>1 DEF Remembered, TypeOK, Saved, Modes, Driver
<1>3. ModeAfterInit(x) \in [Fans -> Modes]
  BY DEF ModeAfterInit, TypeOK, Modes
<1> QED
  BY <1>2, <1>3 DEF Working, Driver

\* What init() leaves when it has failed.
LEMMA InitFailuresType ==
  ASSUME TypeOK, NEW x \in Devices, NEW o \in InitFailures(x)
  PROVE  /\ o \in Driver
         /\ o.inited = drv[x].inited
         /\ o.saved = drv[x].saved \/ o.saved = Remembered(x)
<1>1. drv[x] \in Driver /\ MaxErr(x) \in Nat
  BY ConfigType DEF TypeOK
<1> DEFINE r == [drv[x] EXCEPT !.saved = Remembered(x)]
<1>2. Remembered(x) \in Saved
  BY <1>1 DEF Remembered, TypeOK, Saved, Modes, Driver
<1>3. r \in Driver /\ r.inited = drv[x].inited /\ r.saved = Remembered(x)
  BY <1>1, <1>2 DEF Driver
<1> HIDE DEF r
<1>4. o = CountError(drv[x], MaxErr(x)) \/ o = CountError(r, MaxErr(x))
  BY DEF InitFailures, r
<1> QED
  BY <1>1, <1>3, <1>4, CountErrorEffect

\* A fan that is remembered now is remembered in the firmware's hands.
LEMMA RememberedState ==
  ASSUME IInv, NEW f \in Fans \ unreturned
  PROVE  Remembered(f) # "thinkfan"
<1>1. drv[f].saved = "none" => mode[f] # "thinkfan"
  BY DEF IInv, Known, Held
<1> QED
  BY <1>1 DEF IInv, Held, Remembered

-----------------------------------------------------------------------------
(* Lemmas about leaving a configuration *)

\* The destructors give back every fan they can write to.
LEMMA ReleaseEffect ==
  ASSUME NEW d \in [Devices -> Driver], NEW m \in [Fans -> Modes],
         TypeOK, Known(d), Held(d, m), Release(d, m)
  PROVE  /\ mode' \in [Fans -> Modes]
         /\ unreturned' \subseteq Fans
         /\ unreturned \subseteq unreturned'
         /\ \A f \in Fans \ unreturned' : mode'[f] = "firmware"
<1> DEFINE held == {f \in cfg.uses \intersect Fans : d[f].inited}
<1>1. PICK failed \in SUBSET held :
        /\ mode' = [f \in Fans |-> IF f \in held \ failed THEN d[f].saved ELSE m[f]]
        /\ unreturned' = unreturned \union failed
  BY DEF Release
<1>2. held \subseteq Fans /\ \A f \in held : f \in cfg.uses /\ d[f].inited
  OBVIOUS
<1>3. \A f \in Fans : d[f] \in Driver /\ d[f].saved \in Saved
  BY DEF Devices, Driver
<1>4. \A f \in held : d[f].saved \in Modes
  BY <1>2, <1>3 DEF Known, Saved
<1>5. mode' \in [Fans -> Modes]
  BY <1>1, <1>4
<1>6. ASSUME NEW f \in Fans \ unreturned' PROVE mode'[f] = "firmware"
  <2>1. f \notin unreturned /\ f \notin failed
    BY <1>1
  <2>2. CASE f \in held
    BY <1>1, <1>4, <2>1, <2>2 DEF Held, Modes
  <2>3. CASE f \notin held
    <3>1. mode'[f] = m[f] /\ m[f] \in Modes
      BY <1>1, <2>3
    <3>2. m[f] # "thinkfan"
      BY <2>1, <2>3 DEF Held
    <3> QED
      BY <3>1, <3>2 DEF Modes
  <2> QED
    BY <2>2, <2>3
<1>7. unreturned' \subseteq Fans /\ unreturned \subseteq unreturned'
  BY <1>1, <1>2 DEF TypeOK
<1> QED
  BY <1>5, <1>6, <1>7

\* An exception ends the process, and keeps the invariant.
LEMMA ThrowKeeps ==
  ASSUME IInv, NEW d \in [Devices -> Driver], NEW m \in [Fans -> Modes],
         Known(d), Held(d, m), NEW why \in Ends \ {"none"}, Throw(why, d, m)
  PROVE  IInv'
<1>1. Release(d, m) /\ TypeOK
  BY DEF Throw, IInv
<1>2. /\ mode' \in [Fans -> Modes]
      /\ unreturned' \subseteq Fans
      /\ unreturned \subseteq unreturned'
      /\ \A f \in Fans \ unreturned' : mode'[f] = "firmware"
  BY <1>1, ReleaseEffect
<1>3. /\ pc' = "over" /\ todo' = {} /\ status' = why /\ drv' = d
      /\ cfg' = cfg /\ interrupted' = interrupted /\ tolerate' = tolerate
      /\ found' = found
  BY DEF Throw
<1>4. TypeOK'
  BY <1>1, <1>2, <1>3 DEF TypeOK, Phases
<1>5. Known(drv')
  BY <1>3 DEF Known
<1>6. Held(drv, mode)'
  BY <1>2, <1>3 DEF Held
<1>7. FanReturned' /\ InitProgress' /\ FoundFirst'
  BY <1>2, <1>3 DEF FanReturned, InitProgress, FoundFirst, SensorPhases, Past,
                    RunPhases, ReadPhases, SpeedPhases
<1> QED
  BY <1>4, <1>5, <1>6, <1>7 DEF IInv, Known

\* So does a crash; where it is the lookup of a thinkpad_acpi sensor that has
\* crashed, no fan had been taken.
LEMMA CrashKeeps ==
  ASSUME IInv, pc # "over", NEW why \in Uncaught, Crash(why),
         why = "bad_optional_access" => Missing(cfg.uses, found) # {}
  PROVE  IInv'
<1>1. /\ pc' = "over" /\ todo' = {} /\ status' = why
      /\ UNCHANGED <<cfg, drv, found, mode, interrupted, tolerate, unreturned>>
  BY DEF Crash
<1>2. why \in Ends \ {"none"}
  BY DEF Uncaught, Ends
<1>3. TypeOK'
  BY <1>1, <1>2 DEF IInv, TypeOK, Phases
<1>4. Known(drv)' /\ Held(drv, mode)'
  BY <1>1 DEF IInv, Known, Held
<1>5. FanReturned'
  <2> SUFFICES ASSUME why = "bad_optional_access", NEW f \in Fans \ unreturned
               PROVE  mode[f] = "firmware"
    BY <1>1 DEF FanReturned, Uncaught
  <2>1. ~drv[f].inited
    BY DEF IInv, FoundFirst
  <2>2. mode[f] \in Modes
    BY DEF IInv, TypeOK
  <2> QED
    BY <2>1, <2>2 DEF IInv, Held, Modes
<1>6. InitProgress' /\ FoundFirst'
  BY <1>1 DEF InitProgress, FoundFirst, SensorPhases, Past, RunPhases, ReadPhases, SpeedPhases
<1> QED
  BY <1>3, <1>4, <1>5, <1>6 DEF IInv

-----------------------------------------------------------------------------
(* Lemmas about the operations of a driver *)

\* What every operation on device x makes of its driver o and the modes m.
Fits(x, o, m) ==
  /\ o \in Driver /\ m \in [Fans -> Modes]
  /\ drv[x].inited => o.inited
  /\ x \in Fans /\ o.inited => o.saved # "none"
  /\ x \in Fans \ unreturned => o.saved # "thinkfan"
  /\ \A f \in Fans : m[f] = "thinkfan" => mode[f] = "thinkfan" \/ (f = x /\ o.inited)

\* Whatever Fits keeps what is known of all the other drivers and fans.
LEMMA UpdateKeeps ==
  ASSUME IInv, NEW x \in todo, NEW o, NEW m, Fits(x, o, m)
  PROVE  LET d == [drv EXCEPT ![x] = o]
         IN  /\ x \in Devices /\ d \in [Devices -> Driver]
             /\ Known(d) /\ Held(d, m)
             /\ d[x] = o
             /\ \A y \in Devices : drv[y].inited => d[y].inited
<1> DEFINE d == [drv EXCEPT ![x] = o]
<1>1. x \in Devices /\ x \in cfg.uses /\ drv \in [Devices -> Driver]
  BY ConfigType DEF IInv, TypeOK
<1>2. d \in [Devices -> Driver] /\ d[x] = o /\ \A y \in Devices \ {x} : d[y] = drv[y]
  BY <1>1 DEF Fits
<1>3. Fans \subseteq Devices
  BY DEF Devices
<1> HIDE DEF d
<1>4. \A y \in Devices : drv[y].inited => d[y].inited
  BY <1>2 DEF Fits
<1>5. Known(d)
  BY <1>2, <1>3 DEF IInv, Known, Fits
<1>6. Held(d, m)
  <2> SUFFICES ASSUME NEW f \in Fans \ unreturned
               PROVE  /\ m[f] = "thinkfan" => f \in cfg.uses /\ d[f].inited
                      /\ d[f].saved # "thinkfan"
    BY DEF Held
  <2>1. CASE f = x
    BY <1>1, <1>2, <1>4, <2>1, <1>3 DEF Fits, IInv, Held
  <2>2. CASE f # x
    BY <1>2, <1>3, <2>2 DEF Fits, IInv, Held
  <2> QED
    BY <2>1, <2>2
<1> QED
  BY <1>1, <1>2, <1>4, <1>5, <1>6 DEF d

\* The phases with a for-loop over devices.
LoopPhases == InitPhases \union ReadPhases \union SpeedPhases

\* What every operation on device x makes of the paths.
FitsFound(x, p) ==
  /\ p \subseteq cfg.uses \intersect Tracked
  /\ TpSensors \intersect (found \union {x}) \subseteq p

\* A path that is found stays, for a thinkpad_acpi sensor.
LEMMA FoundKept ==
  ASSUME IInv, pc \in LoopPhases, NEW x \in todo, NEW o, NEW p,
         FitsFound(x, p),
         drv' = [drv EXCEPT ![x] = o], found' = p, cfg' = cfg,
         \/ pc' = pc /\ todo' = todo \ {x}
         \/ pc \in InitPhases /\ pc' = NapOf[pc] /\ todo' = todo
  PROVE  FoundFirst'
<1>1. /\ x \in Devices /\ drv \in [Devices -> Driver] /\ Fans \subseteq Devices
      /\ Sensors \intersect Fans = {}
  BY ConfigType, DaemonAssumption DEF IInv, TypeOK, Devices
<1>2. Missing(cfg.uses, p) \subseteq Missing(cfg.uses, found) \ {x}
  BY DEF Missing, FitsFound
<1>3. CASE pc = "init_sensors"
  <2>1. pc' \in SensorPhases /\ todo \ {x} \subseteq todo' /\ todo' \subseteq todo
    BY <1>3 DEF NapOf, InitPhases, SensorPhases
  <2>2. Missing(cfg.uses, found) \subseteq todo /\ todo \subseteq Sensors
    BY <1>3 DEF IInv, FoundFirst, SensorPhases
  <2>3. \A f \in Fans : drv'[f] = drv[f]
    BY <1>1, <2>2
  <2>4. Missing(cfg.uses, found) # {} => \A f \in Fans : ~drv[f].inited
    BY <1>3 DEF IInv, FoundFirst
  <2> QED
    BY <1>2, <2>1, <2>2, <2>3, <2>4 DEF FoundFirst, SensorPhases
<1>4. CASE pc # "init_sensors"
  <2>1. pc \notin SensorPhases \union {"clear", "again", "over"}
    BY <1>4 DEF LoopPhases, InitPhases, ReadPhases, SpeedPhases, SensorPhases
  <2>2. Missing(cfg.uses, found) = {}
    BY <2>1 DEF IInv, FoundFirst
  <2>3. pc' \notin SensorPhases
    BY <1>4, <2>1 DEF NapOf, InitPhases, SensorPhases
  <2> QED
    BY <1>2, <2>2, <2>3 DEF FoundFirst
<1> QED
  BY <1>3, <1>4

\* The visit of device x ends and the loop goes on.
LEMMA VisitKeeps ==
  ASSUME IInv, pc \in LoopPhases, NEW x \in todo, NEW o, NEW m, Fits(x, o, m),
         NEW p, FitsFound(x, p),
         drv' = [drv EXCEPT ![x] = o], mode' = m, found' = p,
         pc' = pc, todo' = todo \ {x},
         UNCHANGED <<cfg, interrupted, tolerate, status, unreturned>>,
         pc \in InitPhases => o.inited \/ Optional(x)
  PROVE  IInv'
<1>1. /\ x \in Devices /\ drv' \in [Devices -> Driver]
      /\ Known(drv') /\ Held(drv', mode')
      /\ drv'[x] = o
      /\ \A y \in Devices : drv[y].inited => drv'[y].inited
  BY UpdateKeeps
<1>2. TypeOK'
  BY <1>1 DEF IInv, TypeOK, Fits, FitsFound
<1>3. Held(drv, mode)' /\ Known(drv)'
  BY <1>1 DEF Held, Known
<1>4. pc # "over"
  BY DEF LoopPhases, InitPhases, ReadPhases, SpeedPhases
<1>5. ASSUME NEW y \in Past' \ cfg'.optional PROVE drv'[y].inited
  <2>1. y \in Devices /\ y \notin cfg.optional
    BY <1>2, <1>5, ConfigType DEF Past, IInv
  <2>2. CASE y \in Past
    BY <1>1, <2>1, <2>2 DEF IInv, InitProgress
  <2>3. CASE y \notin Past
    <3>1. y = x /\ pc \in InitPhases
      BY <1>5, <2>3 DEF Past, LoopPhases, InitPhases, ReadPhases, SpeedPhases, RunPhases
    <3> QED
      BY <1>1, <2>1, <3>1 DEF Optional
  <2> QED
    BY <2>2, <2>3
<1>6. InitProgress' /\ FanReturned'
  BY <1>4, <1>5 DEF InitProgress, FanReturned
<1>7. FoundFirst'
  BY FoundKept
<1> QED
  BY <1>2, <1>3, <1>6, <1>7 DEF IInv

\* The paths after an operation.
LEMMA FitsFoundEach ==
  ASSUME IInv, NEW x \in todo
  PROVE  /\ FitsFound(x, FoundToo(x))
         /\ FitsFound(x, FoundAfterFailure(x))
         /\ x \notin TpSensors \ found => FitsFound(x, found)
<1>1. x \in cfg.uses /\ found \subseteq cfg.uses \intersect Tracked
  BY DEF IInv, TypeOK
<1>2. LMSensors \intersect TpSensors = {}
  BY DaemonAssumption
<1> QED
  BY <1>1, <1>2 DEF FitsFound, FoundToo, FoundAfterFailure, Tracked

\* A device whose operation has succeeded is left initialised.
LEMMA SucceedKeeps ==
  ASSUME IInv, pc \in LoopPhases, NEW x \in todo, NEW o, NEW m, Fits(x, o, m),
         o.inited, Succeed(x, o, m)
  PROVE  IInv'
  BY FitsFoundEach, VisitKeeps DEF Succeed

\* The same for a failure, forgiven or not.
LEMMA FailKeeps ==
  ASSUME IInv, pc \in LoopPhases, NEW x \in todo, NEW o, NEW m, Fits(x, o, m),
         NEW p, FitsFound(x, p), NEW why \in Ends \ {"none"}, Fail(x, o, m, p, why)
  PROVE  IInv'
<1> DEFINE d == [drv EXCEPT ![x] = o]
           insists == pc \in InitPhases /\ ~o.inited /\ ~Optional(x)
<1>1. /\ x \in Devices /\ d \in [Devices -> Driver]
      /\ Known(d) /\ Held(d, m)
      /\ d[x] = o
      /\ \A y \in Devices : drv[y].inited => d[y].inited
  BY UpdateKeeps
<1>2. m \in [Fans -> Modes]
  BY DEF Fits
<1>3. \/ Throw(why, d, m)
      \/ /\ drv' = d /\ mode' = m /\ found' = p
         /\ IF insists THEN pc' = NapOf[pc] /\ todo' = todo
            ELSE pc' = pc /\ todo' = todo \ {x}
         /\ UNCHANGED <<cfg, interrupted, tolerate, status, unreturned>>
  BY DEF Fail
<1>4. CASE Throw(why, d, m)
  BY <1>1, <1>2, <1>4, ThrowKeeps
<1>5. CASE /\ drv' = d /\ mode' = m /\ found' = p /\ ~insists
           /\ pc' = pc /\ todo' = todo \ {x}
           /\ UNCHANGED <<cfg, interrupted, tolerate, status, unreturned>>
  BY <1>5, VisitKeeps
<1>6. CASE /\ drv' = d /\ mode' = m /\ found' = p /\ insists
           /\ pc' = NapOf[pc] /\ todo' = todo
           /\ UNCHANGED <<cfg, interrupted, tolerate, status, unreturned>>
  <2>1. \/ pc = "init_sensors" /\ pc' = "nap_sensors"
        \/ pc = "init_fans" /\ pc' = "nap_fans"
        \/ pc = "reinit_fans" /\ pc' = "nap_refans"
    BY <1>6 DEF NapOf, InitPhases
  <2>2. pc' \in Phases /\ pc' # "over"
    BY <1>6, <2>1 DEF Phases, Naps, InitPhases
  <2>3. TypeOK'
    BY <1>1, <1>2, <1>6, <2>1, <2>2 DEF IInv, TypeOK, FitsFound
  <2>4. Held(drv, mode)' /\ Known(drv)'
    BY <1>1, <1>6 DEF Held, Known
  <2>5. Past' = Past
    BY <1>6, <2>1 DEF Past, RunPhases, ReadPhases, SpeedPhases
  <2>6. Past \subseteq Devices
    BY ConfigType DEF Past, IInv
  <2>7. InitProgress' /\ FanReturned'
    BY <1>1, <1>6, <2>2, <2>5, <2>6 DEF InitProgress, FanReturned, IInv
  <2>8. FoundFirst'
    BY <1>6, FoundKept
  <2> QED
    BY <2>3, <2>4, <2>7, <2>8 DEF IInv
<1> QED
  BY <1>3, <1>4, <1>5, <1>6

\* Counting an error fits when what it is counted on fits.
LEMMA FitsCounted ==
  ASSUME IInv, NEW x \in todo, NEW o, NEW m, Fits(x, o, m)
  PROVE  Fits(x, CountError(o, MaxErr(x)), m)
<1>1. x \in Devices /\ MaxErr(x) \in Nat /\ o \in Driver
  BY ConfigType DEF IInv, TypeOK, Fits
<1> QED
  BY <1>1, CountErrorEffect DEF Fits

\* A driver fits as it is.
LEMMA FitsCurrent ==
  ASSUME IInv, NEW x \in todo
  PROVE  Fits(x, drv[x], mode)
<1>1. x \in Devices
  BY ConfigType DEF IInv, TypeOK
<1> QED
  BY <1>1 DEF Fits, IInv, TypeOK, Known, Held

\* A driver after a successful init() fits, whether or not the operation that
\* called it has written to the fan since.
LEMMA FitsWorking ==
  ASSUME IInv, NEW x \in todo
  PROVE  /\ Fits(x, Working(x), mode)
         /\ Fits(x, Working(x), ModeAfterInit(x))
         /\ x \in Fans => Fits(x, Working(x), [mode EXCEPT ![x] = "thinkfan"])
<1>1. x \in Devices /\ mode \in [Fans -> Modes]
  BY ConfigType DEF IInv, TypeOK
<1>2. /\ Working(x) \in Driver /\ Working(x).inited
      /\ Working(x).saved = Remembered(x)
      /\ x \in Fans => Remembered(x) # "none"
      /\ ModeAfterInit(x) \in [Fans -> Modes]
  BY <1>1, WorkingType DEF IInv
<1>3. x \in Fans \ unreturned => Remembered(x) # "thinkfan"
  BY RememberedState
<1>4. Fits(x, Working(x), mode)
  BY <1>1, <1>2, <1>3 DEF Fits
<1>5. \A f \in Fans : ModeAfterInit(x)[f] = "thinkfan" => mode[f] = "thinkfan" \/ f = x
  BY <1>1 DEF ModeAfterInit
<1>6. x \in Fans => [mode EXCEPT ![x] = "thinkfan"] \in [Fans -> Modes]
  BY <1>1 DEF Modes
<1> QED
  BY <1>1, <1>2, <1>3, <1>4, <1>5, <1>6 DEF Fits

\* So does a driver after init() has failed.
LEMMA FitsInitFailure ==
  ASSUME IInv, NEW x \in todo, NEW o \in InitFailures(x)
  PROVE  Fits(x, o, mode)
<1>1. x \in Devices /\ mode \in [Fans -> Modes]
  BY ConfigType DEF IInv, TypeOK
<1>2. /\ o \in Driver /\ o.inited = drv[x].inited
      /\ o.saved = drv[x].saved \/ o.saved = Remembered(x)
      /\ x \in Fans => Remembered(x) # "none"
  BY <1>1, InitFailuresType, WorkingType DEF IInv
<1>3. x \in Fans \ unreturned => Remembered(x) # "thinkfan"
  BY RememberedState
<1> QED
  BY <1>1, <1>2, <1>3 DEF Fits, IInv, Known, Held

-----------------------------------------------------------------------------
(* The steps *)

\* A step that only moves on in the program.
LEMMA EnterKeeps ==
  ASSUME IInv, NEW p \in Phases \ {"over"}, Enter(p), pc # "over",
         UNCHANGED <<cfg, drv, found, mode, status, unreturned>>,
         interrupted' \in Requests \union {"none"}, tolerate' \in 0..Grace,
         InitProgress', FoundFirst'
  PROVE  IInv'
<1>1. todo' \subseteq cfg.uses
  BY ConfigType DEF Enter, Work
<1>2. TypeOK'
  BY <1>1 DEF IInv, TypeOK, Enter
<1>3. Known(drv)' /\ Held(drv, mode)'
  BY DEF IInv, Known, Held
<1>4. FanReturned'
  BY DEF FanReturned, Enter
<1> QED
  BY <1>2, <1>3, <1>4 DEF IInv

\* A device whose driver has succeeded or failed.
LEMMA DeviceStepKeeps ==
  ASSUME IInv,
         NEW x \in Devices,
         \/ InitSucceeds(x) \/ InitFails(x)
         \/ x \in Sensors /\ (ReadSucceeds(x) \/ ReadFails(x) \/ ReadCrashes(x))
         \/ x \in TpSensors /\ (LookupCrashes(x) \/ Misfits(x))
         \/ x \in Fans /\ (SpeedSucceeds(x) \/ SpeedFails(x))
  PROVE  IInv'
<1>1. CASE InitSucceeds(x)
  <2>1. x \in todo /\ pc \in LoopPhases /\ Working(x).inited
    BY <1>1 DEF InitSucceeds, LoopPhases, Working
  <2> QED
    BY <1>1, <2>1, FitsWorking, SucceedKeeps DEF InitSucceeds
<1>2. CASE InitFails(x)
  <2>1. PICK o \in InitFailures(x) : x \in todo /\ pc \in LoopPhases
                                     /\ Fail(x, o, mode, FoundAfterFailure(x), "init")
    BY <1>2 DEF InitFails, LoopPhases
  <2> QED
    BY <2>1, FitsInitFailure, FitsFoundEach, FailKeeps DEF Ends
<1>3. CASE x \in Sensors /\ ReadSucceeds(x)
  <2>1. x \in todo /\ pc \in LoopPhases /\ Working(x).inited
    BY <1>3 DEF ReadSucceeds, LoopPhases, Working
  <2> QED
    BY <1>3, <2>1, FitsWorking, SucceedKeeps DEF ReadSucceeds
<1>4. CASE x \in Sensors /\ ReadFails(x)
  <2>1. x \in todo /\ pc \in LoopPhases
    BY <1>4 DEF ReadFails, LoopPhases
  <2>2. CASE ~Tries(x) /\ Fail(x, CountError(drv[x], MaxErr(x)), mode, found, "read")
    <3>1. x \notin TpSensors \ found
      BY <1>4, <2>1, <2>2 DEF ReadFails, Tries, Tracked
    <3> QED
      BY <2>1, <2>2, <3>1, FitsCurrent, FitsCounted, FitsFoundEach, FailKeeps DEF Ends
  <2>3. CASE Fail(x, CountError(Working(x), MaxErr(x)), mode, FoundToo(x), "read")
    BY <2>1, <2>3, FitsWorking, FitsCounted, FitsFoundEach, FailKeeps DEF Ends
  <2>4. CASE \E o \in InitFailures(x) : Fail(x, o, mode, FoundAfterFailure(x), "read")
    BY <2>1, <2>4, FitsInitFailure, FitsFoundEach, FailKeeps DEF Ends
  <2> QED
    BY <1>4, <2>2, <2>3, <2>4 DEF ReadFails
<1>5. CASE x \in Fans /\ SpeedSucceeds(x)
  <2>1. x \in todo /\ pc \in LoopPhases /\ Working(x).inited
    BY <1>5 DEF SpeedSucceeds, LoopPhases, Working
  <2> QED
    BY <1>5, <2>1, FitsWorking, SucceedKeeps DEF SpeedSucceeds
<1>6. CASE x \in Fans /\ SpeedFails(x)
  <2>1. x \in todo /\ pc \in LoopPhases
    BY <1>6 DEF SpeedFails, LoopPhases
  <2>2. FitsFound(x, found)
    BY <1>6, <2>1, FitsFoundEach, DaemonAssumption
  <2>3. CASE drv[x].inited
    <3>1. PICK why \in {"speed", "einval"} :
            Fail(x, CountError(drv[x], MaxErr(x)), mode, found, why)
      BY <1>6, <2>3 DEF SpeedFails
    <3> QED
      BY <2>1, <2>2, <3>1, FitsCurrent, FitsCounted, FailKeeps DEF Ends
  <2>4. CASE \E o \in InitFailures(x) : Fail(x, o, mode, found, "speed")
    BY <2>1, <2>4, <2>2, FitsInitFailure, FailKeeps DEF Ends
  <2>5. CASE Fail(x, CountError(Working(x), MaxErr(x)), ModeAfterInit(x), found, "speed")
    BY <2>1, <2>5, <2>2, FitsWorking, FitsCounted, FailKeeps DEF Ends
  <2> QED
    BY <1>6, <2>3, <2>4, <2>5 DEF SpeedFails
<1>7. CASE x \in Sensors /\ ReadCrashes(x)
  <2>1. Crash("out_of_range") /\ pc \in ReadPhases
    BY <1>7 DEF ReadCrashes
  <2> QED
    BY <2>1, CrashKeeps DEF Uncaught, ReadPhases
<1>8. CASE x \in TpSensors /\ LookupCrashes(x)
  <2>1. /\ Crash("bad_optional_access") /\ pc \in ReadPhases \union {"init_sensors"}
        /\ x \in todo /\ x \in TpSensors \ found
    BY <1>8 DEF LookupCrashes, Tries
  <2>2. x \in Missing(cfg.uses, found)
    BY <2>1 DEF Missing, IInv, TypeOK
  <2> QED
    BY <2>1, <2>2, CrashKeeps DEF Uncaught, ReadPhases
<1>9. CASE x \in TpSensors /\ Misfits(x)
  BY <1>9, ThrowKeeps DEF Misfits, IInv, TypeOK, Ends
<1> QED
  BY <1>1, <1>2, <1>3, <1>4, <1>5, <1>6, <1>7, <1>8, <1>9

\* Moving on keeps InitProgress when nothing more is expected of the drivers
\* than was before.
LEMMA ProgressKept ==
  ASSUME IInv, UNCHANGED <<cfg, drv>>, Past' \subseteq Past
  PROVE  InitProgress'
  BY DEF IInv, InitProgress

\* So is FoundFirst: the sensors have been looked up when the program leaves the
\* loop over them, and it enters that loop with all of them.
LEMMA FoundFirstKept ==
  ASSUME IInv, UNCHANGED <<cfg, drv, found>>, pc # "over",
         \/ pc' = "init_sensors" /\ todo' = cfg.uses \intersect Sensors
         \/ pc' \in {"clear", "again"}
         \/ /\ pc \notin SensorPhases \union {"clear", "again"}
            /\ pc' \notin SensorPhases
         \/ pc \in SensorPhases /\ todo = {} /\ pc' \notin SensorPhases
         \/ pc \in SensorPhases /\ pc' \in SensorPhases /\ todo' = todo
  PROVE  FoundFirst'
<1>1. Missing(cfg.uses, found) \subseteq cfg.uses \intersect Sensors
  BY DaemonAssumption DEF Missing
<1>2. Missing(cfg.uses, found) # {} => \A f \in Fans : ~drv[f].inited
  BY DEF IInv, FoundFirst
<1>3. /\ pc \in SensorPhases => Missing(cfg.uses, found) \subseteq todo /\ todo \subseteq Sensors
      /\ pc \notin SensorPhases \union {"clear", "again"} => Missing(cfg.uses, found) = {}
  BY DEF IInv, FoundFirst
<1> QED
  BY <1>1, <1>2, <1>3 DEF FoundFirst, SensorPhases

\* The end of a for-loop: Config::init takes the sensors before the fans.
LEMMA AdvanceKeeps ==
  ASSUME IInv, Advance
  PROVE  IInv'
<1>1. /\ pc' = After[pc] /\ todo' = Work(After[pc]) /\ todo = {}
      /\ UNCHANGED <<cfg, drv, found, mode, interrupted, tolerate, status, unreturned>>
  BY DEF Advance, Enter, Unchanged
<1>2. \/ pc = "init_sensors" /\ pc' = "init_fans"
      \/ pc = "init_fans" /\ pc' = "consistency"
      \/ pc = "reinit_fans" /\ pc' = "clear"
      \/ pc \in {"first_read", "first_speed", "read", "speed"}
         /\ pc' \in {"first_speed", "loop", "grace"}
  BY <1>1 DEF Advance, After
<1>3. pc' \in Phases \ {"over"} /\ pc # "over"
  BY <1>2 DEF Phases, InitPhases, RunPhases, SpeedPhases
<1>4. Past' \subseteq Past
  <2>1. CASE pc = "init_sensors" /\ pc' = "init_fans"
    <3>1. todo' = cfg.uses \intersect Fans
      BY <1>1, <2>1 DEF Work, ReadPhases, SpeedPhases
    <3>2. Past = cfg.uses \intersect Sensors
      BY <1>1, <2>1 DEF Past, RunPhases, ReadPhases, SpeedPhases
    <3>3. Past' = cfg.uses \ (cfg.uses \intersect Fans)
      BY <1>1, <2>1, <3>1 DEF Past, RunPhases, ReadPhases, SpeedPhases
    <3> QED
      BY <3>2, <3>3, ConfigType DEF IInv, Devices
  <2>2. CASE pc = "init_fans" /\ pc' = "consistency"
    BY <1>1, <2>2 DEF Past, RunPhases, ReadPhases, SpeedPhases
  <2>3. CASE pc = "reinit_fans" /\ pc' = "clear"
    BY <1>1, <2>3 DEF Past, RunPhases, ReadPhases, SpeedPhases
  <2>4. CASE pc \in {"first_read", "first_speed", "read", "speed"}
             /\ pc' \in {"first_speed", "loop", "grace"}
    BY <1>1, <2>4 DEF Past, RunPhases, ReadPhases, SpeedPhases
  <2> QED
    BY <1>2, <2>1, <2>2, <2>3, <2>4
<1>5. InitProgress'
  BY <1>1, <1>4, ProgressKept
<1>6. Enter(pc')
  BY <1>1 DEF Enter
<1>7. FoundFirst'
  BY <1>1, <1>2, FoundFirstKept DEF SensorPhases
<1> QED
  BY <1>1, <1>3, <1>5, <1>6, <1>7, EnterKeeps DEF IInv, TypeOK

\* The rest of the steps that call no driver.
LEMMA ControlKeeps ==
  ASSUME IInv,
         \/ Loop \/ Sleep \/ Woken \/ Tick \/ IsHup \/ ReloadFails
         \/ IsUsr2 \/ Clear
         \/ cfg.sane /\ Consistency
         \/ interrupted = "none" /\ Again
  PROVE  IInv'
<1>1. \E p \in {"sleep", "is_hup", "woken", "read", "speed", "reload", "is_usr2",
               "clear", "reinit_fans", "again", "first_read", "init_sensors"} :
        Enter(p)
  BY DEF Loop, Sleep, Woken, Tick, IsHup, ReloadFails, IsUsr2, Clear,
         Consistency, Again
<1>2. UNCHANGED <<cfg, drv, found, mode, status, unreturned>>
  BY DEF Loop, Sleep, Woken, Tick, IsHup, ReloadFails, IsUsr2, Clear,
         Consistency, Again, Unchanged
<1>3. /\ interrupted' \in Requests \union {"none"}
      /\ tolerate' \in 0..Grace
  <2>1. tolerate \in 0..Grace /\ interrupted \in Requests \union {"none"}
    BY DEF IInv, TypeOK
  <2>2. CASE Tick
    BY <2>1, <2>2, DaemonAssumption DEF Tick
  <2> QED
    BY <2>1, <2>2 DEF Loop, Sleep, Woken, IsHup, ReloadFails, IsUsr2, Clear,
         Consistency, Again, Unchanged
<1>4. pc # "over"
  BY DEF Loop, Sleep, Woken, Tick, IsHup, ReloadFails, IsUsr2, Clear,
         Consistency, Again
<1>5. FoundFirst'
  <2>1. \/ pc' \in {"clear", "again"}
        \/ pc' = "init_sensors" /\ todo' = cfg.uses \intersect Sensors
        \/ /\ pc \notin SensorPhases \union {"clear", "again"}
           /\ pc' \notin SensorPhases
    BY DEF Loop, Sleep, Woken, Tick, IsHup, ReloadFails, IsUsr2, Clear,
         Consistency, Again, Enter, Work, SensorPhases
  <2> QED
    BY <1>2, <1>4, <2>1, FoundFirstKept
<1>6. CASE pc' \in RunPhases
  <2>1. pc \in RunPhases \union {"consistency"}
    BY <1>6 DEF Loop, Sleep, Woken, Tick, IsHup, ReloadFails, IsUsr2, Clear,
         Consistency, Again, Enter, RunPhases, ReadPhases, SpeedPhases
  <2>2. Past' \subseteq Past
    BY <1>2, <1>6, <2>1 DEF Past
  <2> QED
    BY <1>1, <1>2, <1>3, <1>4, <1>5, <2>2, ProgressKept, EnterKeeps
       DEF Phases, InitPhases, RunPhases, ReadPhases, SpeedPhases
<1>7. CASE pc' \notin RunPhases
  <2>1. pc' \in {"is_hup", "reload", "is_usr2", "clear", "reinit_fans", "again",
                 "init_sensors"}
    BY <1>1, <1>7 DEF Enter, RunPhases, ReadPhases, SpeedPhases
  <2>2. Past' = {}
    <3>1. pc' = "init_sensors" => todo' = cfg'.uses \intersect Sensors
      BY <1>1, <1>2 DEF Enter, Work, ReadPhases
    <3> QED
      BY <2>1, <3>1 DEF Past, RunPhases, ReadPhases, SpeedPhases
  <2>3. InitProgress'
    BY <2>2 DEF InitProgress
  <2> QED
    BY <1>1, <1>2, <1>3, <1>4, <1>5, <2>3, EnterKeeps
       DEF Phases, InitPhases, RunPhases, ReadPhases, SpeedPhases
<1> QED
  BY <1>6, <1>7

\* A new configuration starts with nothing initialised and no fan driven.
LEMMA ReloadKeeps ==
  ASSUME IInv, NEW c \in Configs, ReloadSucceeds(c)
  PROVE  IInv'
<1>1. /\ pc = "reload" /\ pc' = "clear" /\ todo' = {} /\ cfg' = c
      /\ drv' = [x \in Devices |-> Fresh] /\ found' = {}
      /\ UNCHANGED <<interrupted, tolerate, status>>
      /\ Release(drv, mode)
  BY DEF ReloadSucceeds
<1>2. /\ mode' \in [Fans -> Modes]
      /\ unreturned' \subseteq Fans
      /\ \A f \in Fans \ unreturned' : mode'[f] = "firmware"
  BY <1>1, ReleaseEffect DEF IInv, TypeOK
<1>3. Fresh \in Driver /\ ~Fresh.inited /\ Fresh.saved = "none"
  BY DEF Fresh, Driver, Saved
<1>4. TypeOK'
  BY <1>1, <1>2, <1>3 DEF IInv, TypeOK, Phases
<1>5. \A f \in Fans : drv'[f] = Fresh
  BY <1>1 DEF Devices
<1>6. Known(drv)' /\ Held(drv, mode)'
  BY <1>2, <1>3, <1>5 DEF Known, Held
<1>7. FanReturned' /\ InitProgress'
  BY <1>1 DEF FanReturned, InitProgress, Past, RunPhases, ReadPhases, SpeedPhases
<1>8. FoundFirst'
  BY <1>1, <1>3, <1>5 DEF FoundFirst, SensorPhases
<1> QED
  BY <1>4, <1>6, <1>7, <1>8 DEF IInv

\* Signals and a suspend touch no driver.
LEMMA EnvironmentKeeps ==
  ASSUME IInv, Environment
  PROVE  IInv'
<1>1. /\ pc # "over"
      /\ UNCHANGED <<pc, todo, cfg, drv, found, status, unreturned>>
  BY DEF Environment, Request, PowerSignal, WakeUp
<1>2. /\ interrupted' \in Requests \union {"none"}
      /\ tolerate' \in 0..Grace
      /\ mode' \in [Fans -> Modes]
      /\ \A f \in Fans : mode'[f] = mode[f] \/ mode'[f] = "firmware"
  <2>1. CASE \E r \in Requests : Request(r)
    BY <2>1 DEF Request, IInv, TypeOK
  <2>2. CASE PowerSignal
    BY <2>2, DaemonAssumption DEF PowerSignal, IInv, TypeOK
  <2>3. CASE \E f \in Fans : WakeUp(f)
    BY <2>3 DEF WakeUp, IInv, TypeOK, Modes
  <2> QED
    BY <2>1, <2>2, <2>3 DEF Environment
<1>3. TypeOK'
  BY <1>1, <1>2 DEF IInv, TypeOK
<1>4. Known(drv)' /\ Held(drv, mode)'
  BY <1>1, <1>2 DEF IInv, Known, Held
<1>5. Past' = Past
  BY <1>1 DEF Past
<1>6. FanReturned' /\ InitProgress' /\ FoundFirst'
  BY <1>1, <1>5 DEF FanReturned, InitProgress, FoundFirst, IInv
<1> QED
  BY <1>3, <1>4, <1>6 DEF IInv

-----------------------------------------------------------------------------
(* The theorems *)

\* The program starts with the fans in the hands of the firmware.
LEMMA InitHolds == Init => IInv
<1> SUFFICES ASSUME Init PROVE IInv
  OBVIOUS
<1>1. /\ cfg \in Configs /\ pc = "init_sensors" /\ todo = cfg.uses \intersect Sensors
      /\ drv = [x \in Devices |-> Fresh] /\ found = {}
      /\ mode = [f \in Fans |-> "firmware"]
      /\ interrupted = "none" /\ tolerate = 0
      /\ status = "none" /\ unreturned = {}
  BY DEF Init
<1>2. Fresh \in Driver /\ ~Fresh.inited /\ Fresh.saved = "none"
  BY DEF Fresh, Driver, Saved
<1>3. TypeOK
  BY <1>1, <1>2, DaemonAssumption DEF TypeOK, Phases, InitPhases, Modes, Ends
<1>4. \A f \in Fans : drv[f] = Fresh
  BY <1>1 DEF Devices
<1>5. Known(drv) /\ Held(drv, mode)
  BY <1>1, <1>2, <1>4 DEF Known, Held
<1>6. FanReturned /\ InitProgress
  BY <1>1 DEF FanReturned, InitProgress, Past, RunPhases, ReadPhases, SpeedPhases
<1>7. FoundFirst
  BY <1>1, <1>2, <1>4, DaemonAssumption DEF FoundFirst, SensorPhases, Missing
<1> QED
  BY <1>3, <1>5, <1>6, <1>7 DEF IInv

\* Each step, of the program or of its environment, keeps the invariant.
LEMMA StepKeeps == IInv /\ [Next]_vars => IInv'
<1> SUFFICES ASSUME IInv, [Next]_vars PROVE IInv'
  OBVIOUS
<1>1. CASE \E x \in Devices : InitSucceeds(x) \/ InitFails(x)
  BY <1>1, DeviceStepKeeps
<1>2. CASE \/ \E s \in Sensors : ReadSucceeds(s) \/ ReadFails(s) \/ ReadCrashes(s)
           \/ \E s \in TpSensors : LookupCrashes(s) \/ Misfits(s)
  BY <1>2, DeviceStepKeeps, DaemonAssumption DEF Devices
<1>3. CASE \E f \in Fans : SpeedSucceeds(f) \/ SpeedFails(f)
  BY <1>3, DeviceStepKeeps DEF Devices
<1>4. CASE \E f \in Fans : SpeedHolds(f)
  <2>1. PICK f \in Fans : SpeedHolds(f)
    BY <1>4
  <2>2. Fits(f, drv[f], mode) /\ drv = [drv EXCEPT ![f] = drv[f]] /\ pc \in LoopPhases
    BY <2>1, FitsCurrent DEF SpeedHolds, LoopPhases, SpeedPhases, IInv, TypeOK
  <2>3. pc \notin InitPhases
    BY <2>1 DEF SpeedHolds, InitPhases
  <2>4. FitsFound(f, found)
    BY <2>1, FitsFoundEach, DaemonAssumption DEF SpeedHolds
  <2> QED
    BY <2>1, <2>2, <2>3, <2>4, VisitKeeps DEF SpeedHolds, Unchanged
<1>5. CASE \E c \in Configs : ReloadSucceeds(c)
  BY <1>5, ReloadKeeps
<1>6. CASE Nap
  <2>1. PICK p \in InitPhases : pc = NapOf[p] /\ pc' = p /\ UNCHANGED todo /\ Unchanged
    BY <1>6 DEF Nap
  <2>2. \/ pc' = "init_sensors" /\ pc = "nap_sensors"
        \/ pc' = "init_fans" /\ pc = "nap_fans"
        \/ pc' = "reinit_fans" /\ pc = "nap_refans"
    BY <2>1 DEF NapOf, InitPhases
  <2>3. pc' \in Phases /\ pc # "over" /\ pc' # "over"
    BY <2>1, <2>2 DEF Phases, InitPhases
  <2>4. TypeOK'
    BY <2>1, <2>3 DEF IInv, TypeOK, Unchanged
  <2>5. Known(drv)' /\ Held(drv, mode)' /\ FanReturned'
    BY <2>1, <2>3 DEF IInv, Known, Held, FanReturned, Unchanged
  <2>6. Past' = Past
    BY <2>1, <2>2 DEF Past, Unchanged, RunPhases, ReadPhases, SpeedPhases
  <2>7. InitProgress'
    BY <2>1, <2>6 DEF IInv, InitProgress, Unchanged
  <2>8. FoundFirst'
    BY <2>1, <2>2, <2>3, FoundFirstKept DEF Unchanged, SensorPhases
  <2> QED
    BY <2>4, <2>5, <2>7, <2>8 DEF IInv
<1>7. CASE Advance
  BY <1>7, AdvanceKeeps
<1>8. CASE Consistency \/ Again
  <2>1. \/ cfg.sane /\ Consistency
        \/ interrupted = "none" /\ Again
        \/ Throw("config", drv, mode)
        \/ Throw("clean", drv, mode)
    BY <1>8 DEF Consistency, Again
  <2> QED
    BY <2>1, ControlKeeps, ThrowKeeps DEF IInv, TypeOK, Ends
<1>9. CASE Loop \/ Sleep \/ Woken \/ Tick \/ IsHup \/ ReloadFails \/ IsUsr2 \/ Clear
  BY <1>9, ControlKeeps
<1>10. CASE Environment
  BY <1>10, EnvironmentKeeps
<1>11. CASE UNCHANGED vars
  BY <1>11 DEF vars, IInv, TypeOK, Known, Held, FanReturned, InitProgress, FoundFirst, Past
<1> QED
  BY <1>1, <1>2, <1>3, <1>4, <1>5, <1>6, <1>7, <1>8, <1>9, <1>10, <1>11
     DEF Next, Main

\* The inductive invariant is one.
LEMMA Invariance == Spec => []IInv
  BY InitHolds, StepKeeps, PTL DEF Spec

\* The values the variables can have, for any devices and configurations.
THEOREM TypeCorrect == Spec => []TypeOK
<1>1. IInv => TypeOK
  BY DEF IInv
<1> QED
  BY <1>1, Invariance, PTL

\* Every fan whose restoring write does not fail is back under the firmware's
\* control when the process has ended in any other way than by the out_of_range
\* of clients_.at().
THEOREM FanReturnedTheorem == Spec => []FanReturned
<1>1. IInv => FanReturned
  BY DEF IInv
<1> QED
  BY <1>1, Invariance, PTL

\* A fan that thinkfan drives belongs to a driver of *config that knows how to
\* give it back.
THEOREM HeldTheorem == Spec => []OnlyHeldFansDriven
<1>1. IInv => OnlyHeldFansDriven
  <2> SUFFICES ASSUME IInv, NEW f \in Fans \ unreturned, mode[f] = "thinkfan"
               PROVE  f \in cfg.uses /\ drv[f].inited /\ drv[f].saved = "firmware"
    BY DEF OnlyHeldFansDriven
  <2>1. drv[f] \in Driver
    BY DEF IInv, TypeOK, Devices
  <2>2. f \in cfg.uses /\ drv[f].inited /\ drv[f].saved # "thinkfan"
    BY DEF IInv, Held
  <2>3. drv[f].saved # "none"
    BY <2>2 DEF IInv, Known
  <2> QED
    BY <2>1, <2>2, <2>3 DEF Driver, Saved, Modes
<1> QED
  BY <1>1, Invariance, PTL

\* run() starts with every device initialised that is not optional.
THEOREM InitialisedTheorem == Spec => []RunsInitialised
<1>1. IInv => RunsInitialised
  BY DEF IInv, InitProgress, Past, RunsInitialised
<1> QED
  BY <1>1, Invariance, PTL
-----------------------------------------------------------------------------
(* The daemon implements FanService *)

\* Nothing that FanService can see.
LEMMA UnseenStep ==
  ASSUME pc # "over", pc' # "over",
         UNCHANGED <<cfg, mode, unreturned>>,
         \A f \in Fans : drv'[f].inited = drv[f].inited
  PROVE  UNCHANGED <<State, Control, unreturned>>
  BY DEF State, Control, Holds

\* What an operation on device x may do to the fans: x is driven by thinkfan
\* only when its init() has succeeded.
Moves(x, o, m) ==
  /\ m \in [Fans -> Modes]
  /\ \A f \in Fans \ {x} : m[f] = mode[f]
  /\ x \in Fans => m[x] \in {mode[x], "thinkfan"}
  /\ o.inited \/ (m = mode /\ ~drv[x].inited)

\* The operation has succeeded, or was forgiven.
LEMMA DeviceServes ==
  ASSUME IInv, pc # "over", pc' # "over", NEW x \in todo, NEW o, NEW m, Moves(x, o, m),
         drv' = [drv EXCEPT ![x] = o], mode' = m, UNCHANGED <<cfg, unreturned>>
  PROVE  [Service!Next]_<<State, Control, unreturned>>
<1>1. x \in cfg.uses /\ x \in Devices /\ drv \in [Devices -> Driver] /\ Fans \subseteq Devices
  BY ConfigType DEF IInv, TypeOK, Devices
<1>2. /\ drv'[x] = o
      /\ \A f \in Fans \ {x} : drv'[f] = drv[f] /\ mode'[f] = mode[f]
  BY <1>1 DEF Moves
<1>3. \A f \in Fans \ {x} : Control'[f] = Control[f]
  BY <1>2 DEF Control, Holds
<1>4. State = "up" /\ State' = "up"
  BY DEF State
<1>5. CASE x \in Fans /\ o.inited /\ m[x] = "thinkfan"
  <2>1. Control'[x] = "held"
    BY <1>1, <1>2, <1>5 DEF Control, Holds
  <2>2. Control' = [Control EXCEPT ![x] = "held"]
    BY <1>3, <2>1 DEF Control
  <2>3. Service!Take(x)
    BY <1>4, <2>2 DEF Service!Take
  <2> QED
    BY <1>5, <2>3 DEF Service!Next
<1>6. CASE x \in Fans /\ ~(o.inited /\ m[x] = "thinkfan")
  <2>1. Control'[x] = Control[x]
    <3>1. CASE o.inited
      <4>1. mode[x] = "firmware" /\ mode'[x] = "firmware"
        BY <1>6, <3>1 DEF Moves, Modes
      <4> QED
        BY <1>6, <4>1 DEF Control
    <3>2. CASE ~o.inited
      BY <1>2, <1>6, <3>2 DEF Control, Holds, Moves
    <3> QED
      BY <3>1, <3>2
  <2>2. Control' = Control
    BY <1>3, <2>1 DEF Control
  <2> QED
    BY <1>4, <2>2
<1>7. CASE x \notin Fans
  BY <1>3, <1>4, <1>7 DEF Control
<1> QED
  BY <1>5, <1>6, <1>7

\* The configuration goes away: all fans are given back but those in unreturned.
LEMMA ReleaseServes ==
  ASSUME IInv, NEW d \in [Devices -> Driver], NEW m \in [Fans -> Modes],
         Known(d), Held(d, m), Release(d, m), pc # "over",
         \/ pc' = "over" /\ status' \notin Uncaught
         \/ pc' # "over" /\ \A f \in Fans : ~drv'[f].inited
  PROVE  Service!Next
<1>1. /\ mode' \in [Fans -> Modes]
      /\ unreturned' \subseteq Fans
      /\ unreturned \subseteq unreturned'
      /\ \A f \in Fans \ unreturned' : mode'[f] = "firmware"
  BY ReleaseEffect DEF IInv
<1>2. \A f \in Fans : ~Holds(f)'
  BY DEF Holds
<1>3. /\ Control' \in [Fans -> {"firmware", "left"}]
      /\ \A f \in Fans : Control'[f] = "left" => f \in unreturned'
  BY <1>1, <1>2 DEF Control
<1>4. Service!GiveBack(unreturned')
  BY <1>1, <1>3 DEF Service!GiveBack
<1>5. \E now \in SUBSET Fans : Service!GiveBack(now)
  BY <1>1, <1>4
<1>6. State = "up" /\ State' \in {"up", "done"}
  BY DEF State
<1> QED
  BY <1>5, <1>6 DEF Service!Next, Service!Reload, Service!Stop

\* An exception, in the middle of an operation or between two.
LEMMA ThrowServes ==
  ASSUME IInv, NEW d \in [Devices -> Driver], NEW m \in [Fans -> Modes],
         Known(d), Held(d, m), NEW why, why \notin Uncaught, Throw(why, d, m), pc # "over"
  PROVE  Service!Next
  BY ReleaseServes DEF Throw

\* An exception without a handler.
LEMMA CrashServes ==
  ASSUME NEW why \in Uncaught, Crash(why), pc # "over"
  PROVE  Service!Next
<1>1. State = "up" /\ State' = "crashed"
  BY DEF Crash, State
<1>2. Control' = [f \in Fans |-> IF Control[f] = "held" THEN "left" ELSE Control[f]]
  BY DEF Crash, Control, Holds
<1> QED
  BY <1>1, <1>2 DEF Crash, Service!Next, Service!Crash

\* An operation on a device, with each of its outcomes.
LEMMA OutcomeServes ==
  ASSUME IInv, pc \in LoopPhases, NEW x \in todo, NEW o, NEW m,
         Fits(x, o, m), Moves(x, o, m),
         Succeed(x, o, m) \/ \E p, why : why \notin Uncaught /\ Fail(x, o, m, p, why)
  PROVE  [Service!Next]_<<State, Control, unreturned>>
<1> DEFINE d == [drv EXCEPT ![x] = o]
<1>1. pc # "over"
  BY DEF LoopPhases, InitPhases, ReadPhases, SpeedPhases
<1>2. CASE \E why : why \notin Uncaught /\ Throw(why, d, m)
  <2>1. d \in [Devices -> Driver] /\ Known(d) /\ Held(d, m) /\ m \in [Fans -> Modes]
    BY UpdateKeeps DEF Fits
  <2> QED
    BY <1>1, <1>2, <2>1, ThrowServes
<1>3. CASE /\ drv' = d /\ mode' = m /\ UNCHANGED <<cfg, unreturned>>
           /\ pc' = pc \/ (pc \in InitPhases /\ pc' = NapOf[pc])
  <2>1. pc' # "over"
    BY <1>1, <1>3 DEF NapOf, InitPhases
  <2> QED
    BY <1>1, <1>3, <2>1, DeviceServes
<1> QED
  BY <1>2, <1>3 DEF Succeed, Fail

\* What init() and an operation after it do to a fan.
LEMMA MovesWorking ==
  ASSUME IInv, NEW x \in todo
  PROVE  /\ Moves(x, Working(x), mode)
         /\ Moves(x, Working(x), ModeAfterInit(x))
         /\ x \in Fans => Moves(x, Working(x), [mode EXCEPT ![x] = "thinkfan"])
<1>1. x \in Devices /\ mode \in [Fans -> Modes]
  BY ConfigType DEF IInv, TypeOK
<1>2. Working(x).inited /\ ModeAfterInit(x) \in [Fans -> Modes]
  BY <1>1, WorkingType DEF IInv
<1>3. Moves(x, Working(x), mode)
  BY <1>1, <1>2 DEF Moves
<1>4. Moves(x, Working(x), ModeAfterInit(x))
  BY <1>1, <1>2 DEF Moves, ModeAfterInit
<1>5. x \in Fans => Moves(x, Working(x), [mode EXCEPT ![x] = "thinkfan"])
  BY <1>1, <1>2 DEF Moves, Modes
<1> QED
  BY <1>3, <1>4, <1>5

\* A failed init() leaves the fan alone, and so does an error that is counted.
LEMMA MovesNothing ==
  ASSUME IInv, NEW x \in todo
  PROVE  /\ \A o \in InitFailures(x) : o.inited = drv[x].inited /\ Moves(x, o, mode)
         /\ Moves(x, CountError(drv[x], MaxErr(x)), mode)
<1>1. x \in Devices /\ mode \in [Fans -> Modes] /\ MaxErr(x) \in Nat /\ drv[x] \in Driver
  BY ConfigType DEF IInv, TypeOK
<1>2. drv[x].inited \in BOOLEAN
  BY <1>1 DEF Driver
<1>3. \A o \in InitFailures(x) : o.inited = drv[x].inited
  BY <1>1, InitFailuresType DEF IInv
<1>4. CountError(drv[x], MaxErr(x)).inited = drv[x].inited
  BY <1>1, CountErrorEffect
<1>5. ASSUME NEW o, o.inited = drv[x].inited PROVE Moves(x, o, mode)
  BY <1>1, <1>2, <1>5 DEF Moves
<1> QED
  BY <1>3, <1>4, <1>5

\* Counting the error changes nothing else.
LEMMA MovesCounted ==
  ASSUME IInv, NEW x \in todo, NEW o \in Driver, NEW m, Moves(x, o, m)
  PROVE  Moves(x, CountError(o, MaxErr(x)), m)
<1>1. MaxErr(x) \in Nat
  BY ConfigType DEF IInv, TypeOK
<1> QED
  BY <1>1, CountErrorEffect DEF Moves

\* Every step of a for-loop over devices.
LEMMA DeviceStepServes ==
  ASSUME IInv,
         NEW x \in Devices,
         \/ InitSucceeds(x) \/ InitFails(x)
         \/ x \in Sensors /\ (ReadSucceeds(x) \/ ReadFails(x))
         \/ x \in Fans /\ (SpeedSucceeds(x) \/ SpeedFails(x))
  PROVE  [Service!Next]_<<State, Control, unreturned>>
<1>1. x \in todo /\ pc \in LoopPhases
  BY DEF InitSucceeds, InitFails, ReadSucceeds, ReadFails, SpeedSucceeds, SpeedFails,
         LoopPhases
<1>2. Working(x) \in Driver
  BY WorkingType DEF IInv
<1>3. /\ Fits(x, Working(x), mode) /\ Moves(x, Working(x), mode)
      /\ Fits(x, Working(x), ModeAfterInit(x)) /\ Moves(x, Working(x), ModeAfterInit(x))
      /\ x \in Fans => /\ Fits(x, Working(x), [mode EXCEPT ![x] = "thinkfan"])
                       /\ Moves(x, Working(x), [mode EXCEPT ![x] = "thinkfan"])
  BY <1>1, FitsWorking, MovesWorking
<1>4. LET o == CountError(Working(x), MaxErr(x))
      IN  /\ Fits(x, o, mode) /\ Moves(x, o, mode)
          /\ Fits(x, o, ModeAfterInit(x)) /\ Moves(x, o, ModeAfterInit(x))
  BY <1>1, <1>2, <1>3, FitsCounted, MovesCounted
<1>5. LET o == CountError(drv[x], MaxErr(x)) IN Fits(x, o, mode) /\ Moves(x, o, mode)
  BY <1>1, FitsCurrent, FitsCounted, MovesNothing
<1>6. \A o \in InitFailures(x) : Fits(x, o, mode) /\ Moves(x, o, mode)
  BY <1>1, FitsInitFailure, MovesNothing
<1>7. \E o, m : /\ Fits(x, o, m) /\ Moves(x, o, m)
                /\ Succeed(x, o, m) \/ \E p, why : why \notin Uncaught /\ Fail(x, o, m, p, why)
  <2>1. CASE InitSucceeds(x)
    BY <1>3, <2>1 DEF InitSucceeds
  <2>2. CASE InitFails(x)
    BY <1>6, <2>2 DEF InitFails, Uncaught
  <2>3. CASE x \in Sensors /\ ReadSucceeds(x)
    BY <1>3, <2>3 DEF ReadSucceeds
  <2>4. CASE x \in Sensors /\ ReadFails(x)
    <3>1. PICK o \in InitFailures(x) \union {CountError(Working(x), MaxErr(x)),
                                             CountError(drv[x], MaxErr(x))} :
            \E p : Fail(x, o, mode, p, "read")
      BY <2>4 DEF ReadFails
    <3> QED
      BY <1>4, <1>5, <1>6, <3>1 DEF Uncaught
  <2>5. CASE x \in Fans /\ SpeedSucceeds(x)
    BY <1>3, <2>5 DEF SpeedSucceeds
  <2>6. CASE x \in Fans /\ SpeedFails(x)
    BY <1>4, <1>5, <1>6, <2>6 DEF SpeedFails, Uncaught
  <2> QED
    BY <2>1, <2>2, <2>3, <2>4, <2>5, <2>6
<1>8. PICK o, m : /\ Fits(x, o, m) /\ Moves(x, o, m)
                  /\ Succeed(x, o, m) \/ \E p, why : why \notin Uncaught /\ Fail(x, o, m, p, why)
  BY <1>7
<1> QED
  BY <1>1, <1>8, OutcomeServes

\* Every step of the program and of its environment.
LEMMA StepServes ==
  IInv /\ [Next]_vars => [Service!Next]_<<State, Control, unreturned>>
<1> SUFFICES ASSUME IInv, [Next]_vars
             PROVE  [Service!Next]_<<State, Control, unreturned>>
  OBVIOUS
<1>1. CASE \E x \in Devices : InitSucceeds(x) \/ InitFails(x)
  BY <1>1, DeviceStepServes
<1>2. CASE \E s \in Sensors : ReadSucceeds(s) \/ ReadFails(s)
  BY <1>2, DeviceStepServes DEF Devices
<1>3. CASE \E f \in Fans : SpeedSucceeds(f) \/ SpeedFails(f)
  BY <1>3, DeviceStepServes DEF Devices
<1>4. CASE \E c \in Configs : ReloadSucceeds(c)
  <2>1. PICK c \in Configs : ReloadSucceeds(c)
    BY <1>4
  <2>2. Release(drv, mode) /\ pc = "reload" /\ pc' = "clear" /\ \A f \in Fans : ~drv'[f].inited
    BY <2>1 DEF ReloadSucceeds, Devices, Fresh
  <2> QED
    BY <2>2, ReleaseServes DEF IInv, TypeOK
<1>5. CASE Consistency \/ Again
  <2>1. CASE Throw("config", drv, mode) \/ Throw("clean", drv, mode)
    BY <1>5, <2>1, ThrowServes DEF Consistency, Again, IInv, TypeOK, Uncaught
  <2>2. CASE Unchanged /\ pc' # "over" /\ pc # "over"
    BY <2>2, UnseenStep DEF Unchanged
  <2> QED
    BY <1>5, <2>1, <2>2 DEF Consistency, Again, Enter
<1>6. CASE Nap
  <2>1. pc # "over" /\ pc' # "over"
    BY <1>6 DEF Nap, NapOf, InitPhases
  <2> QED
    BY <1>6, <2>1, UnseenStep DEF Nap, Unchanged
<1>7. CASE Advance
  <2>1. pc # "over" /\ pc' # "over"
    BY <1>7 DEF Advance, After, Enter
  <2> QED
    BY <1>7, <2>1, UnseenStep DEF Advance, Unchanged
<1>8. CASE \/ Loop \/ Sleep \/ Woken \/ Tick \/ IsHup \/ ReloadFails \/ IsUsr2 \/ Clear
           \/ \E f \in Fans : SpeedHolds(f)
  <2>1. pc # "over" /\ pc' # "over"
    BY <1>8 DEF Loop, Sleep, Woken, Tick, IsHup, ReloadFails, IsUsr2, Clear,
                SpeedHolds, Enter
  <2>2. UNCHANGED <<cfg, drv, mode, unreturned>>
    BY <1>8 DEF Loop, Sleep, Woken, Tick, IsHup, ReloadFails, IsUsr2, Clear,
                SpeedHolds, Unchanged
  <2> QED
    BY <2>1, <2>2, UnseenStep
<1>9. CASE (\E r \in Requests : Request(r)) \/ PowerSignal
  BY <1>9, UnseenStep DEF Request, PowerSignal
<1>10. CASE \E f \in Fans : WakeUp(f)
  <2>1. PICK f \in Fans : WakeUp(f)
    BY <1>10
  <2>2. /\ pc # "over" /\ UNCHANGED <<pc, cfg, drv, unreturned>>
        /\ mode' = [mode EXCEPT ![f] = "firmware"] /\ mode \in [Fans -> Modes]
    BY <2>1 DEF WakeUp, IInv, TypeOK
  <2>3. Control' = [Control EXCEPT ![f] = "firmware"]
    BY <2>2 DEF Control, Holds
  <2>4. Service!Resume(f)
    BY <2>2, <2>3 DEF State, Service!Resume
  <2> QED
    BY <2>4 DEF Service!Next
<1>11. CASE UNCHANGED vars
  BY <1>11 DEF vars, State, Control, Holds
<1>12. CASE \E s \in Sensors : ReadCrashes(s)
  <2>1. Crash("out_of_range") /\ pc # "over"
    BY <1>12 DEF ReadCrashes, ReadPhases
  <2> QED
    BY <2>1, CrashServes DEF Uncaught
<1>13. CASE \E s \in TpSensors : LookupCrashes(s)
  <2>1. Crash("bad_optional_access") /\ pc # "over"
    BY <1>13 DEF LookupCrashes, Tries, ReadPhases
  <2> QED
    BY <2>1, CrashServes DEF Uncaught
<1>14. CASE \E s \in TpSensors : Misfits(s)
  <2>1. Throw("misfit", drv, mode) /\ pc # "over"
    BY <1>14 DEF Misfits, Tries, ReadPhases
  <2> QED
    BY <2>1, ThrowServes DEF Uncaught, IInv, TypeOK
<1> QED
  BY <1>1, <1>2, <1>3, <1>4, <1>5, <1>6, <1>7, <1>8, <1>9, <1>10, <1>11, <1>12,
     <1>13, <1>14 DEF Next, Main, Environment

\* The daemon implements FanService: in every phase, under every error, signal,
\* reload and suspend, the fans change hands only as FanService allows, none
\* does after the end, and one is left behind only by a failed write or a crash.
THEOREM ServiceTheorem == Spec => KeepsToService
<1>1. Init => Service!Init
  BY DEF Init, Service!Init, State, Control
<1> QED
  BY <1>1, Invariance, StepServes, PTL DEF Spec, KeepsToService, Service!Spec

-----------------------------------------------------------------------------
(* The tolerance of errors after a SIGPWR *)

\* Where the round that was counted last has not ended yet.
InRound == ReadPhases \union {"grace"}

\* Every tick of tolerate_errors after a SIGPWR is paid for by a round of
\* reading, but for one tick of the round in which the signal came.
Paid ==
  /\ rounds \in 0..RoundsCap
  /\ rounds + tolerate >= IF pc \in InRound THEN Grace ELSE Grace - 1

SInv == Paid /\ GraceHeld

-----------------------------------------------------------------------------
(* What the steps of the program do to the counter and the end *)

\* An operation outside a round of reading does not end with "read".
LEMMA ThrowEffect ==
  ASSUME NEW why, NEW d, NEW m, Throw(why, d, m)
  PROVE  pc' = "over" /\ tolerate' = tolerate /\ status' = why
  BY DEF Throw

\* A failed operation ends the process only when no error is tolerated.
LEMMA FailEffect ==
  ASSUME TypeOK, NEW x, NEW o, NEW m, NEW p, NEW why, Fail(x, o, m, p, why)
  PROVE  /\ tolerate' = tolerate
         /\ \/ pc' \in {pc} \union Naps /\ status' = status
            \/ pc' = "over" /\ status' = why /\ tolerate = 0
<1>1. CASE Forgives(o, Optional(x), MaxErr(x), tolerate)
  BY <1>1 DEF Fail, Naps
<1>2. CASE ~Forgives(o, Optional(x), MaxErr(x), tolerate)
  <2>1. ~(tolerate > 0)
    BY <1>2 DEF Forgives
  <2>2. tolerate = 0
    BY <2>1, DaemonAssumption DEF TypeOK
  <2>3. Throw(why, [drv EXCEPT ![x] = o], m)
    BY <1>2 DEF Fail
  <2> QED
    BY <2>2, <2>3, ThrowEffect
<1> QED
  BY <1>1, <1>2

\* What a step of the program can do to pc, tolerate_errors and the end: only
\* Tick takes tolerance away, only a reading ends with "read".
LEMMA MainEffect ==
  ASSUME TypeOK, Main
  PROVE  /\ pc # "over"
         /\ \/ pc = "grace" /\ pc' = "speed" /\ tolerate' \in Nat /\ tolerate' >= tolerate - 1
            \/ tolerate' = tolerate
         /\ pc' = "grace" => pc = "read"
         /\ status' = "read" => pc \in ReadPhases /\ tolerate = 0 /\ pc' = "over"
<1> DEFINE Goal ==
      /\ pc # "over"
      /\ \/ pc = "grace" /\ pc' = "speed" /\ tolerate' \in Nat /\ tolerate' >= tolerate - 1
         \/ tolerate' = tolerate
      /\ pc' = "grace" => pc = "read"
      /\ status' = "read" => pc \in ReadPhases /\ tolerate = 0 /\ pc' = "over"
<1> USE DEF InitPhases, ReadPhases, SpeedPhases, NapOf, Naps
<1>0. status = "read" => pc = "over"
  BY DEF TypeOK
<1>1. CASE \E x \in Devices : InitSucceeds(x) \/ InitFails(x)
  <2>1. ASSUME NEW x \in Devices, InitSucceeds(x) PROVE Goal
    BY <1>0, <2>1 DEF InitSucceeds, Succeed
  <2>2. ASSUME NEW x \in Devices, InitFails(x) PROVE Goal
    <3>1. pc \in InitPhases /\ \E o \in InitFailures(x) : \E p : Fail(x, o, mode, p, "init")
      BY <2>2 DEF InitFails
    <3> QED
      BY <1>0, <3>1, FailEffect
  <2> QED
    BY <1>1, <2>1, <2>2
<1>2. CASE \E s \in Sensors : ReadSucceeds(s) \/ ReadFails(s)
  <2>1. ASSUME NEW s \in Sensors, ReadSucceeds(s) PROVE Goal
    BY <1>0, <2>1 DEF ReadSucceeds, Succeed
  <2>2. ASSUME NEW s \in Sensors, ReadFails(s) PROVE Goal
    <3>1. pc \in ReadPhases
      BY <2>2 DEF ReadFails
    <3>2. PICK o, p : Fail(s, o, mode, p, "read")
      BY <2>2 DEF ReadFails
    <3> QED
      BY <1>0, <3>1, <3>2, FailEffect
  <2> QED
    BY <1>2, <2>1, <2>2
<1>3. CASE \E f \in Fans : SpeedSucceeds(f) \/ SpeedFails(f) \/ SpeedHolds(f)
  <2>1. ASSUME NEW f \in Fans, SpeedSucceeds(f) \/ SpeedHolds(f) PROVE Goal
    BY <1>0, <2>1 DEF SpeedSucceeds, SpeedHolds, Succeed, Unchanged
  <2>2. ASSUME NEW f \in Fans, SpeedFails(f) PROVE Goal
    <3>1. pc \in SpeedPhases
      BY <2>2 DEF SpeedFails
    <3>2. PICK o, m, p, why : Fail(f, o, m, p, why) /\ why \in {"speed", "einval"}
      BY <2>2 DEF SpeedFails
    <3> QED
      BY <1>0, <3>1, <3>2, FailEffect
  <2> QED
    BY <1>3, <2>1, <2>2
<1>4. CASE \E c \in Configs : ReloadSucceeds(c)
  BY <1>0, <1>4 DEF ReloadSucceeds
<1>5. CASE Nap \/ Advance
  BY <1>0, <1>5 DEF Nap, Advance, After, Enter, Unchanged
<1>6. CASE Consistency \/ Again
  BY <1>0, <1>6, ThrowEffect DEF Consistency, Again, Enter, Unchanged
<1>7. CASE Tick
  <2>1. tolerate \in Nat
    BY DaemonAssumption DEF TypeOK
  <2> QED
    BY <1>0, <1>7, <2>1 DEF Tick, Enter
<1>8. CASE Loop \/ Sleep \/ Woken \/ IsHup \/ ReloadFails \/ IsUsr2 \/ Clear
  BY <1>0, <1>8 DEF Loop, Sleep, Woken, IsHup, ReloadFails, IsUsr2, Clear, Enter, Unchanged
<1>9. CASE \/ \E s \in Sensors : ReadCrashes(s)
           \/ \E s \in TpSensors : LookupCrashes(s) \/ Misfits(s)
  BY <1>0, <1>9 DEF ReadCrashes, LookupCrashes, Misfits, Tries, Crash, Throw
<1> QED
  BY <1>1, <1>2, <1>3, <1>4, <1>5, <1>6, <1>7, <1>8, <1>9 DEF Main

-----------------------------------------------------------------------------
(* The tolerance *)

\* A tick takes one off the sum, no more.
LEMMA TickArithmetic ==
  ASSUME NEW r \in Int, NEW t \in Int, NEW rr \in Int, NEW tt \in Int, NEW g \in Int,
         r + t >= g, rr >= r, tt >= t - 1
  PROVE  rr + tt >= g - 1
  OBVIOUS

\* A step of the program keeps SInv.
LEMMA SMainKeeps ==
  ASSUME TypeOK, SInv, SMain
  PROVE  SInv'
<1>1. Grace \in Nat \ {0} /\ tolerate \in Nat /\ rounds \in 0..RoundsCap
  BY DaemonAssumption DEF TypeOK, SInv, Paid
<1>2. /\ Main
      /\ rounds' = IF pc' \in ReadPhases \ {pc} /\ rounds < RoundsCap
                   THEN rounds + 1 ELSE rounds
  BY DEF SMain
<1>3. rounds' \in 0..RoundsCap /\ rounds' >= rounds
  BY <1>1, <1>2 DEF RoundsCap
<1>4. Paid'
  <2>1. CASE pc = "grace" /\ pc' = "speed" /\ tolerate' \in Nat /\ tolerate' >= tolerate - 1
    <3>1. rounds + tolerate >= Grace
      BY <2>1 DEF SInv, Paid, InRound
    <3>2. pc' \notin InRound
      BY <2>1 DEF InRound, ReadPhases
    <3>3. /\ rounds \in Int /\ rounds' \in Int /\ rounds' >= rounds
          /\ tolerate \in Int /\ tolerate' \in Int /\ tolerate' >= tolerate - 1
          /\ Grace \in Int
      BY <1>1, <1>3, <2>1 DEF RoundsCap
    <3>4. rounds' + tolerate' >= Grace - 1
      BY <3>1, <3>3, TickArithmetic
    <3> QED
      BY <1>3, <3>2, <3>4 DEF Paid
  <2>2. CASE tolerate' = tolerate /\ pc' \in ReadPhases \ {pc}
    BY <1>1, <1>2, <1>3, <2>2 DEF SInv, Paid, RoundsCap
  <2>3. CASE tolerate' = tolerate /\ pc' \notin ReadPhases \ {pc}
    <3>1. pc' \in InRound => pc \in InRound
      BY <1>2, <2>3, MainEffect DEF InRound, ReadPhases
    <3>2. rounds' = rounds /\ tolerate' = tolerate
      BY <1>2, <2>3
    <3>3. /\ rounds + tolerate >= Grace - 1
          /\ pc \in InRound => rounds + tolerate >= Grace
      BY <1>1 DEF SInv, Paid, RoundsCap
    <3> QED
      BY <1>3, <3>1, <3>2, <3>3 DEF Paid
  <2> QED
    BY <1>2, <2>1, <2>2, <2>3, MainEffect
<1>5. GraceHeld'
  <2> SUFFICES ASSUME status' = "read" PROVE rounds' >= Grace
    BY DEF GraceHeld
  <2>1. pc \in ReadPhases /\ tolerate = 0
    BY <1>2, MainEffect
  <2>2. rounds + tolerate >= Grace
    BY <2>1 DEF SInv, Paid, InRound
  <2> QED
    BY <1>1, <1>3, <2>1, <2>2 DEF RoundsCap
<1> QED
  BY <1>4, <1>5 DEF SInv

\* So does every other step.
LEMMA SStepKeeps == TypeOK /\ SInv /\ [SNext]_svars => SInv'
<1> SUFFICES ASSUME TypeOK, SInv, [SNext]_svars PROVE SInv'
  OBVIOUS
<1>1. Grace \in Nat \ {0} /\ tolerate \in Nat /\ (status = "read" => pc = "over")
  BY DaemonAssumption DEF TypeOK
<1>2. CASE SMain
  BY <1>2, SMainKeeps
<1>3. CASE \E r \in Requests : SRequest(r)
  BY <1>3 DEF SRequest, Request, SInv, Paid, GraceHeld
<1>4. CASE SPowerSignal
  <2>1. pc' = pc /\ pc # "over" /\ tolerate' = Grace /\ rounds' = 0 /\ status' = status
    BY <1>4 DEF SPowerSignal, PowerSignal
  <2> QED
    BY <1>1, <2>1 DEF SInv, Paid, GraceHeld, RoundsCap
<1>5. CASE SWakeUp
  BY <1>5 DEF SWakeUp, WakeUp, history, SInv, Paid, GraceHeld
<1>6. CASE UNCHANGED svars
  BY <1>6 DEF svars, vars, history, SInv, Paid, GraceHeld
<1> QED
  BY <1>2, <1>3, <1>4, <1>5, <1>6 DEF SNext

\* Recording changes nothing: the daemon with its history is the daemon.
LEMMA SSpecRefines == SSpec => Spec
<1>1. SInit => Init
  BY DEF SInit
<1>2. [SNext]_svars => [Next]_vars
  BY DEF SNext, SMain, SRequest, SPowerSignal, SWakeUp, Next, Environment, svars
<1> QED
  BY <1>1, <1>2, PTL DEF SSpec, Spec

\* A read error never ends the process before the Grace-th round of reading
\* after a SIGPWR, for any devices, configurations and Grace.
THEOREM GraceTheorem == SSpec => []GraceHeld
<1>1. SInit => SInv
  BY DaemonAssumption DEF SInit, Init, SInv, Paid, GraceHeld, RoundsCap
<1>2. SInv => GraceHeld
  BY DEF SInv
<1> QED
  BY <1>1, <1>2, SStepKeeps, SSpecRefines, TypeCorrect, PTL DEF SSpec
=============================================================================
