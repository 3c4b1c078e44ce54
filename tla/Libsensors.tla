----------------------------- MODULE Libsensors -----------------------------
(***************************************************************************)
(* The LM sensors of a configuration and the one instance of libsensors    *)
(* they share (libsensors.cpp, the LMSensorsDriver of sensors.cpp).        *)
(* libsensors sees only the chips that were there when it was initialised, *)
(* so a lookup that fails shuts it down, and the pointers of all clients   *)
(* with it: they all have to look up again.                                *)
(*                                                                         *)
(* One step is one call of try_init() or read_temps_().  In between, chips *)
(* come and go with their kernel drivers, and SIGPWR may arrive.           *)
(***************************************************************************)
EXTENDS Driver, FiniteSets

CONSTANTS
  Clients,      \* the LMSensorsDrivers, each with one temperature or more
  Optional,     \* those marked optional
  MaxErr,       \* max_errors of each
  Stable,       \* the clients whose chip is there all the time
  Grace         \* what SIGPWR stores into tolerate_errors

ASSUME LibsensorsAssumption ==
  /\ Optional \subseteq Clients /\ Stable \subseteq Clients
  /\ MaxErr \in [Clients -> Nat]
  /\ Grace \in Nat \ {0}

VARIABLES
  phase,        \* Config::init_sensors(), or one of the two loops of run()
  todo,         \* the clients the current for-loop has still to visit
  asked,        \* the client that has just been looked up in robust_io
  drv,          \* the driver objects
  available,    \* the clients whose path_ has a value
  clients,      \* the keys of clients_
  stale,        \* those of them that point into a libsensors already shut down
  lib,          \* libsensors_initialized_
  detected,     \* the clients whose chip libsensors knows
  present,      \* the clients whose chip is there
  tolerate,     \* tolerate_errors
  ended         \* what ended the process, if anything has

iface == <<clients, stale, lib, detected>>
vars == <<phase, todo, asked, drv, available, iface, present, tolerate, ended>>

Phases == {"init", "first_read", "read"}

\* What may end the process: an error of sensors_init(), of a lookup or of a
\* reading; "uncaught" is the out_of_range of std::map::at.
Ending == [client : Clients, op : {"sensors_init", "lookup", "get_value"},
           uncaught : BOOLEAN]

Running == ended = {}

-----------------------------------------------------------------------------
(* Driver: try_init and robust_io *)

\* Where the current loop calls try_init() for c: Config::init_sensors always
\* does, robust_io when c is not available or not initialised.
Tries(c) ==
  /\ Running /\ c \in todo /\ asked = {}
  /\ phase = "init" \/ c \notin available \/ ~drv[c].inited

\* init() does nothing that can fail; in a loop of run() the reading follows.
Tried(c) ==
  /\ drv' = [drv EXCEPT ![c] = [@ EXCEPT !.inited = TRUE, !.errors = 0]]
  /\ IF phase = "init" THEN todo' = todo \ {c} /\ UNCHANGED asked
     ELSE asked' = {c} /\ UNCHANGED todo
  /\ UNCHANGED <<phase, present, tolerate, ended>>

\* Where the program goes on when an error of try_init() is forgiven: it tries
\* again, visits the next client, or asks for the temperatures of a client
\* that was initialised once but is not in clients_ any more.
Forgiven(c, op) ==
  IF phase # "init" /\ drv[c].inited
  THEN /\ ended' = {[client |-> c, op |-> op, uncaught |-> TRUE]}
       /\ UNCHANGED todo
  ELSE /\ todo' = IF phase # "init" \/ drv[c].inited \/ c \in Optional
                  THEN todo \ {c} ELSE todo
       /\ UNCHANGED ended

TryFails(c, op) ==
  LET o == CountError(drv[c], MaxErr[c])
  IN  /\ drv' = [drv EXCEPT ![c] = o]
      /\ IF Forgives(o, c \in Optional, MaxErr[c], tolerate)
         THEN Forgiven(c, op)
         ELSE /\ ended' = {[client |-> c, op |-> op, uncaught |-> FALSE]}
              /\ UNCHANGED todo
      /\ UNCHANGED <<phase, asked, present, tolerate>>

-----------------------------------------------------------------------------
(* LibsensorsInterface *)

\* try_init() of a client that has its path_: there is no lookup.
TryAvailable(c) ==
  /\ Tries(c) /\ c \in available
  /\ Tried(c)
  /\ UNCHANGED <<available, iface>>

\* What libsensors knows once the constructor of the InitGuard has seen to it
\* that it is initialised.
Known == IF lib THEN detected ELSE present

\* sensors_init() fails, in the constructor of the InitGuard.
SensorsInitFails(c) ==
  /\ Tries(c) /\ c \notin available
  /\ ~lib
  /\ TryFails(c, "sensors_init")
  /\ UNCHANGED <<available, iface>>

\* lookup_client_features.  An entry that clients_ has already is not replaced.
LookupSucceeds(c) ==
  /\ Tries(c) /\ c \notin available
  /\ c \in Known
  /\ lib' = TRUE /\ detected' = Known
  /\ clients' = clients \union {c}
  /\ available' = available \union {c}
  /\ UNCHANGED stale
  /\ Tried(c)

\* A mutant: the entries of clients_ are kept.
ShutdownKeeps(c) ==
  /\ available' = available \ (clients \union {c})
  /\ clients' = clients \union {c} /\ stale' = clients'
  /\ lib' = FALSE /\ detected' = {}

\* A mutant: libsensors is not shut down.
ShutdownNothing(c) ==
  /\ available' = available \ (clients \union {c})
  /\ clients' = {} /\ stale' = clients'
  /\ lib' = TRUE /\ detected' = Known

\* A mutant: libsensors_initialized_ is not reset.
ShutdownForgotten(c) ==
  /\ available' = available \ (clients \union {c})
  /\ clients' = {} /\ stale' = clients'
  /\ lib' = TRUE /\ detected' = {}

\* ~InitGuard of a lookup of c that failed.  It has put c into clients_ itself
\* by then; whatever clients_ held after it would point to freed memory.
Shutdown(c) ==
  /\ available' = available \ (clients \union {c})
  /\ clients' = {} /\ stale' = clients'
  /\ lib' = FALSE /\ detected' = {}

\* The chip, one of its features or the temperature input is not found.
LookupFails(c) ==
  /\ Tries(c) /\ c \notin available
  /\ c \notin Known
  /\ Shutdown(c)
  /\ TryFails(c, "lookup")

-----------------------------------------------------------------------------
(* Readings, and the loops around them *)

\* robust_io asks c for its temperatures.
Asks(c) ==
  /\ Running /\ c \in todo /\ asked \subseteq {c}
  /\ phase # "init" /\ c \in available /\ drv[c].inited

GetTempsSucceeds(c) ==
  /\ Asks(c)
  /\ c \in present
  /\ drv' = [drv EXCEPT ![c].errors = 0]
  /\ todo' = todo \ {c} /\ asked' = {}
  /\ UNCHANGED <<phase, available, iface, present, tolerate, ended>>

\* sensors_get_value() fails or returns what no temperature can be.
GetTempsFails(c) ==
  LET o == CountError(drv[c], MaxErr[c])
  IN  /\ Asks(c)
      /\ drv' = [drv EXCEPT ![c] = o]
      /\ IF Forgives(o, c \in Optional, MaxErr[c], tolerate)
         THEN todo' = todo \ {c} /\ asked' = {} /\ UNCHANGED ended
         ELSE /\ ended' = {[client |-> c, op |-> "get_value", uncaught |-> FALSE]}
              /\ UNCHANGED <<todo, asked>>
      /\ UNCHANGED <<phase, available, iface, present, tolerate>>

\* A mutant: the tolerance is counted down at 0 too.
EndLoopTicks ==
  /\ Running /\ todo = {}
  /\ phase' = IF phase = "init" THEN "first_read" ELSE "read"
  /\ todo' = Clients
  /\ tolerate' = IF phase = "read" THEN tolerate - 1 ELSE tolerate
  /\ UNCHANGED <<asked, drv, available, iface, present, ended>>

\* The end of a for-loop; run() counts the tolerance down in its while-loop.
EndLoop ==
  /\ Running /\ todo = {}
  /\ phase' = IF phase = "init" THEN "first_read" ELSE "read"
  /\ todo' = Clients
  /\ tolerate' = IF phase = "read" /\ tolerate > 0 THEN tolerate - 1 ELSE tolerate
  /\ UNCHANGED <<asked, drv, available, iface, present, ended>>

\* run() has returned after SIGUSR2, or after a SIGHUP whose configuration
\* could not be read.
Reinit ==
  /\ Running /\ todo = {} /\ phase # "init"
  /\ phase' = "init" /\ todo' = Clients
  /\ UNCHANGED <<asked, drv, available, iface, present, tolerate, ended>>

\* After SIGHUP the driver objects are new, and with the last of the old ones
\* the LibsensorsInterface is gone: the new ones have not asked for it yet.
Reload ==
  /\ Running /\ todo = {} /\ phase # "init"
  /\ phase' = "init" /\ todo' = Clients
  /\ drv' = [c \in Clients |-> Fresh]
  /\ available' = {}
  /\ clients' = {} /\ stale' = {} /\ lib' = FALSE /\ detected' = {}
  /\ UNCHANGED <<asked, present, tolerate, ended>>

-----------------------------------------------------------------------------
(* The environment *)

\* A kernel driver is loaded or a device connected, or the reverse.
Plug(c) ==
  /\ Running /\ c \notin present
  /\ present' = present \union {c}
  /\ UNCHANGED <<phase, todo, asked, drv, available, iface, tolerate, ended>>

Unplug(c) ==
  /\ Running /\ c \in present \ Stable
  /\ present' = present \ {c}
  /\ UNCHANGED <<phase, todo, asked, drv, available, iface, tolerate, ended>>

PowerSignal ==
  /\ Running
  /\ tolerate' = Grace
  /\ UNCHANGED <<phase, todo, asked, drv, available, iface, present, ended>>

Environment == PowerSignal \/ \E c \in Clients : Plug(c) \/ Unplug(c)

-----------------------------------------------------------------------------

Init ==
  /\ phase = "init" /\ todo = Clients /\ asked = {}
  /\ drv = [c \in Clients |-> Fresh]
  /\ available = {} /\ clients = {} /\ stale = {}
  /\ lib = FALSE /\ detected = {}
  /\ present \in {p \in SUBSET Clients : Stable \subseteq p}
  /\ tolerate = 0 /\ ended = {}

Serve(c) ==
  \/ TryAvailable(c) \/ SensorsInitFails(c) \/ LookupSucceeds(c) \/ LookupFails(c)
  \/ GetTempsSucceeds(c) \/ GetTempsFails(c)

Main == EndLoop \/ Reinit \/ Reload \/ \E c \in Clients : Serve(c)

Next == Main \/ Environment

Spec == Init /\ [][Next]_vars

\* The process is scheduled and no call hangs; sensors_init() does not fail
\* each time a client with its chip in place needs it.
FairSpec ==
  Spec /\ WF_vars(Main) /\ \A c \in Clients : SF_vars(LookupSucceeds(c))

-----------------------------------------------------------------------------
(* Properties *)

\* The values the variables can have.
TypeOK ==
  /\ phase \in Phases
  /\ todo \subseteq Clients /\ asked \subseteq Clients
  /\ drv \in [Clients -> Driver]
  /\ available \subseteq Clients /\ clients \subseteq Clients
  /\ stale \subseteq clients
  /\ lib \in BOOLEAN /\ detected \subseteq Clients
  /\ present \subseteq Clients /\ Stable \subseteq present
  /\ tolerate \in 0..Grace
  /\ ended \subseteq Ending

\* A client that thinks itself available, and will therefore be asked without
\* a lookup, has an entry in clients_, and its pointers are into the libsensors
\* that is running: whoever shuts libsensors down has told every other client.
PointersLive ==
  \A c \in available : c \in clients \ stale /\ lib /\ c \in detected

\* A client whose chip is there all the time never ends the process by a
\* lookup that fails, however often other clients' failures force it to look
\* up again.
StableUnharmed ==
  \A e \in ended : e.op = "lookup" => e.client \notin Stable

\* "thinkfan will commence normal operation with the remaining devices and
\* re-try initializing unavailable optional devices in every loop until all are
\* found" (thinkfan.conf(5)): once all chips are there to stay, all clients are
\* available again and again, unless an error ends the process.
Rediscovered ==
  <>[](present = Clients) => []<>(available = Clients \/ ~Running)

-----------------------------------------------------------------------------
(* What the manual page says, and the code does not keep to (README, 3) *)

\* thinkfan.conf(5), optional: "whether thinkfan should ignore all errors when
\* using a given sensor or fan".
OptionalForgiven == \A e \in ended : e.client \notin Optional

=============================================================================
