------------------------- MODULE Libsensors_proofs -------------------------
(***************************************************************************)
(* What holds of the clients of libsensors, however many they are and      *)
(* whichever chips come and go.                                            *)
(***************************************************************************)
EXTENDS Libsensors, TLAPS

\* Whoever is available is in clients_, which is empty while libsensors is shut
\* down; a libsensors that runs knows the chips of its clients and all that are
\* always there.
Coherent ==
  /\ stale = {}
  /\ available \subseteq clients
  /\ lib => clients \union Stable \subseteq detected
  /\ ~lib => clients = {}

IInv == TypeOK /\ Coherent /\ StableUnharmed

-----------------------------------------------------------------------------
(* Lemmas about try_init() *)

\* Counting an error leaves a driver object.
LEMMA CountErrorType ==
  ASSUME NEW o \in Driver, NEW n \in Nat
  PROVE  CountError(o, n) \in Driver
  BY DEF CountError, Driver

\* A try_init() that succeeds leaves no error.
LEMMA TriedKeeps ==
  ASSUME IInv, NEW c \in Clients, Running, Tried(c)
  PROVE  /\ phase' \in Phases /\ todo' \subseteq Clients /\ asked' \subseteq Clients
         /\ drv' \in [Clients -> Driver]
         /\ present' = present /\ tolerate' = tolerate
         /\ ended' \subseteq Ending /\ StableUnharmed'
<1>1. drv' \in [Clients -> Driver]
  <2>1. [drv[c] EXCEPT !.inited = TRUE, !.errors = 0] \in Driver
    BY DEF IInv, TypeOK, Driver
  <2> QED
    BY <2>1 DEF Tried, IInv, TypeOK
<1>2. ended' = {}
  BY DEF Tried, Running
<1> QED
  BY <1>1, <1>2 DEF Tried, IInv, TypeOK, StableUnharmed

\* One that fails may end the process, by the failure it met.
LEMMA TryFailsKeeps ==
  ASSUME IInv, NEW c \in Clients, Running,
         NEW op \in {"lookup", "sensors_init"}, TryFails(c, op),
         op = "lookup" => c \notin Stable
  PROVE  /\ phase' \in Phases /\ todo' \subseteq Clients /\ asked' \subseteq Clients
         /\ drv' \in [Clients -> Driver]
         /\ present' = present /\ tolerate' = tolerate
         /\ ended' \subseteq Ending /\ StableUnharmed'
<1>1. drv' \in [Clients -> Driver]
  <2>1. drv[c] \in Driver /\ MaxErr[c] \in Nat
    BY LibsensorsAssumption DEF IInv, TypeOK
  <2>2. CountError(drv[c], MaxErr[c]) \in Driver
    BY <2>1, CountErrorType
  <2> QED
    BY <2>2 DEF TryFails, IInv, TypeOK
<1>2. /\ todo' \subseteq Clients
      /\ \/ ended' = {}
         \/ \E u \in BOOLEAN : ended' = {[client |-> c, op |-> op, uncaught |-> u]}
  BY DEF TryFails, Forgiven, Running, IInv, TypeOK
<1>3. ended' \subseteq Ending /\ StableUnharmed'
  BY <1>2 DEF Ending, StableUnharmed
<1> QED
  BY <1>1, <1>2, <1>3 DEF TryFails, IInv, TypeOK

-----------------------------------------------------------------------------
(* The inductive invariant *)

\* At the start nothing has been looked up.
LEMMA InitHolds == Init => IInv
<1> SUFFICES ASSUME Init PROVE IInv
  OBVIOUS
<1>1. Fresh \in Driver
  BY DEF Fresh, Driver, Saved
<1>2. TypeOK
  <2>1. drv \in [Clients -> Driver]
    BY <1>1 DEF Init
  <2>2. present \subseteq Clients /\ Stable \subseteq present /\ 0 \in 0..Grace
    BY LibsensorsAssumption DEF Init
  <2> QED
    BY <2>1, <2>2 DEF Init, TypeOK, Phases
<1>3. Coherent /\ StableUnharmed
  BY DEF Init, Coherent, StableUnharmed
<1> QED
  BY <1>2, <1>3 DEF IInv

\* A client whose chip is always there is found by every lookup.
LEMMA StableKnown ==
  ASSUME IInv
  PROVE  Stable \subseteq Known /\ Known \subseteq Clients /\ (lib => detected = Known)
  BY DEF IInv, TypeOK, Coherent, Known

\* Each operation on a client keeps the invariant.
LEMMA ServeKeeps ==
  ASSUME IInv, NEW c \in Clients, Serve(c)
  PROVE  IInv'
<1>1. CASE TryAvailable(c)
  <2>1. Running /\ Tried(c) /\ UNCHANGED <<available, clients, stale, lib, detected>>
    BY <1>1 DEF TryAvailable, Tries, iface
  <2>2. TypeOK' /\ StableUnharmed'
    BY <2>1, TriedKeeps DEF IInv, TypeOK
  <2> QED
    BY <2>1, <2>2 DEF IInv, Coherent
<1>2. CASE SensorsInitFails(c)
  <2>1. /\ Running /\ TryFails(c, "sensors_init")
        /\ UNCHANGED <<available, clients, stale, lib, detected>>
    BY <1>2 DEF SensorsInitFails, Tries, iface
  <2> QED
    BY <2>1, TryFailsKeeps DEF IInv, TypeOK, Coherent
<1>3. CASE LookupSucceeds(c)
  <2>1. /\ Running /\ Tried(c) /\ c \in Known
        /\ lib' = TRUE /\ detected' = Known
        /\ clients' = clients \union {c} /\ available' = available \union {c}
        /\ stale' = stale
    BY <1>3 DEF LookupSucceeds, Tries
  <2>2. TypeOK' /\ StableUnharmed'
    BY <2>1, TriedKeeps, StableKnown DEF IInv, TypeOK
  <2>3. Coherent'
    BY <2>1, StableKnown DEF IInv, Coherent
  <2> QED
    BY <2>2, <2>3 DEF IInv
<1>4. CASE LookupFails(c)
  <2>1. Running /\ TryFails(c, "lookup") /\ Shutdown(c) /\ c \notin Stable
    BY <1>4, StableKnown DEF LookupFails, Tries
  <2>2. TypeOK' /\ StableUnharmed'
    BY <2>1, TryFailsKeeps DEF IInv, TypeOK, Shutdown
  <2>3. Coherent'
    BY <2>1 DEF IInv, Coherent, Shutdown
  <2> QED
    BY <2>2, <2>3 DEF IInv
<1>5. CASE GetTempsSucceeds(c)
  <2>1. [drv[c] EXCEPT !.errors = 0] \in Driver
    BY DEF IInv, TypeOK, Driver
  <2>2. drv' \in [Clients -> Driver]
    BY <1>5, <2>1 DEF GetTempsSucceeds, IInv, TypeOK
  <2> QED
    BY <1>5, <2>2 DEF GetTempsSucceeds, iface, IInv, TypeOK, Coherent, StableUnharmed
<1>6. CASE GetTempsFails(c)
  <2>1. drv[c] \in Driver /\ MaxErr[c] \in Nat
    BY LibsensorsAssumption DEF IInv, TypeOK
  <2>2. drv' \in [Clients -> Driver]
    BY <1>6, <2>1, CountErrorType DEF GetTempsFails, IInv, TypeOK
  <2>3. \/ ended' = {}
        \/ \E u \in BOOLEAN : ended' = {[client |-> c, op |-> "get_value", uncaught |-> u]}
    BY <1>6 DEF GetTempsFails, Asks, Running
  <2>4. ended' \subseteq Ending
    BY <2>3 DEF Ending
  <2>5. StableUnharmed'
    <3>1. \A e \in ended' : e.op = "get_value"
      BY <2>3
    <3> QED
      BY <3>1 DEF StableUnharmed
  <2> QED
    BY <1>6, <2>2, <2>4, <2>5 DEF GetTempsFails, iface, IInv, TypeOK, Coherent
<1> QED
  BY <1>1, <1>2, <1>3, <1>4, <1>5, <1>6 DEF Serve

\* So does every other step.
LEMMA StepKeeps == IInv /\ [Next]_vars => IInv'
<1> SUFFICES ASSUME IInv, [Next]_vars PROVE IInv'
  OBVIOUS
<1>1. CASE \E c \in Clients : Serve(c)
  BY <1>1, ServeKeeps
<1>2. CASE EndLoop \/ Reinit
  <2>1. tolerate' \in 0..Grace
    BY <1>2, LibsensorsAssumption DEF EndLoop, Reinit, IInv, TypeOK
  <2> QED
    BY <1>2, <2>1 DEF EndLoop, Reinit, iface, IInv, TypeOK, Coherent, StableUnharmed, Phases
<1>3. CASE Reload
  <2>1. Fresh \in Driver
    BY DEF Fresh, Driver, Saved
  <2> QED
    BY <1>3, <2>1 DEF Reload, IInv, TypeOK, Coherent, StableUnharmed, Phases
<1>4. CASE Environment
  <2>1. present' \subseteq Clients /\ Stable \subseteq present'
    BY <1>4 DEF Environment, PowerSignal, Plug, Unplug, IInv, TypeOK
  <2>2. tolerate' \in 0..Grace
    BY <1>4, LibsensorsAssumption DEF Environment, PowerSignal, Plug, Unplug, IInv, TypeOK
  <2>3. UNCHANGED <<phase, todo, asked, drv, available, clients, stale, lib, detected, ended>>
    BY <1>4 DEF Environment, PowerSignal, Plug, Unplug, iface
  <2> QED
    BY <2>1, <2>2, <2>3 DEF IInv, TypeOK, Coherent, StableUnharmed
<1>5. CASE UNCHANGED vars
  BY <1>5 DEF vars, iface, IInv, TypeOK, Coherent, StableUnharmed
<1> QED
  BY <1>1, <1>2, <1>3, <1>4, <1>5 DEF Next, Main

\* The inductive invariant is one.
LEMMA Invariance == Spec => []IInv
  BY InitHolds, StepKeeps, PTL DEF Spec

-----------------------------------------------------------------------------

\* The values the variables can have, for any clients and any errors.
THEOREM TypeCorrect == Spec => []TypeOK
<1>1. IInv => TypeOK
  BY DEF IInv
<1> QED
  BY <1>1, Invariance, PTL

\* A client that is asked without a lookup has pointers into the libsensors
\* that is running.
THEOREM PointersTheorem == Spec => []PointersLive
<1>1. IInv => PointersLive
  BY DEF IInv, Coherent, PointersLive
<1> QED
  BY <1>1, Invariance, PTL

\* The lookup of a client whose chip is always there never ends the process.
THEOREM StableTheorem == Spec => []StableUnharmed
<1>1. IInv => StableUnharmed
  BY DEF IInv
<1> QED
  BY <1>1, Invariance, PTL
=============================================================================
