----------------------------- MODULE FanService -----------------------------
(***************************************************************************)
(* What thinkfan promises to whoever else looks after the fans, without    *)
(* configurations, drivers, phases and errors: it takes fans, it gives all *)
(* of them back when it is done with them, in one go with its end, and it  *)
(* touches none afterwards.  A fan stays behind only if giving it back has *)
(* failed, or if thinkfan had it when it crashed.                          *)
(***************************************************************************)
CONSTANT Fans

VARIABLES
  state,        \* thinkfan is "up", has "done" its work, or has "crashed"
  control,      \* of each fan: "firmware", "held" by thinkfan, or "left"
                \* behind by it
  failed        \* the fans that could not be given back some time

Take(f) ==
  /\ state = "up"
  /\ control' = [control EXCEPT ![f] = "held"]
  /\ UNCHANGED <<state, failed>>

\* The firmware takes a fan when the machine wakes up.
Resume(f) ==
  /\ state = "up"
  /\ control' = [control EXCEPT ![f] = "firmware"]
  /\ UNCHANGED <<state, failed>>

\* All fans are given back, but for some of those that could not be, now or some
\* time before.
GiveBack(now) ==
  /\ failed' = failed \union now
  /\ control' \in [Fans -> {"firmware", "left"}]
  /\ \A f \in Fans : control'[f] = "left" => f \in failed'

Reload ==
  /\ state = "up"
  /\ \E now \in SUBSET Fans : GiveBack(now)
  /\ UNCHANGED state

Stop ==
  /\ state = "up" /\ state' = "done"
  /\ \E now \in SUBSET Fans : GiveBack(now)

\* Nothing is given back, and nothing else is touched.
Crash ==
  /\ state = "up" /\ state' = "crashed"
  /\ control' = [f \in Fans |-> IF control[f] = "held" THEN "left" ELSE control[f]]
  /\ UNCHANGED failed

Init ==
  /\ state = "up"
  /\ control = [f \in Fans |-> "firmware"]
  /\ failed = {}

Next == (\E f \in Fans : Take(f) \/ Resume(f)) \/ Reload \/ Stop \/ Crash

Spec == Init /\ [][Next]_<<state, control, failed>>
=============================================================================
