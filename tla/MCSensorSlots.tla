---------------------------- MODULE MCSensorSlots ----------------------------
(***************************************************************************)
(* An optional file, an optional chip with two temperatures, a required    *)
(* entry with two files that is found by its name and its model, and       *)
(* thinkpad_acpi without indices.                                          *)
(***************************************************************************)
EXTENDS SensorSlots

CONSTANTS
  class,                  \* /sys/class/hwmon
  hwmon0, device0,        \* hwmon0/device may lead back to class
  hwmon1, deep1, deep2,
  coretemp, nvme,         \* names
  xeon                    \* a model

MCDirs == {class, hwmon0, device0, hwmon1, deep1, deep2}
MCEntries ==
  [disk |-> [base |-> class, name |-> Absent, model |-> Absent, indices |-> <<2>>],
   cpu  |-> [base |-> class, name |-> coretemp, model |-> xeon, indices |-> <<1, 2>>]]

Sensor(k, e, opt, offsets) ==
  [kind |-> k, entry |-> e, optional |-> opt, correction |-> offsets]
MCSensors ==
  <<Sensor("hwmon", "disk", TRUE, 1), Sensor("fixed", 2, TRUE, 0),
    Sensor("hwmon", "cpu", FALSE, 0), Sensor("hwmon", "cpu", FALSE, 1),
    Sensor("tp", Absent, FALSE, 2)>>
OptionalDisk ==
  <<Sensor("hwmon", "disk", TRUE, 1), Sensor("tp", <<0, 2>>, FALSE, 0)>>

Subs(s0, d0, s1, l1, l2) ==
  [d \in MCDirs |->
     CASE d = class -> <<hwmon0, hwmon1>>
       [] d = hwmon0 -> s0
       [] d = device0 -> d0
       [] d = hwmon1 -> s1
       [] d = deep1 -> l1
       [] d = deep2 -> l2]
Tree(sub, dead, names, files) ==
  [sub |-> sub,
   scannable |-> [d \in MCDirs |-> d \notin dead],
   name |-> [d \in MCDirs |-> IF d \in DOMAIN names THEN names[d] ELSE Absent],
   model |-> [d \in MCDirs |-> IF d = hwmon1 THEN xeon ELSE Absent],
   files |-> [d \in MCDirs |-> IF d \in DOMAIN files THEN files[d] ELSE {}]]

Flat == Subs(<<>>, <<>>, <<>>, <<>>, <<>>)
Below == Subs(<<device0>>, <<>>, <<device0>>, <<>>, <<>>)
Cyclic == Subs(<<device0>>, <<class>>, <<>>, <<>>, <<>>)
Deep == Subs(<<device0>>, <<deep1>>, <<>>, <<deep2>>, <<>>)

One == hwmon1 :> {1}
Both == hwmon0 :> {1, 2} @@ hwmon1 :> {1, 2}
Lower == deep2 :> {1, 2} @@ hwmon1 :> {1}
Named == hwmon0 :> nvme @@ hwmon1 :> coretemp
Twice == device0 :> coretemp

MCTrees ==
  {Tree(Flat, {}, Named, files) : files \in {One, Both}}
    \union {Tree(Deep, {}, Named, files) : files \in {Both, Lower}}
    \union {Tree(Cyclic, {}, Named, Both), Tree(Cyclic, {}, Named, One),
            Tree(Below, {}, Twice, Both), Tree(Deep, {device0}, Named, Lower)}
=============================================================================
