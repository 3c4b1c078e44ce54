---------------------------- MODULE MCLibsensors ----------------------------
(***************************************************************************)
(* A sensor that is always there, one that comes and goes and is optional, *)
(* and one that comes and goes and has an error budget.                    *)
(***************************************************************************)
EXTENDS Libsensors

CONSTANTS cpu, disk, gpu

MCClients == {cpu, disk, gpu}
MCOptional == {disk}
MCStable == {cpu}
MCMaxErr == [c \in MCClients |-> IF c = gpu THEN 2 ELSE 0]
=============================================================================
