-------------------------- MODULE MCRegistrations --------------------------
(* Small instances of Registrations for TLC. *)
EXTENDS Registrations

(* No step for a device reads the tables of the data apps, and no step for *)
(* a data app those of the devices: the two are explored one at a time.    *)
Apart ==
    \/ <<devices, ise, req, bulk, faults>> = <<{}, {}, Idle, FALSE, MaxFaults>>
    \/ /\ \A a \in Apps : ~dataApps[a].registered
       /\ \A t \in Threads : stores[t] = NoStore
       /\ acl = {}
=============================================================================
