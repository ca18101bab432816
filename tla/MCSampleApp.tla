---------------------------- MODULE MCSampleApp ----------------------------
(* A small instance of SampleApp for TLC. *)
EXTENDS SampleApp

MCPages == AllPages

(* Nothing but endpoint apps is registered.                                *)
OnlyEndpoints ==
    /\ req = Idle
    /\ devices = {}
    /\ \A n \in Models : ~models[n].registered
    /\ ~dataApps[DataApp].registered
    /\ missed = {}

(* The start-up neither reads nor writes what the views are about.  It is  *)
(* explored with all breaks and with the endpoint apps of other clients;   *)
(* the views once it is done, without those apps, with a model that        *)
(* defines all events or no model, with one break, after which the         *)
(* browsers take turns, and with requests for devices between the others.  *)
Apart ==
    \/ OnlyEndpoints
    \/ /\ ready
       /\ apps \subseteq {ControlApp, DataApp}
       /\ breaks = MaxBreaks \/ (breaks = MaxBreaks - 1 /\ \E b \in Browsers : th[b] = NoPage)
       /\ \A n \in Models : models[n].registered => models[n].defines = Events
       /\ req # Idle => /\ \A t \in Threads : stores[t] = NoStore
                        /\ \A b \in Browsers : th[b] = NoPage
=============================================================================
