--------------------------- MODULE Registrations ---------------------------
(***************************************************************************)
(* The registrations of the gateway (NIPC): SDF models, data apps with the *)
(* topics the MQTT broker lets them read, and the events enabled for a     *)
(* device (gateway/control.py from register_sdf_model on), together with   *)
(* the onboarding of the devices they are for (module Onboarding).         *)
(*                                                                         *)
(* Each of these requests is one transaction, and one step unless it       *)
(* replaces the topics of a data app: such a request reads, deletes and    *)
(* inserts in statements of its own, each of which sees what was committed *)
(* before it (READ COMMITTED), and requests of other threads come between. *)
(* What a refused request has done is rolled back when it ends.  Endpoint  *)
(* apps are never deleted: the route of DELETE /EndpointApps/<id> passes   *)
(* an argument the handler does not have.                                  *)
(***************************************************************************)
EXTENDS Onboarding

CONSTANTS
    Apps,     \* endpoint apps; a name belongs to one app
    NoApp,
    Models,   \* names of SDF models of one namespace
    Threads   \* threads that serve the requests for data apps

ASSUME AppsApart == NoApp \notin Apps

VARIABLES
    apps,      \* table endpoint_app
    models,    \* table sdf_model: the stored document, or NoModel
    dataApps,  \* table data_app: the events of a registered app, or NotRegistered
    acl,       \* table data_app_topics: <<app, event>>, an event's topic
    stores,    \* the requests that replace the topics of a data app, by thread
    crossed    \* history: apps whose topics two requests replaced at the same time

registerVars == <<apps, models, dataApps, acl, stores, crossed>>

vars == <<onboardVars, events, registerVars>>

-----------------------------------------------------------------------------
(* A document: whether it names its namespace, and the events it defines.  *)
Documents == [namespace : BOOLEAN, defines : SUBSET Events]

NoModel == [namespace |-> FALSE, defines |-> {}, registered |-> FALSE]

Stored(doc) == [namespace |-> doc.namespace, defines |-> doc.defines, registered |-> TRUE]

NotRegistered == [registered |-> FALSE, events |-> {}]

(* A request that replaces topics: its app and events, whether it writes   *)
(* the row of the data app, the topics its DELETE has found, and whether   *)
(* no other request for the app was in progress with it.                   *)
NoStore == [pc |-> "idle", app |-> NoApp, events |-> {}, writes |-> FALSE, found |-> {},
            alone |-> TRUE]

(* The app of the broker's administrator (app.py:67), which has neither a  *)
(* token nor a certificate nor a data app, is left out.                    *)
InitAll ==
    /\ Init
    /\ apps = {}
    /\ models = [n \in Models |-> NoModel]
    /\ dataApps = [a \in Apps |-> NotRegistered]
    /\ acl = {}
    /\ stores = [t \in Threads |-> NoStore]
    /\ crossed = {}

(* lookup_sdf_model and navigate_sdf_model: no sdf_name equals a bare      *)
(* namespace, so any model that names the namespace may be the one that is *)
(* found, and the event must be in it.                                     *)
Resolves(e) == \E n \in Models : models[n].namespace /\ e \in models[n].defines

(* authenticate_user: the caller presents the token or the certificate of  *)
(* some endpoint app, whichever app or device the request is about.        *)
Authenticated == apps # {}

-----------------------------------------------------------------------------
(* POST /EndpointApps, and POST, PUT and DELETE /registrations/models.     *)

(* As an operation of a /Bulk request it commits what is in its session,   *)
(* and its answer ends the request.                                        *)
CreateEndpoint(a) ==
    /\ a \notin apps
    /\ apps' = apps \cup {a}
    /\ \/ UNCHANGED onboardVars
       \/ /\ bulk
          /\ req = Idle
          /\ devices' = DevicesSeen
          /\ ble' = BleSeen
          /\ mab' = MabSeen
          /\ Ends
          /\ UNCHANGED <<fdo, ise, torn, faults>>
    /\ UNCHANGED <<events, models, dataApps, acl, stores, crossed>>

RegisterSdfModel(n, doc) ==
    /\ Authenticated
    /\ doc.namespace
    /\ ~models[n].registered
    /\ models' = [models EXCEPT ![n] = Stored(doc)]
    /\ UNCHANGED <<onboardVars, events, apps, dataApps, acl, stores, crossed>>

(* The namespace may not be changed, but it may be left out.               *)
UpdateSdfModel(n, doc) ==
    /\ Authenticated
    /\ models[n].registered
    /\ doc.namespace => models[n].namespace
    /\ models' = [models EXCEPT ![n] = Stored(doc)]
    /\ UNCHANGED <<onboardVars, events, apps, dataApps, acl, stores, crossed>>

(* Nobody asks whether the model is in use.                                *)
DeleteSdfModel(n) ==
    /\ Authenticated
    /\ models[n].registered
    /\ models' = [models EXCEPT ![n] = NoModel]
    /\ UNCHANGED <<onboardVars, events, apps, dataApps, acl, stores, crossed>>

-----------------------------------------------------------------------------
(* POST, PUT and DELETE /registrations/data-apps *)

Topics(a, evs) == {a} \X evs

TopicsOf(a) == {row \in acl : row[1] = a}

Storing(a) == {t \in Threads : stores[t].app = a}

(* A transaction that has written the row of a data app locks it.          *)
Locked(a) == \E t \in Storing(a) : stores[t].pc = "deleted" /\ stores[t].writes

(* Thread t starts to replace the topics of a.                             *)
Starts(t, a, s) ==
    LET other == Storing(a) # {} IN
    /\ stores[t] = NoStore
    /\ stores' = [u \in Threads |->
                    IF u = t THEN [s EXCEPT !.alone = ~other]
                    ELSE IF stores[u].app = a THEN [stores[u] EXCEPT !.alone = FALSE]
                    ELSE stores[u]]
    /\ crossed' = IF other THEN crossed \cup {a} ELSE crossed
    /\ UNCHANGED <<onboardVars, events, apps, models, dataApps, acl>>

(* The DELETE of the rows of the app's user name.  A slip: nothing is      *)
(* deleted, and the topics are added.                                      *)
FoundNothing(a) == {}

Found(a) == TopicsOf(a)

(* The INSERT of the data app is flushed before the DELETE.                *)
RegisterDataApp(t, a, evs) ==
    /\ a \in apps
    /\ \A e \in evs : Resolves(e)
    /\ ~dataApps[a].registered
    /\ ~Locked(a)
    /\ Starts(t, a, [NoStore EXCEPT !.pc = "deleted", !.app = a, !.events = evs, !.writes = TRUE,
                                    !.found = Found(a)])

(* The session writes the row only if the events are not those it has      *)
(* read.                                                                   *)
UpdateDataApp(t, a, evs) ==
    /\ Authenticated
    /\ dataApps[a].registered
    /\ \A e \in evs : Resolves(e)
    /\ Starts(t, a, [NoStore EXCEPT !.pc = "read", !.app = a, !.events = evs,
                                    !.writes = evs # dataApps[a].events])

(* The UPDATE, if there is one, waits for the lock of the row and raises   *)
(* if the row is gone; the DELETE comes after it.                          *)
ReplaceTopics(t) ==
    LET a == stores[t].app IN
    /\ stores[t].pc = "read"
    /\ stores[t].writes => ~Locked(a)
    /\ stores' = [stores EXCEPT ![t] = IF stores[t].writes /\ ~dataApps[a].registered
                                       THEN NoStore
                                       ELSE [@ EXCEPT !.pc = "deleted", !.found = Found(a)]]
    /\ UNCHANGED <<onboardVars, events, apps, models, dataApps, acl, crossed>>

(* Some row to insert was inserted by another since the DELETE.            *)
Conflicts(t) == (acl \ stores[t].found) \cap Topics(stores[t].app, stores[t].events) # {}

(* The rows are inserted and the transaction commits; in a conflict it is  *)
(* rolled back.  A row is deleted once: what another request has found too *)
(* is gone for it, and a row inserted in its place is one it did not see.  *)
(* Which of two requests that delete the same rows goes first is left      *)
(* open.                                                                   *)
CommitDataApp(t) ==
    LET s == stores[t] IN
    /\ s.pc = "deleted"
    /\ IF Conflicts(t)
       THEN /\ stores' = [stores EXCEPT ![t] = NoStore]
            /\ UNCHANGED <<dataApps, acl, crossed>>
       ELSE /\ stores' = [u \in Threads |-> IF u = t THEN NoStore
                                            ELSE [stores[u] EXCEPT !.found = @ \ s.found]]
            /\ acl' = (acl \ s.found) \cup Topics(s.app, s.events)
            /\ dataApps' = IF s.writes
                           THEN [dataApps EXCEPT ![s.app] = [registered |-> TRUE,
                                                             events |-> s.events]]
                           ELSE dataApps
            /\ crossed' = IF s.alone THEN crossed \ {s.app} ELSE crossed
    /\ UNCHANGED <<onboardVars, events, apps, models>>

(* The topics stay.                                                        *)
DeleteDataApp(a) ==
    /\ Authenticated
    /\ dataApps[a].registered
    /\ ~Locked(a)
    /\ dataApps' = [dataApps EXCEPT ![a] = NotRegistered]
    /\ UNCHANGED <<onboardVars, events, apps, models, acl, stores, crossed>>

-----------------------------------------------------------------------------
(* POST and DELETE /devices/<id>/events.  event_name is unique, so an      *)
(* event is enabled for one device.  The foreign key waits for an id that  *)
(* is being changed.                                                       *)

EnableEvent(d, e) ==
    /\ Authenticated
    /\ d \in devices \ dirty.gone
    /\ Resolves(e)
    /\ events[e] = NoDevice
    /\ events' = [events EXCEPT ![e] = d]
    /\ UNCHANGED <<onboardVars, registerVars>>

DisableEvent(d, e) ==
    /\ Authenticated
    /\ events[e] = d
    /\ events' = [events EXCEPT ![e] = NoDevice]
    /\ UNCHANGED <<onboardVars, registerVars>>

-----------------------------------------------------------------------------
Register ==
    \/ \E a \in Apps : CreateEndpoint(a) \/ DeleteDataApp(a)
    \/ \E t \in Threads, a \in Apps, evs \in SUBSET Events :
           RegisterDataApp(t, a, evs) \/ UpdateDataApp(t, a, evs)
    \/ \E t \in Threads : ReplaceTopics(t) \/ CommitDataApp(t)
    \/ \E n \in Models, doc \in Documents : RegisterSdfModel(n, doc) \/ UpdateSdfModel(n, doc)
    \/ \E n \in Models : DeleteSdfModel(n)
    \/ \E d \in Devices, e \in Events : EnableEvent(d, e) \/ DisableEvent(d, e)

(* A crash of the gateway ends the requests of all threads.                *)
CrashAll ==
    /\ Crash
    /\ stores' = [t \in Threads |-> NoStore]
    /\ UNCHANGED <<apps, models, dataApps, acl, crossed>>

Next ==
    \/ OnboardingNext /\ UNCHANGED registerVars
    \/ Register
    \/ CrashAll

Spec == InitAll /\ [][Next]_vars

(* A request that was started runs on, a /Bulk request comes to an end,    *)
(* and a client that wants a device deleted asks again.                    *)
Fairness ==
    /\ WF_vars(Step /\ UNCHANGED registerVars)
    /\ SF_vars(EndBulk /\ UNCHANGED registerVars)
    /\ \A d \in Devices : SF_vars(DeleteDevice(d) /\ UNCHANGED registerVars)

FairSpec == Spec /\ Fairness

-----------------------------------------------------------------------------
(* PROPERTIES *)

TypeOK ==
    /\ devices \subseteq Devices
    /\ ble \in [Devices -> BleMacs \cup {NoMac}]
    /\ mab \in [Devices -> MabMacs \cup {NoMac}]
    /\ fdo \subseteq Devices
    /\ events \in [Events -> Devices \cup {NoDevice}]
    /\ ise \subseteq MabMacs
    /\ req \in [pc : {"idle", "ise", "commit", "del_ble", "del_ise", "del_mab", "del_fdo",
                      "del_row"},
                dev : Devices \cup {NoDevice}, new : BOOLEAN, ble : BleMacs \cup {NoMac},
                mab : MabMacs \cup {NoMac}, fdo : BOOLEAN]
    /\ dirty \in [ble : [Devices -> BleMacs \cup {NoMac}], mab : [Devices -> MabMacs \cup {NoMac}],
                  gone : SUBSET Devices, came : SUBSET Devices]
    /\ bulk \in BOOLEAN
    /\ torn \subseteq Devices
    /\ faults \in 0..MaxFaults
    /\ apps \subseteq Apps
    /\ models \in [Models -> [namespace : BOOLEAN, defines : SUBSET Events, registered : BOOLEAN]]
    /\ dataApps \in [Apps -> [registered : BOOLEAN, events : SUBSET Events]]
    /\ acl \subseteq Apps \X Events
    /\ stores \in [Threads -> [pc : {"idle", "read", "deleted"}, app : Apps \cup {NoApp},
                               events : SUBSET Events, writes : BOOLEAN,
                               found : SUBSET (Apps \X Events), alone : BOOLEAN]]
    /\ crossed \subseteq Apps

(* No row of an extension and no enabled event outlives its device or the  *)
(* id of its device, whatever comes between the commits of a DELETE and    *)
(* whatever id a PUT gives the device.                                     *)
NoDanglingRow ==
    /\ \A d \in Devices \ devices : ble[d] = NoMac /\ mab[d] = NoMac /\ d \notin fdo
    /\ \A e \in Events : events[e] \in devices \cup {NoDevice}

(* An Ethernet device with a row is known to ISE: the endpoint is created  *)
(* before the row and the row goes right after the endpoint.  The one      *)
(* exception is a DELETE cut between the two, after which DELETE always    *)
(* answers 400 (scim_ethermab.py:200).  Said of onboarding requests one    *)
(* after another: two at once can put two devices on one endpoint          *)
(* (scim_ethermab.py:107).                                                 *)
MabInIse ==
    \A d \in Devices :
        mab[d] # NoMac /\ mab[d] \notin ise
            => d \in torn \/ (req.pc = "del_mab" /\ req.dev = d)

(* The broker lets a registered data app read the topics of its events and *)
(* no other, over any sequence of registrations, updates and deletions.    *)
(* Two requests for one app at the same time may break it (one of them     *)
(* finds its events unchanged and writes no row, so nothing makes it wait  *)
(* for the other); the next one that has the app to itself puts it right.  *)
AclMatchesApp ==
    \A a \in Apps : dataApps[a].registered /\ a \notin crossed
        => TopicsOf(a) = Topics(a, dataApps[a].events)

(* Outside a /Bulk request a transaction writes the addresses of the       *)
(* device its request names, and nothing a failed request left behind in   *)
(* the session.                                                            *)
OwnRowsOnly ==
    [][ ~bulk => \A d \in Devices : <<ble'[d], mab'[d]>> # <<ble[d], mab[d]>> => d = req.dev ]_vars

(* Once a client has started to delete a device and goes on asking, the    *)
(* device is deleted, although every failed attempt leaves it without some *)
(* of its extensions: unless an event is enabled again and again, or a     *)
(* DELETE was cut between ISE and the commit.                              *)
DeleteCompletes ==
    \A d \in Devices :
        (<>[](\A e \in Events : events[e] # d))
            => ((req.pc = "del_ble" /\ req.dev = d) ~> (d \notin devices \/ d \in torn))
=============================================================================
