----------------------------- MODULE SampleApp -----------------------------
(***************************************************************************)
(* The sample application (python-sdk/sample-python-app/src/app.py) with   *)
(* the SDK it calls (python-sdk/tiedie/api), on top of the gateway's       *)
(* registrations and onboarding (module Registrations).                    *)
(*                                                                         *)
(* The pages browsers ask for are served by one process, in threads that   *)
(* switch only while they wait for an answer of the gateway (gunicorn's    *)
(* eventlet worker): a view is cut at every HTTP request.  A request may   *)
(* not reach the gateway, its answer may be lost, and the process may be   *)
(* restarted; each uses up one of MaxBreaks.  The gateway itself does not  *)
(* fail here, and goes on with a request whose view has ended.             *)
(*                                                                         *)
(* Views that only render what they read, and those for connections and    *)
(* properties, which keep nothing in the app, are left out; so are the     *)
(* OAuth pages and DATA_APP_MQTT_TYPE = "broker".                          *)
(***************************************************************************)
EXTENDS Registrations, FiniteSets

CONSTANTS
    Browsers,     \* pages served at the same time
    Pages,        \* the pages browsers ask for
    ControlApp,   \* CONTROL_APP_ID
    DataApp,      \* DATA_APP_ID
    NoThread,
    PageSize,     \* endpoint apps, but for the administrator's, on a page of the list
    MaxBreaks     \* bound: lost requests, lost answers and restarts

OnboardingPages == {"add_device", "update_device", "delete_device"}

EventPages == {"enable_event", "disable_event"}

ModelPages == {"upload_model", "delete_model"}

AllPages == OnboardingPages \cup EventPages \cup ModelPages

ASSUME SampleApps == ControlApp \in Apps /\ DataApp \in Apps /\ ControlApp # DataApp
ASSUME SamplePages == Pages \subseteq AllPages /\ MaxBreaks \in Nat
ASSUME SampleThreads == NoThread \notin Threads /\ PageSize \in Nat

VARIABLES
    onboarding,  \* app.onboarding_client is set
    ready,       \* app.control_client and the other clients are set
    th,          \* the view each browser waits for
    breaks,      \* breaks left
    missed,      \* history: events whose registration was refused or overwritten
    copies       \* history: what a request the gateway works on was a copy of, by thread

appVars == <<onboarding, ready, th, breaks, missed, copies>>

allVars == <<vars, appVars>>

-----------------------------------------------------------------------------
(* seen: the data app, or whether the model is registered, as last read.   *)
(* listed: the endpoint apps, as read.  thr: the gateway's thread that     *)
(* works on the view's request.                                            *)
NoPage == [pc |-> "none", page |-> "none", dev |-> NoDevice, ev |-> "none", seen |-> NotRegistered,
           listed |-> {}, thr |-> NoThread]

InitApp ==
    /\ InitAll
    /\ onboarding = FALSE
    /\ ready = FALSE
    /\ th = [b \in Browsers |-> NoPage]
    /\ breaks = MaxBreaks
    /\ missed = {}
    /\ copies = [t \in Threads |-> {}]

Becomes(b, r) == th' = [th EXCEPT ![b] = r]

(* The SDK hands over the answer of the gateway, an error as well as a     *)
(* result, and the view goes on as r; or the answer is lost and requests   *)
(* raises, which ends the view.                                            *)
Answered(b, r) ==
    \/ Becomes(b, r) /\ UNCHANGED breaks
    \/ Becomes(b, NoPage) /\ breaks > 0 /\ breaks' = breaks - 1

Gets(b, r) == Answered(b, r) /\ UNCHANGED <<vars, onboarding, ready, missed, copies>>

(* A page that is asked for, with the device and the event it is about.    *)
Page(page, d, e) == [NoPage EXCEPT !.pc = page, !.page = page, !.dev = d, !.ev = e]

Asked == {p \in {Page(page, d, e) : page \in OnboardingPages, d \in Devices, e \in {"none"}}
                \cup {Page(page, d, e) : page \in EventPages, d \in Devices, e \in Events}
                \cup {Page(page, NoDevice, "none") : page \in ModelPages} : p.page \in Pages}

(* before_request: init_clients is run by the first page.                  *)
BeforeRequest(b, p) ==
    /\ th[b] = NoPage
    /\ ~onboarding
    /\ Becomes(b, [p EXCEPT !.pc = "get_apps"])
    /\ onboarding' = TRUE
    /\ UNCHANGED <<vars, ready, breaks, missed, copies>>

(* The view of the page runs: after init_clients, or at once, although the *)
(* clients may not be there yet.  Without a control client most views      *)
(* raise and are left out.                                                 *)
Runs(b, p) ==
    /\ p \in Asked
    /\ \/ th[b] = p
       \/ th[b] = NoPage /\ onboarding /\ (ready \/ p.page \in OnboardingPages)

(* A view of one request that changes something: the gateway takes it or   *)
(* refuses it, and the answer is only shown.                               *)
Sends(b, action) ==
    /\ action \/ UNCHANGED vars
    /\ Becomes(b, NoPage)
    /\ UNCHANGED <<onboarding, ready, breaks, missed, copies>>

-----------------------------------------------------------------------------
(* init_clients and get_endpoint_apps *)

(* GET /EndpointApps answers with one page of the table, in no order.      *)
Listings ==
    LET size == IF Cardinality(apps) < PageSize THEN Cardinality(apps) ELSE PageSize
    IN  {l \in SUBSET apps : Cardinality(l) = size}

(* An endpoint app is looked for by its name in the list.  A slip: it is   *)
(* not.                                                                    *)
MissingAlways(a, l) == TRUE

Missing(a, l) == a \notin l

(* The data app is looked for in the same list.  A slip: it is not looked  *)
(* for.                                                                    *)
AfterControlOnly(b, l) == [th[b] EXCEPT !.pc = "clients", !.listed = {}]

AfterControl(b, l) ==
    [th[b] EXCEPT !.pc = IF Missing(DataApp, l) THEN "post_data" ELSE "clients", !.listed = {}]

GetEndpointApps(b) ==
    /\ th[b].pc = "get_apps"
    /\ \E l \in Listings :
          Gets(b, IF Missing(ControlApp, l) THEN [th[b] EXCEPT !.pc = "post_control", !.listed = l]
                  ELSE AfterControl(b, l))

(* A name that is taken is refused; the answer has no body and the view    *)
(* raises.                                                                 *)
CreateEndpointApp(b, pc, a, r) ==
    /\ th[b].pc = pc
    /\ IF a \in apps THEN Becomes(b, NoPage) /\ UNCHANGED <<vars, breaks>>
       ELSE CreateEndpoint(a) /\ Answered(b, r)
    /\ UNCHANGED <<onboarding, ready, missed, copies>>

(* get_control_client and get_data_receiver_client; the view of the page   *)
(* follows.                                                                *)
GetClients(b) ==
    /\ th[b].pc = "clients"
    /\ ready' = TRUE
    /\ Becomes(b, [th[b] EXCEPT !.pc = th[b].page])
    /\ UNCHANGED <<vars, onboarding, breaks, missed, copies>>

InitClients(b) ==
    \/ GetEndpointApps(b)
    \/ CreateEndpointApp(b, "post_control", ControlApp, AfterControl(b, th[b].listed))
    \/ CreateEndpointApp(b, "post_data", DataApp, [th[b] EXCEPT !.pc = "clients"])
    \/ GetClients(b)

-----------------------------------------------------------------------------
(* register_event.  To enable an event, its name is first added to the     *)
(* registration of the data app (update_data_app): read, then replaced.    *)

DataAppRead == dataApps[DataApp]

GetDataApp(b, d, e) ==
    /\ Runs(b, Page("enable_event", d, e))
    /\ Gets(b, [Page("enable_event", d, e) EXCEPT !.pc = "store_app", !.seen = DataAppRead])

(* The events the view sends.  A slip: the new one only.                   *)
SentOnlyNew(b) == {th[b].ev}

Sent(b) == th[b].seen.events \cup {th[b].ev}

(* The gateway's checks of the request.                                    *)
Accepted(b) ==
    /\ \A e \in Sent(b) : Resolves(e)
    /\ th[b].seen.registered = dataApps[DataApp].registered

(* The gateway has a thread for the request; which one does not matter.    *)
Free == CHOOSE t \in Threads : stores[t] = NoStore

(* POST or PUT, as the app was seen.  A refusal is ignored like any other  *)
(* answer; the event has missed its registration.                          *)
StoreDataAppOf(b) ==
    /\ th[b].pc = "store_app"
    /\ IF Accepted(b)
       THEN /\ \E t \in Threads : stores[t] = NoStore
            /\ IF th[b].seen.registered
               THEN UpdateDataApp(Free, DataApp, Sent(b))
               ELSE RegisterDataApp(Free, DataApp, Sent(b))
            /\ Becomes(b, [th[b] EXCEPT !.pc = "stored", !.seen = NotRegistered, !.thr = Free])
            /\ copies' = [copies EXCEPT ![Free] = th[b].seen.events]
            /\ UNCHANGED <<breaks, missed>>
       ELSE /\ Answered(b, [th[b] EXCEPT !.pc = "post_event", !.seen = NotRegistered])
            /\ missed' = missed \cup {th[b].ev}
            /\ UNCHANGED <<vars, copies>>
    /\ UNCHANGED <<onboarding, ready>>

(* The gateway's thread t answers, and the view that waits for it goes on. *)
Waiting(t) == {b \in Browsers : th[b].pc = "stored" /\ th[b].thr = t}

Replies(t) ==
    IF Waiting(t) = {} THEN UNCHANGED <<th, breaks>>
    ELSE \E b \in Waiting(t) : Answered(b, [th[b] EXCEPT !.pc = "post_event", !.thr = NoThread])

(* The gateway's work on such a request.  No view deletes the registration *)
(* of the data app.  Events that were registered after the view had made   *)
(* its copy, and those of a request that is rolled back, have missed their *)
(* registration.                                                           *)
StoreStep(t) ==
    LET registered == dataApps[DataApp].events
        sent == stores[t].events
    IN
    /\ \/ /\ ReplaceTopics(t)
          /\ UNCHANGED <<th, breaks, missed, copies>>
       \/ /\ CommitDataApp(t)
          /\ missed' = IF Conflicts(t) THEN missed \cup (sent \ registered)
                       ELSE (missed \ dataApps'[DataApp].events)
                              \cup (registered \ (copies[t] \cup sent))
          /\ copies' = [copies EXCEPT ![t] = {}]
          /\ Replies(t)
    /\ UNCHANGED <<onboarding, ready>>

(* Without a Location header in the answer enable_event of the SDK raises. *)
PostEvent(b) ==
    /\ th[b].pc = "post_event"
    /\ \/ EnableEvent(th[b].dev, th[b].ev)
       \/ /\ \/ th[b].dev \notin devices \ dirty.gone
             \/ ~Resolves(th[b].ev)
             \/ events[th[b].ev] # NoDevice
          /\ UNCHANGED vars
    /\ Becomes(b, NoPage)
    /\ UNCHANGED <<onboarding, ready, breaks, missed, copies>>

(* The gateway answers 204 and the view waits for 201, so the registration *)
(* of the data app keeps the event.                                        *)
DeleteEvent(b, d, e) ==
    /\ Runs(b, Page("disable_event", d, e))
    /\ Sends(b, DisableEvent(d, e))

-----------------------------------------------------------------------------
(* register_sdf_model: update a model that is listed, register it if not.  *)

Listed(n) == models[n].registered

ListModels(b, n) ==
    /\ Runs(b, Page("upload_model", NoDevice, "none"))
    /\ Gets(b, [Page("upload_model", NoDevice, "none") EXCEPT !.pc = "send_model",
                                                  !.seen.registered = Listed(n)])

SendModel(b, n, doc) ==
    /\ th[b].pc = "send_model"
    /\ doc.namespace
    /\ IF th[b].seen.registered # Listed(n) THEN UNCHANGED vars
       ELSE UpdateSdfModel(n, doc) \/ RegisterSdfModel(n, doc)
    /\ Becomes(b, NoPage)
    /\ UNCHANGED <<onboarding, ready, breaks, missed, copies>>

DeleteModel(b, n) ==
    /\ Runs(b, Page("delete_model", NoDevice, "none"))
    /\ Sends(b, DeleteSdfModel(n))

-----------------------------------------------------------------------------
(* The views for devices.  Devices of the app are BLE devices.             *)

BleBody(i, m) == [id |-> i, ble |-> m, mab |-> NoMac, fdo |-> FALSE]

Onboards(b, action) == Sends(b, action /\ UNCHANGED registerVars)

AddDevice(b, d, m) ==
    /\ Runs(b, Page("add_device", d, "none"))
    /\ Onboards(b, CreateDevice(d, BleBody(NoDevice, m)))

ChangeDevice(b, d, m) ==
    /\ Runs(b, Page("update_device", d, "none"))
    /\ Onboards(b, UpdateDevice(d, BleBody(d, m)))

RemoveDevice(b, d) ==
    /\ Runs(b, Page("delete_device", d, "none"))
    /\ Onboards(b, DeleteDevice(d))

-----------------------------------------------------------------------------
(* Another client of the gateway registers an endpoint app of its own.     *)
OtherEndpoint(a) ==
    /\ a \notin {ControlApp, DataApp}
    /\ CreateEndpoint(a)
    /\ UNCHANGED appVars

-----------------------------------------------------------------------------
(* Faults *)

(* requests raises a ConnectionError.                                      *)
Unreachable(b) ==
    /\ th[b] # NoPage
    /\ breaks > 0
    /\ breaks' = breaks - 1
    /\ Becomes(b, NoPage)
    /\ UNCHANGED <<vars, onboarding, ready, missed, copies>>

Restart ==
    /\ breaks > 0
    /\ breaks' = breaks - 1
    /\ onboarding' = FALSE
    /\ ready' = FALSE
    /\ th' = [b \in Browsers |-> NoPage]
    /\ UNCHANGED <<vars, missed, copies>>

-----------------------------------------------------------------------------
View(b) ==
    \/ \E d \in Devices, e \in Events : GetDataApp(b, d, e) \/ DeleteEvent(b, d, e)
    \/ \E n \in Models : ListModels(b, n) \/ DeleteModel(b, n)
    \/ \E d \in Devices, m \in BleMacs : AddDevice(b, d, m) \/ ChangeDevice(b, d, m)
    \/ \E d \in Devices : RemoveDevice(b, d)

Continues(b) ==
    \/ InitClients(b) \/ StoreDataAppOf(b) \/ PostEvent(b)
    \/ \E n \in Models, doc \in Documents : SendModel(b, n, doc)

Asks == \E b \in Browsers, p \in Asked : BeforeRequest(b, p)

SampleNext ==
    \/ Asks
    \/ \E b \in Browsers : View(b) \/ Continues(b) \/ Unreachable(b)
    \/ Restart
    \/ \E t \in Threads : StoreStep(t)
    \/ \E a \in Apps : OtherEndpoint(a)
    \/ Step /\ UNCHANGED <<registerVars, appVars>>

(* Browsers ask, and every request is answered or fails.                   *)
SampleSpec == InitApp /\ [][SampleNext]_allVars
              /\ WF_allVars(Asks) /\ \A b \in Browsers : WF_allVars(Continues(b))
              /\ \A t \in Threads : WF_allVars(StoreStep(t))

-----------------------------------------------------------------------------
(* PROPERTIES *)

ViewType ==
    [pc : Pages \cup {"none", "get_apps", "post_control", "post_data", "clients", "store_app",
                      "stored", "post_event", "send_model"},
     page : Pages \cup {"none"}, dev : Devices \cup {NoDevice}, ev : Events \cup {"none"},
     seen : [registered : BOOLEAN, events : SUBSET Events],
     listed : SUBSET Apps, thr : Threads \cup {NoThread}]

(* The app keeps its types over any interleaving of views and restarts,    *)
(* and has its clients only once both endpoint apps are registered.        *)
AppTypeOK ==
    /\ TypeOK
    /\ ready => onboarding /\ {ControlApp, DataApp} \subseteq apps
    /\ th \in [Browsers -> ViewType]
    /\ breaks \in 0..MaxBreaks
    /\ missed \subseteq Events
    /\ copies \in [Threads -> SUBSET Events]

(* An event that is enabled reaches the data app: it is in the app's       *)
(* registration, and so in its access list, whatever was lost on the way.  *)
(* The only ways to lose it are an answer update_data_app ignores and a    *)
(* second browser that writes back an older copy.                          *)
EnabledIsRegistered ==
    \A e \in Events : events[e] # NoDevice
        => e \in missed \/ (e \in dataApps[DataApp].events /\ <<DataApp, e>> \in acl)

(* After a restart the app finds again what earlier runs have registered,  *)
(* wherever they were cut, and comes up, as long as the list of endpoint   *)
(* apps is one page: an app of its own that is registered and not on the   *)
(* page is refused, and the clients are never made.                        *)
StartsUp ==
    [](Cardinality(apps) <= PageSize) => ((~onboarding /\ breaks = 0) ~> ready)
=============================================================================
