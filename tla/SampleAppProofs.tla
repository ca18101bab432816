-------------------------- MODULE SampleAppProofs --------------------------
(***************************************************************************)
(* The sample application drives the gateway through its API only, so what *)
(* RegistrationsProofs proves of the gateway holds under it.  Its clients  *)
(* exist only with both endpoint apps, and no event is enabled that its    *)
(* data app would not receive, but for those it is known to have missed:   *)
(* for any number of browsers, devices, events, models, lost requests and  *)
(* restarts.                                                               *)
(***************************************************************************)
EXTENDS SampleApp, RegistrationsProofs

-----------------------------------------------------------------------------
(* THE INDUCTIVE INVARIANT *)

(* The event is in the registration of the data app and in its access      *)
(* list, or known to have missed it.                                       *)
Kept(e) == e \in missed \/ (e \in dataApps[DataApp].events /\ <<DataApp, e>> \in acl)

(* How far init_clients has come.                                          *)
StartedUp ==
    \A b \in Browsers :
        /\ th[b] # NoPage => onboarding /\ th[b].page \in Pages
        /\ th[b].pc = "post_control" => th[b].listed \subseteq apps
        /\ th[b].pc = "post_data" => ControlApp \in apps
        /\ th[b].pc = "clients" => {ControlApp, DataApp} \subseteq apps

(* An event is enabled only after its registration was asked for.          *)
AskedFirst ==
    \A b \in Browsers :
        /\ th[b].pc \in {"store_app", "stored", "post_event"} => th[b].ev \in Events
        /\ th[b].pc = "post_event" => Kept(th[b].ev)

(* The gateway's work on a registration.  The events of a request that     *)
(* writes no row are registered, or were overwritten by another request.   *)
StoresKept ==
    /\ \A t \in Threads : stores[t].pc # "idle" =>
          /\ stores[t].app = DataApp
          /\ stores[t].pc = "read" => dataApps[DataApp].registered
          /\ ~stores[t].writes => stores[t].events \subseteq dataApps[DataApp].events \cup missed
    /\ \A t \in Threads : copies[t] \subseteq stores[t].events
    /\ \A e \in dataApps[DataApp].events : e \in missed \/ <<DataApp, e>> \in acl

(* A view waits for a thread of its own, which works on its event.         *)
WaitsOK ==
    /\ \A b \in Browsers : th[b].pc = "stored" =>
          /\ th[b].thr \in Threads
          /\ stores[th[b].thr].pc # "idle"
          /\ th[b].ev \in stores[th[b].thr].events
    /\ \A b, c \in Browsers :
          b # c /\ th[b].pc = "stored" /\ th[c].pc = "stored" => th[b].thr # th[c].thr

AInv ==
    IInv /\ AppTypeOK /\ StartedUp /\ AskedFirst /\ StoresKept /\ WaitsOK /\ EnabledIsRegistered

-----------------------------------------------------------------------------
(* Views *)

SeenType == [registered : BOOLEAN, events : SUBSET Events]

(* What a view must be for AInv.                                           *)
ViewOK(r) ==
    /\ r \in ViewType
    /\ r # NoPage => onboarding' /\ r.page \in Pages
    /\ r.pc = "post_control" => r.listed \subseteq apps'
    /\ r.pc = "post_data" => ControlApp \in apps'
    /\ r.pc = "clients" => {ControlApp, DataApp} \subseteq apps'
    /\ r.pc \in {"store_app", "stored", "post_event"} => r.ev \in Events

(* An event's registration after the step.                                 *)
KeptNext(e) == e \in missed' \/ (e \in dataApps'[DataApp].events /\ <<DataApp, e>> \in acl')

(* The gateway takes a step or none, and loses no registration.            *)
GatewayStep ==
    /\ [Next]_vars
    /\ apps \subseteq apps'
    /\ StoresKept' /\ copies' \in [Threads -> SUBSET Events]
    /\ \A e \in Events : Kept(e) => KeptNext(e)
    /\ \A e \in Events : events'[e] # NoDevice => events[e] # NoDevice \/ KeptNext(e)

LEMMA NoPageFields ==
    /\ NoPage.pc = "none" /\ NoPage.page = "none" /\ NoPage.ev = "none"
    /\ NoPage.seen = NotRegistered /\ NoPage.listed = {} /\ NoPage.thr = NoThread
    /\ NoPage \in ViewType
<1>1. NotRegistered \in SeenType
    BY DEF NotRegistered, SeenType
<1> QED
    BY <1>1 DEF NoPage, ViewType, SeenType

LEMMA NoPageOK == ViewOK(NoPage)
    BY NoPageFields DEF ViewOK

LEMMA Parts ==
    ASSUME AInv
    PROVE  /\ IInv /\ TypeOK /\ th \in [Browsers -> ViewType]
           /\ breaks \in 0..MaxBreaks /\ missed \subseteq Events
           /\ ready => onboarding /\ {ControlApp, DataApp} \subseteq apps
           /\ StartedUp /\ AskedFirst /\ StoresKept /\ WaitsOK /\ EnabledIsRegistered
           /\ copies \in [Threads -> SUBSET Events]
    BY DEF AInv, AppTypeOK

(* Some views go on, and others do not.                                    *)
LEMMA ViewsKeep ==
    ASSUME AInv, NEW B \in SUBSET Browsers, th' \in [Browsers -> ViewType],
           \A c \in Browsers \ B : th'[c] = th[c],
           \A c \in B : ViewOK(th'[c]) /\ (th'[c].pc = "post_event" => KeptNext(th'[c].ev)),
           GatewayStep, WaitsOK', onboarding => onboarding',
           ready' => onboarding' /\ {ControlApp, DataApp} \subseteq apps',
           breaks' \in 0..MaxBreaks, missed' \subseteq Events
    PROVE  AInv' /\ [Next]_vars
<1>1. /\ IInv /\ StartedUp /\ AskedFirst /\ EnabledIsRegistered
    BY Parts
<1>2. IInv'
    BY <1>1, NextKeeps DEF GatewayStep
<1>4. TypeOK'
    BY <1>2, Typed, PTL
<1>5. AppTypeOK'
    BY <1>4 DEF AppTypeOK, GatewayStep
<1>6. ASSUME NEW c \in Browsers
      PROVE  /\ th'[c] # NoPage => onboarding' /\ th'[c].page \in Pages
             /\ th'[c].pc = "post_control" => th'[c].listed \subseteq apps'
             /\ th'[c].pc = "post_data" => ControlApp \in apps'
             /\ th'[c].pc = "clients" => {ControlApp, DataApp} \subseteq apps'
    <2>1. CASE c \in B
        BY <2>1 DEF ViewOK
    <2>2. CASE c \notin B
        <3>1. th'[c] = th[c] /\ apps \subseteq apps'
            BY <2>2 DEF GatewayStep
        <3> QED
            BY <3>1, <1>1 DEF StartedUp
    <2> QED
        BY <2>1, <2>2
<1>7. StartedUp'
    BY <1>6 DEF StartedUp
<1>8. ASSUME NEW c \in Browsers
      PROVE  /\ th'[c].pc \in {"store_app", "stored", "post_event"} => th'[c].ev \in Events
             /\ th'[c].pc = "post_event" => KeptNext(th'[c].ev)
    <2>1. CASE c \in B
        BY <2>1 DEF ViewOK
    <2>2. CASE c \notin B
        BY <2>2, <1>1 DEF AskedFirst, GatewayStep
    <2> QED
        BY <2>1, <2>2
<1>9. AskedFirst'
    BY <1>8 DEF AskedFirst, Kept, KeptNext
<1>10. ASSUME NEW e \in Events, events'[e] # NoDevice
       PROVE  KeptNext(e)
    BY <1>1, <1>10 DEF EnabledIsRegistered, Kept, GatewayStep
<1>11. EnabledIsRegistered'
    BY <1>10 DEF EnabledIsRegistered, KeptNext
<1> QED
    BY <1>2, <1>5, <1>7, <1>9, <1>11 DEF AInv, GatewayStep

(* One view goes on as r.                                                  *)
LEMMA BecomesKeeps ==
    ASSUME AInv, NEW b \in Browsers, NEW r, Becomes(b, r), ViewOK(r),
           r.pc = "post_event" => KeptNext(r.ev),
           GatewayStep, WaitsOK', onboarding => onboarding',
           ready' => onboarding' /\ {ControlApp, DataApp} \subseteq apps',
           breaks' \in 0..MaxBreaks, missed' \subseteq Events
    PROVE  AInv' /\ [Next]_vars
<1>1. /\ th' \in [Browsers -> ViewType] /\ th'[b] = r
      /\ \A c \in Browsers \ {b} : th'[c] = th[c]
    BY Parts DEF Becomes, ViewOK
<1>2. \A c \in {b} : ViewOK(th'[c]) /\ (th'[c].pc = "post_event" => KeptNext(th'[c].ev))
    BY <1>1
<1>3. {b} \in SUBSET Browsers
    OBVIOUS
<1> HIDE DEF ViewOK
<1> QED
    BY <1>1, <1>2, <1>3, ViewsKeep

(* The other views wait on.                                                *)
LEMMA WaitOn ==
    ASSUME AInv, NEW b \in Browsers, NEW r, Becomes(b, r), r.pc # "stored", UNCHANGED stores
    PROVE  WaitsOK'
<1>1. th'[b] = r /\ \A c \in Browsers : c # b => th'[c] = th[c]
    BY Parts DEF Becomes
<1> QED
    BY <1>1, Parts DEF WaitsOK

LEMMA AnsweredWait ==
    ASSUME AInv, NEW b \in Browsers, NEW r, Answered(b, r), r.pc # "stored", UNCHANGED stores
    PROVE  WaitsOK'
    BY WaitOn, NoPageFields DEF Answered

(* A step of the gateway that leaves the data apps alone.                  *)
LEMMA PlainGatewayStep ==
    ASSUME AInv, [Next]_vars, apps \subseteq apps', UNCHANGED <<dataApps, acl, stores, copies>>,
           missed \subseteq missed',
           \A e \in Events : events'[e] # NoDevice => events[e] # NoDevice
    PROVE  GatewayStep
<1>1. StoresKept'
    BY Parts DEF StoresKept
<1> QED
    BY <1>1, Parts DEF GatewayStep, Kept, KeptNext

LEMMA GatewayRests ==
    ASSUME AInv, UNCHANGED vars, UNCHANGED <<missed, copies>>
    PROVE  GatewayStep /\ UNCHANGED stores
<1>1. UNCHANGED <<apps, dataApps, acl, stores, events>>
    BY DEF vars, registerVars
<1> QED
    BY <1>1, PlainGatewayStep

(* The view waits for an answer that is read, or lost.                     *)
LEMMA AnsweredKeeps ==
    ASSUME AInv, NEW b \in Browsers, NEW r, Answered(b, r), ViewOK(r),
           r.pc = "post_event" => KeptNext(r.ev), GatewayStep, WaitsOK',
           UNCHANGED <<onboarding, ready>>, missed' \subseteq Events
    PROVE  AInv' /\ [Next]_vars
<1>1. breaks \in 0..MaxBreaks /\ (ready => onboarding /\ {ControlApp, DataApp} \subseteq apps)
    BY Parts
<1>2. ready' => onboarding' /\ {ControlApp, DataApp} \subseteq apps'
    BY <1>1 DEF GatewayStep
<1>3. breaks' \in 0..MaxBreaks
    BY <1>1, SamplePages DEF Answered
<1>4. CASE Becomes(b, r)
    BY <1>2, <1>3, <1>4, BecomesKeeps
<1>5. CASE Becomes(b, NoPage)
    BY <1>2, <1>3, <1>5, NoPageOK, NoPageFields, BecomesKeeps
<1> QED
    BY <1>4, <1>5 DEF Answered

LEMMA GetsKeeps ==
    ASSUME AInv, NEW b \in Browsers, NEW r, Gets(b, r), ViewOK(r), r.pc \notin {"stored", "post_event"}
    PROVE  AInv' /\ [Next]_vars
<1>1. Answered(b, r) /\ UNCHANGED vars /\ UNCHANGED <<onboarding, ready, missed, copies>>
    BY DEF Gets
<1>2. missed' \subseteq Events
    BY <1>1, Parts
<1>3. GatewayStep /\ WaitsOK'
    BY <1>1, GatewayRests, AnsweredWait
<1> QED
    BY <1>1, <1>2, <1>3, AnsweredKeeps

(* The view has ended.                                                     *)
LEMMA EndedKeeps ==
    ASSUME AInv, NEW b \in Browsers, Becomes(b, NoPage), GatewayStep, UNCHANGED stores,
           UNCHANGED <<onboarding, ready, breaks, missed, copies>>
    PROVE  AInv' /\ [Next]_vars
<1>1. /\ breaks \in 0..MaxBreaks /\ missed \subseteq Events
      /\ ready => onboarding /\ {ControlApp, DataApp} \subseteq apps
    BY Parts
<1>2. ready' => onboarding' /\ {ControlApp, DataApp} \subseteq apps'
    BY <1>1 DEF GatewayStep
<1>3. WaitsOK'
    BY WaitOn, NoPageFields
<1> QED
    BY <1>1, <1>2, <1>3, NoPageOK, NoPageFields, BecomesKeeps

LEMMA ViewChanged ==
    ASSUME NEW v \in ViewType, NEW pc, NEW r, r = [v EXCEPT !.pc = pc],
           pc \in Pages \cup {"none", "get_apps", "post_control", "post_data", "clients",
                              "store_app", "stored", "post_event", "send_model"}
    PROVE  /\ r \in ViewType /\ r.pc = pc /\ r.page = v.page /\ r.dev = v.dev
           /\ r.ev = v.ev /\ r.seen = v.seen /\ r.listed = v.listed /\ r.thr = v.thr
    BY DEF ViewType

LEMMA PageFields ==
    ASSUME NEW page \in Pages, NEW d \in Devices \cup {NoDevice}, NEW e \in Events \cup {"none"}
    PROVE  /\ Page(page, d, e) \in ViewType
           /\ Page(page, d, e).pc = page /\ Page(page, d, e).page = page
           /\ Page(page, d, e).dev = d /\ Page(page, d, e).ev = e
<1>1. NoPage \in ViewType
    BY NoPageFields
<1> QED
    BY <1>1 DEF Page, ViewType

LEMMA PagesKnown ==
    ASSUME NEW page \in Pages
    PROVE  page \notin {"none", "get_apps", "post_control", "post_data", "clients", "store_app",
                        "stored", "post_event", "send_model"}
    BY SamplePages DEF AllPages, OnboardingPages, EventPages, ModelPages

LEMMA AskedView ==
    ASSUME NEW p \in Asked
    PROVE  p \in ViewType /\ p.page \in Pages /\ p.pc = p.page
<1>1. p.page \in Pages
    BY DEF Asked
<1>2. ASSUME NEW page, NEW d \in Devices \cup {NoDevice}, NEW e \in Events \cup {"none"},
             p = Page(page, d, e)
      PROVE  p \in ViewType /\ p.pc = p.page
    <2>1. p.page = page
        BY <1>2 DEF Page, NoPage
    <2> QED
        BY <1>1, <1>2, <2>1, PageFields
<1>3. CASE \E page \in OnboardingPages, d \in Devices, e \in {"none"} : p = Page(page, d, e)
    BY <1>1, <1>2, <1>3
<1>4. CASE \E page \in EventPages, d \in Devices, e \in Events : p = Page(page, d, e)
    BY <1>1, <1>2, <1>4
<1>5. CASE \E page \in ModelPages : p = Page(page, NoDevice, "none")
    BY <1>1, <1>2, <1>5
<1> QED
    BY <1>3, <1>4, <1>5 DEF Asked

-----------------------------------------------------------------------------
(* init_clients *)

LEMMA BeforeRequestKeeps ==
    ASSUME AInv, NEW b \in Browsers, NEW p \in Asked, BeforeRequest(b, p)
    PROVE  AInv' /\ [Next]_vars
<1>1. PICK r : r = [p EXCEPT !.pc = "get_apps"]
    OBVIOUS
<1>2. /\ Becomes(b, r) /\ onboarding' = TRUE /\ UNCHANGED vars
      /\ UNCHANGED <<ready, breaks, missed, copies>>
    BY <1>1 DEF BeforeRequest
<1>3. r \in ViewType /\ r.pc = "get_apps" /\ r.page \in Pages
    BY <1>1, AskedView, ViewChanged
<1>4. ViewOK(r)
    BY <1>2, <1>3 DEF ViewOK
<1>5. GatewayStep /\ WaitsOK'
    BY <1>2, <1>3, GatewayRests, WaitOn
<1>6. /\ breaks' \in 0..MaxBreaks /\ missed' \subseteq Events
      /\ ready' => {ControlApp, DataApp} \subseteq apps'
    BY <1>2, <1>5, Parts DEF GatewayStep
<1> QED
    BY <1>2, <1>3, <1>4, <1>5, <1>6, BecomesKeeps

(* The step of init_clients that follows the search for the control app.   *)
LEMMA AfterControlView ==
    ASSUME AInv, NEW b \in Browsers, th[b] # NoPage, NEW l, l \subseteq apps,
           NEW r, r = AfterControl(b, l),
           ControlApp \in apps', apps \subseteq apps', UNCHANGED onboarding
    PROVE  ViewOK(r) /\ r.pc \in {"post_data", "clients"}
<1>1. th[b] \in ViewType /\ onboarding /\ th[b].page \in Pages
    BY Parts DEF StartedUp
<1> DEFINE pc == IF Missing(DataApp, l) THEN "post_data" ELSE "clients"
<1>2. r = [th[b] EXCEPT !.pc = pc, !.listed = {}]
    BY DEF AfterControl
<1>3. pc \in {"post_data", "clients"}
    OBVIOUS
<1>4. pc = "clients" => DataApp \in apps
    BY DEF Missing
<1> HIDE DEF pc
<1>5. r \in ViewType /\ r.pc = pc /\ r.page = th[b].page
    BY <1>1, <1>2, <1>3 DEF ViewType
<1> QED
    BY <1>1, <1>3, <1>4, <1>5 DEF ViewOK

LEMMA AtPc ==
    ASSUME NEW b, th[b].pc # "none"
    PROVE  th[b] # NoPage
    BY NoPageFields

LEMMA GetEndpointAppsKeeps ==
    ASSUME AInv, NEW b \in Browsers, GetEndpointApps(b)
    PROVE  AInv' /\ [Next]_vars
<1>1. th[b].pc = "get_apps" /\ th[b] # NoPage
    BY AtPc DEF GetEndpointApps
<1>2. /\ th[b] \in ViewType /\ onboarding /\ th[b].page \in Pages
      /\ apps \subseteq Apps
    BY <1>1, Parts DEF StartedUp, TypeOK
<1>3. PICK l \in SUBSET apps :
          Gets(b, IF Missing(ControlApp, l)
                  THEN [th[b] EXCEPT !.pc = "post_control", !.listed = l]
                  ELSE AfterControl(b, l))
    BY DEF GetEndpointApps, Listings
<1>4. PICK r : r = IF Missing(ControlApp, l)
                   THEN [th[b] EXCEPT !.pc = "post_control", !.listed = l]
                   ELSE AfterControl(b, l)
    OBVIOUS
<1>5. Gets(b, r) /\ UNCHANGED vars /\ UNCHANGED onboarding
    BY <1>3, <1>4 DEF Gets
<1>6. UNCHANGED apps
    BY <1>5 DEF vars, registerVars
<1>7. ViewOK(r) /\ r.pc \notin {"stored", "post_event"}
    <2>1. CASE Missing(ControlApp, l)
        <3>1. r = [th[b] EXCEPT !.pc = "post_control", !.listed = l]
            BY <2>1, <1>4
        <3>2. r \in ViewType /\ r.pc = "post_control" /\ r.page = th[b].page /\ r.listed = l
            BY <3>1, <1>2 DEF ViewType
        <3> QED
            BY <3>2, <1>2, <1>5, <1>6 DEF ViewOK
    <2>2. CASE ~Missing(ControlApp, l)
        <3>1. ControlApp \in apps' /\ r = AfterControl(b, l)
            BY <2>2, <1>4, <1>6 DEF Missing
        <3> QED
            BY <3>1, <1>1, <1>5, <1>6, AfterControlView
    <2> QED
        BY <2>1, <2>2
<1> QED
    BY <1>5, <1>7, GetsKeeps

LEMMA CreateIsGatewayStep ==
    ASSUME AInv, NEW a \in Apps, CreateEndpoint(a), UNCHANGED <<missed, copies>>
    PROVE  GatewayStep /\ apps' = apps \cup {a} /\ UNCHANGED stores
<1>1. Next
    BY DEF Next, Register
<1>2. UNCHANGED <<dataApps, acl, stores, events>> /\ apps' = apps \cup {a}
    BY DEF CreateEndpoint
<1> QED
    BY <1>1, <1>2, PlainGatewayStep

LEMMA PostControlKeeps ==
    ASSUME AInv, NEW b \in Browsers,
           CreateEndpointApp(b, "post_control", ControlApp, AfterControl(b, th[b].listed))
    PROVE  AInv' /\ [Next]_vars
<1>1. th[b].pc = "post_control" /\ th[b] # NoPage /\ UNCHANGED <<onboarding, ready, missed, copies>>
    BY AtPc DEF CreateEndpointApp
<1>2. CASE ControlApp \in apps
    <2>1. Becomes(b, NoPage) /\ UNCHANGED vars /\ UNCHANGED breaks
        BY <1>2 DEF CreateEndpointApp
    <2> QED
        BY <2>1, <1>1, GatewayRests, EndedKeeps
<1>3. CASE ControlApp \notin apps
    <2>1. PICK r : r = AfterControl(b, th[b].listed)
        OBVIOUS
    <2>2. CreateEndpoint(ControlApp) /\ Answered(b, r)
        BY <1>3, <2>1 DEF CreateEndpointApp
    <2>3. GatewayStep /\ apps' = apps \cup {ControlApp} /\ UNCHANGED stores
        BY <2>2, <1>1, SampleApps, CreateIsGatewayStep
    <2>4. th[b].listed \subseteq apps
        BY <1>1, Parts DEF StartedUp
    <2>5. ViewOK(r) /\ r.pc \notin {"stored", "post_event"}
        BY <2>1, <2>3, <2>4, <1>1, AfterControlView
    <2>6. missed' \subseteq Events /\ WaitsOK'
        BY <2>2, <2>3, <2>5, <1>1, Parts, AnsweredWait
    <2> QED
        BY <2>2, <2>3, <2>5, <2>6, <1>1, AnsweredKeeps
<1> QED
    BY <1>2, <1>3

LEMMA PostDataKeeps ==
    ASSUME AInv, NEW b \in Browsers,
           CreateEndpointApp(b, "post_data", DataApp, [th[b] EXCEPT !.pc = "clients"])
    PROVE  AInv' /\ [Next]_vars
<1>1. th[b].pc = "post_data" /\ th[b] # NoPage /\ UNCHANGED <<onboarding, ready, missed, copies>>
    BY AtPc DEF CreateEndpointApp
<1>2. CASE DataApp \in apps
    <2>1. Becomes(b, NoPage) /\ UNCHANGED vars /\ UNCHANGED breaks
        BY <1>2 DEF CreateEndpointApp
    <2> QED
        BY <2>1, <1>1, GatewayRests, EndedKeeps
<1>3. CASE DataApp \notin apps
    <2>1. PICK r : r = [th[b] EXCEPT !.pc = "clients"]
        OBVIOUS
    <2>2. CreateEndpoint(DataApp) /\ Answered(b, r)
        BY <1>3, <2>1 DEF CreateEndpointApp
    <2>3. GatewayStep /\ apps' = apps \cup {DataApp} /\ UNCHANGED stores
        BY <2>2, <1>1, SampleApps, CreateIsGatewayStep
    <2>4. th[b] \in ViewType /\ onboarding /\ th[b].page \in Pages /\ ControlApp \in apps
        BY <1>1, Parts DEF StartedUp
    <2>5. r \in ViewType /\ r.pc = "clients" /\ r.page = th[b].page
        BY <2>1, <2>4, ViewChanged
    <2>6. ViewOK(r)
        BY <2>3, <2>4, <2>5, <1>1 DEF ViewOK
    <2>7. missed' \subseteq Events /\ WaitsOK'
        BY <2>2, <2>3, <2>5, <1>1, Parts, AnsweredWait
    <2> QED
        BY <2>2, <2>3, <2>5, <2>6, <2>7, <1>1, AnsweredKeeps
<1> QED
    BY <1>2, <1>3

LEMMA GetClientsKeeps ==
    ASSUME AInv, NEW b \in Browsers, GetClients(b)
    PROVE  AInv' /\ [Next]_vars
<1>1. /\ th[b].pc = "clients" /\ th[b] # NoPage
      /\ UNCHANGED vars /\ UNCHANGED <<onboarding, breaks, missed, copies>>
    BY AtPc DEF GetClients
<1>2. /\ th[b] \in ViewType /\ onboarding /\ th[b].page \in Pages
      /\ {ControlApp, DataApp} \subseteq apps /\ breaks \in 0..MaxBreaks /\ missed \subseteq Events
    BY <1>1, Parts DEF StartedUp
<1>3. PICK r : r = [th[b] EXCEPT !.pc = th[b].page]
    OBVIOUS
<1>4. r \in ViewType /\ r.pc = th[b].page /\ r.page = th[b].page
    BY <1>2, <1>3, ViewChanged
<1>5. ViewOK(r) /\ r.pc \notin {"stored", "post_event"}
    BY <1>1, <1>2, <1>4, PagesKnown DEF ViewOK
<1>6. Becomes(b, r)
    BY <1>3 DEF GetClients
<1>7. GatewayStep /\ WaitsOK'
    BY <1>1, <1>5, <1>6, GatewayRests, WaitOn
<1>8. {ControlApp, DataApp} \subseteq apps'
    BY <1>2, <1>7 DEF GatewayStep
<1> QED
    BY <1>1, <1>2, <1>5, <1>6, <1>7, <1>8, BecomesKeeps

-----------------------------------------------------------------------------
(* register_event *)

LEMMA RunsView ==
    ASSUME AInv, NEW b \in Browsers, NEW p, Runs(b, p)
    PROVE  p \in ViewType /\ p.page \in Pages /\ onboarding
<1>1. p \in Asked /\ (th[b] = p \/ onboarding)
    BY DEF Runs
<1>2. p \in ViewType /\ p.page \in Pages /\ p # NoPage
    BY <1>1, AskedView, NoPageFields, PagesKnown
<1>3. th[b] = p => onboarding
    BY <1>2, Parts DEF StartedUp
<1> QED
    BY <1>1, <1>2, <1>3

LEMMA GetDataAppKeeps ==
    ASSUME AInv, NEW b \in Browsers, NEW d \in Devices, NEW e \in Events, GetDataApp(b, d, e)
    PROVE  AInv' /\ [Next]_vars
<1>1. PICK p : p = Page("enable_event", d, e)
    OBVIOUS
<1>2. PICK r : r = [p EXCEPT !.pc = "store_app", !.seen = DataAppRead]
    OBVIOUS
<1>3. Runs(b, p) /\ Gets(b, r) /\ UNCHANGED onboarding
    BY <1>1, <1>2 DEF GetDataApp, Gets
<1>4. p \in ViewType /\ p.page \in Pages /\ onboarding
    BY <1>3, RunsView
<1>5. p.ev = e
    BY <1>1 DEF Page, NoPage
<1>6. DataAppRead \in SeenType
    BY Parts, SampleApps DEF TypeOK, DataAppRead, SeenType
<1>7. r \in ViewType /\ r.pc = "store_app" /\ r.page = p.page /\ r.ev = e
    BY <1>2, <1>4, <1>5, <1>6 DEF ViewType, SeenType
<1>8. ViewOK(r)
    BY <1>3, <1>4, <1>7 DEF ViewOK
<1> QED
    BY <1>3, <1>7, <1>8, GetsKeeps

LEMMA StoresTyped ==
    ASSUME AInv
    PROVE  /\ stores \in [Threads -> Stores]
           /\ dataApps[DataApp] \in SeenType /\ dataApps \in [Apps -> SeenType]
<1>1. RegisterTypes
    BY Parts DEF IInv, RegisterInv
<1> QED
    BY <1>1, SampleApps DEF RegisterTypes, SeenType

(* A thread starts on a request of a view.                                 *)
LEMMA StartIsGatewayStep ==
    ASSUME AInv, NEW t \in Threads, NEW S \in SUBSET Events, NEW C \in SUBSET S,
           \/ UpdateDataApp(t, DataApp, S) /\ dataApps[DataApp].registered
           \/ RegisterDataApp(t, DataApp, S),
           copies' = [copies EXCEPT ![t] = C], UNCHANGED missed
    PROVE  /\ GatewayStep /\ UNCHANGED apps
           /\ stores[t].pc = "idle" /\ stores'[t].pc # "idle" /\ stores'[t].events = S
           /\ \A u \in Threads \ {t} : /\ stores'[u].pc = stores[u].pc
                                       /\ stores'[u].events = stores[u].events
<1>1. PICK s \in Stores :
          /\ Starts(t, DataApp, s) /\ s.app = DataApp /\ s.pc # "idle" /\ s.events = S
          /\ s.pc = "read" => dataApps[DataApp].registered
          /\ ~s.writes => S = dataApps[DataApp].events
    <2>1. IInv /\ DataApp \in Apps
        BY Parts, SampleApps
    <2>2. CASE UpdateDataApp(t, DataApp, S) /\ dataApps[DataApp].registered
        <3>1. PICK s \in Stores :
                  /\ Starts(t, DataApp, s) /\ s.app = DataApp /\ s.pc = "read" /\ s.events = S
                  /\ s.writes = (S # dataApps[DataApp].events)
            BY <2>1, <2>2, UpdateStarts
        <3> QED
            BY <2>2, <3>1
    <2>3. CASE RegisterDataApp(t, DataApp, S)
        <3>1. PICK s \in Stores :
                  /\ Starts(t, DataApp, s) /\ s.app = DataApp /\ s.pc = "deleted" /\ s.events = S
                  /\ s.writes
            BY <2>1, <2>3, RegisterStarts
        <3> QED
            BY <3>1
    <2> QED
        BY <2>2, <2>3
<1>2. /\ stores[t].pc = "idle"
      /\ stores'[t].pc = s.pc /\ stores'[t].app = DataApp /\ stores'[t].events = S
      /\ stores'[t].writes = s.writes
      /\ \A u \in Threads \ {t} :
            /\ stores'[u].pc = stores[u].pc /\ stores'[u].app = stores[u].app
            /\ stores'[u].events = stores[u].events /\ stores'[u].writes = stores[u].writes
    BY <1>1, StoresTyped, StartsFields, SampleApps
<1>3. UNCHANGED <<events, apps, dataApps, acl>>
    BY <1>1 DEF Starts
<1>4. Next
    BY SampleApps DEF Next, Register
<1>5. copies \in [Threads -> SUBSET Events] /\ StoresKept
    BY Parts
<1>6. /\ copies' \in [Threads -> SUBSET Events] /\ copies'[t] = C
      /\ \A u \in Threads \ {t} : copies'[u] = copies[u]
    BY <1>5
<1>7. ASSUME NEW u \in Threads
      PROVE  /\ copies'[u] \subseteq stores'[u].events
             /\ stores'[u].pc # "idle" =>
                  /\ stores'[u].app = DataApp
                  /\ stores'[u].pc = "read" => dataApps'[DataApp].registered
                  /\ ~stores'[u].writes
                        => stores'[u].events \subseteq dataApps'[DataApp].events \cup missed'
    <2>1. CASE u = t
        BY <2>1, <1>1, <1>2, <1>3, <1>6
    <2>2. CASE u # t
        BY <2>2, <1>2, <1>3, <1>5, <1>6 DEF StoresKept
    <2> QED
        BY <2>1, <2>2
<1>8. StoresKept'
    BY <1>3, <1>5, <1>7 DEF StoresKept
<1> QED
    BY <1>1, <1>2, <1>3, <1>4, <1>6, <1>8 DEF GatewayStep, Kept, KeptNext

LEMMA StoreDataAppKeeps ==
    ASSUME AInv, NEW b \in Browsers, StoreDataAppOf(b)
    PROVE  AInv' /\ [Next]_vars
<1>1. /\ th[b].pc = "store_app" /\ th[b] # NoPage /\ UNCHANGED <<onboarding, ready>>
    BY AtPc DEF StoreDataAppOf
<1>2. /\ th[b] \in ViewType /\ onboarding /\ th[b].page \in Pages /\ th[b].ev \in Events
      /\ missed \subseteq Events
    BY <1>1, Parts DEF StartedUp, AskedFirst
<1>3. Sent(b) \in SUBSET Events /\ th[b].ev \in Sent(b) /\ th[b].seen.events \in SUBSET Sent(b)
    BY <1>2 DEF Sent, ViewType
<1>4. NotRegistered \in SeenType
    BY DEF NotRegistered, SeenType
<1>5. CASE Accepted(b)
    <2>1. PICK t : t = Free
        OBVIOUS
    <2>2. t \in Threads
        BY <2>1, <1>5 DEF Free, StoreDataAppOf
    <2>3. PICK r : r = [th[b] EXCEPT !.pc = "stored", !.seen = NotRegistered, !.thr = t]
        OBVIOUS
    <2>4. /\ r \in ViewType /\ r.pc = "stored" /\ r.page = th[b].page /\ r.ev = th[b].ev
          /\ r.thr = t
        BY <2>2, <2>3, <1>2, <1>4 DEF ViewType, SeenType
    <2>5. /\ Becomes(b, r) /\ UNCHANGED <<breaks, missed>>
          /\ copies' = [copies EXCEPT ![t] = th[b].seen.events]
        BY <2>1, <2>3, <1>5 DEF StoreDataAppOf
    <2>6. \/ UpdateDataApp(t, DataApp, Sent(b)) /\ dataApps[DataApp].registered
          \/ RegisterDataApp(t, DataApp, Sent(b))
        BY <2>1, <1>5 DEF StoreDataAppOf, UpdateDataApp
    <2>7. PICK S \in SUBSET Events : S = Sent(b)
        BY <1>3
    <2>8. /\ GatewayStep /\ UNCHANGED apps
          /\ stores[t].pc = "idle" /\ stores'[t].pc # "idle" /\ stores'[t].events = S
          /\ \A u \in Threads \ {t} : /\ stores'[u].pc = stores[u].pc
                                      /\ stores'[u].events = stores[u].events
        <3>1. PICK C \in SUBSET S : C = th[b].seen.events
            BY <2>7, <1>3
        <3>2. copies' = [copies EXCEPT ![t] = C] /\ UNCHANGED missed
            BY <2>5, <3>1
        <3>3. \/ UpdateDataApp(t, DataApp, S) /\ dataApps[DataApp].registered
              \/ RegisterDataApp(t, DataApp, S)
            BY <2>6, <2>7
        <3> QED
            BY <2>2, <3>2, <3>3, StartIsGatewayStep
    <2>9. ViewOK(r)
        BY <2>4, <1>1, <1>2 DEF ViewOK
    <2>10. WaitsOK'
        <3>1. th'[b] = r /\ \A c \in Browsers : c # b => th'[c] = th[c]
            BY <2>5, Parts DEF Becomes
        <3>2. \A c \in Browsers : th[c].pc = "stored" => th[c].thr \in Threads \ {t}
            BY <2>8, Parts DEF WaitsOK
        <3>3. th[b].ev \in S
            BY <2>7, <1>3
        <3> QED
            BY <2>2, <2>4, <2>8, <3>1, <3>2, <3>3, Parts DEF WaitsOK
    <2>11. /\ breaks' \in 0..MaxBreaks /\ missed' \subseteq Events
           /\ ready' => onboarding' /\ {ControlApp, DataApp} \subseteq apps'
        BY <2>5, <2>8, <1>1, Parts
    <2> QED
        BY <2>4, <2>5, <2>8, <2>9, <2>10, <2>11, <1>1, BecomesKeeps
<1>6. CASE ~Accepted(b)
    <2>1. PICK r : r = [th[b] EXCEPT !.pc = "post_event", !.seen = NotRegistered]
        OBVIOUS
    <2>2. /\ Answered(b, r) /\ UNCHANGED vars /\ UNCHANGED copies
          /\ missed' = missed \cup {th[b].ev}
        BY <2>1, <1>6 DEF StoreDataAppOf
    <2>3. r \in ViewType /\ r.pc = "post_event" /\ r.page = th[b].page /\ r.ev = th[b].ev
        BY <2>1, <1>2, <1>4 DEF ViewType, SeenType
    <2>4. ViewOK(r)
        BY <2>3, <1>1, <1>2 DEF ViewOK
    <2>5. UNCHANGED <<apps, dataApps, acl, stores, events>>
        BY <2>2 DEF vars, registerVars
    <2>6. GatewayStep
        BY <2>2, <2>5, PlainGatewayStep
    <2>7. KeptNext(r.ev) /\ missed' \subseteq Events
        BY <2>2, <2>3, <1>2 DEF KeptNext
    <2>8. WaitsOK'
        BY <2>2, <2>3, <2>5, AnsweredWait
    <2> QED
        BY <2>2, <2>4, <2>6, <2>7, <2>8, <1>1, AnsweredKeeps
<1> QED
    BY <1>5, <1>6

(* The app's registration is there, so the request goes on.                *)
LEMMA ReplaceKeeps ==
    ASSUME AInv, NEW t \in Threads, ReplaceTopics(t), UNCHANGED appVars
    PROVE  AInv' /\ [Next]_vars
<1>1. UNCHANGED <<onboarding, ready, th, breaks, missed, copies>>
    BY DEF appVars
<1>2. UNCHANGED <<events, apps, dataApps, acl>> /\ stores[t].pc = "read"
    BY DEF ReplaceTopics
<1>3. /\ stores \in [Threads -> Stores] /\ stores[t].app = DataApp
      /\ dataApps[DataApp].registered
    BY <1>2, StoresTyped, Parts DEF StoresKept
<1>4. PICK s : s = [stores[t] EXCEPT !.pc = "deleted", !.found = Found(stores[t].app)]
    OBVIOUS
<1>5. stores' = [stores EXCEPT ![t] = s]
    BY <1>3, <1>4 DEF ReplaceTopics
<1>6. /\ s.pc = "deleted" /\ s.app = DataApp /\ s.events = stores[t].events
      /\ s.writes = stores[t].writes
    BY <1>3, <1>4 DEF Stores
<1>7. \A u \in Threads :
         /\ stores'[u].pc # "idle" => stores[u].pc # "idle"
         /\ stores[u].pc # "idle" => stores'[u].pc # "idle"
         /\ stores'[u].pc = "read" => stores[u].pc = "read"
         /\ stores'[u].app = stores[u].app /\ stores'[u].events = stores[u].events
         /\ stores'[u].writes = stores[u].writes
    BY <1>2, <1>3, <1>5, <1>6
<1>8. StoresKept' /\ copies' \in [Threads -> SUBSET Events]
    BY <1>1, <1>2, <1>7, Parts DEF StoresKept
<1>9. Next
    BY DEF Next, Register
<1>10. GatewayStep
    BY <1>1, <1>2, <1>8, <1>9 DEF GatewayStep, Kept, KeptNext
<1>11. WaitsOK'
    BY <1>1, <1>7, Parts DEF WaitsOK
<1>12. /\ th' \in [Browsers -> ViewType] /\ \A c \in Browsers : th'[c] = th[c]
       /\ onboarding => onboarding'
       /\ ready' => onboarding' /\ {ControlApp, DataApp} \subseteq apps'
       /\ breaks' \in 0..MaxBreaks /\ missed' \subseteq Events
    BY <1>1, <1>2, Parts
<1>13. {} \in SUBSET Browsers
    OBVIOUS
<1> QED
    BY <1>10, <1>11, <1>12, <1>13, ViewsKeep

(* A registration replaces the one before: what it drops is missed.  Its   *)
(* own events are registered then, or known to have missed it.             *)
LEMMA CommitIsGatewayStep ==
    ASSUME AInv, NEW t \in Threads, CommitDataApp(t),
           missed' = IF Conflicts(t)
                     THEN missed \cup (stores[t].events \ dataApps[DataApp].events)
                     ELSE (missed \ dataApps'[DataApp].events)
                            \cup (dataApps[DataApp].events \ (copies[t] \cup stores[t].events)),
           copies' = [copies EXCEPT ![t] = {}]
    PROVE  /\ GatewayStep /\ missed' \subseteq Events /\ UNCHANGED apps
           /\ \A e \in stores[t].events : KeptNext(e)
           /\ \A u \in Threads \ {t} : /\ stores'[u].pc = stores[u].pc
                                       /\ stores'[u].events = stores[u].events
<1> DEFINE R == dataApps[DataApp].events
           S == stores[t].events
<1>1. /\ stores \in [Threads -> Stores] /\ dataApps \in [Apps -> SeenType] /\ DataApp \in Apps
      /\ R \in SUBSET Events /\ S \in SUBSET Events
    BY StoresTyped, SampleApps DEF SeenType, Stores
<1>2. stores[t].pc = "deleted" /\ UNCHANGED <<events, apps>>
    BY DEF CommitDataApp
<1>3. /\ stores[t].app = DataApp
      /\ ~stores[t].writes => S \subseteq R \cup missed
      /\ copies[t] \subseteq S
      /\ \A e \in R : e \in missed \/ <<DataApp, e>> \in acl
    BY <1>2, Parts DEF StoresKept
<1>4. /\ missed \subseteq Events /\ IInv /\ copies \in [Threads -> SUBSET Events]
    BY Parts
<1>5. /\ \A u \in Threads : u # t =>
            /\ stores'[u].pc = stores[u].pc /\ stores'[u].app = stores[u].app
            /\ stores'[u].events = stores[u].events /\ stores'[u].writes = stores[u].writes
      /\ stores'[t].pc = "idle"
    BY <1>4, CommitFields
<1>6. /\ copies' \in [Threads -> SUBSET Events] /\ copies'[t] = {}
      /\ \A u \in Threads : u # t => copies'[u] = copies[u]
    BY <1>4
<1>7. Next
    BY DEF Next, Register
<1> DEFINE N == dataApps'[DataApp].events
<1>8. /\ dataApps[DataApp].registered => dataApps'[DataApp].registered
      /\ missed' \subseteq Events
      /\ \A e \in Events : Kept(e) => KeptNext(e)
      /\ \A e \in S : KeptNext(e)
      /\ R \cup missed \subseteq N \cup missed'
      /\ \A e \in N : e \in missed' \/ <<DataApp, e>> \in acl'
    <2>1. CASE Conflicts(t)
        <3>1. UNCHANGED <<dataApps, acl>> /\ missed' = missed \cup (S \ R)
            BY <2>1 DEF CommitDataApp
        <3> QED
            BY <3>1, <1>1, <1>3, <1>4 DEF Kept, KeptNext
    <2>2. CASE ~Conflicts(t)
        <3>1. /\ acl' = (acl \ stores[t].found) \cup Topics(DataApp, S)
              /\ missed' = (missed \ N) \cup (R \ S)
            BY <2>2, <1>3 DEF CommitDataApp
        <3>2. \A e \in S : <<DataApp, e>> \in acl'
            BY <3>1 DEF Topics
        <3>3. \/ stores[t].writes /\ N = S /\ dataApps'[DataApp].registered
              \/ ~stores[t].writes /\ UNCHANGED dataApps
            <4>1. CASE stores[t].writes
                <5>1. dataApps' = [dataApps EXCEPT ![DataApp] = [registered |-> TRUE, events |-> S]]
                    BY <2>2, <4>1, <1>3 DEF CommitDataApp
                <5> QED
                    BY <4>1, <5>1, <1>1
            <4>2. CASE ~stores[t].writes
                BY <2>2, <4>2 DEF CommitDataApp
            <4> QED
                BY <4>1, <4>2
        <3> HIDE DEF N, R, S
        <3>4. N \in SUBSET Events /\ (N = S \/ N = R)
            BY <3>3, <1>1 DEF N, R
        <3>5. /\ missed' \subseteq Events
              /\ R \cup missed \subseteq N \cup missed'
              /\ \A e \in N : e \in missed' \/ <<DataApp, e>> \in acl'
            BY <3>1, <3>2, <3>4, <1>1, <1>4
        <3>6. ASSUME NEW e \in Events, e \in S \/ Kept(e)
              PROVE  KeptNext(e)
            <4>1. e \in S => e \in N \/ e \in missed'
                <5>1. CASE stores[t].writes
                    BY <5>1, <3>3
                <5>2. CASE ~stores[t].writes
                    <6>1. N = R
                        BY <5>2, <3>3 DEF N, R
                    <6> QED
                        BY <6>1, <5>2, <3>1, <1>3
                <5> QED
                    BY <5>1, <5>2
            <4>2. e \notin S => e \in missed \/ e \in R
                BY <3>6 DEF Kept, R
            <4>3. e \in N \/ e \in missed'
                BY <4>1, <4>2, <3>5
            <4>4. e \in missed' \/ (e \in N /\ <<DataApp, e>> \in acl')
                BY <4>3, <3>5
            <4> QED
                BY <4>4 DEF KeptNext, N
        <3>7. dataApps[DataApp].registered => dataApps'[DataApp].registered
            BY <3>3
        <3> QED
            BY <3>5, <3>6, <3>7, <1>1
    <2> QED
        BY <2>1, <2>2
<1> HIDE DEF N, R, S
<1>9. ASSUME NEW u \in Threads
      PROVE  /\ copies'[u] \subseteq stores'[u].events
             /\ stores'[u].pc # "idle" =>
                  /\ stores'[u].app = DataApp
                  /\ stores'[u].pc = "read" => dataApps'[DataApp].registered
                  /\ ~stores'[u].writes => stores'[u].events \subseteq N \cup missed'
    <2>1. CASE u = t
        BY <2>1, <1>5, <1>6
    <2>2. CASE u # t
        BY <2>2, <1>5, <1>6, <1>8, Parts DEF StoresKept, R
    <2> QED
        BY <2>1, <2>2
<1>10. StoresKept'
    BY <1>8, <1>9 DEF StoresKept, N
<1>11. GatewayStep
    BY <1>2, <1>6, <1>7, <1>8, <1>10 DEF GatewayStep
<1> QED
    BY <1>2, <1>5, <1>8, <1>11 DEF S

LEMMA CommitKeeps ==
    ASSUME AInv, NEW t \in Threads, CommitDataApp(t), Replies(t), UNCHANGED <<onboarding, ready>>,
           missed' = IF Conflicts(t)
                     THEN missed \cup (stores[t].events \ dataApps[DataApp].events)
                     ELSE (missed \ dataApps'[DataApp].events)
                            \cup (dataApps[DataApp].events \ (copies[t] \cup stores[t].events)),
           copies' = [copies EXCEPT ![t] = {}]
    PROVE  AInv' /\ [Next]_vars
<1>1. /\ GatewayStep /\ missed' \subseteq Events /\ UNCHANGED apps
      /\ \A e \in stores[t].events : KeptNext(e)
      /\ \A u \in Threads \ {t} : /\ stores'[u].pc = stores[u].pc
                                  /\ stores'[u].events = stores[u].events
    BY CommitIsGatewayStep
<1>2. WaitsOK /\ th \in [Browsers -> ViewType] /\ StartedUp /\ AskedFirst
    BY Parts
<1>3. CASE Waiting(t) = {}
    <2>1. UNCHANGED <<th, breaks>>
        BY <1>3 DEF Replies
    <2>2. \A c \in Browsers : th[c].pc = "stored" => th[c].thr \in Threads \ {t}
        BY <1>2, <1>3 DEF WaitsOK, Waiting
    <2>3. WaitsOK'
        BY <2>1, <2>2, <1>1, <1>2 DEF WaitsOK
    <2>4. /\ th' \in [Browsers -> ViewType] /\ \A c \in Browsers : th'[c] = th[c]
          /\ onboarding => onboarding'
          /\ ready' => onboarding' /\ {ControlApp, DataApp} \subseteq apps'
          /\ breaks' \in 0..MaxBreaks
        BY <2>1, <1>1, Parts
    <2>5. {} \in SUBSET Browsers
        OBVIOUS
    <2> QED
        BY <2>3, <2>4, <2>5, <1>1, ViewsKeep
<1>4. CASE Waiting(t) # {}
    <2>1. PICK b \in Waiting(t) : Answered(b, [th[b] EXCEPT !.pc = "post_event", !.thr = NoThread])
        BY <1>4 DEF Replies
    <2>2. b \in Browsers /\ th[b].pc = "stored" /\ th[b].thr = t
        BY <2>1 DEF Waiting
    <2>3. PICK r : r = [th[b] EXCEPT !.pc = "post_event", !.thr = NoThread]
        OBVIOUS
    <2>4. th[b] \in ViewType
        BY <2>2, <1>2
    <2>5. /\ r \in ViewType /\ r.pc = "post_event" /\ r.page = th[b].page /\ r.ev = th[b].ev
        BY <2>3, <2>4 DEF ViewType
    <2>6. /\ th[b].ev \in stores[t].events /\ th[b].ev \in Events
          /\ onboarding /\ th[b].page \in Pages
        BY <2>2, <1>2, AtPc DEF WaitsOK, AskedFirst, StartedUp
    <2>7. ViewOK(r) /\ KeptNext(r.ev)
        BY <2>5, <2>6, <1>1 DEF ViewOK
    <2>8. WaitsOK'
        <3>1. /\ th'[b].pc # "stored"
              /\ \A c \in Browsers : c # b => th'[c] = th[c]
            BY <2>1, <2>2, <2>3, <2>5, <1>2, NoPageFields DEF Answered, Becomes
        <3>2. \A c \in Browsers : c # b /\ th[c].pc = "stored" => th[c].thr \in Threads \ {t}
            BY <2>2, <1>2 DEF WaitsOK
        <3> QED
            BY <3>1, <3>2, <1>1, <1>2 DEF WaitsOK
    <2> QED
        BY <2>1, <2>2, <2>3, <2>7, <2>8, <1>1, AnsweredKeeps
<1> QED
    BY <1>3, <1>4

LEMMA StoreStepKeeps ==
    ASSUME AInv, NEW t \in Threads, StoreStep(t)
    PROVE  AInv' /\ [Next]_vars
<1>1. CASE ReplaceTopics(t) /\ UNCHANGED <<th, breaks, missed, copies>>
    BY <1>1, ReplaceKeeps DEF StoreStep, appVars
<1>2. CASE ~(ReplaceTopics(t) /\ UNCHANGED <<th, breaks, missed, copies>>)
    BY <1>2, CommitKeeps DEF StoreStep
<1> QED
    BY <1>1, <1>2

LEMMA PostEventKeeps ==
    ASSUME AInv, NEW b \in Browsers, PostEvent(b)
    PROVE  AInv' /\ [Next]_vars
<1>1. /\ th[b].pc = "post_event" /\ Becomes(b, NoPage)
      /\ UNCHANGED <<onboarding, ready, breaks, missed, copies>>
      /\ EnableEvent(th[b].dev, th[b].ev) \/ UNCHANGED vars
    BY DEF PostEvent
<1>2. th[b].ev \in Events /\ Kept(th[b].ev) /\ TypeOK
    BY <1>1, Parts DEF AskedFirst
<1>3. CASE UNCHANGED vars
    BY <1>1, <1>3, GatewayRests, EndedKeeps
<1>4. CASE EnableEvent(th[b].dev, th[b].ev)
    <2>1. th[b].dev \in Devices
        BY <1>2, <1>4 DEF EnableEvent, TypeOK
    <2>2. Next
        BY <2>1, <1>2, <1>4 DEF Next, Register
    <2>3. /\ UNCHANGED <<apps, dataApps, acl, stores>>
          /\ events' = [events EXCEPT ![th[b].ev] = th[b].dev]
        BY <1>4 DEF EnableEvent, registerVars
    <2>4. \A e \in Events : Kept(e) => KeptNext(e)
        BY <2>3, <1>1 DEF Kept, KeptNext
    <2>5. \A e \in Events : e # th[b].ev => events'[e] = events[e]
        BY <2>3, <1>2 DEF TypeOK
    <2>6. \A e \in Events : events'[e] # NoDevice => events[e] # NoDevice \/ KeptNext(e)
        BY <2>4, <2>5, <1>2
    <2>7. StoresKept' /\ copies' \in [Threads -> SUBSET Events]
        BY <2>3, <1>1, Parts DEF StoresKept
    <2>8. GatewayStep
        BY <2>2, <2>3, <2>4, <2>6, <2>7 DEF GatewayStep
    <2> QED
        BY <2>3, <2>8, <1>1, EndedKeeps
<1> QED
    BY <1>1, <1>3, <1>4

-----------------------------------------------------------------------------
(* Views of one request *)

LEMMA SendsKeeps ==
    ASSUME AInv, NEW b \in Browsers, Becomes(b, NoPage),
           UNCHANGED <<onboarding, ready, breaks, missed, copies>>,
           UNCHANGED vars \/ (Next /\ UNCHANGED <<apps, dataApps, acl, stores>>
                              /\ \A e \in Events : events'[e] # NoDevice => events[e] # NoDevice)
    PROVE  AInv' /\ [Next]_vars
<1>1. GatewayStep /\ UNCHANGED stores
    BY GatewayRests, PlainGatewayStep
<1> QED
    BY <1>1, EndedKeeps

LEMMA DeleteEventKeeps ==
    ASSUME AInv, NEW b \in Browsers, NEW d \in Devices, NEW e \in Events, DeleteEvent(b, d, e)
    PROVE  AInv' /\ [Next]_vars
<1>1. /\ DisableEvent(d, e) \/ UNCHANGED vars
      /\ Becomes(b, NoPage) /\ UNCHANGED <<onboarding, ready, breaks, missed, copies>>
    BY DEF DeleteEvent, Sends
<1>2. ASSUME DisableEvent(d, e)
      PROVE  /\ Next /\ UNCHANGED <<apps, dataApps, acl, stores>>
             /\ \A f \in Events : events'[f] # NoDevice => events[f] # NoDevice
    <2>1. Next
        BY <1>2 DEF Next, Register
    <2>2. events' = [events EXCEPT ![e] = NoDevice] /\ UNCHANGED <<apps, dataApps, acl, stores>>
        BY <1>2 DEF DisableEvent, registerVars
    <2> QED
        BY <2>1, <2>2, Parts DEF TypeOK
<1> QED
    BY <1>1, <1>2, SendsKeeps

LEMMA ListModelsKeeps ==
    ASSUME AInv, NEW b \in Browsers, NEW n \in Models, ListModels(b, n)
    PROVE  AInv' /\ [Next]_vars
<1>1. PICK p : p = Page("upload_model", NoDevice, "none")
    OBVIOUS
<1>2. PICK r : r = [p EXCEPT !.pc = "send_model", !.seen.registered = Listed(n)]
    OBVIOUS
<1>3. Runs(b, p) /\ Gets(b, r) /\ UNCHANGED onboarding
    BY <1>1, <1>2 DEF ListModels, Gets
<1>4. p \in ViewType /\ p.page \in Pages /\ onboarding
    BY <1>3, RunsView
<1>5. Listed(n) \in BOOLEAN
    BY Parts DEF TypeOK, Listed
<1>6. r \in ViewType /\ r.pc = "send_model" /\ r.page = p.page
    BY <1>2, <1>4, <1>5 DEF ViewType
<1>7. ViewOK(r)
    BY <1>3, <1>4, <1>6 DEF ViewOK
<1> QED
    BY <1>3, <1>6, <1>7, GetsKeeps

LEMMA ModelIsSent ==
    ASSUME AInv, NEW b \in Browsers, NEW n \in Models, NEW doc \in Documents, SendModel(b, n, doc)
    PROVE  AInv' /\ [Next]_vars
<1>1. /\ UpdateSdfModel(n, doc) \/ RegisterSdfModel(n, doc) \/ UNCHANGED vars
      /\ Becomes(b, NoPage) /\ UNCHANGED <<onboarding, ready, breaks, missed, copies>>
    BY DEF SendModel
<1>2. ASSUME UpdateSdfModel(n, doc) \/ RegisterSdfModel(n, doc)
      PROVE  Next /\ UNCHANGED <<apps, dataApps, acl, stores, events>>
    <2>1. Next
        BY <1>2 DEF Next, Register
    <2>2. UNCHANGED <<apps, dataApps, acl, stores, events>>
        BY <1>2 DEF UpdateSdfModel, RegisterSdfModel
    <2> QED
        BY <2>1, <2>2
<1> QED
    BY <1>1, <1>2, SendsKeeps

LEMMA DeleteModelKeeps ==
    ASSUME AInv, NEW b \in Browsers, NEW n \in Models, DeleteModel(b, n)
    PROVE  AInv' /\ [Next]_vars
<1>1. /\ DeleteSdfModel(n) \/ UNCHANGED vars
      /\ Becomes(b, NoPage) /\ UNCHANGED <<onboarding, ready, breaks, missed, copies>>
    BY DEF DeleteModel, Sends
<1>2. ASSUME DeleteSdfModel(n)
      PROVE  Next /\ UNCHANGED <<apps, dataApps, acl, stores, events>>
    BY <1>2 DEF Next, Register, DeleteSdfModel
<1> QED
    BY <1>1, <1>2, SendsKeeps

(* No request for a device touches the table of events.                    *)
LEMMA OnboardsKeeps ==
    ASSUME AInv, NEW b \in Browsers, Becomes(b, NoPage),
           UNCHANGED <<onboarding, ready, breaks, missed, copies>>,
           UNCHANGED vars \/ (OnboardingNext /\ UNCHANGED events /\ UNCHANGED registerVars)
    PROVE  AInv' /\ [Next]_vars
<1>1. ASSUME OnboardingNext, UNCHANGED events, UNCHANGED registerVars
      PROVE  Next /\ UNCHANGED <<apps, dataApps, acl, stores, events>>
    BY <1>1 DEF Next, registerVars
<1> QED
    BY <1>1, SendsKeeps

LEMMA AddDeviceKeeps ==
    ASSUME AInv, NEW b \in Browsers, NEW d \in Devices, NEW m \in BleMacs, AddDevice(b, d, m)
    PROVE  AInv' /\ [Next]_vars
<1>1. BleBody(NoDevice, m) \in Bodies
    BY DEF BleBody, Bodies
<1>2. /\ (CreateDevice(d, BleBody(NoDevice, m)) /\ UNCHANGED registerVars) \/ UNCHANGED vars
      /\ Becomes(b, NoPage) /\ UNCHANGED <<onboarding, ready, breaks, missed, copies>>
    BY DEF AddDevice, Onboards, Sends
<1>3. CreateDevice(d, BleBody(NoDevice, m)) => OnboardingNext /\ UNCHANGED events
    BY <1>1 DEF OnboardingNext, Request, CreateDevice
<1> QED
    BY <1>2, <1>3, OnboardsKeeps

LEMMA ChangeDeviceKeeps ==
    ASSUME AInv, NEW b \in Browsers, NEW d \in Devices, NEW m \in BleMacs, ChangeDevice(b, d, m)
    PROVE  AInv' /\ [Next]_vars
<1>1. BleBody(d, m) \in Bodies
    BY DEF BleBody, Bodies
<1>2. /\ (UpdateDevice(d, BleBody(d, m)) /\ UNCHANGED registerVars) \/ UNCHANGED vars
      /\ Becomes(b, NoPage) /\ UNCHANGED <<onboarding, ready, breaks, missed, copies>>
    BY DEF ChangeDevice, Onboards, Sends
<1>3. UpdateDevice(d, BleBody(d, m)) => OnboardingNext /\ UNCHANGED events
    BY <1>1 DEF OnboardingNext, Request, UpdateDevice
<1> QED
    BY <1>2, <1>3, OnboardsKeeps

LEMMA RemoveDeviceKeeps ==
    ASSUME AInv, NEW b \in Browsers, NEW d \in Devices, RemoveDevice(b, d)
    PROVE  AInv' /\ [Next]_vars
<1>1. /\ (DeleteDevice(d) /\ UNCHANGED registerVars) \/ UNCHANGED vars
      /\ Becomes(b, NoPage) /\ UNCHANGED <<onboarding, ready, breaks, missed, copies>>
    BY DEF RemoveDevice, Onboards, Sends
<1>2. DeleteDevice(d) => OnboardingNext /\ UNCHANGED events
    BY DEF OnboardingNext, Request, DeleteDevice
<1> QED
    BY <1>1, <1>2, OnboardsKeeps

-----------------------------------------------------------------------------
(* Faults, and the gateway's own steps *)

LEMMA UnreachableKeeps ==
    ASSUME AInv, NEW b \in Browsers, Unreachable(b)
    PROVE  AInv' /\ [Next]_vars
<1>1. Answered(b, NoPage) /\ UNCHANGED vars /\ UNCHANGED <<onboarding, ready, missed, copies>>
    BY DEF Unreachable, Answered
<1>2. missed' \subseteq Events
    BY <1>1, Parts
<1>3. GatewayStep /\ WaitsOK'
    BY <1>1, GatewayRests, NoPageFields, AnsweredWait
<1> QED
    BY <1>1, <1>2, <1>3, NoPageOK, NoPageFields, AnsweredKeeps

LEMMA RestartKeeps ==
    ASSUME AInv, Restart
    PROVE  AInv' /\ [Next]_vars
<1>1. /\ UNCHANGED vars /\ UNCHANGED <<missed, copies>> /\ ready' = FALSE
      /\ th' = [b \in Browsers |-> NoPage]
    BY DEF Restart
<1>2. breaks' \in 0..MaxBreaks
    BY Parts, SamplePages DEF Restart
<1>3. IInv'
    BY <1>1, Parts, NextKeeps
<1>4. TypeOK'
    BY <1>3, Typed, PTL
<1>9. AppTypeOK'
    BY <1>1, <1>2, <1>4, Parts, NoPageFields DEF AppTypeOK
<1>5. \A b \in Browsers : th'[b] = NoPage
    BY <1>1
<1>6. StartedUp' /\ AskedFirst' /\ WaitsOK'
    BY <1>5, NoPageFields DEF StartedUp, AskedFirst, WaitsOK
<1>7. EnabledIsRegistered'
    BY <1>1, Parts DEF EnabledIsRegistered, vars, registerVars
<1>8. StoresKept'
    BY <1>1, GatewayRests DEF GatewayStep
<1> QED
    BY <1>1, <1>3, <1>6, <1>7, <1>8, <1>9 DEF AInv

LEMMA GatewayAloneKeeps ==
    ASSUME AInv, IInv', UNCHANGED <<events, registerVars, appVars>>
    PROVE  AInv'
<1>1. UNCHANGED <<apps, dataApps, acl, stores, onboarding, ready, th, breaks, missed, copies, events>>
    BY DEF registerVars, appVars
<1>5. TypeOK'
    BY Typed, PTL
<1>2. AppTypeOK'
    BY <1>1, <1>5, Parts DEF AppTypeOK
<1>3. StartedUp' /\ AskedFirst' /\ EnabledIsRegistered'
    BY <1>1, Parts DEF StartedUp, AskedFirst, Kept, EnabledIsRegistered
<1>4. StoresKept' /\ WaitsOK'
    BY <1>1, Parts DEF StoresKept, WaitsOK
<1> QED
    BY <1>2, <1>3, <1>4 DEF AInv

LEMMA OtherEndpointKeeps ==
    ASSUME AInv, NEW a \in Apps, OtherEndpoint(a)
    PROVE  AInv' /\ [Next]_vars
<1>1. CreateEndpoint(a) /\ UNCHANGED <<onboarding, ready, th, breaks, missed, copies>>
    BY DEF OtherEndpoint, appVars
<1>2. GatewayStep /\ apps' = apps \cup {a} /\ UNCHANGED stores
    BY <1>1, CreateIsGatewayStep
<1>3. WaitsOK'
    BY <1>1, <1>2, Parts DEF WaitsOK
<1>4. /\ th' \in [Browsers -> ViewType] /\ \A c \in Browsers : th'[c] = th[c]
      /\ onboarding => onboarding'
      /\ ready' => onboarding' /\ {ControlApp, DataApp} \subseteq apps'
      /\ breaks' \in 0..MaxBreaks /\ missed' \subseteq Events
    BY <1>1, <1>2, Parts
<1>5. {} \in SUBSET Browsers
    OBVIOUS
<1> QED
    BY <1>2, <1>3, <1>4, <1>5, ViewsKeep

LEMMA StepKeeps ==
    ASSUME AInv, Step, UNCHANGED <<registerVars, appVars>>
    PROVE  AInv' /\ [Next]_vars
<1>1. Next
    BY DEF Next, OnboardingNext
<1>2. IInv'
    BY <1>1, Parts, NextKeeps
<1>3. UNCHANGED events
    BY DEF Step, IseCreated, Committed, Refused, DeleteBle, DeleteInIse, NotInIse, DeleteMab,
           DeleteFdo, DeleteRow
<1> QED
    BY <1>1, <1>2, <1>3, GatewayAloneKeeps

-----------------------------------------------------------------------------
LEMMA InitAInv == InitApp => AInv
<1> SUFFICES ASSUME InitApp PROVE AInv
    OBVIOUS
<1>1. IInv
    BY InitIInv DEF InitApp
<1>2. (\A b \in Browsers : th[b] = NoPage) /\ \A e \in Events : events[e] = NoDevice
    BY DEF InitApp, InitAll, Init
<1>3. AppTypeOK
    BY <1>1, NoPageFields, SamplePages, Typed DEF AppTypeOK, InitApp
<1>4. StartedUp /\ AskedFirst /\ WaitsOK /\ EnabledIsRegistered
    BY <1>2, NoPageFields DEF StartedUp, AskedFirst, WaitsOK, EnabledIsRegistered
<1>5. StoresKept
    BY SampleApps DEF InitApp, InitAll, StoresKept, NoStore, NotRegistered
<1> QED
    BY <1>1, <1>3, <1>4, <1>5 DEF AInv

LEMMA SampleNextKeeps ==
    ASSUME AInv, [SampleNext]_allVars
    PROVE  AInv' /\ [Next]_vars
<1>1. CASE Asks
    BY <1>1, BeforeRequestKeeps DEF Asks
<1>2. ASSUME NEW b \in Browsers, View(b) PROVE AInv' /\ [Next]_vars
    BY <1>2, GetDataAppKeeps, DeleteEventKeeps, ListModelsKeeps, DeleteModelKeeps, AddDeviceKeeps,
       ChangeDeviceKeeps, RemoveDeviceKeeps DEF View
<1>3. ASSUME NEW b \in Browsers, Continues(b) PROVE AInv' /\ [Next]_vars
    BY <1>3, GetEndpointAppsKeeps, PostControlKeeps, PostDataKeeps, GetClientsKeeps,
       StoreDataAppKeeps, PostEventKeeps, ModelIsSent DEF Continues, InitClients
<1>4. ASSUME NEW b \in Browsers, Unreachable(b) PROVE AInv' /\ [Next]_vars
    BY <1>4, UnreachableKeeps
<1>5. CASE Restart
    BY <1>5, RestartKeeps
<1>6. CASE Step /\ UNCHANGED <<registerVars, appVars>>
    BY <1>6, StepKeeps
<1>8. ASSUME NEW t \in Threads, StoreStep(t) PROVE AInv' /\ [Next]_vars
    BY <1>8, StoreStepKeeps
<1>9. ASSUME NEW a \in Apps, OtherEndpoint(a) PROVE AInv' /\ [Next]_vars
    BY <1>9, OtherEndpointKeeps
<1>7. CASE UNCHANGED allVars
    <2>1. UNCHANGED vars /\ UNCHANGED appVars
        BY <1>7 DEF allVars
    <2>2. IInv' /\ UNCHANGED <<events, registerVars>>
        BY <2>1, Parts, NextKeeps DEF vars
    <2> QED
        BY <2>1, <2>2, GatewayAloneKeeps
<1> QED
    BY <1>1, <1>2, <1>3, <1>4, <1>5, <1>6, <1>7, <1>8, <1>9 DEF SampleNext

(* The application's inductive invariant: what a view of app.py has found  *)
(* out before it waits for the gateway still holds when it goes on,        *)
(* whatever other browsers do meanwhile.                                   *)
THEOREM ViewsGoOnSafely == SampleSpec => []AInv
<1>1. AInv /\ [SampleNext]_allVars => AInv'
    BY SampleNextKeeps
<1> QED
    BY <1>1, InitAInv, PTL DEF SampleSpec

(* The application keeps its types, and has its clients (init_clients)     *)
(* only once both endpoint apps are registered, over any interleaving of   *)
(* views, lost requests, lost answers and restarts.                        *)
THEOREM AppTypeCorrect == SampleSpec => []AppTypeOK
<1>1. AInv => AppTypeOK
    BY DEF AInv
<1> QED
    BY <1>1, ViewsGoOnSafely, PTL

(* An event register_event has enabled is in the data app's registration   *)
(* and in the access list of the broker, unless update_data_app ignored a  *)
(* refusal or another browser wrote back an older copy.                    *)
THEOREM EnabledEventsAreRegistered == SampleSpec => []EnabledIsRegistered
<1>1. AInv => EnabledIsRegistered
    BY DEF AInv
<1> QED
    BY <1>1, ViewsGoOnSafely, PTL

(* The application drives the gateway through the requests of its API      *)
(* only: every view, lost answer and restart is a step of Registrations or *)
(* none, so that what is proved of the gateway's tables, endpoints and     *)
(* access list holds under the application.                                *)
THEOREM AppUsesTheApi == SampleSpec => Spec
<1>1. InitApp => InitAll
    BY DEF InitApp
<1>2. AInv /\ [SampleNext]_allVars => [Next]_vars
    BY SampleNextKeeps
<1> QED
    BY <1>1, <1>2, ViewsGoOnSafely, PTL DEF SampleSpec, Spec
=============================================================================
