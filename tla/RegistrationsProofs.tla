------------------------ MODULE RegistrationsProofs ------------------------
(***************************************************************************)
(* The tables, the access list and ISE stay consistent, for any number of  *)
(* devices, addresses, events, apps and models and any number of faults.   *)
(*                                                                         *)
(* None of the invariants is inductive by itself: what a commit writes is  *)
(* what the session has collected before, so the inductive invariant IInv  *)
(* states them of the tables as the session sees them, and adds what the   *)
(* request in progress has checked and done so far.                        *)
(***************************************************************************)
EXTENDS Registrations, TLAPS

(* The request in progress: its device, and that what it found out when it *)
(* began still holds.                                                      *)
Deleting == {"del_ble", "del_ise", "del_mab", "del_fdo", "del_row"}

RequestOK ==
    /\ req.pc = "idle" => req = Idle
    /\ req.pc # "idle" => req.dev \in Devices
    /\ req.pc \in Deleting => req.dev \in DevicesSeen
    /\ req.pc \in {"ise", "commit"} => (req.new <=> req.dev \notin DevicesSeen)
    /\ req.pc \in {"ise", "commit"} /\ ~req.new => dirty.ble[req.dev] # NoMac

(* The address of an Ethernet device is free until it is in the session,   *)
(* and known to ISE from then on.                                          *)
PendingOK ==
    /\ req.pc = "ise" => /\ req.mab # NoMac
                         /\ MabSeen[req.dev] = NoMac
                         /\ Unused(req.mab, MabSeen)
    /\ req.pc = "commit" /\ req.new
          => Unused(req.mab, MabSeen) /\ (req.mab # NoMac => req.mab \in ise)

(* What the session has assigned and not committed: only rows of devices   *)
(* that exist, a MAB address only where there was none, and outside /Bulk  *)
(* only the rows of the request's own device.                              *)
SessionOK ==
    /\ \A d \in Devices : dirty.ble[d] # NoMac => d \in DevicesSeen
    /\ \A d \in Devices : dirty.mab[d] # NoMac => dirty.ble[d] # NoMac /\ mab[d] = NoMac
    /\ ~bulk => \A d \in Devices : d # req.dev => dirty.ble[d] = NoMac

(* A device that is given another id has no rows under the old one.        *)
GoneOK ==
    \A d \in dirty.gone :
        /\ d \notin dirty.came
        /\ ble[d] = NoMac /\ mab[d] = NoMac /\ d \notin fdo
        /\ \A e \in Events : events[e] # d

(* How far a DELETE has come.                                              *)
DeletionOK ==
    /\ req.pc \in Deleting \ {"del_ble"} => BleSeen[req.dev] = NoMac
    /\ req.pc \in {"del_fdo", "del_row"} => MabSeen[req.dev] = NoMac
    /\ req.pc = "del_row" => req.dev \notin fdo

SeenUnique == \A d, c \in Devices : d # c /\ MabSeen[d] # NoMac => MabSeen[d] # MabSeen[c]

SeenInIse ==
    \A d \in Devices :
        MabSeen[d] # NoMac /\ MabSeen[d] \notin ise
            => d \in torn \/ (req.pc = "del_mab" /\ req.dev = d)

(* A request that replaces topics works on those of its app.  When it is   *)
(* alone the rows it has found and the events it has read are still there. *)
StoresOK ==
    /\ \A t \in Threads : stores[t].pc # "idle" => stores[t].app \in Apps
    /\ \A t, u \in Threads :
          t # u /\ stores[t].app \in Apps /\ stores[t].app = stores[u].app => ~stores[t].alone
    /\ \A t \in Threads : stores[t].app \in Apps /\ ~stores[t].alone => stores[t].app \in crossed
    /\ \A t \in Threads : \A row \in stores[t].found : row[1] = stores[t].app
    /\ \A t \in Threads : stores[t].pc = "deleted" /\ stores[t].alone
          => stores[t].found = TopicsOf(stores[t].app)
    /\ \A t \in Threads :
          /\ stores[t].pc # "idle" /\ stores[t].alone /\ ~stores[t].writes
          /\ dataApps[stores[t].app].registered
          => stores[t].events = dataApps[stores[t].app].events

(* The records of the session and of the two kinds of requests.            *)
Sessions == [ble : [Devices -> BleMacs \cup {NoMac}], mab : [Devices -> MabMacs \cup {NoMac}],
             gone : SUBSET Devices, came : SUBSET Devices]

Requested == [pc : {"idle", "ise", "commit", "del_ble", "del_ise", "del_mab", "del_fdo", "del_row"},
              dev : Devices \cup {NoDevice}, new : BOOLEAN, ble : BleMacs \cup {NoMac},
              mab : MabMacs \cup {NoMac}, fdo : BOOLEAN]

Stores == [pc : {"idle", "read", "deleted"}, app : Apps \cup {NoApp}, events : SUBSET Events,
           writes : BOOLEAN, found : SUBSET (Apps \X Events), alone : BOOLEAN]

OnboardingTypes ==
    /\ devices \subseteq Devices
    /\ ble \in [Devices -> BleMacs \cup {NoMac}]
    /\ mab \in [Devices -> MabMacs \cup {NoMac}]
    /\ fdo \subseteq Devices
    /\ events \in [Events -> Devices \cup {NoDevice}]
    /\ ise \subseteq MabMacs
    /\ req \in Requested
    /\ dirty \in Sessions
    /\ bulk \in BOOLEAN
    /\ torn \subseteq Devices
    /\ faults \in 0..MaxFaults

RegisterTypes ==
    /\ apps \subseteq Apps
    /\ models \in [Models -> [namespace : BOOLEAN, defines : SUBSET Events, registered : BOOLEAN]]
    /\ dataApps \in [Apps -> [registered : BOOLEAN, events : SUBSET Events]]
    /\ acl \subseteq Apps \X Events
    /\ stores \in [Threads -> Stores]
    /\ crossed \subseteq Apps

OnboardingInv ==
    /\ OnboardingTypes /\ RequestOK /\ PendingOK /\ SessionOK /\ GoneOK /\ DeletionOK
    /\ SeenUnique /\ SeenInIse /\ NoDanglingRow

RegisterInv == RegisterTypes /\ StoresOK /\ AclMatchesApp

IInv == OnboardingInv /\ RegisterInv

-----------------------------------------------------------------------------
LEMMA IdleRequested == Idle \in Requested
    BY DEF Idle, Requested

LEMMA CreateDeviceKeeps ==
    ASSUME NEW d \in Devices, NEW b \in Bodies, OnboardingInv, CreateDevice(d, b)
    PROVE  OnboardingInv'
<1>1. OnboardingTypes'
    BY DEF OnboardingInv, CreateDevice, Prepared, Bodies, rows, OnboardingTypes, RequestOK,
       Requested, Sessions
<1>2. RequestOK'
    BY DEF DevicesSeen, CreateDevice, Prepared, rows, OnboardingTypes, RequestOK, Deleting
<1>3. PendingOK'
    BY DEF OnboardingInv, CreateDevice, Prepared, rows, OnboardingTypes, RequestOK, PendingOK,
       SessionOK, MabSeen, Overlaid, SeenInIse, NoDanglingRow, Requested, Sessions,
       DevicesSeen
<1>4. SessionOK'
    BY NamesApart DEF DevicesSeen, OnboardingInv, CreateDevice, Idle, rows, OnboardingTypes,
       RequestOK, PendingOK, SessionOK, DeletionOK
<1>5. DeletionOK'
    BY DEF CreateDevice, Prepared, OnboardingTypes, RequestOK, SessionOK, DeletionOK,
       Deleting
<1>6. SeenUnique'
    BY DEF OnboardingInv, CreateDevice, rows, OnboardingTypes, RequestOK, PendingOK,
       SessionOK, SeenUnique, MabSeen
<1>7. SeenInIse'
    BY DEF OnboardingInv, CreateDevice, Idle, rows, OnboardingTypes, RequestOK, PendingOK,
       SessionOK, DeletionOK, SeenUnique, SeenInIse, MabSeen
<1>8. NoDanglingRow'
    BY DEF DevicesSeen, GoneOK, OnboardingInv, CreateDevice, rows, OnboardingTypes,
       RequestOK, SessionOK, DeletionOK, NoDanglingRow
<1>9. GoneOK'
    BY DEF OnboardingInv, OnboardingTypes, GoneOK, CreateDevice, rows
<1> QED
    BY <1>1, <1>2, <1>3, <1>4, <1>5, <1>6, <1>7, <1>8, <1>9 DEF OnboardingInv

(* The session is rolled back.                                             *)
LEMMA RollbackKeeps ==
    ASSUME OnboardingInv, req = Idle, req' = Idle, dirty' = Clean, bulk' \in BOOLEAN,
           UNCHANGED <<rows, events, ise, torn, faults>>
    PROVE  OnboardingInv'
<1>1. OnboardingTypes'
    BY IdleRequested DEF OnboardingInv, OnboardingTypes, rows, Sessions, Clean, NoRows
<1>2. RequestOK' /\ PendingOK' /\ DeletionOK'
    BY DEF RequestOK, PendingOK, DeletionOK, Deleting, Idle
<1>3. SessionOK' /\ GoneOK'
    BY DEF SessionOK, GoneOK, Clean, NoRows
<1>4. SeenUnique'
    BY DEF OnboardingInv, SessionOK, SeenUnique, MabSeen, Overlaid, Clean, NoRows, rows
<1>5. SeenInIse'
    BY DEF OnboardingInv, SessionOK, SeenInIse, MabSeen, Overlaid, Clean, NoRows, rows
<1>6. NoDanglingRow'
    BY DEF OnboardingInv, NoDanglingRow, rows
<1> QED
    BY <1>1, <1>2, <1>3, <1>4, <1>5, <1>6 DEF OnboardingInv

(* An id that the database accepts leaves no row behind under the old one. *)
LEMMA IdAssignedKeeps ==
    ASSUME OnboardingInv, NEW d \in DevicesSeen, NEW i \in Devices \cup {NoDevice},
           ~IdRefused(d, i)
    PROVE  /\ i \in Devices
           /\ IdAssigned(d, i) \in Sessions
           /\ IdAssigned(d, i).ble = dirty.ble /\ IdAssigned(d, i).mab = dirty.mab
           /\ i \in (devices \ IdAssigned(d, i).gone) \cup IdAssigned(d, i).came
           /\ \A c \in Devices : dirty.ble[c] # NoMac
                => c \in (devices \ IdAssigned(d, i).gone) \cup IdAssigned(d, i).came
           /\ \A c \in IdAssigned(d, i).gone :
                /\ c \notin IdAssigned(d, i).came
                /\ ble[c] = NoMac /\ mab[c] = NoMac /\ c \notin fdo
                /\ \A e \in Events : events[e] # c
<1>1. dirty \in Sessions /\ devices \subseteq Devices /\ d \in Devices
    BY DEF OnboardingInv, OnboardingTypes, Sessions, DevicesSeen
<1>2. CASE i = d
    BY <1>1, <1>2 DEF OnboardingInv, SessionOK, GoneOK, IdAssigned, DevicesSeen
<1>3. CASE i # d
  <2>1. PICK s : s = IdAssigned(d, i)
      OBVIOUS
  <2>2. /\ s \in Sessions /\ s.ble = dirty.ble /\ s.mab = dirty.mab
        /\ s.gone = (dirty.gone \cup {d}) \ {i} /\ s.came = (dirty.came \cup {i}) \ {d}
      BY <1>1, <1>3, <2>1 DEF IdAssigned, IdRefused, Sessions
  <2>3. /\ i \in Devices
        /\ BleSeen[d] = NoMac /\ MabSeen[d] = NoMac /\ d \notin fdo
        /\ \A e \in Events : events[e] # d
      BY <1>3 DEF IdRefused, Referenced
  <2>4. dirty.ble[d] = NoMac /\ ble[d] = NoMac /\ mab[d] = NoMac
      BY <1>1, <2>3 DEF BleSeen, MabSeen, Overlaid
  <2>5. \A c \in Devices : dirty.ble[c] # NoMac => c \in (devices \ s.gone) \cup s.came
      BY <2>2, <2>4 DEF OnboardingInv, SessionOK, DevicesSeen
  <2>6. \A c \in s.gone :
           /\ c \notin s.came
           /\ ble[c] = NoMac /\ mab[c] = NoMac /\ c \notin fdo
           /\ \A e \in Events : events[e] # c
      BY <2>2, <2>3, <2>4 DEF OnboardingInv, GoneOK
  <2>7. i \in s.came
      BY <1>3, <2>2
  <2> QED
      BY <2>1, <2>2, <2>3, <2>5, <2>6, <2>7
<1> QED
    BY <1>2, <1>3

LEMMA UpdateDeviceKeeps ==
    ASSUME NEW d \in Devices, NEW b \in Bodies, OnboardingInv, UpdateDevice(d, b)
    PROVE  OnboardingInv'
<1>1. /\ req = Idle /\ d \in DevicesSeen /\ bulk \in BOOLEAN
      /\ UNCHANGED <<rows, events, ise, torn, faults>>
    BY DEF OnboardingInv, OnboardingTypes, UpdateDevice
<1>2. /\ b.id \in Devices \cup {NoDevice} /\ b.ble \in BleMacs \cup {NoMac}
      /\ b.mab \in MabMacs \cup {NoMac} /\ b.fdo \in BOOLEAN
    BY DEF Bodies
<1>3. CASE req' = Idle /\ dirty' = Clean
  <2>1. bulk' \in BOOLEAN
      BY <1>1 DEF UpdateDevice, Ends, Fails
  <2> QED
      BY <1>1, <1>3, <2>1, RollbackKeeps
<1>4. CASE ~(req' = Idle /\ dirty' = Clean)
  <2>1. ~IdRefused(d, b.id) /\ bulk' = bulk
      BY <1>4 DEF UpdateDevice, Ends, Fails
  <2>2. PICK s : s = IdAssigned(d, b.id)
      OBVIOUS
  <2>3. /\ b.id \in Devices /\ s \in Sessions /\ s.ble = dirty.ble /\ s.mab = dirty.mab
        /\ b.id \in (devices \ s.gone) \cup s.came
        /\ \A c \in Devices : dirty.ble[c] # NoMac => c \in (devices \ s.gone) \cup s.came
        /\ \A c \in s.gone : /\ c \notin s.came
                             /\ ble[c] = NoMac /\ mab[c] = NoMac /\ c \notin fdo
                             /\ \A e \in Events : events[e] # c
      BY <1>1, <1>2, <2>1, <2>2, IdAssignedKeeps
  <2>4. \/ /\ bulk /\ req' = Idle
           /\ dirty' = s \/ dirty' = [s EXCEPT !.ble[b.id] = b.ble]
        \/ /\ Prepared(b.id, FALSE, b) /\ ~MabRaises(b.id, b.mab) /\ b.ble # NoMac
           /\ dirty' = [s EXCEPT !.ble[b.id] = b.ble]
      BY <1>4, <2>2 DEF UpdateDevice, Ends, Fails, BleAssigned, BleRaises
  <2>5. /\ dirty' \in Sessions
        /\ dirty'.mab = dirty.mab /\ dirty'.gone = s.gone /\ dirty'.came = s.came
        /\ \A c \in Devices : c # b.id => dirty'.ble[c] = dirty.ble[c]
        /\ dirty'.ble[b.id] = dirty.ble[b.id] \/ dirty'.ble[b.id] = b.ble
        /\ dirty' # s => dirty'.ble[b.id] = b.ble
    <3>1. CASE dirty' = s
        BY <2>3, <3>1
    <3>2. CASE dirty' = [s EXCEPT !.ble[b.id] = b.ble]
      <4>1. s.ble \in [Devices -> BleMacs \cup {NoMac}]
          BY <2>3 DEF Sessions
      <4>2. dirty'.ble = [s.ble EXCEPT ![b.id] = b.ble]
          BY <2>3, <3>2 DEF Sessions
      <4>3. dirty'.ble \in [Devices -> BleMacs \cup {NoMac}]
          BY <1>2, <2>3, <4>1, <4>2
      <4>4. /\ dirty' = [ble |-> dirty'.ble, mab |-> s.mab, gone |-> s.gone, came |-> s.came]
            /\ dirty'.mab = s.mab /\ dirty'.gone = s.gone /\ dirty'.came = s.came
          BY <2>3, <3>2 DEF Sessions
      <4>5. dirty' \in Sessions
          BY <2>3, <4>3, <4>4 DEF Sessions
      <4>6. dirty'.ble[b.id] = b.ble /\ \A c \in Devices : c # b.id => dirty'.ble[c] = s.ble[c]
          BY <2>3, <4>1, <4>2
      <4> QED
          BY <2>3, <4>4, <4>5, <4>6
    <3> QED
        BY <2>4, <3>1, <3>2
  <2>6. \/ bulk /\ req' = Idle
        \/ /\ req' \in Requested /\ req'.dev = b.id /\ ~req'.new /\ req'.mab = b.mab
           /\ req'.pc = (IF b.mab # NoMac THEN "ise" ELSE "commit")
           /\ ~MabRaises(b.id, b.mab) /\ b.ble # NoMac /\ dirty'.ble[b.id] = b.ble
    <3>1. CASE bulk /\ req' = Idle
        BY <3>1
    <3>2. CASE /\ Prepared(b.id, FALSE, b) /\ ~MabRaises(b.id, b.mab) /\ b.ble # NoMac
               /\ dirty' = [s EXCEPT !.ble[b.id] = b.ble]
      <4>1. s.ble \in [Devices -> BleMacs \cup {NoMac}]
          BY <2>3 DEF Sessions
      <4>2. dirty'.ble = [s.ble EXCEPT ![b.id] = b.ble]
          BY <2>3, <3>2 DEF Sessions
      <4>3. dirty'.ble[b.id] = b.ble
          BY <2>3, <4>1, <4>2
      <4>4. req' = [pc |-> IF b.mab # NoMac THEN "ise" ELSE "commit", dev |-> b.id, new |-> FALSE,
                    ble |-> b.ble, mab |-> b.mab, fdo |-> b.fdo]
          BY <3>2 DEF Prepared
      <4>5. req' \in Requested
          BY <1>2, <2>3, <4>4 DEF Requested
      <4>6. /\ req'.dev = b.id /\ ~req'.new /\ req'.mab = b.mab
            /\ req'.pc = (IF b.mab # NoMac THEN "ise" ELSE "commit")
          BY <4>4
      <4> QED
          BY <3>2, <4>3, <4>5, <4>6
    <3> QED
        BY <2>4, <3>1, <3>2
  <2>7. MabSeen' = MabSeen
      BY <1>1, <2>5 DEF MabSeen, rows
  <2>8. OnboardingTypes'
      BY <1>1, <2>1, <2>5, <2>6, IdleRequested DEF OnboardingInv, OnboardingTypes, rows
  <2>9. RequestOK'
      BY <1>1, <2>3, <2>5, <2>6 DEF RequestOK, DevicesSeen, rows, Deleting, Idle
  <2>10. PendingOK'
      BY <1>1, <2>6, <2>7 DEF PendingOK, MabRaises, Unused, Idle
  <2>11. SessionOK'
    <3>1. \A c \in Devices : dirty'.ble[c] # NoMac => c \in DevicesSeen'
        BY <1>1, <2>3, <2>5 DEF DevicesSeen, rows
    <3>2. \A c \in Devices : dirty'.mab[c] # NoMac => dirty'.ble[c] # NoMac /\ mab'[c] = NoMac
      <4> SUFFICES ASSUME NEW c \in Devices, dirty.mab[c] # NoMac
                   PROVE  dirty'.ble[c] # NoMac /\ mab[c] = NoMac
          BY <1>1, <2>5 DEF rows
      <4>1. dirty.ble[c] # NoMac /\ mab[c] = NoMac
          BY DEF OnboardingInv, SessionOK
      <4>2. dirty'.ble[c] = dirty.ble[c] \/ dirty'.ble[c] = b.ble
          BY <2>5
      <4>3. b.ble # NoMac \/ dirty' = s
          BY <1>4, <2>1, <2>2 DEF UpdateDevice, Ends, Fails, BleAssigned, BleRaises
      <4> QED
          BY <2>3, <4>1, <4>2, <4>3
    <3>3. ~bulk' => \A c \in Devices : c # req'.dev => dirty'.ble[c] = NoMac
        BY NamesApart, <1>1, <2>1, <2>5, <2>6 DEF OnboardingInv, SessionOK, Idle
    <3> QED
        BY <3>1, <3>2, <3>3 DEF SessionOK
  <2>12. GoneOK'
      BY <1>1, <2>3, <2>5 DEF GoneOK, rows
  <2>13. DeletionOK'
      BY <2>6 DEF DeletionOK, Deleting, Idle
  <2>14. SeenUnique'
      BY <2>7 DEF OnboardingInv, SeenUnique
  <2>15. SeenInIse'
      BY <1>1, <2>7 DEF OnboardingInv, SeenInIse, Idle
  <2>16. NoDanglingRow'
      BY <1>1 DEF OnboardingInv, NoDanglingRow, rows
  <2> QED
      BY <2>8, <2>9, <2>10, <2>11, <2>12, <2>13, <2>14, <2>15, <2>16 DEF OnboardingInv
<1> QED
    BY <1>3, <1>4

LEMMA DeleteDeviceKeeps ==
    ASSUME NEW d \in Devices, OnboardingInv, DeleteDevice(d)
    PROVE  OnboardingInv'
<1>1. OnboardingTypes'
    BY DEF OnboardingInv, DeleteDevice, rows, OnboardingTypes, RequestOK, Requested, Sessions
<1>2. RequestOK'
    BY DEF DevicesSeen, DeleteDevice, rows, OnboardingTypes, RequestOK
<1>3. PendingOK'
    BY DEF DeleteDevice, OnboardingTypes, RequestOK, PendingOK, SessionOK, SeenInIse,
       NoDanglingRow
<1>4. SessionOK'
    BY NamesApart DEF DevicesSeen, OnboardingInv, DeleteDevice, Idle, rows, OnboardingTypes,
       RequestOK, PendingOK, SessionOK, DeletionOK
<1>5. DeletionOK'
    BY DEF DeleteDevice, OnboardingTypes, RequestOK, SessionOK, DeletionOK
<1>6. SeenUnique'
    BY DEF OnboardingInv, DeleteDevice, rows, OnboardingTypes, RequestOK, PendingOK,
       SessionOK, SeenUnique, MabSeen
<1>7. SeenInIse'
    BY DEF OnboardingInv, DeleteDevice, Idle, rows, OnboardingTypes, RequestOK, PendingOK,
       SessionOK, DeletionOK, SeenUnique, SeenInIse, MabSeen
<1>8. NoDanglingRow'
    BY DEF DevicesSeen, GoneOK, OnboardingInv, DeleteDevice, rows, OnboardingTypes,
       RequestOK, SessionOK, DeletionOK, NoDanglingRow
<1>9. GoneOK'
    BY DEF OnboardingInv, OnboardingTypes, GoneOK, DeleteDevice, rows
<1> QED
    BY <1>1, <1>2, <1>3, <1>4, <1>5, <1>6, <1>7, <1>8, <1>9 DEF OnboardingInv

LEMMA StartBulkKeeps ==
    ASSUME OnboardingInv, StartBulk
    PROVE  OnboardingInv'
<1>1. OnboardingTypes'
    BY DEF OnboardingInv, StartBulk, rows, OnboardingTypes, RequestOK
<1>2. RequestOK'
    BY DEF DevicesSeen, StartBulk, Idle, OnboardingTypes, RequestOK, Deleting
<1>3. PendingOK'
    BY DEF StartBulk, Idle, OnboardingTypes, RequestOK, PendingOK, SessionOK, SeenInIse,
       NoDanglingRow
<1>4. SessionOK'
    BY DEF DevicesSeen, OnboardingInv, StartBulk, rows, OnboardingTypes, RequestOK,
       PendingOK, SessionOK, DeletionOK
<1>5. DeletionOK'
    BY DEF StartBulk, Idle, OnboardingTypes, RequestOK, SessionOK, DeletionOK, Deleting
<1>6. SeenUnique'
    BY DEF OnboardingInv, StartBulk, rows, OnboardingTypes, RequestOK, PendingOK, SessionOK,
       SeenUnique, MabSeen
<1>7. SeenInIse'
    BY DEF OnboardingInv, StartBulk, rows, OnboardingTypes, RequestOK, PendingOK, SessionOK,
       DeletionOK, SeenUnique, SeenInIse, MabSeen
<1>8. NoDanglingRow'
    BY DEF DevicesSeen, GoneOK, OnboardingInv, StartBulk, rows, OnboardingTypes, RequestOK,
       SessionOK, DeletionOK, NoDanglingRow
<1>9. GoneOK'
    BY DEF OnboardingInv, OnboardingTypes, GoneOK, StartBulk, rows
<1> QED
    BY <1>1, <1>2, <1>3, <1>4, <1>5, <1>6, <1>7, <1>8, <1>9 DEF OnboardingInv

LEMMA EndBulkKeeps ==
    ASSUME OnboardingInv, EndBulk
    PROVE  OnboardingInv'
<1>1. OnboardingTypes'
    BY DEF OnboardingInv, EndBulk, Ends, Clean, NoRows, rows, OnboardingTypes, RequestOK,
       Requested, Sessions
<1>2. RequestOK'
    BY DEF DevicesSeen, EndBulk, Ends, Idle, OnboardingTypes, RequestOK, Deleting
<1>3. PendingOK'
    BY DEF EndBulk, Ends, Idle, OnboardingTypes, RequestOK, PendingOK, SessionOK, SeenInIse,
       NoDanglingRow
<1>4. SessionOK'
    BY DEF DevicesSeen, EndBulk, Ends, Clean, NoRows, OnboardingTypes, RequestOK, PendingOK,
       SessionOK, DeletionOK
<1>5. DeletionOK'
    BY DEF EndBulk, Ends, Idle, OnboardingTypes, RequestOK, SessionOK, DeletionOK, Deleting
<1>6. SeenUnique'
    BY DEF OnboardingInv, EndBulk, Ends, Clean, NoRows, rows, OnboardingTypes, RequestOK,
       PendingOK, SessionOK, SeenUnique, MabSeen, Overlaid
<1>7. SeenInIse'
    BY DEF OnboardingInv, EndBulk, Ends, Clean, NoRows, rows, OnboardingTypes, RequestOK,
       PendingOK, SessionOK, DeletionOK, SeenUnique, SeenInIse, MabSeen, Overlaid
<1>8. NoDanglingRow'
    BY DEF DevicesSeen, GoneOK, OnboardingInv, EndBulk, rows, OnboardingTypes, RequestOK,
       SessionOK, DeletionOK, NoDanglingRow
<1>9. GoneOK'
    BY DEF OnboardingInv, OnboardingTypes, GoneOK, EndBulk, Clean, Ends, NoRows, rows
<1> QED
    BY <1>1, <1>2, <1>3, <1>4, <1>5, <1>6, <1>7, <1>8, <1>9 DEF OnboardingInv

LEMMA IseCreatedKeeps ==
    ASSUME OnboardingInv, IseCreated
    PROVE  OnboardingInv'
<1>1. OnboardingTypes'
  <2>1. dirty' \in Sessions
      BY DEF OnboardingInv, OnboardingTypes, RequestOK, Sessions, IseCreated, MabAssigned,
         Requested
  <2>2. req' \in Requested
      BY DEF OnboardingInv, OnboardingTypes, RequestOK, Requested, IseCreated, Goes
  <2>3. ble' \in [Devices -> BleMacs \cup {NoMac}] /\ mab' \in [Devices -> MabMacs \cup {NoMac}]
      BY DEF OnboardingInv, OnboardingTypes, RequestOK, IseCreated, rows
  <2>4. torn' \subseteq Devices /\ faults' \in 0..MaxFaults
      BY DEF OnboardingInv, OnboardingTypes, RequestOK, IseCreated
  <2>5. ise' \subseteq MabMacs
      BY DEF OnboardingInv, OnboardingTypes, RequestOK, PendingOK, IseCreated, Requested,
         Sessions
  <2> QED
      BY <2>1, <2>2, <2>3, <2>4, <2>5 DEF OnboardingInv, OnboardingTypes, RequestOK,
         IseCreated, MabAssigned, Goes, rows
<1>2. RequestOK'
    BY DEF DevicesSeen, OnboardingInv, IseCreated, MabAssigned, Goes, rows, OnboardingTypes,
       RequestOK, Deleting
<1>3. PendingOK'
    BY DEF OnboardingInv, IseCreated, MabAssigned, Goes, rows, OnboardingTypes, RequestOK,
       PendingOK, SessionOK, MabSeen, SeenInIse, NoDanglingRow
<1>4. SessionOK'
    BY DEF DevicesSeen, OnboardingInv, IseCreated, MabAssigned, Goes, rows, OnboardingTypes,
       RequestOK, PendingOK, SessionOK, DeletionOK, MabSeen, Overlaid
<1>5. DeletionOK'
    BY DEF IseCreated, Goes, OnboardingTypes, RequestOK, SessionOK, DeletionOK, Deleting
<1>6. SeenUnique'
    BY DEF OnboardingInv, IseCreated, MabAssigned, rows, OnboardingTypes, RequestOK,
       PendingOK, SessionOK, SeenUnique, MabSeen, Overlaid, Unused
<1>7. SeenInIse'
    BY DEF OnboardingInv, IseCreated, MabAssigned, rows, OnboardingTypes, RequestOK,
       PendingOK, SessionOK, DeletionOK, SeenUnique, SeenInIse, MabSeen, Overlaid
<1>8. NoDanglingRow'
    BY DEF DevicesSeen, GoneOK, OnboardingInv, IseCreated, rows, OnboardingTypes, RequestOK,
       SessionOK, DeletionOK, NoDanglingRow
<1>9. GoneOK'
    BY DEF OnboardingInv, OnboardingTypes, GoneOK, IseCreated, MabAssigned, rows
<1> QED
    BY <1>1, <1>2, <1>3, <1>4, <1>5, <1>6, <1>7, <1>8, <1>9 DEF OnboardingInv

LEMMA CommittedKeeps ==
    ASSUME OnboardingInv, Committed
    PROVE  OnboardingInv'
<1>1. OnboardingTypes'
    BY DEF OnboardingInv, Committed, FdoCreated, Ends, Idle, Clean, NoRows, OnboardingTypes,
       RequestOK, BleSeen, MabSeen, Overlaid, Requested, Sessions, DevicesSeen
<1>2. RequestOK'
    BY DEF DevicesSeen, Committed, Ends, Idle, OnboardingTypes, RequestOK, Deleting
<1>3. PendingOK'
    BY DEF Committed, Ends, Idle, OnboardingTypes, RequestOK, PendingOK, SessionOK,
       SeenInIse, NoDanglingRow
<1>4. SessionOK'
    BY DEF DevicesSeen, Committed, Ends, Clean, NoRows, OnboardingTypes, RequestOK,
       PendingOK, SessionOK, DeletionOK
<1>5. DeletionOK'
    BY DEF Committed, Ends, Idle, OnboardingTypes, RequestOK, SessionOK, DeletionOK,
       Deleting
<1>6. SeenUnique'
    BY DEF OnboardingInv, Committed, Ends, Clean, NoRows, OnboardingTypes, RequestOK,
       PendingOK, SessionOK, SeenUnique, MabSeen, Overlaid, Unused
<1>7. SeenInIse'
    BY DEF OnboardingInv, Committed, Ends, Clean, NoRows, OnboardingTypes, RequestOK,
       PendingOK, SessionOK, DeletionOK, SeenUnique, SeenInIse, MabSeen, Overlaid
<1>8. NoDanglingRow'
    BY DEF DevicesSeen, GoneOK, OnboardingInv, Committed, FdoCreated, OnboardingTypes,
       RequestOK, SessionOK, DeletionOK, NoDanglingRow, MabSeen, BleSeen, Overlaid
<1>9. GoneOK'
    BY DEF OnboardingInv, OnboardingTypes, GoneOK, Committed, Clean, Ends, NoRows
<1> QED
    BY <1>1, <1>2, <1>3, <1>4, <1>5, <1>6, <1>7, <1>8, <1>9 DEF OnboardingInv

LEMMA RefusedKeeps ==
    ASSUME OnboardingInv, Refused
    PROVE  OnboardingInv'
<1>1. OnboardingTypes'
    BY DEF OnboardingInv, Refused, Fails, Idle, Clean, NoRows, rows, OnboardingTypes,
       RequestOK, BleSeen, MabSeen, Overlaid, Requested, Sessions
<1>2. RequestOK'
    BY DEF DevicesSeen, Refused, Fails, Idle, OnboardingTypes, RequestOK, Deleting
<1>3. PendingOK'
    BY DEF Refused, Fails, Idle, OnboardingTypes, RequestOK, PendingOK, SessionOK,
       SeenInIse, NoDanglingRow
<1>4. SessionOK'
    BY DEF DevicesSeen, OnboardingInv, Refused, Fails, Clean, NoRows, rows, OnboardingTypes,
       RequestOK, PendingOK, SessionOK, DeletionOK
<1>5. DeletionOK'
    BY DEF Refused, Fails, Idle, OnboardingTypes, RequestOK, SessionOK, DeletionOK, Deleting
<1>6. SeenUnique'
    BY DEF OnboardingInv, Refused, Fails, Clean, NoRows, rows, OnboardingTypes, RequestOK,
       PendingOK, SessionOK, SeenUnique, MabSeen, Overlaid
<1>7. SeenInIse'
    BY DEF OnboardingInv, Refused, Fails, Clean, NoRows, rows, OnboardingTypes, RequestOK,
       PendingOK, SessionOK, DeletionOK, SeenUnique, SeenInIse, MabSeen, Overlaid
<1>8. NoDanglingRow'
    BY DEF DevicesSeen, GoneOK, OnboardingInv, Refused, rows, OnboardingTypes, RequestOK,
       SessionOK, DeletionOK, NoDanglingRow
<1>9. GoneOK'
    BY DEF OnboardingInv, OnboardingTypes, GoneOK, Refused, Clean, Fails, NoRows, rows
<1> QED
    BY <1>1, <1>2, <1>3, <1>4, <1>5, <1>6, <1>7, <1>8, <1>9 DEF OnboardingInv

LEMMA DeleteBleKeeps ==
    ASSUME OnboardingInv, DeleteBle
    PROVE  OnboardingInv'
<1>1. OnboardingTypes'
  <2>1. dirty' \in Sessions
      BY DEF OnboardingInv, OnboardingTypes, RequestOK, Sessions, DeleteBle, Clean, NoRows
  <2>2. req' \in Requested
      BY DEF OnboardingInv, OnboardingTypes, RequestOK, Requested, DeleteBle, Goes
  <2>3. ble' \in [Devices -> BleMacs \cup {NoMac}] /\ mab' \in [Devices -> MabMacs \cup {NoMac}]
    <3>1. CASE BleSeen[req.dev] # NoMac
        BY <3>1 DEF OnboardingInv, OnboardingTypes, DeleteBle, BleSeen, MabSeen, Overlaid,
           Requested, Sessions
    <3>2. CASE BleSeen[req.dev] = NoMac
        BY <3>2 DEF OnboardingInv, OnboardingTypes, DeleteBle
    <3> QED
        BY <3>1, <3>2
  <2>4. torn' \subseteq Devices /\ faults' \in 0..MaxFaults
      BY DEF OnboardingInv, OnboardingTypes, RequestOK, DeleteBle
  <2>5. ise' \subseteq MabMacs
      BY DEF OnboardingInv, OnboardingTypes, RequestOK, PendingOK, DeleteBle
  <2> QED
      BY <2>1, <2>2, <2>3, <2>4, <2>5 DEF OnboardingInv, OnboardingTypes, RequestOK,
         DeleteBle, Goes, Clean, NoRows, Requested, Sessions, DevicesSeen
<1>2. RequestOK'
    BY DEF DevicesSeen, OnboardingInv, DeleteBle, Goes, OnboardingTypes, RequestOK, Deleting,
       Requested, Sessions, Clean, NoRows
<1>3. PendingOK'
    BY DEF DeleteBle, Goes, OnboardingTypes, RequestOK, PendingOK, SessionOK, SeenInIse,
       NoDanglingRow
<1>4. SessionOK'
    BY DEF DevicesSeen, OnboardingInv, DeleteBle, Goes, Clean, NoRows, OnboardingTypes,
       RequestOK, PendingOK, SessionOK, DeletionOK
<1>5. DeletionOK'
    BY DEF OnboardingInv, DeleteBle, Goes, Clean, NoRows, OnboardingTypes, RequestOK,
       SessionOK, DeletionOK, BleSeen, MabSeen, Overlaid
<1>6. SeenUnique'
    BY DEF OnboardingInv, DeleteBle, Clean, NoRows, OnboardingTypes, RequestOK, PendingOK,
       SessionOK, SeenUnique, MabSeen, Overlaid
<1>7. SeenInIse'
    BY DEF OnboardingInv, DeleteBle, Clean, NoRows, OnboardingTypes, RequestOK, PendingOK,
       SessionOK, DeletionOK, SeenUnique, SeenInIse, MabSeen, Overlaid
<1>8. NoDanglingRow'
  <2>1. UNCHANGED <<events, fdo>>
      BY DEF DeleteBle
  <2>2. CASE BleSeen[req.dev] # NoMac
    <3>1. devices' = DevicesSeen /\ mab' = MabSeen
        BY <2>2 DEF DeleteBle
    <3>2. \A c \in Devices : ble'[c] \in {NoMac, BleSeen[c]}
        BY <2>2 DEF DeleteBle, BleSeen, Overlaid
    <3> QED
        BY <2>1, <3>1, <3>2 DEF OnboardingInv, OnboardingTypes, NoDanglingRow, SessionOK, GoneOK,
           BleSeen, MabSeen, Overlaid, DevicesSeen
  <2>3. CASE BleSeen[req.dev] = NoMac
      BY <2>1, <2>3 DEF OnboardingInv, NoDanglingRow, DeleteBle
  <2> QED
      BY <2>2, <2>3
<1>9. GoneOK'
    BY DEF OnboardingInv, OnboardingTypes, GoneOK, DeleteBle, Clean, NoRows
<1> QED
    BY <1>1, <1>2, <1>3, <1>4, <1>5, <1>6, <1>7, <1>8, <1>9 DEF OnboardingInv

LEMMA DeleteInIseKeeps ==
    ASSUME OnboardingInv, DeleteInIse
    PROVE  OnboardingInv'
<1>1. OnboardingTypes'
    BY DEF OnboardingInv, DeleteInIse, Goes, rows, OnboardingTypes, RequestOK, BleSeen,
       MabSeen, Overlaid, Requested, Sessions
<1>2. RequestOK'
    BY DEF DevicesSeen, OnboardingInv, DeleteInIse, Goes, rows, OnboardingTypes, RequestOK,
       Deleting
<1>3. PendingOK'
    BY DEF DeleteInIse, Goes, OnboardingTypes, RequestOK, PendingOK, SessionOK, SeenInIse,
       NoDanglingRow
<1>4. SessionOK'
    BY DEF DevicesSeen, OnboardingInv, DeleteInIse, Goes, rows, OnboardingTypes, RequestOK,
       PendingOK, SessionOK, DeletionOK
<1>5. DeletionOK'
    BY DEF OnboardingInv, DeleteInIse, Goes, rows, OnboardingTypes, RequestOK, SessionOK,
       DeletionOK, Deleting, BleSeen
<1>6. SeenUnique'
    BY DEF OnboardingInv, DeleteInIse, rows, OnboardingTypes, RequestOK, PendingOK,
       SessionOK, SeenUnique, MabSeen
<1>7. SeenInIse'
    BY DEF OnboardingInv, DeleteInIse, Goes, rows, OnboardingTypes, RequestOK, PendingOK,
       SessionOK, DeletionOK, SeenUnique, SeenInIse, MabSeen, Overlaid
<1>8. NoDanglingRow'
    BY DEF DevicesSeen, GoneOK, OnboardingInv, DeleteInIse, rows, OnboardingTypes,
       RequestOK, SessionOK, DeletionOK, NoDanglingRow
<1>9. GoneOK'
    BY DEF OnboardingInv, OnboardingTypes, GoneOK, DeleteInIse, rows
<1> QED
    BY <1>1, <1>2, <1>3, <1>4, <1>5, <1>6, <1>7, <1>8, <1>9 DEF OnboardingInv

LEMMA NotInIseKeeps ==
    ASSUME OnboardingInv, NotInIse
    PROVE  OnboardingInv'
<1>1. OnboardingTypes'
    BY DEF OnboardingInv, NotInIse, Fails, Idle, Clean, NoRows, rows, OnboardingTypes,
       RequestOK, BleSeen, MabSeen, Overlaid, Requested, Sessions
<1>2. RequestOK'
    BY DEF DevicesSeen, NotInIse, Fails, Idle, OnboardingTypes, RequestOK, Deleting
<1>3. PendingOK'
    BY DEF NotInIse, Fails, Idle, OnboardingTypes, RequestOK, PendingOK, SessionOK,
       SeenInIse, NoDanglingRow
<1>4. SessionOK'
    BY DEF DevicesSeen, OnboardingInv, NotInIse, Fails, Clean, NoRows, rows,
       OnboardingTypes, RequestOK, PendingOK, SessionOK, DeletionOK
<1>5. DeletionOK'
    BY DEF NotInIse, Fails, Idle, OnboardingTypes, RequestOK, SessionOK, DeletionOK,
       Deleting
<1>6. SeenUnique'
    BY DEF OnboardingInv, NotInIse, Fails, Clean, NoRows, rows, OnboardingTypes, RequestOK,
       PendingOK, SessionOK, SeenUnique, MabSeen, Overlaid
<1>7. SeenInIse'
    BY DEF OnboardingInv, NotInIse, Fails, Clean, NoRows, rows, OnboardingTypes, RequestOK,
       PendingOK, SessionOK, DeletionOK, SeenUnique, SeenInIse, MabSeen, Overlaid
<1>8. NoDanglingRow'
    BY DEF DevicesSeen, GoneOK, OnboardingInv, NotInIse, rows, OnboardingTypes, RequestOK,
       SessionOK, DeletionOK, NoDanglingRow
<1>9. GoneOK'
    BY DEF OnboardingInv, OnboardingTypes, GoneOK, NotInIse, Clean, Fails, NoRows, rows
<1> QED
    BY <1>1, <1>2, <1>3, <1>4, <1>5, <1>6, <1>7, <1>8, <1>9 DEF OnboardingInv

LEMMA DeleteMabKeeps ==
    ASSUME OnboardingInv, DeleteMab
    PROVE  OnboardingInv'
<1>1. OnboardingTypes'
    BY DEF OnboardingInv, DeleteMab, Goes, Clean, NoRows, OnboardingTypes, RequestOK, BleSeen,
       MabSeen, Overlaid, Requested, Sessions, DevicesSeen
<1>2. RequestOK'
    BY DEF DevicesSeen, OnboardingInv, DeleteMab, Goes, OnboardingTypes, RequestOK, Deleting,
       Requested, Sessions, Clean, NoRows
<1>3. PendingOK'
    BY DEF DeleteMab, Goes, OnboardingTypes, RequestOK, PendingOK, SessionOK, SeenInIse,
       NoDanglingRow
<1>4. SessionOK'
    BY DEF DevicesSeen, DeleteMab, Clean, NoRows, OnboardingTypes, RequestOK, PendingOK,
       SessionOK, DeletionOK
<1>5. DeletionOK'
    BY DEF OnboardingInv, DeleteMab, Goes, Clean, NoRows, OnboardingTypes, RequestOK,
       SessionOK, DeletionOK, Deleting, BleSeen, MabSeen, Overlaid
<1>6. SeenUnique'
    BY DEF OnboardingInv, DeleteMab, Clean, NoRows, OnboardingTypes, RequestOK, PendingOK,
       SessionOK, SeenUnique, MabSeen, Overlaid
<1>7. SeenInIse'
    BY DEF OnboardingInv, DeleteMab, Clean, NoRows, OnboardingTypes, RequestOK, PendingOK,
       SessionOK, DeletionOK, SeenUnique, SeenInIse, MabSeen, Overlaid
<1>8. NoDanglingRow'
    BY DEF DevicesSeen, GoneOK, OnboardingInv, DeleteMab, OnboardingTypes, RequestOK,
       SessionOK, DeletionOK, NoDanglingRow, MabSeen, BleSeen, Overlaid
<1>9. GoneOK'
    BY DEF OnboardingInv, OnboardingTypes, GoneOK, DeleteMab, Clean, NoRows
<1> QED
    BY <1>1, <1>2, <1>3, <1>4, <1>5, <1>6, <1>7, <1>8, <1>9 DEF OnboardingInv

LEMMA DeleteFdoKeeps ==
    ASSUME OnboardingInv, DeleteFdo
    PROVE  OnboardingInv'
<1>1. OnboardingTypes'
    BY DEF OnboardingInv, DeleteFdo, Goes, Commits, Clean, NoRows, OnboardingTypes, RequestOK,
       BleSeen, MabSeen, Overlaid, Requested, Sessions, DevicesSeen
<1>2. RequestOK'
    BY DEF DevicesSeen, OnboardingInv, DeleteFdo, Goes, OnboardingTypes, RequestOK, Deleting,
       Requested, Sessions, Clean, NoRows, Commits
<1>3. PendingOK'
    BY DEF DeleteFdo, Goes, OnboardingTypes, RequestOK, PendingOK, SessionOK, SeenInIse,
       NoDanglingRow
<1>4. SessionOK'
    BY DEF DevicesSeen, OnboardingInv, DeleteFdo, Goes, Commits, Clean, NoRows,
       OnboardingTypes, RequestOK, PendingOK, SessionOK, DeletionOK
<1>5. DeletionOK'
    BY DEF OnboardingInv, DeleteFdo, Goes, Commits, Clean, NoRows, OnboardingTypes,
       RequestOK, SessionOK, DeletionOK, Deleting, BleSeen, MabSeen, Overlaid
<1>6. SeenUnique'
    BY DEF OnboardingInv, DeleteFdo, Commits, Clean, NoRows, OnboardingTypes, RequestOK,
       PendingOK, SessionOK, SeenUnique, MabSeen, Overlaid
<1>7. SeenInIse'
    BY DEF OnboardingInv, DeleteFdo, Commits, Clean, NoRows, OnboardingTypes, RequestOK,
       PendingOK, SessionOK, DeletionOK, SeenUnique, SeenInIse, MabSeen, Overlaid
<1>8. NoDanglingRow'
    BY DEF DevicesSeen, GoneOK, OnboardingInv, DeleteFdo, Commits, OnboardingTypes,
       RequestOK, SessionOK, DeletionOK, NoDanglingRow, MabSeen, BleSeen, Overlaid
<1>9. GoneOK'
    BY DEF OnboardingInv, OnboardingTypes, GoneOK, DeleteFdo, Clean, Commits, NoRows
<1> QED
    BY <1>1, <1>2, <1>3, <1>4, <1>5, <1>6, <1>7, <1>8, <1>9 DEF OnboardingInv

LEMMA DeleteRowKeeps ==
    ASSUME OnboardingInv, DeleteRow
    PROVE  OnboardingInv'
<1>1. OnboardingTypes'
  <2>1. dirty' \in Sessions
      BY DEF OnboardingTypes, RequestOK, Sessions, DeleteRow, Ends, Commits, Clean, NoRows
  <2>2. req' \in Requested
      BY IdleRequested DEF DeleteRow, Ends
  <2>3. ble' \in [Devices -> BleMacs \cup {NoMac}] /\ mab' \in [Devices -> MabMacs \cup {NoMac}]
      BY DEF OnboardingInv, OnboardingTypes, RequestOK, DeleteRow, Commits, BleSeen, MabSeen,
         Overlaid, Requested, Sessions
  <2>4. torn' \subseteq Devices /\ faults' \in 0..MaxFaults
      BY DEF OnboardingInv, OnboardingTypes, RequestOK, DeleteRow
  <2>5. ise' \subseteq MabMacs
      BY DEF OnboardingInv, OnboardingTypes, RequestOK, PendingOK, DeleteRow
  <2> QED
      BY <2>1, <2>2, <2>3, <2>4, <2>5 DEF OnboardingInv, OnboardingTypes, RequestOK, Sessions,
         Requested, DeleteRow, Ends, DevicesSeen
<1>2. RequestOK'
    BY DEF DevicesSeen, DeleteRow, Ends, Idle, OnboardingTypes, RequestOK, Deleting
<1>3. PendingOK'
    BY DEF DeleteRow, Ends, Idle, OnboardingTypes, RequestOK, PendingOK, SessionOK,
       SeenInIse, NoDanglingRow
<1>4. SessionOK'
    BY DEF DevicesSeen, DeleteRow, Ends, Commits, Clean, NoRows, OnboardingTypes, RequestOK,
       PendingOK, SessionOK, DeletionOK
<1>5. DeletionOK'
    BY DEF DeleteRow, Ends, Idle, OnboardingTypes, RequestOK, SessionOK, DeletionOK,
       Deleting
<1>6. SeenUnique'
    BY DEF OnboardingInv, DeleteRow, Ends, Commits, Clean, NoRows, OnboardingTypes,
       RequestOK, PendingOK, SessionOK, SeenUnique, MabSeen, Overlaid
<1>7. SeenInIse'
    BY DEF OnboardingInv, DeleteRow, Ends, Commits, Clean, NoRows, OnboardingTypes,
       RequestOK, PendingOK, SessionOK, DeletionOK, SeenUnique, SeenInIse, MabSeen, Overlaid
<1>8. NoDanglingRow'
    BY DEF DevicesSeen, GoneOK, OnboardingInv, DeleteRow, Referenced, Commits,
       OnboardingTypes, RequestOK, SessionOK, DeletionOK, Deleting, NoDanglingRow, MabSeen,
       BleSeen, Overlaid
<1>9. GoneOK'
    BY DEF OnboardingInv, OnboardingTypes, GoneOK, DeleteRow, Clean, Commits, Ends, NoRows
<1> QED
    BY <1>1, <1>2, <1>3, <1>4, <1>5, <1>6, <1>7, <1>8, <1>9 DEF OnboardingInv

LEMMA IseFailsKeeps ==
    ASSUME OnboardingInv, IseFails
    PROVE  OnboardingInv'
<1>1. OnboardingTypes'
  <2>1. dirty' \in Sessions
      BY DEF OnboardingInv, OnboardingTypes, RequestOK, Sessions, IseFails, Fails, Clean,
         NoRows
  <2>2. req' \in Requested
      BY DEF OnboardingTypes, RequestOK, Idle, Requested, IseFails, Fails
  <2>3. ble' \in [Devices -> BleMacs \cup {NoMac}] /\ mab' \in [Devices -> MabMacs \cup {NoMac}]
      BY DEF OnboardingInv, OnboardingTypes, RequestOK, IseFails, rows
  <2>4. torn' \subseteq Devices /\ faults' \in 0..MaxFaults
      BY FaultsBound DEF OnboardingInv, OnboardingTypes, RequestOK, IseFails, Fault
  <2>5. ise' \subseteq MabMacs
      BY DEF OnboardingInv, OnboardingTypes, RequestOK, PendingOK, IseFails, Requested,
         Sessions
  <2> QED
      BY <2>1, <2>2, <2>3, <2>4, <2>5 DEF OnboardingInv, OnboardingTypes, RequestOK,
         IseFails, Fails, Idle, Clean, NoRows, rows
<1>2. RequestOK'
    BY DEF DevicesSeen, IseFails, Fails, Idle, OnboardingTypes, RequestOK, Deleting
<1>3. PendingOK'
    BY DEF IseFails, Fails, Idle, OnboardingTypes, RequestOK, PendingOK, SessionOK,
       SeenInIse, NoDanglingRow
<1>4. SessionOK'
    BY DEF DevicesSeen, OnboardingInv, IseFails, Fails, Clean, NoRows, rows,
       OnboardingTypes, RequestOK, PendingOK, SessionOK, DeletionOK
<1>5. DeletionOK'
    BY DEF IseFails, Fails, Idle, OnboardingTypes, RequestOK, SessionOK, DeletionOK,
       Deleting
<1>6. SeenUnique'
    BY DEF OnboardingInv, IseFails, Fails, Clean, NoRows, rows, OnboardingTypes, RequestOK,
       PendingOK, SessionOK, SeenUnique, MabSeen, Overlaid
<1>7. SeenInIse'
    BY DEF OnboardingInv, IseFails, Fails, Clean, NoRows, rows, OnboardingTypes, RequestOK,
       PendingOK, SessionOK, DeletionOK, SeenUnique, SeenInIse, MabSeen, Overlaid
<1>8. NoDanglingRow'
    BY DEF DevicesSeen, GoneOK, OnboardingInv, IseFails, rows, OnboardingTypes, RequestOK,
       SessionOK, DeletionOK, NoDanglingRow
<1>9. GoneOK'
    BY DEF OnboardingInv, OnboardingTypes, GoneOK, IseFails, Clean, Fails, NoRows, rows
<1> QED
    BY <1>1, <1>2, <1>3, <1>4, <1>5, <1>6, <1>7, <1>8, <1>9 DEF OnboardingInv

LEMMA CrashKeeps ==
    ASSUME OnboardingInv, Crash
    PROVE  OnboardingInv'
<1>1. OnboardingTypes'
  <2>1. dirty' \in Sessions
      BY DEF OnboardingTypes, RequestOK, Sessions, Crash, Ends, Clean, NoRows
  <2>2. req' \in Requested
      BY DEF OnboardingTypes, RequestOK, Idle, Requested, Crash, Ends
  <2>3. ble' \in [Devices -> BleMacs \cup {NoMac}] /\ mab' \in [Devices -> MabMacs \cup {NoMac}]
      BY DEF OnboardingInv, OnboardingTypes, RequestOK, Crash, rows
  <2>4. torn' \subseteq Devices /\ faults' \in 0..MaxFaults
      BY FaultsBound DEF OnboardingInv, OnboardingTypes, RequestOK, Crash, Fault
  <2>5. ise' \subseteq MabMacs
      BY DEF OnboardingInv, OnboardingTypes, RequestOK, PendingOK, Crash
  <2> QED
      BY <2>1, <2>2, <2>3, <2>4, <2>5 DEF OnboardingInv, OnboardingTypes, RequestOK, Crash,
         Ends, Idle, Clean, NoRows, rows
<1>2. RequestOK'
    BY DEF DevicesSeen, Crash, Ends, Idle, OnboardingTypes, RequestOK, Deleting
<1>3. PendingOK'
    BY DEF Crash, Ends, Idle, OnboardingTypes, RequestOK, PendingOK, SessionOK, SeenInIse,
       NoDanglingRow
<1>4. SessionOK'
    BY DEF DevicesSeen, Crash, Ends, Clean, NoRows, OnboardingTypes, RequestOK, PendingOK,
       SessionOK, DeletionOK
<1>5. DeletionOK'
    BY DEF Crash, Ends, Idle, OnboardingTypes, RequestOK, SessionOK, DeletionOK, Deleting
<1>6. SeenUnique'
    BY DEF OnboardingInv, Crash, Ends, Clean, NoRows, rows, OnboardingTypes, RequestOK,
       PendingOK, SessionOK, SeenUnique, MabSeen, Overlaid
<1>7. SeenInIse'
    BY DEF OnboardingInv, Crash, Ends, Clean, NoRows, rows, OnboardingTypes, RequestOK,
       PendingOK, SessionOK, DeletionOK, SeenUnique, SeenInIse, MabSeen, Overlaid
<1>8. NoDanglingRow'
    BY DEF DevicesSeen, GoneOK, OnboardingInv, Crash, rows, OnboardingTypes, RequestOK,
       SessionOK, DeletionOK, NoDanglingRow
<1>9. GoneOK'
    BY DEF OnboardingInv, OnboardingTypes, GoneOK, Crash, Clean, Ends, NoRows, rows
<1> QED
    BY <1>1, <1>2, <1>3, <1>4, <1>5, <1>6, <1>7, <1>8, <1>9 DEF OnboardingInv

-----------------------------------------------------------------------------
(* The requests for other tables leave the onboarding request what it      *)
(* relies on.                                                              *)
LEMMA OnboardingKept ==
    ASSUME OnboardingInv, UNCHANGED <<onboardVars, events>>
    PROVE  OnboardingInv'
    BY DEF OnboardingInv, onboardVars, OnboardingTypes, RequestOK, PendingOK, SessionOK,
       GoneOK, DeletionOK, SeenUnique, SeenInIse, NoDanglingRow, BleSeen, MabSeen, DevicesSeen

LEMMA RegisterKept ==
    ASSUME RegisterInv, UNCHANGED registerVars
    PROVE  RegisterInv'
    BY DEF RegisterInv, registerVars, RegisterTypes, StoresOK, AclMatchesApp, TopicsOf

LEMMA EnableEventKeeps ==
    ASSUME NEW d \in Devices, NEW e \in Events, OnboardingInv, EnableEvent(d, e)
    PROVE  OnboardingInv'
<1>1. OnboardingTypes'
    BY DEF OnboardingInv, OnboardingTypes, EnableEvent, onboardVars
<1>2. RequestOK' /\ PendingOK' /\ SessionOK' /\ DeletionOK' /\ SeenUnique' /\ SeenInIse'
    BY DEF OnboardingInv, EnableEvent, onboardVars, RequestOK, PendingOK, SessionOK,
       DeletionOK, SeenUnique, SeenInIse, BleSeen, MabSeen, DevicesSeen
<1>3. GoneOK'
    BY DEF OnboardingInv, OnboardingTypes, EnableEvent, onboardVars, GoneOK
<1>4. NoDanglingRow'
    BY DEF OnboardingInv, OnboardingTypes, EnableEvent, onboardVars, NoDanglingRow
<1> QED
    BY <1>1, <1>2, <1>3, <1>4 DEF OnboardingInv

LEMMA DisableEventKeeps ==
    ASSUME NEW d \in Devices, NEW e \in Events, OnboardingInv, DisableEvent(d, e)
    PROVE  OnboardingInv'
<1>1. OnboardingTypes'
    BY DEF OnboardingInv, OnboardingTypes, DisableEvent, onboardVars
<1>2. RequestOK' /\ PendingOK' /\ SessionOK' /\ DeletionOK' /\ SeenUnique' /\ SeenInIse'
    BY DEF OnboardingInv, DisableEvent, onboardVars, RequestOK, PendingOK, SessionOK,
       DeletionOK, SeenUnique, SeenInIse, BleSeen, MabSeen, DevicesSeen
<1>3. GoneOK'
    BY NamesApart DEF OnboardingInv, OnboardingTypes, Sessions, DisableEvent, onboardVars, GoneOK
<1>4. NoDanglingRow'
    BY DEF OnboardingInv, OnboardingTypes, DisableEvent, onboardVars, NoDanglingRow
<1> QED
    BY <1>1, <1>2, <1>3, <1>4 DEF OnboardingInv

LEMMA CreateEndpointKeeps ==
    ASSUME NEW a \in Apps, IInv, CreateEndpoint(a)
    PROVE  IInv'
<1>1. RegisterInv'
  <2>1. RegisterTypes'
      BY DEF IInv, RegisterInv, RegisterTypes, CreateEndpoint
  <2>2. StoresOK' /\ AclMatchesApp'
      BY DEF IInv, RegisterInv, StoresOK, AclMatchesApp, TopicsOf, CreateEndpoint
  <2> QED
      BY <2>1, <2>2 DEF RegisterInv
<1>2. CASE UNCHANGED onboardVars
    BY <1>1, <1>2, OnboardingKept DEF IInv, CreateEndpoint
<1>3. CASE ~UNCHANGED onboardVars
  <2>1. /\ devices' = DevicesSeen /\ ble' = BleSeen /\ mab' = MabSeen /\ Ends
        /\ UNCHANGED <<events, fdo, ise, torn, faults>>
      BY <1>3 DEF CreateEndpoint
  <2>2. OnboardingInv
      BY DEF IInv
  <2> HIDE DEF CreateEndpoint
  <2>3. OnboardingTypes'
    <3>1. dirty' \in Sessions /\ req' \in Requested /\ bulk' \in BOOLEAN
        BY <2>1, IdleRequested DEF Ends, Sessions, Clean, NoRows
    <3>2. ble' \in [Devices -> BleMacs \cup {NoMac}] /\ mab' \in [Devices -> MabMacs \cup {NoMac}]
        BY <2>1, <2>2 DEF OnboardingInv, OnboardingTypes, Sessions, BleSeen, MabSeen, Overlaid
    <3>3. devices' \subseteq Devices
        BY <2>1, <2>2 DEF OnboardingInv, OnboardingTypes, Sessions, DevicesSeen
    <3> QED
        BY <2>1, <2>2, <3>1, <3>2, <3>3 DEF OnboardingInv, OnboardingTypes
  <2>4. RequestOK' /\ PendingOK' /\ DeletionOK'
      BY <2>1 DEF Ends, Idle, RequestOK, PendingOK, DeletionOK, Deleting
  <2>5. SessionOK' /\ GoneOK'
      BY <2>1 DEF Ends, Clean, NoRows, SessionOK, GoneOK
  <2>6. SeenUnique'
      BY <2>1, <2>2 DEF OnboardingInv, Ends, Clean, NoRows, SeenUnique, MabSeen, Overlaid
  <2>7. SeenInIse'
      BY <1>3, <2>1, <2>2 DEF CreateEndpoint, OnboardingInv, Ends, Idle, Clean, NoRows, SeenInIse,
         MabSeen, Overlaid
  <2>8. NoDanglingRow'
      BY <2>1, <2>2 DEF OnboardingInv, OnboardingTypes, NoDanglingRow, SessionOK, GoneOK, BleSeen,
         MabSeen, Overlaid, DevicesSeen
  <2> QED
      BY <1>1, <2>3, <2>4, <2>5, <2>6, <2>7, <2>8 DEF IInv, OnboardingInv
<1> QED
    BY <1>2, <1>3

(* The models are no part of the invariant but for their type.             *)
LEMMA ModelsKeep ==
    ASSUME RegisterInv, UNCHANGED <<apps, dataApps, acl, stores, crossed>>,
           models' \in [Models -> [namespace : BOOLEAN, defines : SUBSET Events,
                                   registered : BOOLEAN]]
    PROVE  RegisterInv'
    BY DEF RegisterInv, RegisterTypes, StoresOK, AclMatchesApp, TopicsOf

LEMMA SdfModelKeeps ==
    ASSUME NEW n \in Models, NEW doc \in Documents, IInv,
           RegisterSdfModel(n, doc) \/ UpdateSdfModel(n, doc) \/ DeleteSdfModel(n)
    PROVE  IInv'
<1>1. OnboardingInv'
    BY OnboardingKept DEF IInv, RegisterSdfModel, UpdateSdfModel, DeleteSdfModel
<1>2. Stored(doc) \in [namespace : BOOLEAN, defines : SUBSET Events, registered : BOOLEAN]
    BY DEF Documents, Stored
<1>3. NoModel \in [namespace : BOOLEAN, defines : SUBSET Events, registered : BOOLEAN]
    BY DEF NoModel
<1>4. models' = [models EXCEPT ![n] = Stored(doc)] \/ models' = [models EXCEPT ![n] = NoModel]
    BY DEF RegisterSdfModel, UpdateSdfModel, DeleteSdfModel
<1>5. models' \in [Models -> [namespace : BOOLEAN, defines : SUBSET Events, registered : BOOLEAN]]
    BY <1>2, <1>3, <1>4 DEF IInv, RegisterInv, RegisterTypes
<1>6. UNCHANGED <<apps, dataApps, acl, stores, crossed>>
    BY DEF RegisterSdfModel, UpdateSdfModel, DeleteSdfModel
<1> QED
    BY <1>1, <1>5, <1>6, ModelsKeep DEF IInv

LEMMA NoStoreTyped == NoStore \in Stores
    BY DEF NoStore, Stores

(* What a request that starts changes in the other requests for its app.   *)
LEMMA StartsFields ==
    ASSUME NEW t \in Threads, NEW a \in Apps, NEW s \in Stores, stores \in [Threads -> Stores],
           Starts(t, a, s), s.app = a
    PROVE  /\ stores[t].app # a /\ stores[t].pc = "idle"
           /\ stores'[t] \in Stores
           /\ stores'[t].pc = s.pc /\ stores'[t].app = a /\ stores'[t].events = s.events
           /\ stores'[t].writes = s.writes /\ stores'[t].found = s.found
           /\ stores'[t].alone = (Storing(a) = {})
           /\ \A u \in Threads \ {t} :
                 /\ stores'[u] \in Stores
                 /\ stores'[u].pc = stores[u].pc /\ stores'[u].app = stores[u].app
                 /\ stores'[u].events = stores[u].events /\ stores'[u].writes = stores[u].writes
                 /\ stores'[u].found = stores[u].found
                 /\ stores'[u].alone => stores[u].alone /\ stores[u].app # a
                 /\ stores[u].alone /\ stores[u].app # a => stores'[u].alone
<1>0. stores \in [Threads -> Stores]
    OBVIOUS
<1>4. /\ stores'[t] = [s EXCEPT !.alone = (Storing(a) = {})]
      /\ \A u \in Threads \ {t} :
            stores'[u] = IF stores[u].app = a THEN [stores[u] EXCEPT !.alone = FALSE]
                         ELSE stores[u]
    BY DEF Starts
<1>5. stores[t].app # a /\ stores[t].pc = "idle"
    BY AppsApart DEF Starts, NoStore
<1>6. /\ stores'[t] \in Stores
      /\ stores'[t].pc = s.pc /\ stores'[t].app = a /\ stores'[t].events = s.events
      /\ stores'[t].writes = s.writes /\ stores'[t].found = s.found
      /\ stores'[t].alone = (Storing(a) = {})
    BY <1>4 DEF Stores
<1>7. \A u \in Threads \ {t} :
         /\ stores'[u] \in Stores
         /\ stores'[u].pc = stores[u].pc /\ stores'[u].app = stores[u].app
         /\ stores'[u].events = stores[u].events /\ stores'[u].writes = stores[u].writes
         /\ stores'[u].found = stores[u].found
         /\ stores'[u].alone => stores[u].alone /\ stores[u].app # a
         /\ stores[u].alone /\ stores[u].app # a => stores'[u].alone
  <2> SUFFICES ASSUME NEW u \in Threads \ {t}
               PROVE  /\ stores'[u] \in Stores
                      /\ stores'[u].pc = stores[u].pc /\ stores'[u].app = stores[u].app
                      /\ stores'[u].events = stores[u].events
                      /\ stores'[u].writes = stores[u].writes
                      /\ stores'[u].found = stores[u].found
                      /\ stores'[u].alone => stores[u].alone /\ stores[u].app # a
                      /\ stores[u].alone /\ stores[u].app # a => stores'[u].alone
      OBVIOUS
  <2>1. stores[u] \in Stores
      BY <1>0
  <2>2. CASE stores[u].app = a
    <3>1. stores'[u] = [stores[u] EXCEPT !.alone = FALSE]
        BY <1>4, <2>2
    <3> QED
        BY <2>1, <2>2, <3>1 DEF Stores
  <2>3. CASE stores[u].app # a
    <3>1. stores'[u] = stores[u]
        BY <1>4, <2>3
    <3> QED
        BY <2>1, <2>3, <3>1 DEF Stores
  <2> QED
      BY <2>2, <2>3
<1> QED
    BY <1>5, <1>6, <1>7

(* A request that starts tells the others for its app that they are not    *)
(* alone, and is not alone itself when there are any.                      *)
LEMMA StartsKeeps ==
    ASSUME NEW t \in Threads, NEW a \in Apps, NEW s \in Stores, IInv, Starts(t, a, s),
           s.app = a, s.pc # "idle", s.found \subseteq TopicsOf(a),
           s.pc = "deleted" => s.found = TopicsOf(a),
           ~s.writes /\ dataApps[a].registered => s.events = dataApps[a].events
    PROVE  IInv'
<1>1. OnboardingInv'
    BY OnboardingKept DEF IInv, Starts
<1>2. UNCHANGED <<dataApps, acl>>
    BY DEF Starts
<1>3. stores \in [Threads -> Stores]
    BY DEF IInv, RegisterInv, RegisterTypes
<1>5. stores[t].app # a
    BY <1>3, StartsFields
<1>6. /\ stores'[t] \in Stores
      /\ stores'[t].pc = s.pc /\ stores'[t].app = a /\ stores'[t].events = s.events
      /\ stores'[t].writes = s.writes /\ stores'[t].found = s.found
      /\ stores'[t].alone = (Storing(a) = {})
    BY <1>3, StartsFields
<1>7. \A u \in Threads \ {t} :
         /\ stores'[u] \in Stores
         /\ stores'[u].pc = stores[u].pc /\ stores'[u].app = stores[u].app
         /\ stores'[u].events = stores[u].events /\ stores'[u].writes = stores[u].writes
         /\ stores'[u].found = stores[u].found
         /\ stores'[u].alone => stores[u].alone /\ stores[u].app # a
         /\ stores[u].alone /\ stores[u].app # a => stores'[u].alone
    BY <1>3, StartsFields
<1>8. stores' \in [Threads -> Stores] /\ crossed' \subseteq Apps
  <2>1. stores' = [u \in Threads |-> stores'[u]]
      BY DEF Starts
  <2>2. \A u \in Threads : stores'[u] \in Stores
      BY <1>6, <1>7
  <2> QED
      BY <2>1, <2>2 DEF IInv, RegisterInv, RegisterTypes, Starts
<1>9. crossed \subseteq crossed' /\ (Storing(a) # {} => a \in crossed')
    BY DEF Starts
<1>10. \A u \in Threads : u \in Storing(a) <=> stores[u].app = a
    BY DEF Storing
<1>11. StoresOK'
  <2>1. \A u \in Threads : stores'[u].pc # "idle" => stores'[u].app \in Apps
      BY <1>6, <1>7 DEF IInv, RegisterInv, StoresOK
  <2>2. \A u, v \in Threads : u # v /\ stores'[u].app \in Apps /\ stores'[u].app = stores'[v].app
                                => ~stores'[u].alone
    <3> SUFFICES ASSUME NEW u \in Threads, NEW v \in Threads, u # v, stores'[u].app \in Apps,
                        stores'[u].app = stores'[v].app
                 PROVE  ~stores'[u].alone
        OBVIOUS
    <3>1. CASE u = t
        BY <3>1, <1>6, <1>7, <1>10
    <3>2. CASE u # t /\ v = t
        BY <3>2, <1>6, <1>7
    <3>3. CASE u # t /\ v # t
      <4>1. stores[u].app \in Apps /\ stores[u].app = stores[v].app
          BY <3>3, <1>7
      <4>2. ~stores[u].alone
          BY <4>1 DEF IInv, RegisterInv, StoresOK
      <4> QED
          BY <3>3, <4>2, <1>7
    <3> QED
        BY <3>1, <3>2, <3>3
  <2>3. \A u \in Threads : stores'[u].app \in Apps /\ ~stores'[u].alone
                              => stores'[u].app \in crossed'
    <3> SUFFICES ASSUME NEW u \in Threads, stores'[u].app \in Apps, ~stores'[u].alone
                 PROVE  stores'[u].app \in crossed'
        OBVIOUS
    <3>1. CASE u = t
        BY <3>1, <1>6, <1>9
    <3>2. CASE u # t /\ stores[u].app = a
        BY <3>2, <1>7, <1>9, <1>10
    <3>3. CASE u # t /\ stores[u].app # a
        BY <3>3, <1>7, <1>9 DEF IInv, RegisterInv, StoresOK
    <3> QED
        BY <3>1, <3>2, <3>3
  <2>4. \A u \in Threads : \A row \in stores'[u].found : row[1] = stores'[u].app
      BY <1>6, <1>7 DEF IInv, RegisterInv, StoresOK, TopicsOf
  <2>5. \A u \in Threads : stores'[u].pc = "deleted" /\ stores'[u].alone
           => stores'[u].found = TopicsOf(stores'[u].app)
    <3> SUFFICES ASSUME NEW u \in Threads, stores'[u].pc = "deleted", stores'[u].alone
                 PROVE  stores'[u].found = TopicsOf(stores'[u].app)
        OBVIOUS
    <3>1. CASE u = t
        BY <3>1, <1>6
    <3>2. CASE u # t
      <4>1. stores[u].pc = "deleted" /\ stores[u].alone
          BY <3>2, <1>7
      <4>2. stores[u].found = TopicsOf(stores[u].app)
          BY <4>1 DEF IInv, RegisterInv, StoresOK
      <4> QED
          BY <3>2, <4>2, <1>7
    <3> QED
        BY <3>1, <3>2
  <2>6. \A u \in Threads :
           /\ stores'[u].pc # "idle" /\ stores'[u].alone /\ ~stores'[u].writes
           /\ dataApps[stores'[u].app].registered
           => stores'[u].events = dataApps[stores'[u].app].events
    <3> SUFFICES ASSUME NEW u \in Threads, stores'[u].pc # "idle", stores'[u].alone,
                        ~stores'[u].writes, dataApps[stores'[u].app].registered
                 PROVE  stores'[u].events = dataApps[stores'[u].app].events
        OBVIOUS
    <3>1. CASE u = t
        BY <3>1, <1>6
    <3>2. CASE u # t
      <4>1. /\ stores[u].pc # "idle" /\ stores[u].alone /\ ~stores[u].writes
            /\ dataApps[stores[u].app].registered
          BY <3>2, <1>7
      <4>2. stores[u].events = dataApps[stores[u].app].events
          BY <4>1 DEF IInv, RegisterInv, StoresOK
      <4> QED
          BY <3>2, <4>2, <1>7
    <3> QED
        BY <3>1, <3>2
  <2> QED
      BY <1>2, <2>1, <2>2, <2>3, <2>4, <2>5, <2>6 DEF StoresOK, TopicsOf
<1>12. RegisterTypes'
    BY <1>8 DEF IInv, RegisterInv, RegisterTypes, Starts
<1>13. AclMatchesApp'
    BY <1>2, <1>9 DEF IInv, RegisterInv, AclMatchesApp, TopicsOf
<1> QED
    BY <1>1, <1>11, <1>12, <1>13 DEF IInv, RegisterInv

LEMMA RegisterStarts ==
    ASSUME NEW t \in Threads, NEW a \in Apps, NEW evs \in SUBSET Events, IInv,
           RegisterDataApp(t, a, evs)
    PROVE  \E s \in Stores : /\ Starts(t, a, s) /\ s.app = a /\ s.pc = "deleted"
                             /\ s.events = evs /\ s.writes /\ s.found = TopicsOf(a)
<1>1. PICK s : s = [NoStore EXCEPT !.pc = "deleted", !.app = a, !.events = evs, !.writes = TRUE,
                                   !.found = Found(a)]
    OBVIOUS
<1>2. Starts(t, a, s)
    BY <1>1 DEF RegisterDataApp
<1>3. TopicsOf(a) \subseteq Apps \X Events
    BY DEF IInv, RegisterInv, RegisterTypes, TopicsOf
<1>4. /\ s \in Stores /\ s.app = a /\ s.pc = "deleted" /\ s.found = TopicsOf(a) /\ s.writes
      /\ s.events = evs
    BY <1>1, <1>3 DEF NoStore, Stores, Found
<1> QED
    BY <1>2, <1>4

LEMMA UpdateStarts ==
    ASSUME NEW t \in Threads, NEW a \in Apps, NEW evs \in SUBSET Events, IInv,
           UpdateDataApp(t, a, evs)
    PROVE  \E s \in Stores : /\ Starts(t, a, s) /\ s.app = a /\ s.pc = "read" /\ s.found = {}
                             /\ s.events = evs /\ s.writes = (evs # dataApps[a].events)
<1>1. PICK s : s = [NoStore EXCEPT !.pc = "read", !.app = a, !.events = evs,
                                   !.writes = evs # dataApps[a].events]
    OBVIOUS
<1>2. Starts(t, a, s)
    BY <1>1 DEF UpdateDataApp
<1>3. /\ s \in Stores /\ s.app = a /\ s.pc = "read" /\ s.found = {}
      /\ s.events = evs /\ s.writes = (evs # dataApps[a].events)
    BY <1>1 DEF NoStore, Stores
<1> QED
    BY <1>2, <1>3

LEMMA DataAppStartKeeps ==
    ASSUME NEW t \in Threads, NEW a \in Apps, NEW evs \in SUBSET Events, IInv,
           RegisterDataApp(t, a, evs) \/ UpdateDataApp(t, a, evs)
    PROVE  IInv'
<1>1. CASE RegisterDataApp(t, a, evs)
    BY <1>1, RegisterStarts, StartsKeeps
<1>2. CASE UpdateDataApp(t, a, evs)
  <2>1. PICK s \in Stores : /\ Starts(t, a, s) /\ s.app = a /\ s.pc = "read" /\ s.found = {}
                            /\ s.events = evs /\ s.writes = (evs # dataApps[a].events)
      BY <1>2, UpdateStarts
  <2>2. /\ s.pc # "idle" /\ s.pc # "deleted" /\ s.found \subseteq TopicsOf(a)
        /\ ~s.writes => s.events = dataApps[a].events
      BY <2>1
  <2> QED
      BY <2>1, <2>2, StartsKeeps
<1> QED
    BY <1>1, <1>2

LEMMA ReplaceTopicsKeeps ==
    ASSUME NEW t \in Threads, IInv, ReplaceTopics(t)
    PROVE  IInv'
<1>1. OnboardingInv'
    BY OnboardingKept DEF IInv, ReplaceTopics
<1>2. UNCHANGED <<apps, models, dataApps, acl, crossed>>
    BY DEF ReplaceTopics
<1>3. stores \in [Threads -> Stores]
    BY DEF IInv, RegisterInv, RegisterTypes
<1>4. /\ stores' \in [Threads -> Stores]
      /\ \A u \in Threads : u # t => stores'[u] = stores[u]
      /\ \/ stores'[t] = NoStore
         \/ stores'[t] = [stores[t] EXCEPT !.pc = "deleted", !.found = TopicsOf(stores[t].app)]
  <2>1. TopicsOf(stores[t].app) \subseteq Apps \X Events
      BY DEF IInv, RegisterInv, RegisterTypes, TopicsOf
  <2>2. PICK s : s = [stores[t] EXCEPT !.pc = "deleted", !.found = TopicsOf(stores[t].app)]
      OBVIOUS
  <2>3. s \in Stores
      BY <1>3, <2>1, <2>2 DEF Stores
  <2>4. stores' = [stores EXCEPT ![t] = NoStore] \/ stores' = [stores EXCEPT ![t] = s]
      BY <2>2 DEF ReplaceTopics, Found
  <2> QED
      BY <1>3, <2>2, <2>3, <2>4, NoStoreTyped
<1>5. CASE stores'[t] = NoStore
  <2>1. stores'[t].pc = "idle" /\ stores'[t].app \notin Apps /\ stores'[t].found = {}
      BY <1>5, AppsApart DEF NoStore
  <2>2. StoresOK'
      BY <1>2, <1>4, <2>1 DEF IInv, RegisterInv, StoresOK, TopicsOf
  <2> QED
      BY <1>1, <1>2, <1>4, <2>2 DEF IInv, RegisterInv, RegisterTypes, AclMatchesApp, TopicsOf
<1>6. CASE stores'[t] = [stores[t] EXCEPT !.pc = "deleted", !.found = TopicsOf(stores[t].app)]
  <2>1. /\ stores'[t].pc = "deleted" /\ stores'[t].app = stores[t].app
        /\ stores'[t].events = stores[t].events /\ stores'[t].writes = stores[t].writes
        /\ stores'[t].found = TopicsOf(stores[t].app) /\ stores'[t].alone = stores[t].alone
      BY <1>3, <1>6 DEF Stores
  <2>2. stores[t].pc = "read"
      BY DEF ReplaceTopics
  <2>3. StoresOK'
      BY <1>2, <1>4, <2>1, <2>2 DEF IInv, RegisterInv, StoresOK, TopicsOf
  <2> QED
      BY <1>1, <1>2, <1>4, <2>3 DEF IInv, RegisterInv, RegisterTypes, AclMatchesApp, TopicsOf
<1> QED
    BY <1>4, <1>5, <1>6

(* What a request that ends changes in the others.                         *)
LEMMA CommitFields ==
    ASSUME NEW t \in Threads, IInv, CommitDataApp(t)
    PROVE  /\ stores' \in [Threads -> Stores]
           /\ \A u \in Threads : u # t =>
                 /\ stores'[u].pc = stores[u].pc /\ stores'[u].app = stores[u].app
                 /\ stores'[u].events = stores[u].events /\ stores'[u].writes = stores[u].writes
                 /\ stores'[u].alone = stores[u].alone
                 /\ stores'[u].found = stores[u].found
                       \/ (~Conflicts(t) /\ stores'[u].found = stores[u].found \ stores[t].found)
           /\ stores'[t].pc = "idle" /\ stores'[t].app \notin Apps /\ stores'[t].found = {}
<1> DEFINE s == stores[t]
<1>1. stores \in [Threads -> Stores]
    BY DEF IInv, RegisterInv, RegisterTypes
<1>2. NoStore.pc = "idle" /\ NoStore.app \notin Apps /\ NoStore.found = {}
    BY AppsApart DEF NoStore
<1>3. CASE Conflicts(t)
  <2>1. stores' = [stores EXCEPT ![t] = NoStore]
      BY <1>3 DEF CommitDataApp
  <2> QED
      BY <1>1, <1>2, <2>1, NoStoreTyped
<1>4. CASE ~Conflicts(t)
  <2>1. stores' = [u \in Threads |-> IF u = t THEN NoStore
                                      ELSE [stores[u] EXCEPT !.found = @ \ s.found]]
      BY <1>4 DEF CommitDataApp
  <2>2. ASSUME NEW u \in Threads, u # t
        PROVE  /\ stores'[u] \in Stores
               /\ stores'[u].pc = stores[u].pc /\ stores'[u].app = stores[u].app
               /\ stores'[u].events = stores[u].events /\ stores'[u].writes = stores[u].writes
               /\ stores'[u].alone = stores[u].alone
               /\ stores'[u].found = stores[u].found \ s.found
    <3>1. stores'[u] = [stores[u] EXCEPT !.found = @ \ s.found]
        BY <2>1, <2>2
    <3>2. stores[u] \in Stores
        BY <1>1
    <3> HIDE DEF s
    <3> QED
        BY <3>1, <3>2 DEF Stores
  <2>3. stores'[t] = NoStore
      BY <2>1
  <2>4. stores' \in [Threads -> Stores]
      BY <2>1, <2>2, <2>3, NoStoreTyped
  <2> QED
      BY <1>2, <1>4, <2>2, <2>3, <2>4
<1> QED
    BY <1>3, <1>4

(* A request that was alone leaves exactly the topics of its events.       *)
LEMMA CommitDataAppKeeps ==
    ASSUME NEW t \in Threads, IInv, CommitDataApp(t)
    PROVE  IInv'
<1> DEFINE s == stores[t]
           new == Topics(s.app, s.events)
<1>1. OnboardingInv'
    BY OnboardingKept DEF IInv, CommitDataApp
<1>2. s \in Stores /\ s.pc = "deleted" /\ s.app \in Apps
    BY DEF IInv, RegisterInv, RegisterTypes, StoresOK, CommitDataApp
<1>3. /\ stores' \in [Threads -> Stores]
      /\ \A u \in Threads : u # t =>
            /\ stores'[u].pc = stores[u].pc /\ stores'[u].app = stores[u].app
            /\ stores'[u].events = stores[u].events /\ stores'[u].writes = stores[u].writes
            /\ stores'[u].alone = stores[u].alone
            /\ stores'[u].found = stores[u].found
                  \/ (~Conflicts(t) /\ stores'[u].found = stores[u].found \ s.found)
      /\ stores'[t].pc = "idle" /\ stores'[t].app \notin Apps /\ stores'[t].found = {}
    BY CommitFields
<1>4. \A row \in new : row[1] = s.app
    BY DEF Topics
<1>5. \A row \in s.found : row[1] = s.app
    BY DEF IInv, RegisterInv, StoresOK
<1>6. UNCHANGED <<apps, models>>
    BY DEF CommitDataApp
<1>7. CASE Conflicts(t)
  <2>0. /\ UNCHANGED <<dataApps, acl, crossed>>
        /\ \A u \in Threads : u # t => stores'[u].found = stores[u].found
      BY <1>3, <1>7 DEF CommitDataApp
  <2>1. StoresOK'
      BY <1>3, <2>0 DEF IInv, RegisterInv, StoresOK, TopicsOf
  <2> QED
      BY <1>1, <1>3, <1>6, <2>0, <2>1 DEF IInv, RegisterInv, RegisterTypes, AclMatchesApp, TopicsOf
<1>8. CASE ~Conflicts(t)
  <2>1. /\ acl' = (acl \ s.found) \cup new
        /\ dataApps' = IF s.writes
                       THEN [dataApps EXCEPT ![s.app] = [registered |-> TRUE, events |-> s.events]]
                       ELSE dataApps
        /\ crossed' = IF s.alone THEN crossed \ {s.app} ELSE crossed
      BY <1>8 DEF CommitDataApp
  <2>2. \A a \in Apps \ {s.app} : {row \in acl' : row[1] = a} = TopicsOf(a)
      BY <1>4, <1>5, <2>1 DEF TopicsOf
  <2>3. \A a \in Apps \ {s.app} : dataApps'[a] = dataApps[a]
      BY <2>1 DEF IInv, RegisterInv, RegisterTypes
  <2>4. new \subseteq Apps \X Events
      BY <1>2 DEF Topics, Stores
  <2>5. RegisterTypes'
    <3>1. [registered |-> TRUE, events |-> s.events]
             \in [registered : BOOLEAN, events : SUBSET Events]
        BY <1>2 DEF Stores
    <3> QED
        BY <1>2, <1>3, <1>6, <2>1, <2>4, <3>1 DEF IInv, RegisterInv, RegisterTypes
  <2>6. \A u \in Threads : u # t /\ stores[u].app = s.app => ~stores[u].alone
      BY <1>2 DEF IInv, RegisterInv, StoresOK
  <2>7. s.alone => \A u \in Threads : u # t => stores[u].app # s.app
      BY <1>2 DEF IInv, RegisterInv, StoresOK
  <2>8. StoresOK'
    <3>1. \A u \in Threads : stores'[u].pc # "idle" => stores'[u].app \in Apps
        BY <1>3 DEF IInv, RegisterInv, StoresOK
    <3>2. \A u, v \in Threads : u # v /\ stores'[u].app \in Apps /\ stores'[u].app = stores'[v].app
                                  => ~stores'[u].alone
        BY <1>3 DEF IInv, RegisterInv, StoresOK
    <3>3. \A u \in Threads : stores'[u].app \in Apps /\ ~stores'[u].alone
                                => stores'[u].app \in crossed'
        BY <1>3, <2>1, <2>7 DEF IInv, RegisterInv, StoresOK
    <3>4. \A u \in Threads : \A row \in stores'[u].found : row[1] = stores'[u].app
        BY <1>3 DEF IInv, RegisterInv, StoresOK
    <3>5. \A u \in Threads : stores'[u].pc = "deleted" /\ stores'[u].alone
             => stores'[u].found = {row \in acl' : row[1] = stores'[u].app}
      <4> SUFFICES ASSUME NEW u \in Threads, stores'[u].pc = "deleted", stores'[u].alone
                   PROVE  stores'[u].found = {row \in acl' : row[1] = stores'[u].app}
          OBVIOUS
      <4>1. u # t /\ stores[u].pc = "deleted" /\ stores[u].alone
          BY <1>3
      <4>2. stores[u].app \in Apps \ {s.app} /\ stores'[u].app = stores[u].app
          BY <1>3, <2>6, <3>1, <4>1
      <4>3. stores[u].found = TopicsOf(stores[u].app)
          BY <4>1 DEF IInv, RegisterInv, StoresOK
      <4>4. \A row \in stores[u].found : row[1] # s.app
          BY <4>2, <4>3 DEF TopicsOf
      <4>5. stores'[u].found = stores[u].found
          BY <1>3, <1>5, <4>1, <4>4
      <4> QED
          BY <2>2, <4>2, <4>3, <4>5
    <3>6. \A u \in Threads :
             /\ stores'[u].pc # "idle" /\ stores'[u].alone /\ ~stores'[u].writes
             /\ dataApps'[stores'[u].app].registered
             => stores'[u].events = dataApps'[stores'[u].app].events
        BY <1>3, <2>3, <2>6, <3>1 DEF IInv, RegisterInv, StoresOK
    <3> QED
        BY <3>1, <3>2, <3>3, <3>4, <3>5, <3>6 DEF StoresOK, TopicsOf
  <2>9. AclMatchesApp'
    <3> SUFFICES ASSUME NEW a \in Apps, dataApps'[a].registered, a \notin crossed'
                 PROVE  {row \in acl' : row[1] = a} = Topics(a, dataApps'[a].events)
        BY DEF AclMatchesApp, TopicsOf
    <3>1. CASE a # s.app
        BY <3>1, <2>1, <2>2, <2>3 DEF IInv, RegisterInv, AclMatchesApp
    <3>2. CASE a = s.app
      <4>1. s.alone
          BY <1>2, <2>1, <3>2 DEF IInv, RegisterInv, StoresOK
      <4>2. s.found = TopicsOf(s.app)
          BY <1>2, <4>1 DEF IInv, RegisterInv, StoresOK
      <4>3. {row \in acl' : row[1] = a} = new
          BY <1>4, <2>1, <3>2, <4>2 DEF TopicsOf
      <4>4. dataApps'[a].events = s.events
        <5>1. CASE s.writes
            BY <5>1, <2>1, <3>2, <1>2 DEF IInv, RegisterInv, RegisterTypes
        <5>2. CASE ~s.writes
            BY <5>2, <2>1, <3>2, <4>1, <1>2 DEF IInv, RegisterInv, StoresOK
        <5> QED
            BY <5>1, <5>2
      <4> QED
          BY <3>2, <4>3, <4>4
    <3> QED
        BY <3>1, <3>2
  <2> QED
      BY <1>1, <2>5, <2>8, <2>9 DEF IInv, RegisterInv
<1> QED
    BY <1>7, <1>8

LEMMA DeleteDataAppKeeps ==
    ASSUME NEW a \in Apps, IInv, DeleteDataApp(a)
    PROVE  IInv'
<1>1. OnboardingInv'
    BY OnboardingKept DEF IInv, DeleteDataApp
<1>2. UNCHANGED <<apps, models, acl, stores, crossed>>
    BY DEF DeleteDataApp
<1>3. /\ dataApps' \in [Apps -> [registered : BOOLEAN, events : SUBSET Events]]
      /\ \A c \in Apps : dataApps'[c].registered => dataApps'[c] = dataApps[c]
    BY DEF IInv, RegisterInv, RegisterTypes, DeleteDataApp, NotRegistered
<1>4. StoresOK'
    BY <1>2, <1>3 DEF IInv, RegisterInv, StoresOK, TopicsOf
<1> QED
    BY <1>1, <1>2, <1>3, <1>4 DEF IInv, RegisterInv, RegisterTypes, AclMatchesApp, TopicsOf

LEMMA CrashAllKeeps ==
    ASSUME IInv, CrashAll
    PROVE  IInv'
<1>1. OnboardingInv'
    BY CrashKeeps DEF IInv, CrashAll
<1>2. UNCHANGED <<apps, models, dataApps, acl, crossed>> /\ stores' = [t \in Threads |-> NoStore]
    BY DEF CrashAll
<1>3. \A t \in Threads :
         stores'[t].pc = "idle" /\ stores'[t].app \notin Apps /\ stores'[t].found = {}
    BY <1>2, AppsApart DEF NoStore
<1>4. StoresOK'
    BY <1>3 DEF StoresOK
<1> QED
    BY <1>1, <1>2, <1>4, NoStoreTyped DEF IInv, RegisterInv, RegisterTypes, AclMatchesApp, TopicsOf

-----------------------------------------------------------------------------
LEMMA InitIInv == InitAll => IInv
<1> SUFFICES ASSUME InitAll PROVE IInv
    OBVIOUS
<1>1. OnboardingTypes
  <2>1. dirty \in Sessions /\ req \in Requested
      BY IdleRequested DEF InitAll, Init, Sessions, Clean, NoRows
  <2>2. faults \in 0..MaxFaults
      BY FaultsBound DEF InitAll, Init
  <2> QED
      BY <2>1, <2>2 DEF InitAll, Init, OnboardingTypes, NoRows
<1>2. RequestOK /\ PendingOK /\ SessionOK /\ GoneOK /\ DeletionOK
    BY DEF InitAll, Init, RequestOK, PendingOK, SessionOK, GoneOK, DeletionOK, Deleting, Idle,
       Clean, NoRows
<1>3. SeenUnique /\ SeenInIse
    BY DEF InitAll, Init, SeenUnique, SeenInIse, MabSeen, Overlaid, Clean, NoRows
<1>4. NoDanglingRow
    BY DEF InitAll, Init, NoDanglingRow, NoRows
<1>5. RegisterTypes
    BY NoStoreTyped DEF InitAll, RegisterTypes, NoModel, NotRegistered
<1>6. StoresOK
    BY AppsApart DEF InitAll, StoresOK, NoStore
<1>7. AclMatchesApp
    BY DEF InitAll, AclMatchesApp, NotRegistered
<1> QED
    BY <1>1, <1>2, <1>3, <1>4, <1>5, <1>6, <1>7 DEF IInv, OnboardingInv, RegisterInv

LEMMA OnboardingKeeps ==
    ASSUME OnboardingInv, OnboardingNext
    PROVE  OnboardingInv'
<1>1. CASE Request
    BY <1>1, CreateDeviceKeeps, UpdateDeviceKeeps, DeleteDeviceKeeps, StartBulkKeeps, EndBulkKeeps
       DEF Request
<1>2. CASE Step
    BY <1>2, IseCreatedKeeps, CommittedKeeps, RefusedKeeps, DeleteBleKeeps, DeleteInIseKeeps,
       NotInIseKeeps, DeleteMabKeeps, DeleteFdoKeeps, DeleteRowKeeps DEF Step
<1>3. CASE IseFails
    BY <1>3, IseFailsKeeps
<1> QED
    BY <1>1, <1>2, <1>3 DEF OnboardingNext

LEMMA EventsKeep ==
    ASSUME NEW d \in Devices, NEW e \in Events, IInv, EnableEvent(d, e) \/ DisableEvent(d, e)
    PROVE  IInv'
<1>1. UNCHANGED registerVars
    BY DEF EnableEvent, DisableEvent
<1> QED
    BY <1>1, EnableEventKeeps, DisableEventKeeps, RegisterKept DEF IInv

LEMMA RegisterKeeps ==
    ASSUME IInv, Register
    PROVE  IInv'
<1>1. CASE \E a \in Apps : CreateEndpoint(a) \/ DeleteDataApp(a)
    BY <1>1, CreateEndpointKeeps, DeleteDataAppKeeps
<1>2. CASE \E t \in Threads, a \in Apps, evs \in SUBSET Events :
             RegisterDataApp(t, a, evs) \/ UpdateDataApp(t, a, evs)
    BY <1>2, DataAppStartKeeps
<1>3. CASE \E t \in Threads : ReplaceTopics(t) \/ CommitDataApp(t)
    BY <1>3, ReplaceTopicsKeeps, CommitDataAppKeeps
<1>4. CASE \E n \in Models, doc \in Documents : RegisterSdfModel(n, doc) \/ UpdateSdfModel(n, doc)
    BY <1>4, SdfModelKeeps
<1>5. CASE \E n \in Models : DeleteSdfModel(n)
  <2>1. [namespace |-> TRUE, defines |-> {}] \in Documents
      BY DEF Documents
  <2> QED
      BY <1>5, <2>1, SdfModelKeeps
<1>6. CASE \E d \in Devices, e \in Events : EnableEvent(d, e) \/ DisableEvent(d, e)
    BY <1>6, EventsKeep
<1> QED
    BY <1>1, <1>2, <1>3, <1>4, <1>5, <1>6 DEF Register

LEMMA NextKeeps == IInv /\ [Next]_vars => IInv'
<1> SUFFICES ASSUME IInv, [Next]_vars PROVE IInv'
    OBVIOUS
<1>1. CASE OnboardingNext /\ UNCHANGED registerVars
    BY <1>1, OnboardingKeeps, RegisterKept DEF IInv
<1>2. CASE Register
    BY <1>2, RegisterKeeps
<1>3. CASE CrashAll
    BY <1>3, CrashAllKeeps
<1>4. CASE UNCHANGED vars
  <2>1. UNCHANGED <<onboardVars, events>> /\ UNCHANGED registerVars
      BY <1>4 DEF vars
  <2> QED
      BY <2>1, OnboardingKept, RegisterKept DEF IInv
<1> QED
    BY <1>1, <1>2, <1>3, <1>4 DEF Next

LEMMA Typed == IInv => TypeOK
    BY DEF IInv, OnboardingInv, RegisterInv, OnboardingTypes, RegisterTypes, Requested, Sessions,
       Stores, TypeOK

(* The inductive invariant holds of every behaviour.                       *)
THEOREM Inductive == Spec => []IInv
    BY InitIInv, NextKeeps, PTL DEF Spec

(* The tables, the session and the requests in progress keep their types.  *)
THEOREM TypeCorrect == Spec => []TypeOK
    BY Typed, Inductive, PTL

(* No extension row and no enabled event outlives its device or its id     *)
(* (the commits of delete_device, the new id of update_device).            *)
THEOREM RowsBelongToDevices == Spec => []NoDanglingRow
<1>1. IInv => NoDanglingRow
    BY DEF IInv, OnboardingInv
<1> QED
    BY <1>1, Inductive, PTL

(* A committed row is seen by the session as it is: an assigned address    *)
(* never hides a committed one.                                            *)
LEMMA CommittedIsSeen ==
    ASSUME OnboardingInv, NEW d \in Devices, mab[d] # NoMac
    PROVE  MabSeen[d] = mab[d]
    BY DEF OnboardingInv, SessionOK, MabSeen, Overlaid

(* An Ethernet device with a row is known to ISE, unless a DELETE was cut  *)
(* between ISE and the commit (ethermab_delete_device).                    *)
THEOREM EndpointsKnown == Spec => []MabInIse
<1>1. IInv => MabInIse
    BY CommittedIsSeen DEF IInv, OnboardingInv, SeenInIse, MabInIse
<1> QED
    BY <1>1, Inductive, PTL

(* The access list of the broker is that of the registered data apps, but  *)
(* for those whose topics two requests replaced at the same time           *)
(* (register_data_app, update_data_app, delete_data_app).                  *)
THEOREM AccessListExact == Spec => []AclMatchesApp
<1>1. IInv => AclMatchesApp
    BY DEF IInv, RegisterInv
<1> QED
    BY <1>1, Inductive, PTL

(* Outside /Bulk a transaction writes the rows of its own device only.     *)
THEOREM NoLeftoversCommitted == Spec => OwnRowsOnly
<1>1. ASSUME IInv, [Next]_vars, ~bulk, NEW d \in Devices,
             <<ble'[d], mab'[d]>> # <<ble[d], mab[d]>>
      PROVE  d = req.dev
  <2>1. SUFFICES ASSUME d # req.dev
                 PROVE  FALSE
        OBVIOUS
  <2>2. dirty.ble[d] = NoMac /\ dirty.mab[d] = NoMac
        BY <1>1, <2>1 DEF IInv, OnboardingInv, SessionOK
  <2>3. BleSeen[d] = ble[d] /\ MabSeen[d] = mab[d]
        BY <2>2 DEF BleSeen, MabSeen, Overlaid
  <2>4. ~UNCHANGED <<ble, mab>>
        BY <1>1
  <2>5. Committed \/ DeleteBle \/ DeleteMab \/ DeleteFdo \/ DeleteRow
        BY <1>1, <2>4
           DEF Next, vars, onboardVars, rows, OnboardingNext, Request, Step, Register, CreateDevice,
               UpdateDevice, DeleteDevice, StartBulk, EndBulk, IseCreated, Refused, DeleteInIse,
               NotInIse, IseFails, Crash, CrashAll, CreateEndpoint, RegisterSdfModel, UpdateSdfModel,
               DeleteSdfModel, RegisterDataApp, UpdateDataApp, Starts, ReplaceTopics,
               CommitDataApp, DeleteDataApp,
               EnableEvent, DisableEvent
  <2>6. ble'[d] = ble[d] /\ mab'[d] = mab[d]
    <3>1. \/ UNCHANGED <<ble, mab>>
          \/ ble' = BleSeen /\ mab' = MabSeen
          \/ \E m, n : ble' = [BleSeen EXCEPT ![req.dev] = m] /\ mab' = MabSeen
          \/ \E m, n : ble' = BleSeen /\ mab' = [MabSeen EXCEPT ![req.dev] = n]
          \/ \E m, n : /\ ble' = [BleSeen EXCEPT ![req.dev] = m]
                       /\ mab' = [MabSeen EXCEPT ![req.dev] = n]
        BY <2>5 DEF Committed, DeleteBle, DeleteMab, DeleteFdo, DeleteRow, Commits
    <3> QED
        BY <2>1, <2>3, <3>1 DEF BleSeen, MabSeen, Overlaid
  <2> QED
      BY <1>1, <2>6
<1>2. IInv /\ [Next]_vars
        => (~bulk => \A d \in Devices : <<ble'[d], mab'[d]>> # <<ble[d], mab[d]>> => d = req.dev)
    BY <1>1
<1> QED
    BY <1>2, Inductive, PTL DEF Spec, OwnRowsOnly

=============================================================================
