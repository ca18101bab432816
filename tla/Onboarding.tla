----------------------------- MODULE Onboarding -----------------------------
(***************************************************************************)
(* SCIM onboarding (gateway/scim.py and its extensions scim_ble.py,        *)
(* scim_ethermab.py and scim_fdo.py): the rows a device has in the         *)
(* database, and the endpoint an Ethernet device has in Cisco ISE.         *)
(*                                                                         *)
(* A request for devices is cut wherever it commits or calls ISE.  One     *)
(* such request runs at a time (two at once may both find an address       *)
(* unused, scim_ethermab.py:107); requests for other tables come between   *)
(* its steps (module Registrations).  Requests refused before they have    *)
(* any effect are left out, and so are the columns that only travel        *)
(* through: names, keys, pairing data.  BLE, MAB and FDO are enabled, and  *)
(* ISE_SUPPORT is on.                                                      *)
(*                                                                         *)
(* An error of ISE, an answer of ISE that is lost and a crash of the       *)
(* gateway each use up one of MaxFaults.                                   *)
(***************************************************************************)
EXTENDS Naturals

CONSTANTS
    Devices,    \* device ids; an id is used again once its row is gone
    NoDevice,
    BleMacs,    \* addresses of BLE devices
    MabMacs,    \* addresses of Ethernet devices
    NoMac,
    Events,     \* names of events (SDF references)
    MaxFaults   \* bound: faults of ISE and of the process

ASSUME NamesApart == NoDevice \notin Devices /\ NoMac \notin BleMacs \cup MabMacs
ASSUME FaultsBound == MaxFaults \in Nat

VARIABLES
    devices,  \* table devices
    ble,      \* table bledevices: the address, or NoMac without a row
    mab,      \* table ethernetmab
    fdo,      \* table scim_fdo
    events,   \* table event: the device an event is enabled for
    ise,      \* the endpoints ISE knows
    req,      \* the request for devices in progress
    dirty,    \* what its session has assigned and not committed: the addresses of
              \* devices, and the ids of devices that a PUT has given another id
    bulk,     \* the request is an operation of a /Bulk request
    torn,     \* history: devices whose DELETE was cut between ISE and the commit
    faults    \* faults left

onboardVars == <<devices, ble, mab, fdo, ise, req, dirty, bulk, torn, faults>>

rows == <<devices, ble, mab, fdo>>

-----------------------------------------------------------------------------
Idle == [pc |-> "idle", dev |-> NoDevice, new |-> FALSE,
         ble |-> NoMac, mab |-> NoMac, fdo |-> FALSE]

(* A request body: the id, and the extensions it carries.                  *)
Bodies == [id : Devices \cup {NoDevice}, ble : BleMacs \cup {NoMac}, mab : MabMacs \cup {NoMac},
           fdo : BOOLEAN]

NoRows == [d \in Devices |-> NoMac]

Clean == [ble |-> NoRows, mab |-> NoRows, gone |-> {}, came |-> {}]

Init ==
    /\ devices = {}
    /\ ble = NoRows
    /\ mab = NoRows
    /\ fdo = {}
    /\ events = [e \in Events |-> NoDevice]
    /\ ise = {}
    /\ req = Idle
    /\ dirty = Clean
    /\ bulk = FALSE
    /\ torn = {}
    /\ faults = MaxFaults

(* The tables as the session of the request sees and commits them.        *)
Overlaid(table, assigned) ==
    [d \in Devices |-> IF assigned[d] # NoMac THEN assigned[d] ELSE table[d]]

BleSeen == Overlaid(ble, dirty.ble)

MabSeen == Overlaid(mab, dirty.mab)

DevicesSeen == (devices \ dirty.gone) \cup dirty.came

Commits == devices' = DevicesSeen /\ ble' = BleSeen /\ mab' = MabSeen /\ dirty' = Clean

(* The address is in no row of the table, or none is given.                *)
Unused(m, table) == m # NoMac => \A d \in Devices : table[d] # m

(* The foreign key of an enabled event keeps the row of its device.  A     *)
(* slip: there is none.                                                    *)
ReferencedNever(d) == FALSE

Referenced(d) == \E e \in Events : events[e] = d

(* The handler answers an error.  The session, and with it the assignments *)
(* s, is rolled back when the request ends: the operations of a /Bulk      *)
(* request share one session, and it goes on after an error.  A slip:      *)
(* nothing is rolled back.                                                 *)
FailsDirty(s) ==
    /\ req' = Idle
    /\ dirty' = s
    /\ UNCHANGED bulk

Fails(s) ==
    /\ req' = Idle
    /\ dirty' = IF bulk THEN s ELSE Clean
    /\ UNCHANGED bulk

(* The request is over: an answer with a body but no "status" ends a /Bulk *)
(* request with a KeyError, and so does an exception nobody catches.  An   *)
(* error of the database has the session refuse whatever comes after it.   *)
Ends ==
    /\ req' = Idle
    /\ dirty' = Clean
    /\ bulk' = FALSE

Goes(pc) == req' = [req EXCEPT !.pc = pc] /\ UNCHANGED bulk

-----------------------------------------------------------------------------
(* POST /Devices.  The extensions are created in order: BLE, MAB with its  *)
(* endpoint in ISE, FDO.                                                   *)

(* The request goes on with the first call of the body that leaves the     *)
(* process.  A slip: the id of the new device is lost.                     *)
PreparedNoId(d, new, b) ==
    req' = [pc |-> IF b.mab # NoMac THEN "ise" ELSE "commit", dev |-> NoDevice, new |-> new,
            ble |-> b.ble, mab |-> b.mab, fdo |-> b.fdo]

Prepared(d, new, b) ==
    req' = [pc |-> IF b.mab # NoMac THEN "ise" ELSE "commit", dev |-> d, new |-> new,
            ble |-> b.ble, mab |-> b.mab, fdo |-> b.fdo]

(* ble_create_device: an address in use raises DeviceExists.               *)
BleCreatable(m) == Unused(m, BleSeen)

CreateDevice(d, b) ==
    /\ req = Idle
    /\ b.id = NoDevice
    /\ d \notin devices \cup dirty.came
    /\ BleCreatable(b.ble)
    /\ Unused(b.mab, MabSeen)
    /\ Prepared(d, TRUE, b)
    /\ UNCHANGED <<rows, events, ise, dirty, bulk, torn, faults>>

(* get_endpoint_by_name, and create_endpoint when it is not there.  The    *)
(* row of an existing device is in the session from here on.  A slip: an   *)
(* endpoint that is not found is taken for one that is.                    *)
MabAssigned ==
    dirty' = IF req.new THEN dirty ELSE [dirty EXCEPT !.mab[req.dev] = req.mab]

IseCreatedNot ==
    /\ req.pc = "ise"
    /\ MabAssigned
    /\ Goes("commit")
    /\ UNCHANGED <<rows, events, ise, torn, faults>>

IseCreated ==
    /\ req.pc = "ise"
    /\ ise' = ise \cup {req.mab}
    /\ MabAssigned
    /\ Goes("commit")
    /\ UNCHANGED <<rows, events, torn, faults>>

(* fdo_create_device, and fdo_update_device of a row that exists, where    *)
(* request[fschema] raises a TypeError.                                    *)
FdoCreated == IF req.fdo THEN fdo \cup {req.dev} ELSE fdo

FdoRaises == req.fdo /\ req.dev \in fdo

(* The transaction of a POST or PUT.                                       *)
Committed ==
    /\ req.pc = "commit"
    /\ ~FdoRaises
    /\ devices' = DevicesSeen \cup {req.dev}
    /\ ble' = IF req.new THEN [BleSeen EXCEPT ![req.dev] = req.ble] ELSE BleSeen
    /\ mab' = IF req.new THEN [MabSeen EXCEPT ![req.dev] = req.mab] ELSE MabSeen
    /\ fdo' = FdoCreated
    /\ Ends
    /\ UNCHANGED <<events, ise, torn, faults>>

(* A schema that is left over (SchemaError), a voucher the FDO owner       *)
(* refuses (FDONotSupported) or that cannot be updated: found after the    *)
(* call to ISE, whose endpoint stays.                                      *)
Refused ==
    /\ req.pc = "commit"
    /\ req.new \/ req.fdo
    /\ Fails(dirty)
    /\ UNCHANGED <<rows, events, ise, torn, faults>>

-----------------------------------------------------------------------------
(* PUT /Devices/<id>.  The id of the body replaces that of the device, and *)
(* the rows of the extensions are looked up under it.  The first look-up   *)
(* flushes the new id: the database refuses one that is taken, and any     *)
(* change once a row of an extension, an event or an endpoint app refers   *)
(* to the device.  A body without id raises, and so does the next flush.   *)

IdRefused(d, i) ==
    /\ i # d
    /\ \/ i \in DevicesSeen \cup {NoDevice}
       \/ BleSeen[d] # NoMac \/ MabSeen[d] # NoMac \/ d \in fdo
       \/ Referenced(d)

IdAssigned(d, i) ==
    IF i = d THEN dirty
    ELSE [dirty EXCEPT !.gone = (@ \cup {d}) \ {i}, !.came = (@ \cup {i}) \ {d}]

(* ble_update_device: the body must carry a BLE object.  A missing row is  *)
(* created with its checks; the address of an existing one is assigned as  *)
(* it is.                                                                  *)
BleRaises(i, m) == m = NoMac \/ (BleSeen[i] = NoMac /\ ~BleCreatable(m))

BleAssigned(d, i, m) == [IdAssigned(d, i) EXCEPT !.ble[i] = m]

(* ethermab_update_device: a row that exists cannot be updated, because    *)
(* request[ethschema] raises a TypeError.                                  *)
MabRaises(i, m) == m # NoMac /\ (MabSeen[i] # NoMac \/ ~Unused(m, MabSeen))

(* A missing pairing object raises once the address is assigned, and a     *)
(* missing list of schemas in the extension that comes next.               *)
UpdateDevice(d, b) ==
    /\ req = Idle
    /\ d \in DevicesSeen
    /\ \/ /\ b.id # d
          /\ Ends
       \/ /\ ~IdRefused(d, b.id)
          /\ BleRaises(b.id, b.ble)
          /\ Fails(IdAssigned(d, b.id))
       \/ /\ ~IdRefused(d, b.id)
          /\ ~BleRaises(b.id, b.ble)
          /\ Fails(BleAssigned(d, b.id, b.ble))
       \/ /\ ~IdRefused(d, b.id)
          /\ ~BleRaises(b.id, b.ble)
          /\ ~MabRaises(b.id, b.mab)
          /\ dirty' = BleAssigned(d, b.id, b.ble)
          /\ Prepared(b.id, FALSE, b)
          /\ UNCHANGED bulk
    /\ UNCHANGED <<rows, events, ise, torn, faults>>

-----------------------------------------------------------------------------
(* DELETE /Devices/<id>.  The extensions are deleted one by one, each with *)
(* a commit of its own; an error ends the request with what is done.       *)

DeleteDevice(d) ==
    /\ req = Idle
    /\ d \in DevicesSeen
    /\ req' = [Idle EXCEPT !.pc = "del_ble", !.dev = d]
    /\ UNCHANGED <<rows, events, ise, dirty, bulk, torn, faults>>

DeleteBle ==
    /\ req.pc = "del_ble"
    /\ Goes(IF MabSeen[req.dev] # NoMac THEN "del_ise" ELSE "del_fdo")
    /\ IF BleSeen[req.dev] # NoMac
       THEN /\ devices' = DevicesSeen
            /\ ble' = [BleSeen EXCEPT ![req.dev] = NoMac]
            /\ mab' = MabSeen
            /\ dirty' = Clean
       ELSE UNCHANGED <<devices, ble, mab, dirty>>
    /\ UNCHANGED <<fdo, events, ise, torn, faults>>

DeleteInIse ==
    /\ req.pc = "del_ise"
    /\ mab[req.dev] \in ise
    /\ ise' = ise \ {mab[req.dev]}
    /\ Goes("del_mab")
    /\ UNCHANGED <<rows, events, dirty, torn, faults>>

(* 404: endpoint is unbound, and reading it raises.                        *)
NotInIse ==
    /\ req.pc = "del_ise"
    /\ mab[req.dev] \notin ise
    /\ Fails(dirty)
    /\ UNCHANGED <<rows, events, ise, torn, faults>>

DeleteMab ==
    /\ req.pc = "del_mab"
    /\ devices' = DevicesSeen
    /\ mab' = [MabSeen EXCEPT ![req.dev] = NoMac]
    /\ ble' = BleSeen
    /\ dirty' = Clean
    /\ Goes("del_fdo")
    /\ UNCHANGED <<fdo, events, ise, torn, faults>>

DeleteFdo ==
    /\ req.pc = "del_fdo"
    /\ fdo' = fdo \ {req.dev}
    /\ IF req.dev \in fdo THEN Commits ELSE UNCHANGED <<devices, ble, mab, dirty>>
    /\ Goes("del_row")
    /\ UNCHANGED <<events, ise, torn, faults>>

(* The IntegrityError is not caught.  A slip: the row is never deleted.    *)
DeleteRowKept ==
    /\ req.pc = "del_row"
    /\ Ends
    /\ UNCHANGED <<rows, events, ise, torn, faults>>

DeleteRow ==
    /\ req.pc = "del_row"
    /\ IF Referenced(req.dev)
       THEN Ends /\ UNCHANGED <<devices, ble, mab>>
       ELSE /\ devices' = DevicesSeen \ {req.dev}
            /\ ble' = BleSeen
            /\ mab' = MabSeen
            /\ dirty' = Clean
            /\ req' = Idle
            /\ UNCHANGED bulk
    /\ UNCHANGED <<fdo, events, ise, torn, faults>>

-----------------------------------------------------------------------------
(* /Bulk: operations one after the other in one session.                   *)

StartBulk ==
    /\ req = Idle
    /\ ~bulk
    /\ bulk' = TRUE
    /\ UNCHANGED <<rows, events, ise, req, dirty, torn, faults>>

EndBulk ==
    /\ req = Idle
    /\ bulk
    /\ Ends
    /\ UNCHANGED <<rows, events, ise, torn, faults>>

-----------------------------------------------------------------------------
(* Faults *)

Fault == faults > 0 /\ faults' = faults - 1

(* ISE answers an error, or its answer is lost after it did what was asked.*)
IseFails ==
    /\ req.pc \in {"ise", "del_ise"}
    /\ Fault
    /\ Fails(dirty)
    /\ \/ UNCHANGED <<ise, torn>>
       \/ /\ req.pc = "ise"
          /\ ise' = ise \cup {req.mab}
          /\ UNCHANGED torn
       \/ /\ req.pc = "del_ise"
          /\ mab[req.dev] \in ise
          /\ ise' = ise \ {mab[req.dev]}
          /\ torn' = torn \cup {req.dev}
    /\ UNCHANGED <<rows, events>>

Crash ==
    /\ Fault
    /\ Ends
    /\ torn' = IF req.pc = "del_mab" THEN torn \cup {req.dev} ELSE torn
    /\ UNCHANGED <<rows, events, ise>>

-----------------------------------------------------------------------------
Step == \/ IseCreated \/ Committed \/ Refused
        \/ DeleteBle \/ DeleteInIse \/ NotInIse \/ DeleteMab \/ DeleteFdo \/ DeleteRow

Request ==
    \/ \E d \in Devices, b \in Bodies : CreateDevice(d, b) \/ UpdateDevice(d, b)
    \/ \E d \in Devices : DeleteDevice(d)
    \/ StartBulk \/ EndBulk

OnboardingNext == Request \/ Step \/ IseFails
=============================================================================
