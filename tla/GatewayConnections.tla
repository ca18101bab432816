------------------------- MODULE GatewayConnections -------------------------
(***************************************************************************)
(* The connections a gateway keeps through its Raspberry Pis: the handlers *)
(* of gateway/control.py that connect, discover, read, write or            *)
(* disconnect, and the methods of gateway/grpc_access_point.py they call.  *)
(*                                                                         *)
(* Flask serves every request in a thread of its own and nothing is        *)
(* locked, so a handler is cut at every call to a Pi: a step sends the     *)
(* call, another goes on with its outcome.  What a handler knows of a      *)
(* connection is conn_reqs, written when a discovery returns and popped    *)
(* when a disconnect returns or the Pi reports a lost link.                *)
(*                                                                         *)
(* The Pi and its dongle are reduced to what ZephyrSerial and              *)
(* ZephyrFirmware say of them: commands are executed one at a time, in the *)
(* order they were written, those of a caller that gave up included; a     *)
(* failed attempt of Connect or Discover is written again at the end.  An  *)
(* established link can always be closed.                                  *)
(*                                                                         *)
(* Every fault of the environment (a deadline passed, a link lost, a Pi    *)
(* that cannot be reached, a broken event stream, a restart of the         *)
(* gateway) uses up one of MaxFaults.  Requests that are refused without   *)
(* any effect are left out: those of an unknown device or of one no Pi is  *)
(* mapped to, malformed ones, and the GET of a connection, which only      *)
(* reads conn_reqs.                                                        *)
(***************************************************************************)
EXTENDS Integers, Sequences, FiniteSets, SequencesExt

CONSTANTS
    Macs,        \* the devices
    Threads,     \* requests served at the same time
    NoThread,    \* the caller of a command nobody waits for
    Ops,         \* the requests clients make: a subset of AllOps
    Properties,  \* most properties one READ or WRITE names
    QueueSize,   \* maxsize of the Pi's conn_event_queue
    Retries,     \* retries of a ConnectRequest or DiscoverRequest
    Faults,      \* the kinds of fault that happen: a subset of AllFaults
    MaxFaults    \* bound: how many

(* POST, PUT and DELETE on .../connections; GET and PUT on .../properties; *)
(* the direct access of /extensions.                                       *)
AllOps == {"CONNECT", "UPDATE", "DISCONNECT", "READ", "WRITE", "DIRECT"}

AllFaults == {"deadline", "loss", "unreachable", "stream", "restart"}

ASSUME ThreadAssumption == NoThread \notin Threads
ASSUME OpsKnown == Ops \subseteq AllOps
ASSUME FaultsKnown == Faults \subseteq AllFaults
ASSUME BoundsAssumption ==
    /\ Retries \in Nat
    /\ Properties \in Nat
    /\ QueueSize \in Nat
    /\ MaxFaults \in Nat

VARIABLES
    connReqs,   \* keys of AccessPoint.conn_reqs
    th,         \* the request each thread serves
    orders,     \* commands written to the dongle and not yet executed
    link,       \* the dongle: "up" or "down" for every device
    events,     \* ConnectionEvents on their way to the gateway
    streaming,  \* the stream of these events is open
    granted,    \* history: devices whose CONNECT was answered 200 with the link
                \* up, and which were neither lost nor asked to be connected or
                \* disconnected since
    strays,     \* history: devices whose link a handler may have left up: it
                \* ended without the disconnect of its implicit connection,
                \* its disconnect never reached the Pi, or it was restarted
    crossed,    \* history: devices for which two requests that connect or
                \* disconnect were served at the same time
    faults      \* faults left

vars == <<connReqs, th, orders, link, events, streaming, granted, strays, crossed,
          faults>>

piVars == <<orders, link, events, streaming>>

-----------------------------------------------------------------------------
Idle == [pc |-> "idle", op |-> "none", mac |-> "none", ans |-> "none",
         implicit |-> FALSE, left |-> 0]

PiCommands == {"CONNECT", "DISCOVER", "ACCESS", "DISCONNECT"}

(* An update asks for a discovery without retries.                         *)
Order(t, c, req) ==
    [thread |-> t, cmd |-> c, mac |-> req.mac, tries |-> IF req.op = "UPDATE" THEN 0 ELSE Retries]

(* The firmware prints the address with its type, "XX:XX:XX:XX:XX:XX       *)
(* (random)", and the Pi forwards it as it is.                             *)
EventAddress(m) == <<m, "(random)">>

ASSUME AddressAssumption == \A m \in Macs : EventAddress(m) \notin Macs

(* _queue_conn_event: put_nowait, and the event is dropped when the queue  *)
(* is full or nobody streams.                                              *)
Queued(m, c) ==
    IF streaming /\ Len(events) < QueueSize
    THEN Append(events, [mac |-> EventAddress(m), connected |-> c])
    ELSE events

Init ==
    /\ connReqs = {}
    /\ th = [t \in Threads |-> Idle]
    /\ orders = <<>>
    /\ link = [m \in Macs |-> "down"]
    /\ events = <<>>
    /\ streaming = TRUE
    /\ granted = {}
    /\ strays = {}
    /\ crossed = {}
    /\ faults = MaxFaults

Fault(kind) ==
    /\ kind \in Faults
    /\ faults > 0
    /\ faults' = faults - 1

-----------------------------------------------------------------------------
(* A thread calls a method of its stub and waits, or returns.              *)

Command(pc) ==
    CASE pc = "connect" -> "CONNECT"
      [] pc = "discover" -> "DISCOVER"
      [] pc = "access" -> "ACCESS"
      [] pc \in {"disconnect", "cleanup"} -> "DISCONNECT"

Calls(t, req, pc) ==
    /\ th' = [th EXCEPT ![t] = [req EXCEPT !.pc = pc, !.ans = "none"]]
    /\ orders' = Append(orders, Order(t, Command(pc), req))
    /\ UNCHANGED <<link, events, streaming, strays, faults>>

Returns(t) ==
    /\ th' = [th EXCEPT ![t] = Idle]
    /\ UNCHANGED <<strays, faults, piVars>>

(* The last except clause of READ and WRITE: no disconnect follows.        *)
Leaves(t) ==
    /\ th' = [th EXCEPT ![t] = Idle]
    /\ strays' = IF th[t].implicit THEN strays \cup {th[t].mac} ELSE strays
    /\ UNCHANGED <<faults, piVars>>

(* The requests.  Each makes its first call to the Pi.                     *)

(* A request that connects or disconnects its device; the others use the   *)
(* connection there is.                                                    *)
Changes(r) == r.op \in {"CONNECT", "DISCONNECT"} \/ r.implicit

Crosses(op, m) ==
    /\ op \in {"CONNECT", "DISCONNECT"} \/ (op \in {"READ", "WRITE"} /\ m \notin connReqs)
    /\ \E u \in Threads : th[u].mac = m /\ Changes(th[u])

Begins(t, op, m) ==
    /\ op \in Ops
    /\ th[t] = Idle
    /\ crossed' = IF Crosses(op, m) THEN crossed \cup {m} ELSE crossed
    /\ granted' = IF op \in {"CONNECT", "DISCONNECT"} THEN granted \ {m} ELSE granted
    /\ UNCHANGED connReqs

Request(op, m) == [Idle EXCEPT !.op = op, !.mac = m]

Connect(t, m) ==
    /\ Begins(t, "CONNECT", m)
    /\ Calls(t, Request("CONNECT", m), "connect")

UpdateConnection(t, m) ==
    /\ Begins(t, "UPDATE", m)
    /\ m \in connReqs
    /\ Calls(t, Request("UPDATE", m), "discover")

DisconnectFromDevice(t, m) ==
    /\ Begins(t, "DISCONNECT", m)
    /\ Calls(t, Request("DISCONNECT", m), "disconnect")

(* read_characteristic and write_characteristic: no connection is made.    *)
AccessCharacteristic(t, m) ==
    /\ Begins(t, "DIRECT", m)
    /\ Calls(t, Request("DIRECT", m), "access")

(* read_properties and write_properties: of the properties they name, n    *)
(* could be looked up and may be accessed.  A device without an entry is   *)
(* connected first, and disconnected at the end.  A slip: the disconnect   *)
(* does not depend on it.                                                  *)
AccessPropertiesDisconnects(t, op, m, n) ==
    /\ Begins(t, op, m)
    /\ IF m \in connReqs
       THEN n > 0 /\ Calls(t, [Request(op, m) EXCEPT !.left = n, !.implicit = TRUE], "access")
       ELSE Calls(t, [Request(op, m) EXCEPT !.left = n, !.implicit = TRUE], "connect")

AccessProperties(t, op, m, n) ==
    /\ Begins(t, op, m)
    /\ IF m \in connReqs
       THEN n > 0 /\ Calls(t, [Request(op, m) EXCEPT !.left = n], "access")
       ELSE Calls(t, [Request(op, m) EXCEPT !.left = n, !.implicit = TRUE], "connect")

ReadProperties(t, m, n) == AccessProperties(t, "READ", m, n)

WriteProperties(t, m, n) == AccessProperties(t, "WRITE", m, n)

(* control.connect after an error: the connection is undone.  Two slips:   *)
(* it is not, or only when the connection is known to have been made.      *)
CleanupNever(t, r) == Returns(t)

CleanupAfterDiscover(t, r) ==
    IF r.pc = "discover" THEN Calls(t, r, "cleanup") ELSE Returns(t)

Cleanup(t, r) == Calls(t, r, "cleanup")

(* A call of connect or discover raised.                                   *)
Fails(t, r) == IF r.op = "CONNECT" THEN Cleanup(t, r) ELSE Leaves(t)

Connected(t) ==
    LET r == th[t]
    IN  /\ r.pc = "connect"
        /\ r.ans # "none"
        /\ IF r.ans = "ok" THEN Calls(t, r, "discover") ELSE Fails(t, r)
        /\ UNCHANGED <<connReqs, granted, crossed>>

(* conn_reqs[address] = ..., and a slip: under the address of an event.    *)
EntryOfEvent(m) == connReqs \cup {EventAddress(m)}

Entry(m) == connReqs \cup {m}

(* conn_reqs is written once discover returned; the caller goes on. *)
Discovered(t) ==
    LET r == th[t]
    IN  /\ r.pc = "discover"
        /\ r.ans # "none"
        /\ IF r.ans = "ok"
           THEN /\ connReqs' = Entry(r.mac)
                /\ \/ r.implicit /\ r.left > 0 /\ Calls(t, r, "access")
                   \/ r.implicit /\ r.left = 0 /\ Calls(t, r, "disconnect")
                   \/ r.implicit /\ r.left > 0 /\ r.op = "WRITE" /\ Leaves(t)
                   \/ ~r.implicit /\ Returns(t)
                /\ granted' = IF r.op = "CONNECT" /\ link[r.mac] = "up"
                              THEN granted \cup {r.mac}
                              ELSE granted
           ELSE /\ Fails(t, r)
                /\ UNCHANGED <<connReqs, granted>>
        /\ UNCHANGED crossed

(* The loop over the properties: a failed read or write is part of the     *)
(* result and the next one follows.                                        *)
NextProperty(t, r) ==
    \/ r.left > 1 /\ Calls(t, [r EXCEPT !.left = @ - 1], "access")
    \/ r.left <= 1 /\ r.implicit /\ Calls(t, r, "disconnect")
    \/ r.left <= 1 /\ ~r.implicit /\ Returns(t)

PropertyRead(t) ==
    /\ th[t].pc = "access" /\ th[t].ans # "none"
    /\ th[t].op \in {"READ", "DIRECT"}
    /\ NextProperty(t, th[t])
    /\ UNCHANGED <<connReqs, granted, crossed>>

(* A value that does not decode ends the request.                          *)
PropertyWritten(t) ==
    /\ th[t].pc = "access" /\ th[t].ans # "none"
    /\ th[t].op = "WRITE"
    /\ NextProperty(t, th[t]) \/ (th[t].left > 1 /\ Leaves(t))
    /\ UNCHANGED <<connReqs, granted, crossed>>

(* conn_reqs.pop(address, None) follows a disconnect that worked.          *)
Disconnected(t) ==
    LET r == th[t]
    IN  /\ r.pc \in {"disconnect", "cleanup"}
        /\ r.ans # "none"
        /\ connReqs' = IF r.ans = "ok" THEN connReqs \ {r.mac} ELSE connReqs
        /\ Returns(t)
        /\ UNCHANGED <<granted, crossed>>

-----------------------------------------------------------------------------
(* The calls' deadlines, and a Pi that cannot be reached.                  *)

Abandoned(s, t) ==
    [k \in DOMAIN s |-> IF s[k].thread = t THEN [s[k] EXCEPT !.thread = NoThread] ELSE s[k]]

(* The stub raises; what was written to the dongle stays.  The answer may  *)
(* have been on its way already.                                           *)
Deadline(t) ==
    /\ th[t].pc # "idle"
    /\ th[t].ans # "err"
    /\ Fault("deadline")
    /\ th' = [th EXCEPT ![t].ans = "err"]
    /\ orders' = Abandoned(orders, t)
    /\ UNCHANGED <<connReqs, link, events, streaming, granted, strays, crossed>>

Unreachable(t) ==
    /\ th[t].pc # "idle"
    /\ th[t].ans = "none"
    /\ Fault("unreachable")
    /\ th' = [th EXCEPT ![t].ans = "err"]
    /\ \E k \in DOMAIN orders : orders[k].thread = t /\ orders' = RemoveAt(orders, k)
    /\ strays' = IF Command(th[t].pc) = "DISCONNECT" THEN strays \cup {th[t].mac} ELSE strays
    /\ UNCHANGED <<connReqs, link, events, streaming, granted, crossed>>

-----------------------------------------------------------------------------
(* The Pi and the dongle *)

Answered(o, ans) ==
    th' = IF o.thread = NoThread THEN th ELSE [th EXCEPT ![o.thread].ans = ans]

OrderTaken == orders' = Tail(orders) /\ UNCHANGED <<connReqs, streaming, strays, faults>>

(* The command at the head works. *)
Succeeds(c) ==
    /\ orders # <<>>
    /\ Head(orders).cmd = c
    /\ LET o == Head(orders)
           m == o.mac
       IN  /\ \/ /\ o.cmd = "CONNECT"
                 /\ link[m] = "down"
                 /\ link' = [link EXCEPT ![m] = "up"]
                 /\ events' = Queued(m, TRUE)
              \/ /\ o.cmd \in {"DISCOVER", "ACCESS"}
                 /\ link[m] = "up"
                 /\ UNCHANGED <<link, events>>
              \/ /\ o.cmd = "DISCONNECT"
                 /\ link[m] = "up"
                 /\ link' = [link EXCEPT ![m] = "down"]
                 /\ events' = Queued(m, FALSE)
           /\ Answered(o, "ok")
           /\ OrderTaken
    /\ UNCHANGED <<granted, crossed>>

(* It fails: always when the link is not as it must be ("Already           *)
(* connected", "Not connected"), and a discovery, a read or a connection   *)
(* attempt possibly also otherwise.                                        *)
MayFail(o) == o.cmd # "DISCONNECT" \/ link[o.mac] = "down"

GivesUp(o) ==
    /\ Answered(o, "err")
    /\ OrderTaken

(* for attempt in range(retries + 1): the handler is still there.          *)
Retried(o) ==
    /\ o.cmd \in {"CONNECT", "DISCOVER"}
    /\ o.tries > 0
    /\ o.thread # NoThread
    /\ orders' = Append(Tail(orders), [o EXCEPT !.tries = @ - 1])
    /\ UNCHANGED <<connReqs, th, streaming, strays, faults>>

Fruitless ==
    /\ orders # <<>>
    /\ LET o == Head(orders)
       IN  /\ MayFail(o)
           /\ \/ Retried(o)
              \/ (o.cmd \notin {"CONNECT", "DISCOVER"} \/ o.tries = 0 \/ o.thread = NoThread)
                 /\ GivesUp(o)
    /\ UNCHANGED <<link, events, granted, crossed>>

LinkLost(m) ==
    /\ link[m] = "up"
    /\ Fault("loss")
    /\ link' = [link EXCEPT ![m] = "down"]
    /\ events' = Queued(m, FALSE)
    /\ granted' = granted \ {m}
    /\ UNCHANGED <<connReqs, th, orders, streaming, strays, crossed>>

(* _stream_conn_events: the entry under the event's address is popped.     *)
EventArrives ==
    /\ events # <<>>
    /\ LET e == Head(events)
       IN  connReqs' = IF e.connected THEN connReqs ELSE connReqs \ {e.mac}
    /\ events' = Tail(events)
    /\ UNCHANGED <<th, orders, link, streaming, granted, strays, crossed, faults>>

(* The first error ends the stream, and it is not opened again.            *)
StreamEnds ==
    /\ streaming
    /\ Fault("stream")
    /\ streaming' = FALSE
    /\ events' = <<>>
    /\ UNCHANGED <<connReqs, th, orders, link, granted, strays, crossed>>

(* The gateway process is started again; the Pis and the links stay.       *)
Restart ==
    /\ Fault("restart")
    /\ connReqs' = {}
    /\ th' = [t \in Threads |-> Idle]
    /\ orders' = [k \in DOMAIN orders |-> [orders[k] EXCEPT !.thread = NoThread]]
    /\ events' = <<>>
    /\ streaming' = TRUE
    /\ granted' = {}
    /\ strays' = Macs
    /\ UNCHANGED <<link, crossed>>

-----------------------------------------------------------------------------
Client(t, m) ==
    \/ Connect(t, m) \/ UpdateConnection(t, m) \/ DisconnectFromDevice(t, m)
    \/ AccessCharacteristic(t, m)
    \/ \E n \in 0..Properties : ReadProperties(t, m, n) \/ WriteProperties(t, m, n)

Handler(t) ==
    \/ Connected(t) \/ Discovered(t) \/ PropertyRead(t) \/ PropertyWritten(t) \/ Disconnected(t)

Next ==
    \/ \E t \in Threads, m \in Macs : Client(t, m)
    \/ \E t \in Threads : Handler(t) \/ Deadline(t) \/ Unreachable(t)
    \/ \E c \in PiCommands : Succeeds(c)
    \/ Fruitless
    \/ \E m \in Macs : LinkLost(m)
    \/ EventArrives
    \/ StreamEnds
    \/ Restart

Spec == Init /\ [][Next]_vars

(* Some client asks again for a connection it did not get, threads and Pis *)
(* run, and of the connection attempts and discoveries that could work     *)
(* infinitely often some do: the device is in range.                       *)
Fairness ==
    /\ \A t \in Threads : WF_vars(Handler(t))
    /\ \A m \in Macs : SF_vars(\E t \in Threads : Connect(t, m))
    /\ SF_vars(Succeeds("CONNECT"))
    /\ SF_vars(Succeeds("DISCOVER"))
    /\ WF_vars(Fruitless \/ \E c \in PiCommands : Succeeds(c))

FairSpec == Spec /\ Fairness

-----------------------------------------------------------------------------
(* PROPERTIES *)

Quiet == orders = <<>> /\ \A t \in Threads : th[t] = Idle

RequestType ==
    [pc : {"connect", "discover", "access", "disconnect", "cleanup"}, op : AllOps, mac : Macs,
     ans : {"none", "ok", "err"}, implicit : BOOLEAN, left : 0..Properties]

OrderType == [thread : Threads \cup {NoThread}, mac : Macs, tries : Nat, cmd : PiCommands]

EventType == [mac : {EventAddress(m) : m \in Macs}, connected : BOOLEAN]

TypeOK ==
    /\ connReqs \subseteq Macs
    /\ th \in [Threads -> {Idle} \cup RequestType]
    /\ orders \in Seq(OrderType)
    /\ link \in [Macs -> {"up", "down"}]
    /\ events \in Seq(EventType)
    /\ streaming \in BOOLEAN
    /\ granted \subseteq Macs
    /\ strays \subseteq Macs
    /\ crossed \subseteq Macs
    /\ faults \in 0..MaxFaults

(* Nobody serves a request for m, and nothing written for it is left.      *)
Settled(m) ==
    /\ \A t \in Threads : th[t].mac # m
    /\ \A k \in DOMAIN orders : orders[k].mac # m

(* Once the requests for a device have returned and everything written for *)
(* it was executed, its link is not up without the gateway knowing, unless *)
(* a handler left it behind.  A failed CONNECT leaves none: one whose      *)
(* command is executed after its deadline is undone.  Devices whose        *)
(* connecting or disconnecting requests crossed are exempt: the pop of one *)
(* disconnect can then remove the entry of a later connection              *)
(* (grpc_access_point.py:357), which this does not catch.                  *)
NoLeakedLink ==
    \A m \in Macs \ crossed : (Settled(m) /\ link[m] = "up") => m \in connReqs \cup strays

Asks(o, c, m) == o.cmd = c /\ o.mac = m

(* The device is disconnected, or will be: a DISCONNECT is behind every    *)
(* command that connects it.                                               *)
Undone(m) ==
    /\ \A k \in DOMAIN orders : Asks(orders[k], "CONNECT", m)
          => \E j \in DOMAIN orders : j > k /\ Asks(orders[j], "DISCONNECT", m)
    /\ link[m] = "up" => \E j \in DOMAIN orders : Asks(orders[j], "DISCONNECT", m)

(* A CONNECT that returns an error leaves the device disconnected, or a    *)
(* DISCONNECT behind every command that could still connect it, unless     *)
(* that DISCONNECT could not be sent.  Other devices and requests that use *)
(* the connection may be served meanwhile; of devices whose connecting or  *)
(* disconnecting requests crossed nothing is said.                         *)
FailedConnectUndone ==
    [][ \A t \in Threads :
          (th[t].op = "CONNECT" /\ th'[t] = Idle /\ (th[t].pc # "discover" \/ th[t].ans = "err"))
            => th[t].mac \in strays' \cup crossed \/ Undone(th[t].mac) ]_vars

(* conn_reqs follows the dongle: with no request running and no event on   *)
(* its way, a device with an entry has a link ("Update local connection    *)
(* state if needed", grpc_access_point.py:137).                            *)
StatusFollowsLink ==
    (Quiet /\ events = <<>>) => \A m \in connReqs : link[m] = "up"

(* A connection a client was granted stays until it is lost or a client    *)
(* asks to connect or disconnect the device: no READ or WRITE that brings  *)
(* its own connection, no failed update and no call that came too late     *)
(* takes it down, whatever else is served meanwhile, unless requests that  *)
(* connect or disconnect this device crossed.  A second CONNECT takes it   *)
(* down, by its cleanup.                                                   *)
GrantedStays == \A m \in granted \ crossed : link[m] = "up"

(* Whatever a gateway restart, an unreachable Pi or a missed deadline left *)
(* behind, a client that asks again for its connection gets it: "Already   *)
(* connected" is not met for ever.                                         *)
ConnectRecovers ==
    \A m \in Macs : (link[m] = "up" /\ m \notin connReqs)
                        ~> (link[m] = "up" /\ m \in connReqs) \/ m \in crossed
=============================================================================
