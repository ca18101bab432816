------------------------- MODULE SilabsAccessPoint -------------------------
(***************************************************************************)
(* The access point of the gateway that drives a Silicon Labs radio        *)
(* directly (gateway/silabs/silabs_access_point.py and its operations).    *)
(*                                                                         *)
(* A request thread sends a command to the radio and waits, as an          *)
(* Operation, for an event; the thread of GenericApp.run takes the events  *)
(* from the queue in order, shows each to all operations and then drops    *)
(* the entry of a closed connection.  Nothing is locked: a thread is cut   *)
(* at every command, at the wait and at its writes of conn_reqs, and the   *)
(* handling of a closed connection between the operations and the entry.   *)
(* An operation that outlives its request only matters when it raises in   *)
(* the event thread, and so does the scan, which start_scan adds to the    *)
(* operations for good.  subscribe and unsubscribe are never called.       *)
(*                                                                         *)
(* The radio (external): it refuses a second connection to a device, a     *)
(* close of a handle that is not in use, and a GATT procedure on a         *)
(* connection that is not open or has one running; it reuses a handle only *)
(* when the event that it was closed has been read.                        *)
(***************************************************************************)
EXTENDS Naturals, Sequences, FiniteSets

CONSTANTS
    Macs,      \* the devices
    NoMac,
    Threads,   \* requests served at the same time
    Requests,  \* the requests clients make, each of an operation and a device
    Handles,   \* connection handles of the radio
    NoHandle,
    MaxConn,   \* SL_BT_CONFIG_MAX_CONNECTIONS
    Retries,   \* retries of a connection attempt
    Stages,    \* GATT procedures of a discovery
    Watched    \* the types of the events that are enabled

AllOps == {"CONNECT", "DISCOVER", "READ", "WRITE", "DISCONNECT"}

ASSUME SilabsNames == NoHandle \notin Handles /\ NoMac \notin Macs /\ Requests \subseteq AllOps \X Macs
ASSUME SilabsBounds == MaxConn \in Nat /\ Retries \in Nat /\ Stages \in Nat \ {0}
ASSUME SilabsEvents == Watched \subseteq {"advertisements", "connection_events"}

VARIABLES
    connReqs,  \* conn_reqs: the handle of a device, or NoHandle
    served,    \* devices whose entry has services
    th,        \* the request of each thread, with its operation
    link,      \* the radio: the connection of each handle
    queue,     \* events the event thread has not taken yet
    popping,   \* the closed connection whose entry it is about to drop
    alive      \* the event thread runs

vars == <<connReqs, served, th, link, queue, popping, alive>>

-----------------------------------------------------------------------------
(* h and set are the operation's handle and its threading.Event; got is    *)
(* the handle a command returned.                                          *)
Idle == [pc |-> "idle", op |-> "NONE", mac |-> NoMac, h |-> NoHandle, got |-> NoHandle,
         set |-> FALSE, left |-> 0]

Free == [st |-> "free", mac |-> NoMac, proc |-> "NONE"]

Event(kind, h) == [kind |-> kind, h |-> h]

Init ==
    /\ connReqs = [m \in Macs |-> NoHandle]
    /\ served = {}
    /\ th = [t \in Threads |-> Idle]
    /\ link = [h \in Handles |-> Free]
    /\ queue = <<>>
    /\ popping = NoHandle
    /\ alive = TRUE

Becomes(t, r) == th' = [th EXCEPT ![t] = r]

Goes(t, pc) == Becomes(t, [th[t] EXCEPT !.pc = pc])

Returns(t) == Becomes(t, Idle)

(* A request past its first checks.  One for a device without an entry or  *)
(* services, or with an entry where none may be, raises and is left out.   *)
(* Clients do not make two requests for one device at a time.              *)
Begins(t, op, m, pc, n) ==
    /\ <<op, m>> \in Requests
    /\ th[t] = Idle
    /\ \A u \in Threads : th[u].mac # m
    /\ Becomes(t, [Idle EXCEPT !.pc = pc, !.op = op, !.mac = m, !.left = n,
                               !.h = IF op = "CONNECT" THEN NoHandle ELSE connReqs[m]])
    /\ UNCHANGED <<connReqs, served, link, queue, popping, alive>>

Connectable == Cardinality({m \in Macs : connReqs[m] # NoHandle}) < MaxConn

Connect(t, m) ==
    /\ Connectable
    /\ connReqs[m] = NoHandle
    /\ Begins(t, "CONNECT", m, "open", Retries)

Discover(t, m) == connReqs[m] # NoHandle /\ Begins(t, "DISCOVER", m, "gatt", Stages)

(* The services are those of the entry.  A slip: the entry is not looked   *)
(* for.                                                                    *)
ReadUnchecked(t, m) == Begins(t, "READ", m, "gatt", 1)

Read(t, m) == m \in served /\ Begins(t, "READ", m, "gatt", 1)

Write(t, m) == m \in served /\ Begins(t, "WRITE", m, "gatt", 1)

Disconnect(t, m) == connReqs[m] # NoHandle /\ Begins(t, "DISCONNECT", m, "close", 1)

-----------------------------------------------------------------------------
(* connect: open, wait CONNECTION_TIMEOUT, close and try again             *)

Reusable(h) ==
    /\ link[h] = Free
    /\ popping # h
    /\ \A k \in DOMAIN queue : queue[k] # Event("closed", h)

Open(t) ==
    /\ th[t].pc = "open"
    /\ IF (\A h \in Handles : ~Reusable(h)) \/ (\E h \in Handles : link[h].mac = th[t].mac)
       THEN Returns(t) /\ UNCHANGED link
       ELSE \E h \in Handles :
              /\ Reusable(h)
              /\ link' = [link EXCEPT ![h] = [Free EXCEPT !.st = "opening", !.mac = th[t].mac]]
              /\ Becomes(t, [th[t] EXCEPT !.pc = "assign", !.got = h])
    /\ UNCHANGED <<connReqs, served, queue, popping, alive>>

(* self.handle is assigned when the command has returned.                  *)
Assign(t) ==
    /\ th[t].pc = "assign"
    /\ Becomes(t, [th[t] EXCEPT !.pc = "wait", !.h = th[t].got])
    /\ UNCHANGED <<connReqs, served, link, queue, popping, alive>>

(* connection.close fails for a handle that is not in use, and then the    *)
(* request does.  A slip: a connection attempt that timed out is not       *)
(* closed.                                                                 *)
AfterClose(t) ==
    IF th[t].op = "DISCONNECT" THEN Goes(t, "wait")
    ELSE IF th[t].left = 0 THEN Goes(t, "store")
    ELSE Becomes(t, [th[t] EXCEPT !.pc = "open", !.left = @ - 1])

CloseForgotten(t) ==
    /\ th[t].pc = "close"
    /\ IF th[t].op = "CONNECT"
       THEN AfterClose(t) /\ UNCHANGED link
       ELSE IF link[th[t].h].st = "free"
       THEN Returns(t) /\ UNCHANGED link
       ELSE link' = [link EXCEPT ![th[t].h].st = "closing"] /\ AfterClose(t)
    /\ UNCHANGED <<connReqs, served, queue, popping, alive>>

Close(t) ==
    /\ th[t].pc = "close"
    /\ IF link[th[t].h].st = "free"
       THEN Returns(t) /\ UNCHANGED link
       ELSE link' = [link EXCEPT ![th[t].h].st = "closing"] /\ AfterClose(t)
    /\ UNCHANGED <<connReqs, served, queue, popping, alive>>

(* is_set() is asked again after the loop: an event that came after the    *)
(* last wait counts.                                                       *)
Store(t) ==
    /\ th[t].pc = "store"
    /\ connReqs' = IF th[t].set THEN [connReqs EXCEPT ![th[t].mac] = th[t].h] ELSE connReqs
    /\ served' = IF th[t].set THEN served \ {th[t].mac} ELSE served
    /\ Returns(t)
    /\ UNCHANGED <<link, queue, popping, alive>>

-----------------------------------------------------------------------------
(* Waiting *)

(* The operation's event is set.  A discovery clears it and goes on with   *)
(* its next procedure, unless the last one failed; what it found replaces  *)
(* the services of the entry, if there still is one.                       *)
Woken(t) ==
    /\ th[t].pc = "wait"
    /\ th[t].set
    /\ CASE th[t].op = "CONNECT" -> Goes(t, "store") /\ UNCHANGED served
         [] th[t].op = "DISCOVER" ->
              \/ /\ Returns(t)
                 /\ IF connReqs[th[t].mac] # NoHandle
                    THEN served' \in {served \ {th[t].mac}, served \cup {th[t].mac}}
                    ELSE UNCHANGED served
              \/ /\ th[t].left > 1
                 /\ Becomes(t, [th[t] EXCEPT !.pc = "gatt", !.set = FALSE, !.left = @ - 1])
                 /\ UNCHANGED served
         [] OTHER -> Returns(t) /\ UNCHANGED served
    /\ UNCHANGED <<connReqs, link, queue, popping, alive>>

(* wait(timeout=CONNECTION_TIMEOUT); GATT operations wait without a        *)
(* time-out.  A slip: so does connect.                                     *)
TimesOutDisconnect(t) ==
    /\ th[t].pc = "wait"
    /\ ~th[t].set
    /\ th[t].op = "DISCONNECT" /\ Returns(t)
    /\ UNCHANGED <<connReqs, served, link, queue, popping, alive>>

TimesOut(t) ==
    /\ th[t].pc = "wait"
    /\ ~th[t].set
    /\ \/ th[t].op = "CONNECT" /\ Goes(t, "close")
       \/ th[t].op = "DISCONNECT" /\ Returns(t)
    /\ UNCHANGED <<connReqs, served, link, queue, popping, alive>>

-----------------------------------------------------------------------------
(* discover, read and write: a command, then the wait.  Only a discovery   *)
(* tells apart an event that comes between the two.                        *)

Gatt(t) ==
    /\ th[t].pc = "gatt"
    /\ IF link[th[t].h].st = "open" /\ link[th[t].h].proc = "NONE"
       THEN /\ link' = [link EXCEPT ![th[t].h].proc = th[t].op]
            /\ Goes(t, IF th[t].op = "DISCOVER" THEN "called" ELSE "wait")
       ELSE Returns(t) /\ UNCHANGED link
    /\ UNCHANGED <<connReqs, served, queue, popping, alive>>

Waits(t) ==
    /\ th[t].pc = "called"
    /\ Goes(t, "wait")
    /\ UNCHANGED <<connReqs, served, link, queue, popping, alive>>

-----------------------------------------------------------------------------
(* The event thread *)

(* Which operations an event sets: a value a read, an opened or closed     *)
(* connection the connect or disconnect, a completed procedure a write or  *)
(* a discovery that waits already (set() and clear()).                     *)
OpenedOrClosed(e, r) ==
    \/ e.kind = "opened" /\ r.op = "CONNECT"
    \/ e.kind = "closed" /\ r.op = "DISCONNECT"

Completed(e, r) ==
    e.kind = "completed" /\ (r.op = "WRITE" \/ (r.op = "DISCOVER" /\ r.pc = "wait"))

(* A slip: the handle is not compared.                                     *)
SetsAny(e, r) ==
    OpenedOrClosed(e, r) \/ Completed(e, r) \/ (e.kind = "value" /\ r.op = "READ")

Sets(e, r) ==
    /\ r.h = e.h
    /\ OpenedOrClosed(e, r) \/ Completed(e, r) \/ (e.kind = "value" /\ r.op = "READ")

HandleEvent ==
    /\ alive
    /\ queue # <<>>
    /\ popping = NoHandle
    /\ LET e == Head(queue)
       IN  /\ th' = [t \in Threads |->
                       IF Sets(e, th[t]) THEN [th[t] EXCEPT !.set = TRUE] ELSE th[t]]
           /\ popping' = IF e.kind = "closed" THEN e.h ELSE NoHandle
    /\ queue' = Tail(queue)
    /\ UNCHANGED <<connReqs, served, link, alive>>

(* bt_evt_connection_closed: the first entry with the handle.              *)
PopClosed ==
    /\ popping # NoHandle
    /\ IF \E m \in Macs : connReqs[m] = popping
       THEN \E m \in Macs : /\ connReqs[m] = popping
                            /\ connReqs' = [connReqs EXCEPT ![m] = NoHandle]
       ELSE UNCHANGED connReqs
    /\ served' = {m \in served : connReqs'[m] # NoHandle}
    /\ popping' = NoHandle
    /\ UNCHANGED <<th, link, queue, alive>>

(* handle_advertisement: the scan operation publishes every report, and    *)
(* publish_advertisement raises a TypeError (filter_by of a positional     *)
(* argument) when an event for advertisements of the device is enabled.    *)
ScanRaises == popping = NoHandle /\ "advertisements" \in Watched

(* A connect operation publishes the status before it sets its event, and  *)
(* publish_connection_status raises likewise.                              *)
StatusRaises ==
    /\ popping = NoHandle
    /\ "connection_events" \in Watched
    /\ queue # <<>>
    /\ Head(queue).kind \in {"opened", "closed"}

(* What a discovery reports after its services is taken by an operation    *)
(* without a current_service: its own, which has sent the command before   *)
(* it assigns the attribute, or one an earlier discovery of the connection *)
(* left behind when it failed (which one does is left open).               *)
DiscoveryRaises ==
    /\ popping = NoHandle
    /\ \E t \in Threads : /\ th[t].op = "DISCOVER"
                          /\ th[t].pc \in {"called", "wait"}
                          /\ th[t].left < Stages

(* bt_evt_connection_closed: the loop over conn_reqs fails when a request  *)
(* thread stores into it meanwhile.                                        *)
LoopRaises == popping # NoHandle /\ \E t \in Threads : th[t].pc = "store"

(* Nothing catches these exceptions.                                       *)
EventThreadDies ==
    /\ alive
    /\ ScanRaises \/ StatusRaises \/ DiscoveryRaises \/ LoopRaises
    /\ alive' = FALSE
    /\ queue' = <<>>
    /\ popping' = NoHandle
    /\ UNCHANGED <<connReqs, served, th, link>>

(* GenericApp.run: every event goes to event_handler, and then to the      *)
(* callback of its name.                                                   *)
Run == HandleEvent \/ PopClosed \/ EventThreadDies

-----------------------------------------------------------------------------
(* The radio (external) *)

(* Events that no thread will read are forgotten.                          *)
Reports(es) == queue' = IF alive THEN queue \o es ELSE <<>>

Opens(h) ==
    /\ link[h].st = "opening"
    /\ link' = [link EXCEPT ![h].st = "open"]
    /\ Reports(<<Event("opened", h)>>)
    /\ UNCHANGED <<connReqs, served, th, popping, alive>>

(* A connection is lost, or closed as asked.  The procedure that runs on   *)
(* it is reported as ended first.                                          *)
Closes(h) ==
    /\ link[h].st \in {"open", "closing"}
    /\ link' = [link EXCEPT ![h] = Free]
    /\ Reports(IF link[h].proc = "NONE" THEN <<Event("closed", h)>>
               ELSE <<Event("completed", h), Event("closed", h)>>)
    /\ UNCHANGED <<connReqs, served, th, popping, alive>>

(* A read that works reports the value first.                              *)
Completes(h) ==
    /\ link[h].proc # "NONE"
    /\ link' = [link EXCEPT ![h].proc = "NONE"]
    /\ \/ Reports(<<Event("completed", h)>>)
       \/ /\ link[h].proc = "READ"
          /\ Reports(<<Event("value", h), Event("completed", h)>>)
    /\ UNCHANGED <<connReqs, served, th, popping, alive>>

-----------------------------------------------------------------------------
Thread(t) == \/ Open(t) \/ Assign(t) \/ Close(t) \/ Store(t)
             \/ Woken(t) \/ TimesOut(t) \/ Gatt(t) \/ Waits(t)

Next ==
    \/ \E t \in Threads, m \in Macs :
          Connect(t, m) \/ Discover(t, m) \/ Read(t, m) \/ Write(t, m) \/ Disconnect(t, m)
    \/ \E t \in Threads : Thread(t)
    \/ Run
    \/ \E h \in Handles : Opens(h) \/ Closes(h) \/ Completes(h)

Spec == Init /\ [][Next]_vars

(* Threads run, and the radio ends what it was asked to close and every    *)
(* GATT procedure (after 30 s at the latest).  Nothing is assumed of       *)
(* connection attempts.                                                    *)
Fairness ==
    /\ \A t \in Threads : WF_vars(Thread(t))
    /\ WF_vars(HandleEvent) /\ WF_vars(PopClosed)
    /\ \A h \in Handles : /\ WF_vars(link[h].st = "closing" /\ Closes(h))
                          /\ WF_vars(Completes(h))

FairSpec == Spec /\ Fairness

-----------------------------------------------------------------------------
(* PROPERTIES *)

TypeOK ==
    /\ connReqs \in [Macs -> Handles \cup {NoHandle}]
    /\ served \subseteq {m \in Macs : connReqs[m] # NoHandle}
    /\ th \in [Threads -> [pc : {"idle", "open", "assign", "wait", "close", "store", "gatt",
                                 "called"},
                           op : AllOps \cup {"NONE"}, mac : Macs \cup {NoMac},
                           h : Handles \cup {NoHandle}, got : Handles \cup {NoHandle},
                           set : BOOLEAN, left : Nat]]
    /\ \A t \in Threads : th[t].pc \in {"wait", "close", "store", "gatt", "called"}
                            => th[t].h \in Handles
    /\ link \in [Handles -> [st : {"free", "opening", "open", "closing"},
                             mac : Macs \cup {NoMac}, proc : AllOps \cup {"NONE"}]]
    /\ queue \in Seq([kind : {"opened", "closed", "value", "completed"}, h : Handles])
    /\ popping \in Handles \cup {NoHandle}
    /\ alive \in BOOLEAN

(* disconnect() takes the handle from conn_reqs, so a connection without   *)
(* an entry could never be closed again and would use up one of the few    *)
(* the radio has.  Every connection, and every attempt the radio still     *)
(* makes, belongs to an entry or to a request that will store it or close  *)
(* it.                                                                     *)
NoOrphanLink ==
    \A h \in Handles :
        link[h].st \in {"opening", "open"}
            => \/ connReqs[link[h].mac] = h
               \/ \E t \in Threads : /\ th[t].mac = link[h].mac
                                     /\ th[t].op = "CONNECT"
                                     /\ th[t].got = h
                                     /\ th[t].pc \in {"assign", "wait", "close", "store"}

(* A disconnect that was answered without an error has left the device     *)
(* without a connection.                                                   *)
DisconnectTruthful ==
    [][ \A t \in Threads :
          (th[t].op = "DISCONNECT" /\ th[t].pc = "wait" /\ th[t].set /\ th'[t] = Idle)
              => \A h \in Handles : link[h].mac # th[t].mac ]_vars

(* connect and disconnect return, whatever the radio does: the waits are   *)
(* bounded and so is the number of attempts.                               *)
ConnectReturns ==
    \A t \in Threads : (th[t].op \in {"CONNECT", "DISCONNECT"}) ~> (th[t] = Idle)
=============================================================================
