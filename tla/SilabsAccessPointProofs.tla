---------------------- MODULE SilabsAccessPointProofs ----------------------
(***************************************************************************)
(* For any number of devices, threads and handles no connection of the     *)
(* radio is left without an entry or a request that will store or close    *)
(* it, and a disconnect is answered truthfully.                            *)
(*                                                                         *)
(* Both rest on how long a handle means the same connection: the radio     *)
(* gives it out again only when the event that it was closed has been      *)
(* handled, and a request that holds an older one is the only request of   *)
(* its device.                                                             *)
(***************************************************************************)
EXTENDS SilabsAccessPoint, TLAPS

ReqType == [pc : {"idle", "open", "assign", "wait", "close", "store", "gatt", "called"},
            op : AllOps \cup {"NONE"}, mac : Macs \cup {NoMac}, h : Handles \cup {NoHandle},
            got : Handles \cup {NoHandle}, set : BOOLEAN, left : Nat]

LinkType == [st : {"free", "opening", "open", "closing"}, mac : Macs \cup {NoMac},
             proc : AllOps \cup {"NONE"}]

EventType == [kind : {"opened", "closed", "value", "completed"}, h : Handles]

Connecting == {"assign", "wait", "close", "store"}

(* Where a request can be, and what it knows there.                        *)
Stage(r) ==
    /\ r.pc = "idle" => r = Idle
    /\ r.pc # "idle" => r.mac \in Macs /\ r.op \in AllOps
    /\ r.pc \in {"open", "assign", "store"} => r.op = "CONNECT"
    /\ r.pc \in {"gatt", "called"} => r.op \in {"DISCOVER", "READ", "WRITE"}
    /\ r.pc = "close" => r.op \in {"CONNECT", "DISCONNECT"}
    /\ r.pc = "assign" => r.got \in Handles
    /\ r.pc \in {"wait", "close", "store", "gatt", "called"} => r.h \in Handles
    /\ r.op = "CONNECT" /\ r.pc \in {"wait", "close", "store"} => r.h = r.got

StageOK == \A t \in Threads : Stage(th[t])

(* One request for a device at a time.                                     *)
OneRequest == \A t, u \in Threads : t # u /\ th[t].pc # "idle" => th[t].mac # th[u].mac

(* A connection to a device is under the handle of the entry, or of the    *)
(* request that connects or disconnects it.                                *)
EntryOK ==
    \A m \in Macs, g \in Handles :
        connReqs[m] # NoHandle /\ link[g].mac = m => g = connReqs[m]

ConnectOK ==
    \A t \in Threads :
        th[t].op = "CONNECT"
            => /\ connReqs[th[t].mac] = NoHandle
               /\ th[t].pc \in Connecting
                    => \A g \in Handles : link[g].mac = th[t].mac => g = th[t].got
               /\ th[t].pc = "store" /\ ~th[t].set
                    => \A g \in Handles : link[g].mac = th[t].mac => link[g].st = "closing"

DisconnectOK ==
    \A t \in Threads :
        th[t].op = "DISCONNECT"
            => /\ \A g \in Handles : link[g].mac = th[t].mac => g = th[t].h
               /\ th[t].set => \A g \in Handles : link[g].mac # th[t].mac

(* A handle is free as long as the event that it was closed is unhandled.  *)
ClosedIsFree ==
    /\ popping # NoHandle => link[popping] = Free
    /\ \A k \in 1..Len(queue) : queue[k].kind = "closed" => link[queue[k].h] = Free

LinkOK == \A g \in Handles : /\ link[g].st = "free" <=> link[g] = Free
                             /\ link[g] # Free => link[g].mac \in Macs

IInv == /\ TypeOK /\ StageOK /\ OneRequest /\ EntryOK /\ ConnectOK /\ DisconnectOK
        /\ ClosedIsFree /\ LinkOK /\ NoOrphanLink

-----------------------------------------------------------------------------
(* The type invariant in parts.                                            *)
LEMMA TypeParts ==
    TypeOK <=> /\ connReqs \in [Macs -> Handles \cup {NoHandle}]
               /\ served \subseteq {m \in Macs : connReqs[m] # NoHandle}
               /\ th \in [Threads -> ReqType]
               /\ \A t \in Threads : th[t].pc \in {"wait", "close", "store", "gatt", "called"}
                                        => th[t].h \in Handles
               /\ link \in [Handles -> LinkType]
               /\ queue \in Seq(EventType)
               /\ popping \in Handles \cup {NoHandle}
               /\ alive \in BOOLEAN
    BY DEF TypeOK, ReqType, LinkType, EventType

LEMMA TypePrimed ==
    ASSUME connReqs' \in [Macs -> Handles \cup {NoHandle}],
           served' \subseteq {m \in Macs : connReqs'[m] # NoHandle},
           th' \in [Threads -> ReqType],
           StageOK',
           link' \in [Handles -> LinkType],
           queue' \in Seq(EventType),
           popping' \in Handles \cup {NoHandle},
           alive' \in BOOLEAN
    PROVE  TypeOK'
<1>1. \A t \in Threads : th'[t].pc \in {"wait", "close", "store", "gatt", "called"}
                            => th'[t].h \in Handles
    BY DEF StageOK, Stage
<1> QED
    BY <1>1 DEF TypeOK, ReqType, LinkType, EventType

LEMMA EventsOfHandles ==
    ASSUME TypeOK, NEW k \in 1..Len(queue)
    PROVE  queue[k].h \in Handles
<1>1. queue[k] \in EventType
    BY TypeParts
<1> QED
    BY <1>1 DEF EventType

LEMMA IdleType == Idle \in ReqType /\ Stage(Idle)
    BY DEF Idle, ReqType, Stage

(* The links keep their devices; some are being closed.                    *)
LinksStay ==
    /\ link' \in [Handles -> LinkType]
    /\ \A g \in Handles : /\ link'[g].mac = link[g].mac
                          /\ link'[g].st \in {link[g].st, "closing"}
                          /\ link[g] = Free <=> link'[g] = Free
                          /\ link'[g].st = "free" <=> link'[g] = Free

LEMMA LinksStayUnchanged == IInv /\ UNCHANGED link => LinksStay
    BY TypeParts DEF IInv, LinksStay, LinkOK, LinkType

(* A request is taken: it is the only one of its device.                   *)
LEMMA BeginKeeps ==
    ASSUME IInv, NEW t \in Threads, NEW r \in ReqType, th' = [th EXCEPT ![t] = r],
           th[t] = Idle, \A u \in Threads : th[u].mac # r.mac,
           Stage(r), r.pc # "idle", ~r.set,
           r.op = "CONNECT" => r.pc = "open" /\ connReqs[r.mac] = NoHandle,
           r.op = "DISCONNECT" => connReqs[r.mac] # NoHandle /\ r.h = connReqs[r.mac],
           UNCHANGED <<connReqs, served, link, queue, popping, alive>>
    PROVE  IInv'
<1> USE TypeParts DEF IInv
<1>0. /\ th \in [Threads -> ReqType]
      /\ th' \in [Threads -> ReqType]
      /\ th'[t] = r
      /\ \A u \in Threads : u # t => th'[u] = th[u]
    OBVIOUS
<1>1. StageOK'
    BY <1>0 DEF StageOK, Stage
<1>2. TypeOK'
    BY <1>0, <1>1, TypePrimed
<1>3. OneRequest'
    BY <1>0 DEF OneRequest
<1>4. EntryOK' /\ ClosedIsFree' /\ LinkOK'
    BY DEF EntryOK, ClosedIsFree, LinkOK
<1>5. ConnectOK'
    BY <1>0 DEF ConnectOK, Connecting
<1>6. DisconnectOK'
    BY <1>0 DEF DisconnectOK, EntryOK, Stage
<1>7. NoOrphanLink'
  <2> SUFFICES ASSUME NEW g \in Handles, link[g].st \in {"opening", "open"},
                      connReqs[link[g].mac] # g
               PROVE  \E u \in Threads : /\ th'[u].mac = link[g].mac
                                         /\ th'[u].op = "CONNECT"
                                         /\ th'[u].got = g
                                         /\ th'[u].pc \in Connecting
      BY DEF NoOrphanLink, Connecting
  <2>1. PICK u \in Threads : /\ th[u].mac = link[g].mac
                             /\ th[u].op = "CONNECT"
                             /\ th[u].got = g
                             /\ th[u].pc \in Connecting
      BY DEF NoOrphanLink, Connecting
  <2>2. u # t
      BY <2>1 DEF Idle
  <2> QED
      BY <1>0, <2>1, <2>2
<1> QED
    BY <1>1, <1>2, <1>3, <1>4, <1>5, <1>6, <1>7

(* A request ends; one that connected leaves no link behind.               *)
LEMMA ReturnKeeps ==
    ASSUME IInv, NEW t \in Threads, th' = [th EXCEPT ![t] = Idle],
           th[t].op = "CONNECT" /\ th[t].pc \in Connecting
              => \A g \in Handles : link[g].mac = th[t].mac => link[g].st = "closing",
           served' \subseteq {m \in Macs : connReqs[m] # NoHandle},
           UNCHANGED <<connReqs, link, queue, popping, alive>>
    PROVE  IInv'
<1> USE TypeParts DEF IInv
<1>0. /\ th \in [Threads -> ReqType]
      /\ th' \in [Threads -> ReqType]
      /\ th'[t] = Idle
      /\ \A u \in Threads : u # t => th'[u] = th[u]
    BY IdleType
<1>1. StageOK'
    BY <1>0, IdleType DEF StageOK, Stage
<1>2. TypeOK'
    BY <1>0, <1>1, TypePrimed
<1>3. OneRequest'
    BY <1>0, SilabsNames DEF OneRequest, Idle, StageOK, Stage
<1>4. EntryOK' /\ ClosedIsFree' /\ LinkOK'
    BY DEF EntryOK, ClosedIsFree, LinkOK
<1>5. ConnectOK' /\ DisconnectOK'
    BY <1>0 DEF ConnectOK, DisconnectOK, Idle
<1>6. NoOrphanLink'
  <2> SUFFICES ASSUME NEW g \in Handles, link[g].st \in {"opening", "open"},
                      connReqs[link[g].mac] # g
               PROVE  \E u \in Threads : /\ th'[u].mac = link[g].mac
                                         /\ th'[u].op = "CONNECT"
                                         /\ th'[u].got = g
                                         /\ th'[u].pc \in Connecting
      BY DEF NoOrphanLink, Connecting
  <2>1. PICK u \in Threads : /\ th[u].mac = link[g].mac
                             /\ th[u].op = "CONNECT"
                             /\ th[u].got = g
                             /\ th[u].pc \in Connecting
      BY DEF NoOrphanLink, Connecting
  <2>2. u # t
      BY <2>1
  <2> QED
      BY <1>0, <2>1, <2>2
<1> QED
    BY <1>1, <1>2, <1>3, <1>4, <1>5, <1>6

(* A request goes on; one that gives up a handle has closed it.            *)
LEMMA GoKeeps ==
    ASSUME IInv, NEW t \in Threads, NEW r \in ReqType, th' = [th EXCEPT ![t] = r],
           th[t].pc # "idle", r.pc # "idle", Stage(r),
           r.mac = th[t].mac, r.op = th[t].op, r.got = th[t].got,
           r.op = "DISCONNECT" => r.h = th[t].h /\ (r.set => th[t].set),
           LinksStay,
           r.op = "CONNECT" => (r.pc \in Connecting => th[t].pc \in Connecting),
           r.op = "CONNECT" /\ th[t].pc \in Connecting
              /\ (r.pc \notin Connecting \/ (r.pc = "store" /\ ~r.set))
              => \A g \in Handles : link'[g].mac = r.mac => link'[g].st = "closing",
           served' \subseteq {m \in Macs : connReqs[m] # NoHandle},
           UNCHANGED <<connReqs, queue, popping, alive>>
    PROVE  IInv'
<1> USE TypeParts DEF IInv
<1>0. /\ th \in [Threads -> ReqType]
      /\ th' \in [Threads -> ReqType]
      /\ th'[t] = r
      /\ \A u \in Threads : u # t => th'[u] = th[u]
    OBVIOUS
<1>1. StageOK'
    BY <1>0 DEF StageOK, Stage
<1>2. TypeOK'
    BY <1>0, <1>1, TypePrimed DEF LinksStay
<1>3. OneRequest'
    BY <1>0 DEF OneRequest
<1>4. EntryOK' /\ LinkOK'
    BY DEF EntryOK, LinkOK, LinksStay
<1>5. ClosedIsFree'
      BY EventsOfHandles DEF ClosedIsFree, LinksStay
<1>6. ConnectOK'
    BY <1>0 DEF ConnectOK, LinksStay, Connecting
<1>7. DisconnectOK'
    BY <1>0 DEF DisconnectOK, LinksStay
<1>8. NoOrphanLink'
  <2> SUFFICES ASSUME NEW g \in Handles, link'[g].st \in {"opening", "open"},
                      connReqs[link[g].mac] # g
               PROVE  \E u \in Threads : /\ th'[u].mac = link[g].mac
                                         /\ th'[u].op = "CONNECT"
                                         /\ th'[u].got = g
                                         /\ th'[u].pc \in Connecting
      BY DEF NoOrphanLink, Connecting, LinksStay
  <2>1. PICK u \in Threads : /\ th[u].mac = link[g].mac
                             /\ th[u].op = "CONNECT"
                             /\ th[u].got = g
                             /\ th[u].pc \in Connecting
      BY DEF NoOrphanLink, Connecting, LinksStay
  <2>2. u = t => r.pc \in Connecting
      BY <2>1 DEF LinksStay
  <2> QED
      BY <1>0, <2>1, <2>2
<1> QED
    BY <1>1, <1>2, <1>3, <1>4, <1>5, <1>6, <1>7, <1>8

-----------------------------------------------------------------------------
(* The requests *)

LEMMA ConnectKeeps ==
    ASSUME IInv, NEW t \in Threads, NEW m \in Macs, Connect(t, m)
    PROVE  IInv'
<1> DEFINE r == [Idle EXCEPT !.pc = "open", !.op = "CONNECT", !.mac = m, !.left = Retries,
                              !.h = NoHandle]
<1>1. r \in ReqType /\ Stage(r)
    BY SilabsBounds, SilabsNames DEF Idle, ReqType, Stage, AllOps
<1>2. th' = [th EXCEPT ![t] = r]
    BY DEF Connect, Begins, Becomes
<1> QED
    BY <1>1, <1>2, BeginKeeps DEF Connect, Begins, Idle

(* discover, read and write.                                               *)
LEMMA GattBeginKeeps ==
    ASSUME IInv, NEW t \in Threads, NEW m \in Macs, NEW op \in {"DISCOVER", "READ", "WRITE"},
           NEW n \in Nat, connReqs[m] # NoHandle, Begins(t, op, m, "gatt", n)
    PROVE  IInv'
<1> DEFINE r == [Idle EXCEPT !.pc = "gatt", !.op = op, !.mac = m, !.left = n, !.h = connReqs[m]]
<1>1. connReqs[m] \in Handles
    BY TypeParts DEF IInv
<1>2. r \in ReqType /\ Stage(r)
    BY <1>1 DEF Idle, ReqType, Stage, AllOps
<1>3. th' = [th EXCEPT ![t] = r]
    BY DEF Begins, Becomes
<1> QED
    BY <1>2, <1>3, BeginKeeps DEF Begins, Idle

LEMMA DisconnectKeeps ==
    ASSUME IInv, NEW t \in Threads, NEW m \in Macs, Disconnect(t, m)
    PROVE  IInv'
<1> DEFINE r == [Idle EXCEPT !.pc = "close", !.op = "DISCONNECT", !.mac = m, !.left = 1,
                              !.h = connReqs[m]]
<1>1. connReqs[m] \in Handles
    BY TypeParts DEF IInv, Disconnect
<1>2. r \in ReqType /\ Stage(r)
    BY <1>1 DEF Idle, ReqType, Stage, AllOps
<1>3. th' = [th EXCEPT ![t] = r]
    BY DEF Disconnect, Begins, Becomes
<1> QED
    BY <1>2, <1>3, BeginKeeps DEF Disconnect, Begins, Idle

LEMMA RequestKeeps ==
    ASSUME IInv, NEW t \in Threads, NEW m \in Macs,
           Connect(t, m) \/ Discover(t, m) \/ Read(t, m) \/ Write(t, m) \/ Disconnect(t, m)
    PROVE  IInv'
<1>1. m \in served => connReqs[m] # NoHandle
    BY TypeParts DEF IInv
<1>2. Stages \in Nat /\ 1 \in Nat
    BY SilabsBounds
<1>3. CASE Discover(t, m)
    BY <1>2, <1>3, GattBeginKeeps DEF Discover
<1>4. CASE Read(t, m)
    BY <1>1, <1>2, <1>4, GattBeginKeeps DEF Read
<1>5. CASE Write(t, m)
    BY <1>1, <1>2, <1>5, GattBeginKeeps DEF Write
<1> QED
    BY <1>3, <1>4, <1>5, ConnectKeeps, DisconnectKeeps

-----------------------------------------------------------------------------
(* The steps of a request *)

LEMMA AssignKeeps ==
    ASSUME IInv, NEW t \in Threads, Assign(t)
    PROVE  IInv'
<1> DEFINE r == [th[t] EXCEPT !.pc = "wait", !.h = th[t].got]
<1>1. th[t] \in ReqType /\ Stage(th[t]) /\ th[t].pc = "assign"
    BY TypeParts DEF IInv, StageOK, Assign
<1>2. r \in ReqType /\ Stage(r) /\ r.pc = "wait"
    BY <1>1 DEF ReqType, Stage
<1>3. /\ th' = [th EXCEPT ![t] = r] /\ LinksStay
      /\ served' \subseteq {m \in Macs : connReqs[m] # NoHandle}
    BY TypeParts, LinksStayUnchanged DEF Assign, Becomes, IInv
<1>4. r.mac = th[t].mac /\ r.op = th[t].op /\ r.got = th[t].got /\ r.op = "CONNECT"
    BY <1>1 DEF ReqType, Stage
<1> QED
    BY <1>1, <1>2, <1>3, <1>4, GoKeeps DEF Assign, Connecting

LEMMA WaitsKeeps ==
    ASSUME IInv, NEW t \in Threads, Waits(t)
    PROVE  IInv'
<1> DEFINE r == [th[t] EXCEPT !.pc = "wait"]
<1>1. th[t] \in ReqType /\ Stage(th[t]) /\ th[t].pc = "called"
    BY TypeParts DEF IInv, StageOK, Waits
<1>2. r \in ReqType /\ Stage(r) /\ r.pc = "wait"
    BY <1>1 DEF ReqType, Stage
<1>3. /\ th' = [th EXCEPT ![t] = r] /\ LinksStay
      /\ served' \subseteq {m \in Macs : connReqs[m] # NoHandle}
    BY TypeParts, LinksStayUnchanged DEF Waits, Goes, Becomes, IInv
<1>4. /\ r.mac = th[t].mac /\ r.op = th[t].op /\ r.got = th[t].got
      /\ r.op \in {"DISCOVER", "READ", "WRITE"}
    BY <1>1 DEF ReqType, Stage
<1> QED
    BY <1>1, <1>2, <1>3, <1>4, GoKeeps DEF Waits

LEMMA TimesOutKeeps ==
    ASSUME IInv, NEW t \in Threads, TimesOut(t)
    PROVE  IInv'
<1>1. th[t] \in ReqType /\ Stage(th[t]) /\ th[t].pc = "wait"
    BY TypeParts DEF IInv, StageOK, TimesOut
<1>2. served' \subseteq {m \in Macs : connReqs[m] # NoHandle}
    BY TypeParts DEF TimesOut, IInv
<1>3. CASE th[t].op = "CONNECT" /\ Goes(t, "close")
  <2> DEFINE r == [th[t] EXCEPT !.pc = "close"]
  <2>1. r \in ReqType /\ Stage(r) /\ r.pc = "close"
      BY <1>1, <1>3 DEF ReqType, Stage
  <2>2. r.mac = th[t].mac /\ r.op = th[t].op /\ r.got = th[t].got
      BY <1>1 DEF ReqType
  <2>3. th' = [th EXCEPT ![t] = r] /\ LinksStay
      BY <1>3, LinksStayUnchanged DEF TimesOut, Goes, Becomes
  <2> QED
      BY <1>1, <1>2, <1>3, <2>1, <2>2, <2>3, GoKeeps DEF TimesOut, Connecting
<1>4. CASE th[t].op = "DISCONNECT" /\ Returns(t)
    BY <1>2, <1>4, ReturnKeeps DEF TimesOut, Returns, Becomes
<1> QED
    BY <1>3, <1>4 DEF TimesOut

LEMMA WokenKeeps ==
    ASSUME IInv, NEW t \in Threads, Woken(t)
    PROVE  IInv'
<1>1. th[t] \in ReqType /\ Stage(th[t]) /\ th[t].pc = "wait" /\ th[t].set
    BY TypeParts DEF IInv, StageOK, Woken
<1>2. connReqs \in [Macs -> Handles \cup {NoHandle}] /\ th[t].mac \in Macs
    BY <1>1, TypeParts DEF IInv, Stage
<1>3. served' \subseteq {m \in Macs : connReqs[m] # NoHandle}
    BY <1>2, TypeParts DEF Woken, IInv
<1>4. CASE th[t].op = "CONNECT"
  <2> DEFINE r == [th[t] EXCEPT !.pc = "store"]
  <2>1. r \in ReqType /\ Stage(r) /\ r.pc = "store" /\ r.set
      BY <1>1, <1>4 DEF ReqType, Stage
  <2>2. r.mac = th[t].mac /\ r.op = th[t].op /\ r.got = th[t].got
      BY <1>1 DEF ReqType
  <2>3. th' = [th EXCEPT ![t] = r] /\ LinksStay
      BY <1>4, LinksStayUnchanged DEF Woken, Goes, Becomes
  <2> QED
      BY <1>1, <1>3, <1>4, <2>1, <2>2, <2>3, GoKeeps DEF Woken, Connecting
<1>5. CASE th[t].op # "CONNECT" /\ Returns(t)
    BY <1>3, <1>5, ReturnKeeps DEF Woken, Returns, Becomes
<1>6. CASE th[t].op = "DISCOVER" /\ ~Returns(t)
  <2> DEFINE r == [th[t] EXCEPT !.pc = "gatt", !.set = FALSE, !.left = @ - 1]
  <2>1. th[t].left > 1 /\ th' = [th EXCEPT ![t] = r]
      BY <1>6 DEF Woken, Becomes
  <2>2. r \in ReqType /\ Stage(r) /\ r.pc = "gatt"
    <3> DEFINE n == th[t].left - 1
    <3>1. n \in Nat
        BY <1>1, <2>1 DEF ReqType
    <3>2. r = [th[t] EXCEPT !.pc = "gatt", !.set = FALSE, !.left = n]
        OBVIOUS
    <3> HIDE DEF n
    <3>3. r \in ReqType /\ r.pc = "gatt" /\ r.op = "DISCOVER" /\ r.mac = th[t].mac /\ r.h = th[t].h
        BY <1>1, <1>6, <3>1, <3>2 DEF ReqType
    <3>4. th[t].mac \in Macs /\ th[t].h \in Handles
        BY <1>1 DEF Stage
    <3> HIDE DEF r
    <3> QED
        BY <3>3, <3>4 DEF Stage, AllOps
  <2>3. r.mac = th[t].mac /\ r.op = th[t].op /\ r.got = th[t].got
      BY <1>1 DEF ReqType
  <2>4. LinksStay
      BY LinksStayUnchanged DEF Woken
  <2> QED
      BY <1>1, <1>3, <1>6, <2>1, <2>2, <2>3, <2>4, GoKeeps DEF Woken
<1> QED
    BY <1>4, <1>5, <1>6 DEF Woken


LEMMA CloseKeeps ==
    ASSUME IInv, NEW t \in Threads, Close(t)
    PROVE  IInv'
<1>1. th[t] \in ReqType /\ Stage(th[t]) /\ th[t].pc = "close"
    BY TypeParts DEF IInv, StageOK, Close
<1>2. served' \subseteq {m \in Macs : connReqs[m] # NoHandle}
    BY TypeParts DEF Close, IInv
<1>3. /\ th[t].h \in Handles /\ th[t].mac \in Macs
      /\ th[t].op \in {"CONNECT", "DISCONNECT"}
      /\ th[t].op = "CONNECT" => th[t].h = th[t].got
    BY <1>1 DEF Stage
<1>4. link \in [Handles -> LinkType]
    BY TypeParts DEF IInv
<1>5. \A g \in Handles : th[t].op = "CONNECT" /\ link[g].mac = th[t].mac => g = th[t].h
    BY <1>1, <1>3 DEF IInv, ConnectOK, Connecting
<1>6. CASE link[th[t].h].st = "free"
  <2>1. link[th[t].h] = Free
      BY <1>3, <1>6 DEF IInv, LinkOK
  <2>2. \A g \in Handles : th[t].op = "CONNECT" => link[g].mac # th[t].mac
      BY <1>3, <1>5, <2>1, SilabsNames DEF Free
  <2> QED
      BY <1>2, <1>6, <2>2, ReturnKeeps DEF Close, Returns, Becomes
<1>7. CASE link[th[t].h].st # "free"
  <2>1. link' = [link EXCEPT ![th[t].h].st = "closing"] /\ AfterClose(t)
      BY <1>7 DEF Close
  <2>2. link[th[t].h] # Free
      BY <1>3, <1>7 DEF IInv, LinkOK
  <2>3. LinksStay
      BY <1>3, <1>4, <2>1, <2>2 DEF LinksStay, LinkType, IInv, LinkOK, Free
  <2>4. \A g \in Handles :
           th[t].op = "CONNECT" /\ link'[g].mac = th[t].mac => link'[g].st = "closing"
      BY <1>3, <1>4, <1>5, <2>1 DEF LinkType
  <2>5. PICK r : /\ th' = [th EXCEPT ![t] = r]
                 /\ r \in ReqType /\ Stage(r) /\ r.pc # "idle"
                 /\ r.mac = th[t].mac /\ r.op = th[t].op /\ r.got = th[t].got /\ r.h = th[t].h
                 /\ r.set = th[t].set
    <3>1. CASE th[t].op = "DISCONNECT"
      <4> WITNESS [th[t] EXCEPT !.pc = "wait"]
      <4> QED
          BY <1>1, <2>1, <3>1 DEF AfterClose, Goes, Becomes, ReqType, Stage
    <3>2. CASE th[t].op # "DISCONNECT" /\ th[t].left = 0
      <4> WITNESS [th[t] EXCEPT !.pc = "store"]
      <4> QED
          BY <1>1, <2>1, <3>2 DEF AfterClose, Goes, Becomes, ReqType, Stage
    <3>3. CASE th[t].op # "DISCONNECT" /\ th[t].left # 0
      <4> DEFINE n == th[t].left - 1
      <4>1. n \in Nat
          BY <1>1, <3>3 DEF ReqType
      <4>2. th' = [th EXCEPT ![t] = [th[t] EXCEPT !.pc = "open", !.left = n]]
          BY <2>1, <3>3 DEF AfterClose, Becomes
      <4> HIDE DEF n
      <4> WITNESS [th[t] EXCEPT !.pc = "open", !.left = n]
      <4> QED
          BY <1>1, <3>3, <4>1, <4>2 DEF ReqType, Stage
    <3> QED
        BY <3>1, <3>2, <3>3
  <2> QED
      BY <1>1, <1>2, <2>3, <2>4, <2>5, GoKeeps DEF Close, Connecting
<1> QED
    BY <1>6, <1>7

LEMMA GattKeeps ==
    ASSUME IInv, NEW t \in Threads, Gatt(t)
    PROVE  IInv'
<1>1. th[t] \in ReqType /\ Stage(th[t]) /\ th[t].pc = "gatt"
    BY TypeParts DEF IInv, StageOK, Gatt
<1>2. served' \subseteq {m \in Macs : connReqs[m] # NoHandle}
    BY TypeParts DEF Gatt, IInv
<1>3. th[t].h \in Handles /\ th[t].op \in {"DISCOVER", "READ", "WRITE"}
    BY <1>1 DEF Stage
<1>4. CASE Returns(t) /\ UNCHANGED link
    BY <1>1, <1>2, <1>3, <1>4, ReturnKeeps DEF Gatt, Returns, Becomes
<1>5. CASE ~(Returns(t) /\ UNCHANGED link)
  <2> DEFINE pc == IF th[t].op = "DISCOVER" THEN "called" ELSE "wait"
             r == [th[t] EXCEPT !.pc = pc]
  <2>1. /\ link[th[t].h].st = "open"
        /\ link' = [link EXCEPT ![th[t].h].proc = th[t].op]
        /\ th' = [th EXCEPT ![t] = r]
      BY <1>5 DEF Gatt, Goes, Becomes
  <2>2. r \in ReqType /\ Stage(r) /\ r.pc = pc
      BY <1>1, <1>3 DEF ReqType, Stage
  <2>3. /\ r.mac = th[t].mac /\ r.op = th[t].op /\ r.got = th[t].got
        /\ pc # "idle"
      BY <1>1 DEF ReqType
  <2>4. link \in [Handles -> LinkType]
      BY TypeParts DEF IInv
  <2>5. LinksStay
      BY <1>3, <2>1, <2>4 DEF LinksStay, LinkType, IInv, LinkOK, Free, AllOps
  <2>6. UNCHANGED <<connReqs, queue, popping, alive>> /\ th[t].pc # "idle"
      BY <1>1 DEF Gatt
  <2> HIDE DEF r, pc
  <2> QED
      BY <1>2, <1>3, <2>1, <2>2, <2>3, <2>5, <2>6, GoKeeps
<1> QED
    BY <1>4, <1>5

(* A connection that is being opened.                                      *)
LEMMA OpenKeeps ==
    ASSUME IInv, NEW t \in Threads, Open(t)
    PROVE  IInv'
<1> USE TypeParts DEF IInv
<1>1. /\ th[t] \in ReqType /\ Stage(th[t])
      /\ th[t].pc = "open" /\ th[t].op = "CONNECT" /\ th[t].mac \in Macs
    BY DEF StageOK, Stage, Open
<1>2. CASE Returns(t) /\ UNCHANGED link
    BY <1>1, <1>2, ReturnKeeps DEF Open, Returns, Becomes, Connecting
<1>3. CASE ~(Returns(t) /\ UNCHANGED link)
  <2>1. PICK h \in Handles :
           /\ Reusable(h)
           /\ link' = [link EXCEPT ![h] = [Free EXCEPT !.st = "opening", !.mac = th[t].mac]]
           /\ th' = [th EXCEPT ![t] = [th[t] EXCEPT !.pc = "assign", !.got = h]]
      BY <1>3 DEF Open, Becomes
  <2> DEFINE l == [st |-> "opening", mac |-> th[t].mac, proc |-> "NONE"]
             r == [th[t] EXCEPT !.pc = "assign", !.got = h]
  <2>2. \A g \in Handles : link[g].mac # th[t].mac
      BY <1>3 DEF Open
  <2>3. link'[h] = l /\ l \in LinkType /\ l # Free /\ \A g \in Handles : g # h => link'[g] = link[g]
      BY <1>1, <2>1 DEF Free, LinkType
  <2>4. /\ r \in ReqType /\ Stage(r) /\ r.pc = "assign" /\ r.got = h
        /\ r.mac = th[t].mac /\ r.op = "CONNECT"
      BY <1>1 DEF ReqType, Stage
  <2>5. th'[t] = r /\ \A u \in Threads : u # t => th'[u] = th[u]
      BY <2>1
  <2>6. th' \in [Threads -> ReqType] /\ link' \in [Handles -> LinkType]
      BY <1>1, <2>1, <2>3, <2>4 DEF Free
  <2>7. UNCHANGED <<connReqs, served, queue, popping, alive>>
      BY DEF Open
  <2> HIDE DEF l, r
  <2>10. StageOK'
      BY <2>4, <2>5 DEF StageOK
  <2>11. TypeOK'
      BY <2>6, <2>7, <2>10, TypePrimed
  <2>12. OneRequest'
      BY <1>1, <2>4, <2>5 DEF OneRequest
  <2>13. EntryOK'
      BY <1>1, <2>3, <2>7 DEF EntryOK, ConnectOK, l
  <2>14. ConnectOK'
    <3> SUFFICES ASSUME NEW u \in Threads, th'[u].op = "CONNECT"
                 PROVE  /\ connReqs[th'[u].mac] = NoHandle
                        /\ th'[u].pc \in Connecting
                             => \A g \in Handles : link'[g].mac = th'[u].mac => g = th'[u].got
                        /\ th'[u].pc = "store" /\ ~th'[u].set
                             => \A g \in Handles :
                                    link'[g].mac = th'[u].mac => link'[g].st = "closing"
        BY <2>7 DEF ConnectOK
    <3>1. CASE u = t
        BY <1>1, <2>2, <2>3, <2>4, <2>5, <3>1 DEF ConnectOK
    <3>2. CASE u # t
      <4>1. th'[u] = th[u] /\ th[u].mac # th[t].mac
          BY <1>1, <2>5, <3>2 DEF OneRequest
      <4> QED
          BY <2>3, <4>1 DEF ConnectOK, l
    <3> QED
        BY <3>1, <3>2
  <2>15. DisconnectOK'
    <3> SUFFICES ASSUME NEW u \in Threads, th'[u].op = "DISCONNECT"
                 PROVE  /\ \A g \in Handles : link'[g].mac = th'[u].mac => g = th'[u].h
                        /\ th'[u].set => \A g \in Handles : link'[g].mac # th'[u].mac
        BY DEF DisconnectOK
    <3>1. th'[u] = th[u] /\ th[u].mac # th[t].mac
        BY <1>1, <2>4, <2>5 DEF OneRequest
    <3>2. \A g \in Handles : link'[g].mac = th[u].mac => link'[g] = link[g]
        BY <2>3, <3>1 DEF l
    <3> QED
        BY <3>1, <3>2 DEF DisconnectOK
  <2>16. ClosedIsFree'
    <3>1. popping # h /\ \A k \in 1..Len(queue) : queue[k].kind = "closed" => queue[k].h # h
      <4> SUFFICES ASSUME NEW k \in 1..Len(queue), queue[k].kind = "closed", queue[k].h = h
                   PROVE  FALSE
          BY <2>1 DEF Reusable
      <4>1. queue[k] \in EventType /\ k \in DOMAIN queue
          OBVIOUS
      <4>2. queue[k] = Event("closed", h)
          BY <4>1 DEF Event, EventType
      <4> QED
          BY <2>1, <4>1, <4>2 DEF Reusable
    <3> QED
        BY <2>3, <2>7, <3>1, EventsOfHandles DEF ClosedIsFree
  <2>17. LinkOK'
      BY <1>1, <2>3 DEF LinkOK, l
  <2>18. NoOrphanLink'
    <3> SUFFICES ASSUME NEW g \in Handles, link'[g].st \in {"opening", "open"},
                        connReqs[link'[g].mac] # g
                 PROVE  \E u \in Threads : /\ th'[u].mac = link'[g].mac
                                           /\ th'[u].op = "CONNECT"
                                           /\ th'[u].got = g
                                           /\ th'[u].pc \in Connecting
        BY <2>7 DEF NoOrphanLink, Connecting
    <3>1. CASE g = h
        BY <2>3, <2>4, <2>5, <3>1 DEF l, Connecting
    <3>2. CASE g # h
      <4>1. PICK u \in Threads : /\ th[u].mac = link[g].mac
                                 /\ th[u].op = "CONNECT"
                                 /\ th[u].got = g
                                 /\ th[u].pc \in Connecting
          BY <2>3, <3>2 DEF NoOrphanLink, Connecting
      <4>2. u # t
          BY <1>1, <4>1 DEF Connecting
      <4> QED
          BY <2>3, <2>5, <3>2, <4>1, <4>2
    <3> QED
        BY <3>1, <3>2
  <2> QED
      BY <2>10, <2>11, <2>12, <2>13, <2>14, <2>15, <2>16, <2>17, <2>18
<1> QED
    BY <1>2, <1>3

(* A connection that was opened gets its entry.                            *)
LEMMA StoreKeeps ==
    ASSUME IInv, NEW t \in Threads, Store(t)
    PROVE  IInv'
<1> USE TypeParts DEF IInv
<1>1. /\ th[t] \in ReqType /\ th[t].pc = "store" /\ th[t].op = "CONNECT" /\ th[t].mac \in Macs
      /\ th[t].h \in Handles /\ th[t].h = th[t].got
    BY DEF StageOK, Stage, Store
<1>2. th' = [th EXCEPT ![t] = Idle] /\ UNCHANGED <<link, queue, popping, alive>>
    BY DEF Store, Returns, Becomes
<1>3. CASE ~th[t].set
    BY <1>1, <1>2, <1>3, ReturnKeeps DEF Store, ConnectOK
<1>4. CASE th[t].set
  <2>1. /\ connReqs' = [connReqs EXCEPT ![th[t].mac] = th[t].h]
        /\ served' = served \ {th[t].mac}
      BY <1>4 DEF Store
  <2>2. /\ th' \in [Threads -> ReqType]
        /\ th'[t] = Idle
        /\ \A u \in Threads : u # t => th'[u] = th[u]
      BY <1>2, IdleType
  <2>3. /\ connReqs'[th[t].mac] = th[t].h
        /\ \A m \in Macs : m # th[t].mac => connReqs'[m] = connReqs[m]
        /\ connReqs' \in [Macs -> Handles \cup {NoHandle}]
      BY <1>1, <2>1
  <2>4. StageOK'
      BY <2>2, IdleType DEF StageOK
  <2>5. served' \subseteq {m \in Macs : connReqs'[m] # NoHandle}
      BY <2>1, <2>3
  <2>6. TypeOK'
      BY <1>2, <2>2, <2>3, <2>4, <2>5, TypePrimed
  <2>7. OneRequest'
      BY <2>2, SilabsNames DEF OneRequest, Idle, StageOK, Stage
  <2>8. EntryOK'
      BY <1>1, <1>2, <2>3 DEF EntryOK, ConnectOK, Connecting
  <2>9. ConnectOK'
      BY <1>1, <1>2, <2>2, <2>3 DEF ConnectOK, OneRequest, Idle, StageOK, Stage
  <2>10. DisconnectOK' /\ LinkOK' /\ ClosedIsFree'
      BY <1>2, <2>2 DEF DisconnectOK, LinkOK, ClosedIsFree, Idle
  <2>11. NoOrphanLink'
    <3> SUFFICES ASSUME NEW g \in Handles, link[g].st \in {"opening", "open"},
                        connReqs'[link[g].mac] # g
                 PROVE  \E u \in Threads : /\ th'[u].mac = link[g].mac
                                           /\ th'[u].op = "CONNECT"
                                           /\ th'[u].got = g
                                           /\ th'[u].pc \in Connecting
        BY <1>2 DEF NoOrphanLink, Connecting
    <3>1. link[g].mac \in Macs
        BY DEF LinkOK, Free
    <3>2. link[g].mac # th[t].mac
        BY <1>1, <2>3 DEF ConnectOK, Connecting
    <3>3. PICK u \in Threads : /\ th[u].mac = link[g].mac
                               /\ th[u].op = "CONNECT"
                               /\ th[u].got = g
                               /\ th[u].pc \in Connecting
        BY <2>3, <3>1, <3>2 DEF NoOrphanLink, Connecting
    <3> QED
        BY <2>2, <3>2, <3>3
  <2> QED
      BY <2>4, <2>6, <2>7, <2>8, <2>9, <2>10, <2>11
<1> QED
    BY <1>3, <1>4

LEMMA ThreadKeeps ==
    ASSUME IInv, NEW t \in Threads, Thread(t)
    PROVE  IInv'
    BY OpenKeeps, AssignKeeps, CloseKeeps, StoreKeeps, WokenKeeps, TimesOutKeeps, GattKeeps,
       WaitsKeeps DEF Thread

-----------------------------------------------------------------------------
(* The event thread *)

LEMMA HandleEventKeeps ==
    ASSUME IInv, HandleEvent
    PROVE  IInv'
<1> USE TypeParts DEF IInv
<1> DEFINE e == Head(queue)
<1>1. /\ queue # <<>>
      /\ th' = [t \in Threads |-> IF Sets(e, th[t]) THEN [th[t] EXCEPT !.set = TRUE] ELSE th[t]]
      /\ popping' = IF e.kind = "closed" THEN e.h ELSE NoHandle
      /\ queue' = Tail(queue)
      /\ UNCHANGED <<connReqs, served, link, alive>>
    BY DEF HandleEvent
<1>2. e = queue[1] /\ 1 \in 1..Len(queue) /\ e \in EventType
    BY <1>1
<1>3. /\ queue' \in Seq(EventType)
      /\ \A k \in 1..Len(queue') : k + 1 \in 1..Len(queue) /\ queue'[k] = queue[k + 1]
    BY <1>1
<1>4. e.h \in Handles
    BY <1>2 DEF EventType
<1>5. e.kind = "closed" => link[e.h] = Free
    BY <1>2 DEF ClosedIsFree
<1> HIDE DEF e
(* Only the event of a request changes.                                    *)
<1>6. \A t \in Threads : th'[t] = IF Sets(e, th[t]) THEN [th[t] EXCEPT !.set = TRUE] ELSE th[t]
    BY <1>1
<1>7. \A t \in Threads :
         /\ th[t] \in ReqType /\ th'[t] \in ReqType
         /\ th'[t].pc = th[t].pc /\ th'[t].op = th[t].op /\ th'[t].mac = th[t].mac
         /\ th'[t].h = th[t].h /\ th'[t].got = th[t].got
         /\ th'[t].set => th[t].set \/ Sets(e, th[t])
         /\ th[t].set => th'[t].set
  <2> TAKE t \in Threads
  <2>1. th[t] \in ReqType
      OBVIOUS
  <2>2. CASE Sets(e, th[t])
    <3>1. th'[t] = [th[t] EXCEPT !.set = TRUE]
        BY <1>6, <2>2
    <3> QED
        BY <2>1, <2>2, <3>1 DEF ReqType
  <2>3. CASE ~Sets(e, th[t])
    <3>1. th'[t] = th[t]
        BY <1>6, <2>3
    <3> QED
        BY <2>1, <3>1
  <2> QED
      BY <2>2, <2>3
<1>8. \A t \in Threads : th[t] = Idle => th'[t] = Idle
  <2>1. Idle.h # e.h
      BY <1>4, SilabsNames DEF Idle
  <2>2. ~Sets(e, Idle)
      BY <2>1 DEF Sets
  <2> QED
      BY <1>6, <2>2
<1>9. StageOK'
    BY <1>7, <1>8 DEF StageOK, Stage
<1>10. th' \in [Threads -> ReqType]
    BY <1>1, <1>7
<1>11. popping' \in Handles \cup {NoHandle}
    BY <1>1, <1>4
<1>12. TypeOK'
    BY <1>1, <1>3, <1>9, <1>10, <1>11, TypePrimed
<1>13. OneRequest'
    BY <1>7 DEF OneRequest
<1>14. EntryOK' /\ LinkOK'
    BY <1>1 DEF EntryOK, LinkOK
<1>15. ConnectOK'
    BY <1>1, <1>7 DEF ConnectOK
<1>16. DisconnectOK'
  <2> SUFFICES ASSUME NEW t \in Threads, th'[t].op = "DISCONNECT"
               PROVE  /\ \A g \in Handles : link[g].mac = th'[t].mac => g = th'[t].h
                      /\ th'[t].set => \A g \in Handles : link[g].mac # th'[t].mac
      BY <1>1 DEF DisconnectOK
  <2>1. /\ \A g \in Handles : link[g].mac = th[t].mac => g = th[t].h
        /\ th[t].set => \A g \in Handles : link[g].mac # th[t].mac
        /\ th[t].mac \in Macs
      BY <1>7 DEF DisconnectOK, StageOK, Stage, Idle
  <2>2. Sets(e, th[t]) => th[t].h = e.h /\ link[e.h] = Free
      BY <1>5, <1>7 DEF Sets, OpenedOrClosed, Completed
  <2> QED
      BY <1>7, <2>1, <2>2, SilabsNames DEF Free
<1>17. ClosedIsFree'
  <2>1. popping' # NoHandle => link'[popping'] = Free
      BY <1>1, <1>5
  <2>2. ASSUME NEW k \in 1..Len(queue'), queue'[k].kind = "closed"
        PROVE  link'[queue'[k].h] = Free
      BY <1>1, <1>3, <2>2 DEF ClosedIsFree
  <2> QED
      BY <2>1, <2>2 DEF ClosedIsFree
<1>18. NoOrphanLink'
    BY <1>1, <1>7 DEF NoOrphanLink
<1> QED
    BY <1>9, <1>12, <1>13, <1>14, <1>15, <1>16, <1>17, <1>18

(* The entry of a closed connection is dropped: no link loses its entry.   *)
LEMMA PopClosedKeeps ==
    ASSUME IInv, PopClosed
    PROVE  IInv'
<1> USE TypeParts DEF IInv
<1>1. popping \in Handles /\ link[popping] = Free
    BY DEF PopClosed, ClosedIsFree
<1>2. /\ connReqs' \in [Macs -> Handles \cup {NoHandle}]
      /\ \A m \in Macs : \/ connReqs'[m] = connReqs[m]
                         \/ connReqs[m] = popping /\ connReqs'[m] = NoHandle
    BY DEF PopClosed
<1>3. popping' = NoHandle /\ UNCHANGED <<th, link, queue, alive>>
    BY DEF PopClosed
<1>4. served' \subseteq {m \in Macs : connReqs'[m] # NoHandle}
    BY DEF PopClosed
<1>5. StageOK' /\ OneRequest' /\ DisconnectOK' /\ LinkOK' /\ ClosedIsFree'
    BY <1>3 DEF StageOK, OneRequest, DisconnectOK, LinkOK, ClosedIsFree
<1>6. TypeOK'
    BY <1>2, <1>3, <1>4, <1>5, TypePrimed
<1>7. EntryOK'
    BY <1>2, <1>3 DEF EntryOK
<1>8. ConnectOK'
    BY <1>2, <1>3 DEF ConnectOK, StageOK, Stage, Idle
<1>9. NoOrphanLink'
    BY <1>1, <1>2, <1>3 DEF NoOrphanLink, LinkOK, Free
<1> QED
    BY <1>5, <1>6, <1>7, <1>8, <1>9

LEMMA EventThreadDiesKeeps ==
    ASSUME IInv, EventThreadDies
    PROVE  IInv'
<1> USE TypeParts DEF IInv
<1>1. /\ alive' = FALSE /\ queue' = <<>> /\ popping' = NoHandle
      /\ UNCHANGED <<connReqs, served, th, link>>
    BY DEF EventThreadDies
<1>2. queue' \in Seq(EventType) /\ Len(queue') = 0
    BY <1>1
<1>3. StageOK' /\ OneRequest' /\ EntryOK' /\ ConnectOK' /\ DisconnectOK' /\ LinkOK' /\ NoOrphanLink'
    BY <1>1 DEF StageOK, OneRequest, EntryOK, ConnectOK, DisconnectOK, LinkOK, NoOrphanLink
<1>4. ClosedIsFree'
    BY <1>1, <1>2 DEF ClosedIsFree
<1>5. TypeOK'
    BY <1>1, <1>2, <1>3, TypePrimed
<1> QED
    BY <1>3, <1>4, <1>5

LEMMA RunKeeps ==
    ASSUME IInv, Run
    PROVE  IInv'
    BY HandleEventKeeps, PopClosedKeeps, EventThreadDiesKeeps DEF Run

-----------------------------------------------------------------------------
(* The radio *)

(* One link changes and events about it are added: it keeps its device, or *)
(* is free, and then only is it reported as closed.                        *)
LEMMA RadioKeeps ==
    ASSUME IInv, NEW h \in Handles, NEW l \in LinkType, NEW es \in Seq(EventType),
           link' = [link EXCEPT ![h] = l], link[h] # Free,
           l = Free \/ (l # Free /\ l.st # "free" /\ l.mac = link[h].mac),
           l.st \in {"opening", "open"} => link[h].st \in {"opening", "open"},
           link[h].st = "closing" => l = Free \/ l.st = "closing",
           \A k \in 1..Len(es) : es[k].h = h /\ (es[k].kind = "closed" => l = Free),
           Reports(es),
           UNCHANGED <<connReqs, served, th, popping, alive>>
    PROVE  IInv'
<1> USE TypeParts DEF IInv
<1>1. link'[h] = l /\ \A g \in Handles : g # h => link'[g] = link[g]
    OBVIOUS
<1>2. link' \in [Handles -> LinkType]
    OBVIOUS
<1>3. queue' \in Seq(EventType)
    BY DEF Reports
<1>4. \A g \in Handles : /\ link[g] = Free => link'[g] = Free
                         /\ link'[g] = Free \/ link'[g].mac = link[g].mac
                         /\ link'[g].st \in {"opening", "open"}
                              => link[g].st \in {"opening", "open"}
                         /\ link[g].st = "closing" => link'[g] = Free \/ link'[g].st = "closing"
    BY <1>1
<1>5. NoMac \notin Macs /\ Free.mac = NoMac /\ Free.st = "free"
    BY SilabsNames DEF Free
<1>6. StageOK' /\ OneRequest'
    BY DEF StageOK, OneRequest
<1>7. TypeOK'
    BY <1>2, <1>3, <1>6, TypePrimed
<1>8. LinkOK'
    BY <1>1, <1>5 DEF LinkOK
<1>9. EntryOK'
    BY <1>4, <1>5 DEF EntryOK
<1>10. ConnectOK'
    BY <1>4, <1>5 DEF ConnectOK, StageOK, Stage, Idle
<1>11. DisconnectOK'
    BY <1>4, <1>5 DEF DisconnectOK, StageOK, Stage, Idle
<1>12. ClosedIsFree'
  <2>1. popping # NoHandle => link'[popping] = Free
      BY <1>4 DEF ClosedIsFree
  <2>2. ASSUME NEW k \in 1..Len(queue'), queue'[k].kind = "closed"
        PROVE  link'[queue'[k].h] = Free
    <3>1. CASE ~alive
        BY <2>2, <3>1 DEF Reports
    <3>2. CASE alive /\ k <= Len(queue)
      <4>1. queue'[k] = queue[k] /\ k \in 1..Len(queue)
          BY <3>2 DEF Reports
      <4> QED
          BY <1>4, <2>2, <4>1, EventsOfHandles DEF ClosedIsFree
    <3>3. CASE alive /\ k > Len(queue)
      <4>1. queue'[k] = es[k - Len(queue)] /\ k - Len(queue) \in 1..Len(es)
          BY <3>3 DEF Reports
      <4> QED
          BY <1>1, <2>2, <4>1
    <3> QED
        BY <3>1, <3>2, <3>3
  <2> QED
      BY <2>1, <2>2 DEF ClosedIsFree
<1>13. NoOrphanLink'
    BY <1>4, <1>5 DEF NoOrphanLink
<1> QED
    BY <1>6, <1>7, <1>8, <1>9, <1>10, <1>11, <1>12, <1>13

LEMMA OpensKeeps ==
    ASSUME IInv, NEW h \in Handles, Opens(h)
    PROVE  IInv'
<1> DEFINE l == [link[h] EXCEPT !.st = "open"]
<1>1. link[h] \in LinkType /\ link[h].st = "opening"
    BY TypeParts DEF IInv, Opens
<1>2. link[h] # Free /\ l # Free /\ l.st = "open" /\ l.mac = link[h].mac /\ l \in LinkType
    BY <1>1 DEF LinkType, Free
<1>3. /\ Event("opened", h) \in EventType
      /\ Event("opened", h).h = h /\ Event("opened", h).kind = "opened"
    BY DEF Event, EventType
<1>4. link' = [link EXCEPT ![h] = l]
    BY DEF Opens
<1> DEFINE es == <<Event("opened", h)>>
<1>5. es \in Seq(EventType) /\ \A k \in 1..Len(es) : es[k].h = h /\ es[k].kind # "closed"
    BY <1>3
<1>6. Reports(es) /\ UNCHANGED <<connReqs, served, th, popping, alive>>
    BY DEF Opens
<1> HIDE DEF l, es
<1> QED
    BY <1>1, <1>2, <1>4, <1>5, <1>6, RadioKeeps

LEMMA ClosesKeeps ==
    ASSUME IInv, NEW h \in Handles, Closes(h)
    PROVE  IInv'
<1> DEFINE es == IF link[h].proc = "NONE" THEN <<Event("closed", h)>>
                 ELSE <<Event("completed", h), Event("closed", h)>>
<1>1. link[h] # Free /\ Free \in LinkType
    BY DEF Closes, Free, LinkType
<1>2. \A kind \in {"closed", "completed"} :
          Event(kind, h) \in EventType /\ Event(kind, h).h = h /\ Event(kind, h).kind = kind
    BY DEF Event, EventType
<1>3. es \in Seq(EventType) /\ \A k \in 1..Len(es) : es[k].h = h
    BY <1>2
<1>4. /\ link' = [link EXCEPT ![h] = Free] /\ Reports(es)
      /\ UNCHANGED <<connReqs, served, th, popping, alive>>
    BY DEF Closes
<1>5. Free.st = "free"
    BY DEF Free
<1> HIDE DEF es
<1> QED
    BY <1>1, <1>3, <1>4, <1>5, RadioKeeps

LEMMA CompletesKeeps ==
    ASSUME IInv, NEW h \in Handles, Completes(h)
    PROVE  IInv'
<1> DEFINE l == [link[h] EXCEPT !.proc = "NONE"]
<1>1. link[h] \in LinkType /\ link[h].proc # "NONE"
    BY TypeParts DEF IInv, Completes
<1>2. link[h] # Free /\ link[h].st # "free"
    BY <1>1 DEF Free, IInv, LinkOK
<1>3. l # Free /\ l.st = link[h].st /\ l.mac = link[h].mac /\ l \in LinkType
    BY <1>1, <1>2 DEF LinkType, Free
<1>4. \A kind \in {"value", "completed"} :
          Event(kind, h) \in EventType /\ Event(kind, h).h = h /\ Event(kind, h).kind = kind
    BY DEF Event, EventType
<1>5. PICK es \in {<<Event("completed", h)>>, <<Event("value", h), Event("completed", h)>>} :
          Reports(es)
    BY DEF Completes
<1>6. es \in Seq(EventType) /\ \A k \in 1..Len(es) : es[k].h = h /\ es[k].kind # "closed"
  <2>1. CASE es = <<Event("completed", h)>>
      BY <1>4, <2>1
  <2>2. CASE es = <<Event("value", h), Event("completed", h)>>
      BY <1>4, <2>2
  <2> QED
      BY <1>5, <2>1, <2>2
<1>7. link' = [link EXCEPT ![h] = l] /\ UNCHANGED <<connReqs, served, th, popping, alive>>
    BY DEF Completes
<1> HIDE DEF l
<1> QED
    BY <1>2, <1>3, <1>5, <1>6, <1>7, RadioKeeps

-----------------------------------------------------------------------------
(* The specification *)

LEMMA InitHolds == Init => IInv
<1> SUFFICES ASSUME Init PROVE IInv
    OBVIOUS
<1>1. Free \in LinkType /\ Free.st = "free" /\ Free.mac = NoMac
    BY DEF Free, LinkType
<1>2. Idle \in ReqType /\ Stage(Idle) /\ Idle.pc = "idle" /\ Idle.op = "NONE"
    BY IdleType DEF Idle
<1>3. TypeOK
    BY <1>1, <1>2, TypeParts DEF Init
<1>4. StageOK /\ OneRequest /\ ConnectOK /\ DisconnectOK
    BY <1>2 DEF Init, StageOK, OneRequest, ConnectOK, DisconnectOK
<1>5. EntryOK /\ LinkOK /\ NoOrphanLink /\ ClosedIsFree
    BY <1>1 DEF Init, EntryOK, LinkOK, NoOrphanLink, ClosedIsFree
<1> QED
    BY <1>3, <1>4, <1>5 DEF IInv

LEMMA NextKeeps == IInv /\ [Next]_vars => IInv'
<1> SUFFICES ASSUME IInv, [Next]_vars PROVE IInv'
    OBVIOUS
<1>1. CASE UNCHANGED vars
    BY <1>1 DEF vars, IInv, TypeOK, StageOK, OneRequest, EntryOK, ConnectOK, DisconnectOK,
                ClosedIsFree, LinkOK, NoOrphanLink
<1>2. CASE Next
    BY <1>2, RequestKeeps, ThreadKeeps, RunKeeps, OpensKeeps, ClosesKeeps, CompletesKeeps
       DEF Next
<1> QED
    BY <1>1, <1>2

(* The inductive invariant holds in every state: of what the requests, the *)
(* entries of conn_reqs and the radio know of one another.                 *)
THEOREM Inductive == Spec => []IInv
    BY InitHolds, NextKeeps, PTL DEF Spec

(* The attributes of the access point have their types; services are only  *)
(* kept in entries, and a request that uses a handle has one.              *)
THEOREM TypeCorrect == Spec => []TypeOK
<1>1. IInv => TypeOK
    BY DEF IInv
<1> QED
    BY <1>1, Inductive, PTL

(* connect stores or closes what it opens, and an entry outlives its       *)
(* connection: the radio never has one that disconnect could not close.    *)
THEOREM NoConnectionOrphaned == Spec => []NoOrphanLink
<1>1. IInv => NoOrphanLink
    BY DEF IInv
<1> QED
    BY <1>1, Inductive, PTL

(* The event that ends a disconnect is that of its own connection, and the *)
(* device has no other: the answer is true.                                *)
THEOREM DisconnectsTruthful == Spec => DisconnectTruthful
<1>1. IInv /\ [Next]_vars
        => [\A t \in Threads :
              (th[t].op = "DISCONNECT" /\ th[t].pc = "wait" /\ th[t].set /\ th'[t] = Idle)
                  => \A h \in Handles : link[h].mac # th[t].mac]_vars
    BY DEF IInv, DisconnectOK
<1> QED
    BY <1>1, Inductive, PTL DEF Spec, DisconnectTruthful
=============================================================================
