----------------------- MODULE GatewayConnectionsProofs -----------------------
(***************************************************************************)
(* The gateway's connections for any number of requests served at the same *)
(* time, and any number of devices, properties, retries and faults: they   *)
(* are typed, and for every device whose connecting and disconnecting      *)
(* requests have not crossed, no link is left up that the gateway does not *)
(* know of, a CONNECT that failed is undone, and a connection that was     *)
(* granted stays.                                                          *)
(***************************************************************************)
EXTENDS GatewayConnections, TLAPS

-----------------------------------------------------------------------------
(* THE INDUCTIVE INVARIANTS *)

(* What a thread does fits its request.                                    *)
Fits(r) ==
    /\ r.implicit => r.op \in {"READ", "WRITE"}
    /\ r.pc = "connect" => r.op = "CONNECT" \/ r.implicit
    /\ r.pc = "discover" => r.op \in {"CONNECT", "UPDATE"} \/ r.implicit
    /\ r.pc = "access" => r.op \in {"READ", "WRITE", "DIRECT"}
    /\ r.pc = "disconnect" => r.op = "DISCONNECT" \/ r.implicit
    /\ r.pc = "cleanup" => r.op = "CONNECT"

(* A command is written for a call that still waits, once.                 *)
CallsWait ==
    /\ \A k \in DOMAIN orders : orders[k].thread # NoThread =>
          LET r == th[orders[k].thread]
          IN  r # Idle /\ r.ans = "none" /\ r.mac = orders[k].mac /\ Command(r.pc) = orders[k].cmd
    /\ \A j, k \in DOMAIN orders :
          (orders[j].thread = orders[k].thread /\ orders[j].thread # NoThread) => j = k

IInv == TypeOK /\ CallsWait /\ \A t \in Threads : Fits(th[t])

(* One request at a time connects or disconnects a device that was not     *)
(* crossed.                                                                *)
Alone ==
    \A t, u \in Threads :
        (/\ Changes(th[t]) /\ Changes(th[u])
         /\ th[t].mac = th[u].mac /\ th[t].mac \notin crossed) => t = u

Switches(o) == o.cmd \in {"CONNECT", "DISCONNECT"}

(* What is left of its earlier calls, and of other requests, is executed   *)
(* before the present call of a request that connects or disconnects.      *)
InTurn ==
    \A t \in Threads : (Changes(th[t]) /\ th[t].mac \notin crossed) =>
        /\ \A j, k \in DOMAIN orders :
              (orders[j].thread = t /\ orders[k].mac = th[t].mac /\ Switches(orders[k])) => k <= j
        /\ th[t].ans = "ok" =>
              \A k \in DOMAIN orders : orders[k].mac = th[t].mac => ~Switches(orders[k])

(* A handler is making a connection, or uses the one it has made.          *)
Makes(r) ==
    (r.op = "CONNECT" \/ r.implicit) /\ r.pc \in {"connect", "discover", "access"}

Making(m) == \E t \in Threads : th[t].mac = m /\ Makes(th[t])

Accounted == \A m \in Macs \ crossed : m \in connReqs \cup strays \/ Making(m) \/ Undone(m)

Unmaking ==
    \A t \in Threads : th[t].pc \in {"disconnect", "cleanup"}
        => th[t].mac \in strays \cup crossed \/ Undone(th[t].mac)

(* A granted connection is known, and nobody is about to change it.        *)
Untouched ==
    \A m \in granted \ crossed :
        /\ m \in connReqs
        /\ link[m] = "up"
        /\ \A k \in DOMAIN orders : orders[k].mac = m => ~Switches(orders[k])
        /\ \A t \in Threads : th[t].mac = m => ~Changes(th[t])

SInv == IInv /\ Alone /\ InTurn /\ Accounted /\ Unmaking /\ Untouched

-----------------------------------------------------------------------------
(* Commands written, taken and abandoned *)

LEMMA Appended ==
    ASSUME NEW S, NEW s \in Seq(S), NEW x \in S
    PROVE  /\ Append(s, x) \in Seq(S)
           /\ Len(s) \in Nat
           /\ Len(Append(s, x)) = Len(s) + 1
           /\ DOMAIN s = 1..Len(s)
           /\ DOMAIN Append(s, x) = 1..(Len(s) + 1)
           /\ \A k \in 1..Len(s) : Append(s, x)[k] = s[k]
           /\ Append(s, x)[Len(s) + 1] = x
    OBVIOUS

LEMMA Taken ==
    ASSUME NEW S, NEW s \in Seq(S), s # <<>>
    PROVE  /\ Tail(s) \in Seq(S)
           /\ Len(s) \in Nat /\ Len(s) > 0
           /\ Len(Tail(s)) = Len(s) - 1
           /\ DOMAIN s = 1..Len(s)
           /\ DOMAIN Tail(s) = 1..(Len(s) - 1)
           /\ \A k \in 1..(Len(s) - 1) : Tail(s)[k] = s[k + 1]
           /\ Head(s) = s[1]
           /\ Head(s) \in S
    OBVIOUS

(* Commands in which at most the caller changes.                           *)
SameOrders(s, q) ==
    /\ DOMAIN q = DOMAIN s /\ Len(q) = Len(s)
    /\ \A k \in DOMAIN s : q[k].mac = s[k].mac /\ q[k].cmd = s[k].cmd

LEMMA OrderFields ==
    ASSUME NEW o \in OrderType
    PROVE  /\ o.thread \in Threads \cup {NoThread}
           /\ o.mac \in Macs
           /\ o.tries \in Nat
           /\ o.cmd \in PiCommands
    BY DEF OrderType

LEMMA OrderLeft ==
    ASSUME NEW o \in OrderType
    PROVE  /\ [o EXCEPT !.thread = NoThread] \in OrderType
           /\ [o EXCEPT !.thread = NoThread].thread = NoThread
           /\ [o EXCEPT !.thread = NoThread].mac = o.mac
           /\ [o EXCEPT !.thread = NoThread].cmd = o.cmd
    BY DEF OrderType

LEMMA OrdersLeft ==
    ASSUME NEW s \in Seq(OrderType), NEW q,
           q = [k \in DOMAIN s |-> [s[k] EXCEPT !.thread = NoThread]]
    PROVE  /\ q \in Seq(OrderType)
           /\ SameOrders(s, q)
           /\ \A k \in DOMAIN s : q[k].thread = NoThread
<1>1. DOMAIN s = 1..Len(s) /\ Len(s) \in Nat /\ \A k \in DOMAIN s : s[k] \in OrderType
    OBVIOUS
<1>2. \A k \in DOMAIN s : /\ q[k] \in OrderType /\ q[k].thread = NoThread
                          /\ q[k].mac = s[k].mac /\ q[k].cmd = s[k].cmd
    BY <1>1, OrderLeft
<1>3. q \in [1..Len(s) -> OrderType]
    BY <1>1, <1>2
<1>4. q \in Seq(OrderType) /\ Len(q) = Len(s)
    BY <1>1, <1>3
<1> QED
    BY <1>1, <1>2, <1>4 DEF SameOrders

LEMMA AbandonedOnes ==
    ASSUME NEW s \in Seq(OrderType), NEW t, NEW q, q = Abandoned(s, t)
    PROVE  /\ q \in Seq(OrderType)
           /\ SameOrders(s, q)
           /\ \A k \in DOMAIN s : q[k].thread = IF s[k].thread = t THEN NoThread ELSE s[k].thread
<1>1. DOMAIN s = 1..Len(s) /\ Len(s) \in Nat /\ \A k \in DOMAIN s : s[k] \in OrderType
    OBVIOUS
<1>2. q = [k \in DOMAIN s |-> IF s[k].thread = t THEN [s[k] EXCEPT !.thread = NoThread] ELSE s[k]]
    BY DEF Abandoned
<1>3. \A k \in DOMAIN s :
         /\ q[k] \in OrderType
         /\ q[k].thread = IF s[k].thread = t THEN NoThread ELSE s[k].thread
         /\ q[k].mac = s[k].mac /\ q[k].cmd = s[k].cmd
    BY <1>1, <1>2, OrderLeft
<1>4. q \in [1..Len(s) -> OrderType]
    BY <1>1, <1>2, <1>3
<1>5. q \in Seq(OrderType) /\ Len(q) = Len(s)
    BY <1>1, <1>4
<1> QED
    BY <1>1, <1>3, <1>5 DEF SameOrders

LEMMA Joined ==
    ASSUME NEW S, NEW a \in Seq(S), NEW b \in Seq(S)
    PROVE  a \o b \in Seq(S) /\ Len(a \o b) = Len(a) + Len(b)
    OBVIOUS

LEMMA RemovedOne ==
    ASSUME NEW S, NEW s \in Seq(S), NEW n \in 1..Len(s)
    PROVE  /\ RemoveAt(s, n) \in Seq(S)
           /\ Len(s) \in Nat
           /\ Len(RemoveAt(s, n)) = Len(s) - 1
           /\ DOMAIN s = 1..Len(s)
           /\ DOMAIN RemoveAt(s, n) = 1..(Len(s) - 1)
           /\ \A k \in 1..(Len(s) - 1) :
                 RemoveAt(s, n)[k] = IF k < n THEN s[k] ELSE s[k + 1]
<1> DEFINE q == RemoveAt(s, n)
           a == SubSeq(s, 1, n - 1)
           b == SubSeq(s, n + 1, Len(s))
<1>1. q = a \o b
    BY DEF q, RemoveAt
<1>2. a \in Seq(S) /\ Len(a) = n - 1 /\ \A k \in 1..(n - 1) : a[k] = s[k]
    OBVIOUS
<1>3. b \in Seq(S) /\ Len(b) = Len(s) - n /\ \A k \in 1..(Len(s) - n) : b[k] = s[n + k]
    OBVIOUS
<1> HIDE DEF a, b, q
<1>4. Len(s) \in Nat /\ DOMAIN s = 1..Len(s) /\ n \in Nat
    OBVIOUS
<1>5. q \in Seq(S) /\ Len(q) = Len(s) - 1
    <2>1. a \o b \in Seq(S) /\ Len(a \o b) = Len(a) + Len(b)
        BY <1>2, <1>3, Joined
    <2> QED
        BY <2>1, <1>1, <1>2, <1>3, <1>4
<1>6. ASSUME NEW k \in 1..(Len(s) - 1)
      PROVE  q[k] = IF k < n THEN s[k] ELSE s[k + 1]
    <2>1. CASE k < n
        BY <2>1, <1>1, <1>2, <1>3, <1>4
    <2>2. CASE k >= n
        <3>1. q[k] = b[k - (n - 1)]
            BY <2>2, <1>1, <1>2, <1>3, <1>4
        <3>2. k - (n - 1) \in 1..(Len(s) - n)
            BY <2>2, <1>4
        <3> QED
            BY <3>1, <3>2, <2>2, <1>3, <1>4
    <2> QED
        BY <2>1, <2>2, <1>4
<1> QED
    BY <1>4, <1>5, <1>6 DEF q

-----------------------------------------------------------------------------
(* Requests *)

LEMMA RequestFields ==
    ASSUME NEW r \in RequestType
    PROVE  /\ r.pc \in {"connect", "discover", "access", "disconnect", "cleanup"}
           /\ r.op \in AllOps
           /\ r.mac \in Macs
           /\ r.ans \in {"none", "ok", "err"}
           /\ r.implicit \in BOOLEAN
           /\ r.left \in 0..Properties
    BY DEF RequestType

LEMMA IdleFields ==
    /\ Idle.pc = "idle" /\ Idle.op = "none" /\ Idle.ans = "none" /\ Idle.implicit = FALSE
    /\ Idle \notin RequestType
    /\ Fits(Idle) /\ ~Makes(Idle) /\ ~Changes(Idle)
<1>1. Idle.pc = "idle" /\ Idle.op = "none" /\ Idle.ans = "none" /\ Idle.implicit = FALSE
    BY DEF Idle
<1> QED
    BY <1>1, RequestFields DEF Fits, Makes, Changes

LEMMA Busy ==
    ASSUME TypeOK, NEW t \in Threads
    PROVE  /\ th[t] # Idle => th[t] \in RequestType
           /\ th[t].pc # "idle" => th[t] # Idle
           /\ th[t].ans # "none" => th[t] # Idle
    BY IdleFields DEF TypeOK

(* The request as it goes on with another call: Calls.                     *)
PlanType ==
    [pc : {"idle", "connect", "discover", "access", "disconnect", "cleanup"}, op : AllOps,
     mac : Macs, ans : {"none", "ok", "err"}, implicit : BOOLEAN, left : 0..Properties]

LEMMA RequestIsPlan ==
    ASSUME NEW r \in RequestType
    PROVE  r \in PlanType
    BY DEF PlanType, RequestType

LEMMA PlanFilled ==
    ASSUME NEW r \in [pc : {"idle"}, op : {"none"}, mac : {"none"}, ans : {"none"},
                      implicit : {FALSE}, left : {0}],
           NEW op \in AllOps, NEW m \in Macs
    PROVE  /\ [r EXCEPT !.op = op, !.mac = m] \in PlanType
           /\ [r EXCEPT !.op = op, !.mac = m].op = op
           /\ [r EXCEPT !.op = op, !.mac = m].mac = m
           /\ [r EXCEPT !.op = op, !.mac = m].implicit = FALSE
<1>1. 0 \in 0..Properties
    BY BoundsAssumption
<1> QED
    BY <1>1 DEF PlanType

LEMMA RequestMade ==
    ASSUME NEW op \in AllOps, NEW m \in Macs
    PROVE  /\ Request(op, m) \in PlanType
           /\ Request(op, m).op = op /\ Request(op, m).mac = m
           /\ Request(op, m).implicit = FALSE
<1>1. Idle \in [pc : {"idle"}, op : {"none"}, mac : {"none"}, ans : {"none"},
                implicit : {FALSE}, left : {0}]
    BY DEF Idle
<1> QED
    BY <1>1, PlanFilled DEF Request

LEMMA CommandKnown ==
    /\ Command("connect") = "CONNECT"
    /\ Command("discover") = "DISCOVER"
    /\ Command("access") = "ACCESS"
    /\ Command("disconnect") = "DISCONNECT"
    /\ Command("cleanup") = "DISCONNECT"
    BY DEF Command

(* A thread has sent a call and waits.                                     *)
Called(t, r, o) ==
    /\ r \in RequestType /\ o \in OrderType
    /\ r.ans = "none"
    /\ o.thread = t /\ o.mac = r.mac /\ o.cmd = Command(r.pc)
    /\ th' = [th EXCEPT ![t] = r]
    /\ orders' = Append(orders, o)
    /\ UNCHANGED <<link, events, streaming, strays, faults>>

LEMMA CallsForm ==
    ASSUME NEW t \in Threads, NEW req \in PlanType,
           NEW pc \in {"connect", "discover", "access", "disconnect", "cleanup"},
           Calls(t, req, pc)
    PROVE  \E r, o : /\ Called(t, r, o)
                     /\ r.pc = pc /\ r.op = req.op /\ r.mac = req.mac
                     /\ r.implicit = req.implicit /\ r.left = req.left
<1> DEFINE o == Order(t, Command(pc), req)
<1>0. PICK r : r = [req EXCEPT !.pc = pc, !.ans = "none"]
    OBVIOUS
<1>1. /\ r \in RequestType /\ r.pc = pc /\ r.ans = "none" /\ r.op = req.op /\ r.mac = req.mac
      /\ r.implicit = req.implicit /\ r.left = req.left
    BY <1>0 DEF PlanType, RequestType
<1>2. th' = [th EXCEPT ![t] = r] /\ orders' = Append(orders, o)
      /\ UNCHANGED <<link, events, streaming, strays, faults>>
    BY <1>0 DEF Calls
<1>3. Command(pc) \in PiCommands
    BY CommandKnown DEF PiCommands
<1>4. req.mac \in Macs
    BY DEF PlanType
<1>5. o \in OrderType /\ o.thread = t /\ o.mac = req.mac /\ o.cmd = Command(pc)
    BY <1>3, <1>4, BoundsAssumption DEF Order, OrderType
<1> HIDE DEF o
<1> QED
    BY <1>1, <1>2, <1>5 DEF Called

-----------------------------------------------------------------------------
(* ANY NUMBER OF REQUESTS: what the steps do to IInv *)

(* Nothing is written for a thread whose call has returned.                *)
LEMMA NobodyWaits ==
    ASSUME IInv, NEW t \in Threads, th[t] = Idle \/ th[t].ans # "none"
    PROVE  \A k \in DOMAIN orders : orders[k].thread # t
    BY ThreadAssumption DEF IInv, CallsWait

LEMMA CalledKeeps ==
    ASSUME IInv, NEW t \in Threads, th[t] = Idle \/ th[t].ans # "none",
           NEW r, NEW o, Called(t, r, o), Fits(r),
           connReqs' \subseteq Macs, granted' \subseteq Macs, crossed' \subseteq Macs
    PROVE  IInv'
<1>1. th \in [Threads -> {Idle} \cup RequestType] /\ orders \in Seq(OrderType)
    BY DEF IInv, TypeOK
<1>2. /\ r \in RequestType /\ o \in OrderType /\ r.ans = "none" /\ r # Idle
      /\ o.thread = t /\ o.mac = r.mac /\ o.cmd = Command(r.pc)
      /\ th' = [th EXCEPT ![t] = r] /\ orders' = Append(orders, o)
    BY IdleFields DEF Called
<1>3. /\ orders' \in Seq(OrderType) /\ Len(orders) \in Nat
      /\ DOMAIN orders = 1..Len(orders) /\ DOMAIN orders' = 1..(Len(orders) + 1)
      /\ \A k \in 1..Len(orders) : orders'[k] = orders[k]
      /\ orders'[Len(orders) + 1] = o
    BY <1>1, <1>2, Appended
<1>4. /\ th' \in [Threads -> {Idle} \cup RequestType] /\ th'[t] = r
      /\ \A u \in Threads : u # t => th'[u] = th[u]
    BY <1>1, <1>2
<1>5. TypeOK'
    BY <1>3, <1>4 DEF IInv, TypeOK, Called
<1>6. \A k \in 1..Len(orders) : orders[k].thread # t
    BY <1>3, NobodyWaits
<1>7. ASSUME NEW k \in DOMAIN orders', orders'[k].thread # NoThread
      PROVE  /\ th'[orders'[k].thread] # Idle /\ th'[orders'[k].thread].ans = "none"
             /\ th'[orders'[k].thread].mac = orders'[k].mac
             /\ Command(th'[orders'[k].thread].pc) = orders'[k].cmd
    <2>1. CASE k = Len(orders) + 1
        BY <2>1, <1>2, <1>3, <1>4
    <2>2. CASE k \in 1..Len(orders)
        <3>1. /\ th[orders[k].thread] # Idle /\ th[orders[k].thread].ans = "none"
              /\ th[orders[k].thread].mac = orders[k].mac
              /\ Command(th[orders[k].thread].pc) = orders[k].cmd
            BY <2>2, <1>3, <1>7 DEF IInv, CallsWait
        <3>2. orders[k].thread \in Threads /\ orders[k].thread # t
            BY <2>2, <1>1, <1>3, <1>6, <1>7, OrderFields
        <3> QED
            BY <2>2, <3>1, <3>2, <1>3, <1>4
    <2> QED
        BY <2>1, <2>2, <1>3
<1>8. ASSUME NEW j \in DOMAIN orders', NEW k \in DOMAIN orders',
             orders'[j].thread = orders'[k].thread, orders'[j].thread # NoThread
      PROVE  j = k
    BY <1>2, <1>3, <1>6, <1>8 DEF IInv, CallsWait
<1>9. CallsWait'
    BY <1>7, <1>8 DEF CallsWait
<1>10. \A u \in Threads : Fits(th'[u])
    BY <1>4 DEF IInv
<1> QED
    BY <1>5, <1>9, <1>10 DEF IInv

(* Returns and Leaves.                                                     *)
Returned(t) == th' = [th EXCEPT ![t] = Idle] /\ UNCHANGED <<faults, piVars>>

LEMMA ReturnsForm ==
    ASSUME NEW t, Returns(t)
    PROVE  Returned(t) /\ UNCHANGED strays
    BY DEF Returns, Returned

LEMMA LeavesForm ==
    ASSUME NEW t, Leaves(t)
    PROVE  Returned(t) /\ strays' = IF th[t].implicit THEN strays \cup {th[t].mac} ELSE strays
    BY DEF Leaves, Returned

LEMMA ReturnedKeeps ==
    ASSUME IInv, NEW t \in Threads, th[t].ans # "none", Returned(t),
           connReqs' \subseteq Macs, granted' \subseteq Macs, strays' \subseteq Macs,
           UNCHANGED crossed
    PROVE  IInv'
<1>1. th \in [Threads -> {Idle} \cup RequestType] /\ orders \in Seq(OrderType)
    BY DEF IInv, TypeOK
<1>2. th' = [th EXCEPT ![t] = Idle] /\ UNCHANGED <<faults, orders, link, events, streaming>>
    BY DEF Returned, piVars
<1>3. /\ th' \in [Threads -> {Idle} \cup RequestType] /\ th'[t] = Idle
      /\ \A u \in Threads : u # t => th'[u] = th[u]
    BY <1>1, <1>2
<1>4. TypeOK'
    BY <1>2, <1>3 DEF IInv, TypeOK
<1>5. \A k \in DOMAIN orders : orders[k].thread # t
    BY NobodyWaits
<1>6. \A k \in DOMAIN orders : orders[k].thread # NoThread => orders[k].thread \in Threads
    BY <1>1, OrderFields
<1>7. CallsWait'
    BY <1>2, <1>3, <1>5, <1>6 DEF IInv, CallsWait
<1>8. \A u \in Threads : Fits(th'[u])
    BY <1>3, IdleFields DEF IInv
<1> QED
    BY <1>4, <1>7, <1>8 DEF IInv

(* A request whose answer is all that changes.                             *)
AnswerSet(t, a) == th' = [th EXCEPT ![t].ans = a]

LEMMA AnswerSetTo ==
    ASSUME TypeOK, NEW t \in Threads, th[t] # Idle, NEW a \in {"none", "ok", "err"}, AnswerSet(t, a)
    PROVE  /\ th' \in [Threads -> {Idle} \cup RequestType]
           /\ th'[t] \in RequestType /\ th'[t] # Idle
           /\ th'[t].ans = a /\ th'[t].pc = th[t].pc /\ th'[t].op = th[t].op
           /\ th'[t].mac = th[t].mac /\ th'[t].implicit = th[t].implicit
           /\ Fits(th[t]) => Fits(th'[t])
           /\ Makes(th'[t]) <=> Makes(th[t])
           /\ Changes(th'[t]) <=> Changes(th[t])
           /\ \A u \in Threads : u # t => th'[u] = th[u]
<1>1. th \in [Threads -> {Idle} \cup RequestType] /\ th[t] \in RequestType
    BY DEF TypeOK
<1> DEFINE r == [th[t] EXCEPT !.ans = a]
<1>2. /\ r \in RequestType /\ r.ans = a /\ r.pc = th[t].pc /\ r.op = th[t].op
      /\ r.mac = th[t].mac /\ r.implicit = th[t].implicit
    BY <1>1 DEF RequestType
<1>3. th' = [th EXCEPT ![t] = r]
    BY DEF AnswerSet
<1> HIDE DEF r
<1>4. /\ th' \in [Threads -> {Idle} \cup RequestType] /\ th'[t] = r
      /\ \A u \in Threads : u # t => th'[u] = th[u]
    BY <1>1, <1>2, <1>3
<1> QED
    BY <1>2, <1>4, IdleFields DEF Fits, Makes, Changes

LEMMA EventQueued ==
    ASSUME TypeOK, NEW m \in Macs, NEW c \in BOOLEAN
    PROVE  Queued(m, c) \in Seq(EventType)
<1>1. [mac |-> EventAddress(m), connected |-> c] \in EventType
    BY DEF EventType
<1>2. events \in Seq(EventType)
    BY DEF TypeOK
<1> QED
    BY <1>1, <1>2, Appended DEF Queued

(* The command at the head has been executed.                              *)
LEMMA TakenKeeps ==
    ASSUME IInv, orders # <<>>, NEW a \in {"ok", "err"}, Answered(Head(orders), a), OrderTaken,
           link' \in [Macs -> {"up", "down"}], events' \in Seq(EventType),
           UNCHANGED <<granted, crossed>>
    PROVE  IInv'
<1> DEFINE u == Head(orders).thread
<1>1. th \in [Threads -> {Idle} \cup RequestType] /\ orders \in Seq(OrderType)
    BY DEF IInv, TypeOK
<1>2. orders' = Tail(orders) /\ UNCHANGED <<connReqs, streaming, strays, faults>>
    BY DEF OrderTaken
<1>3. /\ orders' \in Seq(OrderType) /\ Len(orders) \in Nat /\ Len(orders) > 0
      /\ DOMAIN orders = 1..Len(orders) /\ DOMAIN orders' = 1..(Len(orders) - 1)
      /\ \A k \in 1..(Len(orders) - 1) : orders'[k] = orders[k + 1]
      /\ Head(orders) = orders[1] /\ Head(orders) \in OrderType
    BY <1>1, <1>2, Taken
<1>4. u \in Threads \cup {NoThread} /\ orders[1].thread = u
    BY <1>3, OrderFields
<1>5. /\ th' \in [Threads -> {Idle} \cup RequestType]
      /\ \A t \in Threads : t # u => th'[t] = th[t]
      /\ \A t \in Threads : Fits(th'[t])
    <2>1. CASE u = NoThread
        BY <2>1, <1>1, ThreadAssumption DEF IInv, Answered
    <2>2. CASE u # NoThread
        <3>1. u \in Threads /\ th[u] # Idle
            BY <2>2, <1>3, <1>4 DEF IInv, CallsWait
        <3>2. AnswerSet(u, a)
            BY <2>2 DEF Answered, AnswerSet
        <3> HIDE DEF u
        <3> QED
            BY <3>1, <3>2, AnswerSetTo DEF IInv
    <2> QED
        BY <2>1, <2>2
<1> HIDE DEF u
<1>6. TypeOK'
    BY <1>2, <1>3, <1>5 DEF IInv, TypeOK
<1>7. ASSUME NEW k \in 1..(Len(orders) - 1), orders[k + 1].thread # NoThread
      PROVE  /\ th'[orders[k + 1].thread] = th[orders[k + 1].thread]
             /\ th[orders[k + 1].thread] # Idle /\ th[orders[k + 1].thread].ans = "none"
             /\ th[orders[k + 1].thread].mac = orders[k + 1].mac
             /\ Command(th[orders[k + 1].thread].pc) = orders[k + 1].cmd
    <2>1. k + 1 \in DOMAIN orders /\ 1 \in DOMAIN orders /\ k + 1 # 1
        BY <1>3
    <2>2. orders[k + 1].thread # u
        BY <2>1, <1>4, <1>7 DEF IInv, CallsWait
    <2>3. orders[k + 1].thread \in Threads
        BY <2>1, <1>1, <1>7, OrderFields
    <2> QED
        BY <2>1, <2>2, <2>3, <1>5, <1>7 DEF IInv, CallsWait
<1>8. ASSUME NEW j \in DOMAIN orders', NEW k \in DOMAIN orders',
             orders'[j].thread = orders'[k].thread, orders'[j].thread # NoThread
      PROVE  j = k
    <2>1. j + 1 \in DOMAIN orders /\ k + 1 \in DOMAIN orders
          /\ orders'[j] = orders[j + 1] /\ orders'[k] = orders[k + 1] /\ j \in Int /\ k \in Int
        BY <1>3
    <2>2. j + 1 = k + 1
        BY <2>1, <1>8 DEF IInv, CallsWait
    <2> QED
        BY <2>1, <2>2
<1>9. ASSUME NEW k \in DOMAIN orders', orders'[k].thread # NoThread
      PROVE  /\ th'[orders'[k].thread] # Idle /\ th'[orders'[k].thread].ans = "none"
             /\ th'[orders'[k].thread].mac = orders'[k].mac
             /\ Command(th'[orders'[k].thread].pc) = orders'[k].cmd
    <2>1. k \in 1..(Len(orders) - 1) /\ orders'[k] = orders[k + 1]
        BY <1>3
    <2> QED
        BY <2>1, <1>7, <1>9
<1>10. CallsWait'
    BY <1>8, <1>9 DEF CallsWait
<1> QED
    BY <1>5, <1>6, <1>10 DEF IInv

LEMMA QueuesMoved ==
    ASSUME IInv, UNCHANGED <<th, orders>>, TypeOK'
    PROVE  IInv'
    BY DEF IInv, CallsWait

LEMMA TriedAgain ==
    ASSUME NEW o \in OrderType, o.tries > 0
    PROVE  /\ [o EXCEPT !.tries = @ - 1] \in OrderType
           /\ [o EXCEPT !.tries = @ - 1].thread = o.thread
           /\ [o EXCEPT !.tries = @ - 1].mac = o.mac
           /\ [o EXCEPT !.tries = @ - 1].cmd = o.cmd
<1>1. o.tries - 1 \in Nat
    BY OrderFields
<1> QED
    BY <1>1 DEF OrderType

(* A failed attempt is written again.                                      *)
LEMMA RetriedForm ==
    ASSUME TypeOK, orders # <<>>, Retried(Head(orders))
    PROVE  \E o \in OrderType :
              /\ o.thread = orders[1].thread /\ o.mac = orders[1].mac /\ o.cmd = orders[1].cmd
              /\ orders' \in Seq(OrderType)
              /\ Len(orders) \in Nat /\ Len(orders) > 0
              /\ DOMAIN orders = 1..Len(orders) /\ DOMAIN orders' = 1..Len(orders)
              /\ Len(orders') = Len(orders)
              /\ \A k \in 1..(Len(orders) - 1) : orders'[k] = orders[k + 1]
              /\ orders'[Len(orders)] = o
<1>1. orders \in Seq(OrderType)
    BY DEF TypeOK
<1>2. /\ Tail(orders) \in Seq(OrderType) /\ Len(orders) \in Nat /\ Len(orders) > 0
      /\ Len(Tail(orders)) = Len(orders) - 1
      /\ DOMAIN orders = 1..Len(orders) /\ DOMAIN Tail(orders) = 1..(Len(orders) - 1)
      /\ \A k \in 1..(Len(orders) - 1) : Tail(orders)[k] = orders[k + 1]
      /\ Head(orders) = orders[1] /\ orders[1] \in OrderType
    BY <1>1, Taken
<1> DEFINE o == [orders[1] EXCEPT !.tries = @ - 1]
           q == Tail(orders)
<1>3. orders' = Append(q, o) /\ orders[1].tries > 0
    BY <1>2 DEF Retried
<1>4. /\ o \in OrderType
      /\ o.thread = orders[1].thread /\ o.mac = orders[1].mac /\ o.cmd = orders[1].cmd
    BY <1>2, <1>3, TriedAgain
<1> HIDE DEF o, q
<1>5. /\ orders' \in Seq(OrderType) /\ Len(orders') = Len(q) + 1
      /\ DOMAIN orders' = 1..(Len(q) + 1)
      /\ \A k \in 1..Len(q) : orders'[k] = q[k]
      /\ orders'[Len(q) + 1] = o
    BY <1>2, <1>3, <1>4, Appended DEF q
<1>6. Len(q) = Len(orders) - 1 /\ Len(q) + 1 = Len(orders)
      /\ \A k \in 1..(Len(orders) - 1) : q[k] = orders[k + 1]
    BY <1>2 DEF q
<1> QED
    BY <1>2, <1>4, <1>5, <1>6

LEMMA RetriedKeeps ==
    ASSUME IInv, orders # <<>>, Retried(Head(orders)),
           UNCHANGED <<link, events, granted, crossed>>
    PROVE  IInv'
<1>1. TypeOK
    BY DEF IInv
<1>2. PICK o \in OrderType :
         /\ o.thread = orders[1].thread /\ o.mac = orders[1].mac /\ o.cmd = orders[1].cmd
         /\ orders' \in Seq(OrderType)
         /\ Len(orders) \in Nat /\ Len(orders) > 0
         /\ DOMAIN orders = 1..Len(orders) /\ DOMAIN orders' = 1..Len(orders)
         /\ \A k \in 1..(Len(orders) - 1) : orders'[k] = orders[k + 1]
         /\ orders'[Len(orders)] = o
    BY <1>1, RetriedForm
<1>3. UNCHANGED <<connReqs, th, streaming, strays, faults>>
    BY DEF Retried
<1>4. TypeOK'
    BY <1>1, <1>2, <1>3 DEF TypeOK
<1>5. ASSUME NEW k \in DOMAIN orders'
      PROVE  \E j \in DOMAIN orders :
                /\ orders'[k].thread = orders[j].thread
                /\ orders'[k].mac = orders[j].mac /\ orders'[k].cmd = orders[j].cmd
    <2>1. CASE k = Len(orders)
        BY <2>1, <1>2
    <2>2. CASE k \in 1..(Len(orders) - 1)
        <3>1. k + 1 \in DOMAIN orders
            BY <2>2, <1>2
        <3> QED
            BY <2>2, <3>1, <1>2
    <2> QED
        BY <2>1, <2>2, <1>2
<1>6. ASSUME NEW k \in DOMAIN orders', orders'[k].thread # NoThread
      PROVE  /\ th[orders'[k].thread] # Idle /\ th[orders'[k].thread].ans = "none"
             /\ th[orders'[k].thread].mac = orders'[k].mac
             /\ Command(th[orders'[k].thread].pc) = orders'[k].cmd
    BY <1>5, <1>6 DEF IInv, CallsWait
<1>7. ASSUME NEW j \in DOMAIN orders', NEW k \in DOMAIN orders',
             orders'[j].thread = orders'[k].thread, orders'[j].thread # NoThread
      PROVE  j = k
    <2> DEFINE From(i) == IF i = Len(orders) THEN 1 ELSE i + 1
    <2>1. \A i \in DOMAIN orders' : From(i) \in DOMAIN orders
                                    /\ orders'[i].thread = orders[From(i)].thread
        BY <1>2
    <2>2. From(j) = From(k)
        BY <2>1, <1>7 DEF IInv, CallsWait
    <2>3. j \in 1..Len(orders) /\ k \in 1..Len(orders)
        BY <1>2
    <2> QED
        BY <2>2, <2>3, <1>2
<1>8. CallsWait'
    BY <1>3, <1>6, <1>7 DEF CallsWait
<1> QED
    BY <1>3, <1>4, <1>8 DEF IInv

-----------------------------------------------------------------------------
(* What a client's request and a handler's step come to *)

(* A request makes its first call: it asks for the connection to be made   *)
(* or undone, or it uses one that conn_reqs knows.                         *)
Opens(t, m) ==
    /\ th[t] = Idle
    /\ \E r, o : /\ Called(t, r, o) /\ Fits(r) /\ r.mac = m
                 /\ (m \in granted' /\ m \in connReqs) => ~Changes(r)
                 /\ (Changes(r) /\ m \notin crossed')
                       => \A u \in Threads : th[u].mac = m => ~Changes(th[u])
    /\ UNCHANGED connReqs /\ granted' \subseteq granted
    /\ crossed \subseteq crossed' /\ crossed' \subseteq crossed \cup {m}

LEMMA OpensWith ==
    ASSUME NEW t \in Threads, NEW m \in Macs, NEW req \in PlanType, req.mac = m, th[t] = Idle,
           NEW pc \in {"connect", "discover", "access", "disconnect"}, Calls(t, req, pc),
           req.implicit => req.op \in {"READ", "WRITE"},
           pc = "connect" => req.op = "CONNECT" \/ req.implicit,
           pc = "discover" => req.op = "UPDATE",
           pc = "access" => req.op \in {"READ", "WRITE", "DIRECT"},
           pc = "disconnect" => req.op = "DISCONNECT",
           (m \in granted' /\ m \in connReqs) => ~Changes(req),
           req.implicit => m \notin connReqs,
           crossed' = IF Crosses(req.op, m) THEN crossed \cup {m} ELSE crossed,
           UNCHANGED connReqs, granted' \subseteq granted
    PROVE  Opens(t, m)
<1>1. PICK r, o : /\ Called(t, r, o)
                  /\ r.pc = pc /\ r.op = req.op /\ r.mac = req.mac
                  /\ r.implicit = req.implicit /\ r.left = req.left
    BY CallsForm
<1>2. Fits(r)
    BY <1>1 DEF Fits
<1>3. Changes(req) <=> Changes(r)
    BY <1>1 DEF Changes
<1>4. (Changes(r) /\ m \notin crossed') => \A u \in Threads : th[u].mac = m => ~Changes(th[u])
    BY <1>1, <1>3 DEF Crosses, Changes
<1>5. crossed \subseteq crossed' /\ crossed' \subseteq crossed \cup {m}
    OBVIOUS
<1> QED
    BY <1>1, <1>2, <1>3, <1>4, <1>5 DEF Opens

LEMMA PlanFields ==
    ASSUME NEW req \in PlanType, NEW n \in 0..Properties
    PROVE  /\ [req EXCEPT !.left = n] \in PlanType
           /\ [req EXCEPT !.left = n].op = req.op /\ [req EXCEPT !.left = n].mac = req.mac
           /\ [req EXCEPT !.left = n].implicit = req.implicit
           /\ [req EXCEPT !.left = n, !.implicit = TRUE] \in PlanType
           /\ [req EXCEPT !.left = n, !.implicit = TRUE].op = req.op
           /\ [req EXCEPT !.left = n, !.implicit = TRUE].mac = req.mac
           /\ [req EXCEPT !.left = n, !.implicit = TRUE].implicit = TRUE
    BY DEF PlanType

LEMMA AccessOpens ==
    ASSUME NEW t \in Threads, NEW m \in Macs, NEW op \in {"READ", "WRITE"},
           NEW n \in 0..Properties, AccessProperties(t, op, m, n)
    PROVE  Opens(t, m)
<1> DEFINE req == Request(op, m)
           known == [req EXCEPT !.left = n]
           made == [req EXCEPT !.left = n, !.implicit = TRUE]
<1>1. /\ th[t] = Idle /\ UNCHANGED connReqs /\ granted' \subseteq granted
      /\ crossed' = IF Crosses(op, m) THEN crossed \cup {m} ELSE crossed
      /\ IF m \in connReqs THEN Calls(t, known, "access") ELSE Calls(t, made, "connect")
    BY DEF AccessProperties, Begins
<1>2. op \in AllOps
    BY DEF AllOps
<1>3. req \in PlanType /\ req.op = op /\ req.mac = m /\ req.implicit = FALSE
    BY <1>2, RequestMade
<1> HIDE DEF req
<1>4. /\ known \in PlanType /\ known.op = op /\ known.mac = m /\ known.implicit = FALSE
      /\ made \in PlanType /\ made.op = op /\ made.mac = m /\ made.implicit = TRUE
    BY <1>3, PlanFields
<1> HIDE DEF known, made
<1>5. CASE m \in connReqs
    <2>1. ~Changes(known)
        BY <1>4 DEF Changes
    <2> QED
        BY <1>1, <1>4, <1>5, <2>1, OpensWith
<1>6. CASE m \notin connReqs
    BY <1>1, <1>4, <1>6, OpensWith
<1> QED
    BY <1>5, <1>6

LEMMA ClientForm ==
    ASSUME NEW t \in Threads, NEW m \in Macs, Client(t, m)
    PROVE  Opens(t, m)
<1>0. {"CONNECT", "UPDATE", "DISCONNECT", "DIRECT"} \subseteq AllOps
    BY DEF AllOps
<1>1. CASE Connect(t, m)
    <2>1. /\ th[t] = Idle /\ UNCHANGED connReqs /\ granted' = granted \ {m}
          /\ crossed' = IF Crosses("CONNECT", m) THEN crossed \cup {m} ELSE crossed
          /\ Calls(t, Request("CONNECT", m), "connect")
        BY <1>1 DEF Connect, Begins
    <2>2. /\ Request("CONNECT", m) \in PlanType /\ Request("CONNECT", m).op = "CONNECT"
          /\ Request("CONNECT", m).mac = m /\ Request("CONNECT", m).implicit = FALSE
        BY <1>0, RequestMade
    <2>3. m \notin granted' /\ granted' \subseteq granted
        BY <2>1
    <2> QED
        BY <2>1, <2>2, <2>3, OpensWith
<1>2. CASE UpdateConnection(t, m)
    <2>1. /\ th[t] = Idle /\ UNCHANGED connReqs /\ granted' = granted
          /\ crossed' = IF Crosses("UPDATE", m) THEN crossed \cup {m} ELSE crossed
          /\ Calls(t, Request("UPDATE", m), "discover")
        BY <1>2 DEF UpdateConnection, Begins
    <2>2. /\ Request("UPDATE", m) \in PlanType /\ Request("UPDATE", m).op = "UPDATE"
          /\ Request("UPDATE", m).mac = m /\ Request("UPDATE", m).implicit = FALSE
        BY <1>0, RequestMade
    <2>3. ~Changes(Request("UPDATE", m))
        BY <2>2 DEF Changes
    <2> QED
        BY <2>1, <2>2, <2>3, OpensWith
<1>3. CASE DisconnectFromDevice(t, m)
    <2>1. /\ th[t] = Idle /\ UNCHANGED connReqs /\ granted' = granted \ {m}
          /\ crossed' = IF Crosses("DISCONNECT", m) THEN crossed \cup {m} ELSE crossed
          /\ Calls(t, Request("DISCONNECT", m), "disconnect")
        BY <1>3 DEF DisconnectFromDevice, Begins
    <2>2. /\ Request("DISCONNECT", m) \in PlanType /\ Request("DISCONNECT", m).op = "DISCONNECT"
          /\ Request("DISCONNECT", m).mac = m /\ Request("DISCONNECT", m).implicit = FALSE
        BY <1>0, RequestMade
    <2>3. m \notin granted' /\ granted' \subseteq granted
        BY <2>1
    <2> QED
        BY <2>1, <2>2, <2>3, OpensWith
<1>4. CASE AccessCharacteristic(t, m)
    <2>1. /\ th[t] = Idle /\ UNCHANGED connReqs /\ granted' = granted
          /\ crossed' = IF Crosses("DIRECT", m) THEN crossed \cup {m} ELSE crossed
          /\ Calls(t, Request("DIRECT", m), "access")
        BY <1>4 DEF AccessCharacteristic, Begins
    <2>2. /\ Request("DIRECT", m) \in PlanType /\ Request("DIRECT", m).op = "DIRECT"
          /\ Request("DIRECT", m).mac = m /\ Request("DIRECT", m).implicit = FALSE
        BY <1>0, RequestMade
    <2>3. ~Changes(Request("DIRECT", m))
        BY <2>2 DEF Changes
    <2> QED
        BY <2>1, <2>2, <2>3, OpensWith
<1>5. ASSUME NEW n \in 0..Properties, ReadProperties(t, m, n) \/ WriteProperties(t, m, n)
      PROVE  Opens(t, m)
    BY <1>5, AccessOpens DEF ReadProperties, WriteProperties
<1> QED
    BY <1>1, <1>2, <1>3, <1>4, <1>5 DEF Client

(* A handler goes on with another call.                                    *)
GoesOn(t) ==
    /\ \E r, o : /\ Called(t, r, o) /\ Fits(r)
                 /\ r.op = th[t].op /\ r.mac = th[t].mac /\ r.implicit = th[t].implicit
                 /\ Makes(th[t]) => Makes(r) \/ r.pc \in {"disconnect", "cleanup"}
    /\ connReqs \subseteq connReqs' /\ connReqs' \subseteq Macs
    /\ UNCHANGED <<granted, crossed>>

(* A handler returns and leaves the connection as it is.                   *)
Ends(t) ==
    /\ Returned(t)
    /\ strays \subseteq strays' /\ strays' \subseteq Macs
    /\ connReqs \subseteq connReqs' /\ connReqs' \subseteq Macs
    /\ UNCHANGED crossed
    /\ Makes(th[t]) => th[t].mac \in connReqs' \cup strays'
    /\ th[t].op = "CONNECT" => th[t].pc = "discover" /\ th[t].ans = "ok"
    /\ \/ UNCHANGED granted
       \/ /\ granted' = granted \cup {th[t].mac}
          /\ th[t].op = "CONNECT" /\ th[t].ans = "ok"
          /\ link[th[t].mac] = "up" /\ th[t].mac \in connReqs'

LEMMA CallsGoesOn ==
    ASSUME IInv, NEW t \in Threads, th[t] \in RequestType, NEW req \in PlanType,
           req.op = th[t].op, req.mac = th[t].mac, req.implicit = th[t].implicit,
           NEW pc \in {"discover", "access", "disconnect", "cleanup"}, Calls(t, req, pc),
           pc = "discover" => req.op \in {"CONNECT", "UPDATE"} \/ req.implicit,
           pc = "access" => req.op \in {"READ", "WRITE", "DIRECT"},
           pc = "disconnect" => req.implicit,
           pc = "cleanup" => req.op = "CONNECT",
           connReqs \subseteq connReqs', connReqs' \subseteq Macs,
           UNCHANGED <<granted, crossed>>
    PROVE  GoesOn(t)
<1>1. PICK r, o : /\ Called(t, r, o)
                  /\ r.pc = pc /\ r.op = req.op /\ r.mac = req.mac
                  /\ r.implicit = req.implicit /\ r.left = req.left
    BY CallsForm
<1>2. th[t].implicit => th[t].op \in {"READ", "WRITE"}
    BY DEF IInv, Fits
<1>3. Fits(r)
    BY <1>1, <1>2 DEF Fits
<1>4. Makes(th[t]) => Makes(r) \/ r.pc \in {"disconnect", "cleanup"}
    BY <1>1 DEF Makes
<1> QED
    BY <1>1, <1>3, <1>4 DEF GoesOn

LEMMA LeavesEnds ==
    ASSUME IInv, NEW t \in Threads, th[t] \in RequestType, th[t].op # "CONNECT", Leaves(t),
           connReqs \subseteq connReqs', connReqs' \subseteq Macs,
           UNCHANGED <<granted, crossed>>
    PROVE  Ends(t)
<1>1. Returned(t) /\ strays' = IF th[t].implicit THEN strays \cup {th[t].mac} ELSE strays
    BY LeavesForm
<1>2. strays \subseteq Macs /\ th[t].mac \in Macs
    BY RequestFields DEF IInv, TypeOK
<1>3. Makes(th[t]) => th[t].mac \in strays'
    BY <1>1 DEF Makes
<1> QED
    BY <1>1, <1>2, <1>3 DEF Ends

LEMMA FailsForm ==
    ASSUME IInv, NEW t \in Threads, th[t] \in RequestType, Fails(t, th[t]),
           UNCHANGED <<connReqs, granted, crossed>>
    PROVE  GoesOn(t) \/ Ends(t)
<1>1. connReqs \subseteq Macs
    BY DEF IInv, TypeOK
<1>2. CASE th[t].op = "CONNECT"
    <2>1. Calls(t, th[t], "cleanup")
        BY <1>2 DEF Fails, Cleanup
    <2>2. th[t] \in PlanType
        BY RequestIsPlan
    <2> QED
        BY <1>1, <1>2, <2>1, <2>2, CallsGoesOn
<1>3. CASE th[t].op # "CONNECT"
    <2>1. Leaves(t)
        BY <1>3 DEF Fails
    <2> QED
        BY <1>1, <1>3, <2>1, LeavesEnds
<1> QED
    BY <1>2, <1>3

LEMMA ConnectedForm ==
    ASSUME IInv, NEW t \in Threads, th[t] \in RequestType, Connected(t)
    PROVE  GoesOn(t) \/ Ends(t)
<1>1. connReqs \subseteq Macs /\ Fits(th[t])
    BY DEF IInv, TypeOK
<1>2. th[t].pc = "connect" /\ UNCHANGED <<connReqs, granted, crossed>>
    BY DEF Connected
<1>3. CASE th[t].ans = "ok"
    <2>1. Calls(t, th[t], "discover")
        BY <1>3 DEF Connected
    <2>2. th[t] \in PlanType
        BY RequestIsPlan
    <2>3. th[t].op \in {"CONNECT", "UPDATE"} \/ th[t].implicit
        BY <1>1, <1>2 DEF Fits
    <2> QED
        BY <1>1, <1>2, <2>1, <2>2, <2>3, CallsGoesOn
<1>4. CASE th[t].ans # "ok"
    <2>1. Fails(t, th[t])
        BY <1>4 DEF Connected
    <2> QED
        BY <1>2, <2>1, FailsForm
<1> QED
    BY <1>3, <1>4

LEMMA DiscoveredForm ==
    ASSUME IInv, NEW t \in Threads, th[t] \in RequestType, Discovered(t)
    PROVE  GoesOn(t) \/ Ends(t)
<1>1. /\ connReqs \subseteq Macs /\ strays \subseteq Macs
      /\ Fits(th[t]) /\ th[t].pc = "discover" /\ th[t].mac \in Macs
      /\ UNCHANGED crossed
    BY RequestFields DEF IInv, TypeOK, Discovered
<1>2. th[t] \in PlanType
    BY RequestIsPlan
<1>3. CASE th[t].ans = "ok"
    <2>1. /\ connReqs' = connReqs \cup {th[t].mac}
          /\ \/ th[t].implicit /\ Calls(t, th[t], "access")
             \/ th[t].implicit /\ Calls(t, th[t], "disconnect")
             \/ th[t].implicit /\ Leaves(t)
             \/ ~th[t].implicit /\ Returns(t)
          /\ granted' = IF th[t].op = "CONNECT" /\ link[th[t].mac] = "up"
                        THEN granted \cup {th[t].mac} ELSE granted
        BY <1>3 DEF Discovered, Entry
    <2>2. connReqs \subseteq connReqs' /\ connReqs' \subseteq Macs /\ th[t].mac \in connReqs'
        BY <2>1, <1>1
    <2>3. th[t].implicit => th[t].op \in {"READ", "WRITE"} /\ UNCHANGED granted
        BY <2>1, <1>1 DEF Fits
    <2>4. CASE th[t].implicit /\ Calls(t, th[t], "access")
        BY <2>2, <2>3, <2>4, <1>1, <1>2, CallsGoesOn
    <2>5. CASE th[t].implicit /\ Calls(t, th[t], "disconnect")
        BY <2>2, <2>3, <2>5, <1>1, <1>2, CallsGoesOn
    <2>6. CASE th[t].implicit /\ Leaves(t)
        BY <2>2, <2>3, <2>6, <1>1, LeavesEnds
    <2>7. CASE ~th[t].implicit /\ Returns(t)
        <3>1. Returned(t) /\ strays' = strays
            BY <2>7, ReturnsForm
        <3> QED
            BY <3>1, <2>1, <2>2, <1>1, <1>3 DEF Ends
    <2> QED
        BY <2>1, <2>4, <2>5, <2>6, <2>7
<1>4. CASE th[t].ans # "ok"
    <2>1. Fails(t, th[t]) /\ UNCHANGED <<connReqs, granted>>
        BY <1>4 DEF Discovered
    <2> QED
        BY <2>1, <1>1, FailsForm
<1> QED
    BY <1>3, <1>4

LEMMA OneLess ==
    ASSUME NEW r \in RequestType, r.left > 1
    PROVE  /\ [r EXCEPT !.left = @ - 1] \in PlanType
           /\ [r EXCEPT !.left = @ - 1].op = r.op /\ [r EXCEPT !.left = @ - 1].mac = r.mac
           /\ [r EXCEPT !.left = @ - 1].implicit = r.implicit
<1>1. r.left - 1 \in 0..Properties
    BY BoundsAssumption, RequestFields
<1> QED
    BY <1>1 DEF RequestType, PlanType

LEMMA NextPropertyForm ==
    ASSUME IInv, NEW t \in Threads, th[t] \in RequestType, th[t].pc = "access",
           NextProperty(t, th[t]), UNCHANGED <<connReqs, granted, crossed>>
    PROVE  GoesOn(t) \/ Ends(t)
<1>1. /\ connReqs \subseteq Macs /\ strays \subseteq Macs
      /\ th[t].op \in {"READ", "WRITE", "DIRECT"}
    BY DEF IInv, TypeOK, Fits
<1>2. CASE th[t].left > 1 /\ Calls(t, [th[t] EXCEPT !.left = @ - 1], "access")
    <2> DEFINE req == [th[t] EXCEPT !.left = @ - 1]
    <2>1. /\ req \in PlanType /\ req.op = th[t].op /\ req.mac = th[t].mac
          /\ req.implicit = th[t].implicit /\ Calls(t, req, "access")
        BY <1>2, OneLess
    <2> HIDE DEF req
    <2> QED
        BY <1>1, <2>1, CallsGoesOn
<1>3. CASE th[t].implicit /\ Calls(t, th[t], "disconnect")
    <2>1. th[t] \in PlanType
        BY RequestIsPlan
    <2> QED
        BY <1>1, <1>3, <2>1, CallsGoesOn
<1>4. CASE ~th[t].implicit /\ Returns(t)
    <2>1. Returned(t) /\ strays' = strays
        BY <1>4, ReturnsForm
    <2>2. ~Makes(th[t])
        BY <1>1, <1>4 DEF Makes
    <2> QED
        BY <2>1, <2>2, <1>1 DEF Ends
<1> QED
    BY <1>2, <1>3, <1>4 DEF NextProperty

LEMMA HandlerForm ==
    ASSUME IInv, NEW t \in Threads, Handler(t)
    PROVE  /\ th[t] \in RequestType /\ th[t].ans # "none"
           /\ GoesOn(t) \/ Ends(t) \/ Disconnected(t)
<1>1. th[t].ans # "none"
    BY DEF Handler, Connected, Discovered, PropertyRead, PropertyWritten, Disconnected
<1>2. th[t] \in RequestType
    BY <1>1, Busy DEF IInv
<1>3. CASE Connected(t)
    BY <1>1, <1>2, <1>3, ConnectedForm
<1>4. CASE Discovered(t)
    BY <1>1, <1>2, <1>4, DiscoveredForm
<1>5. CASE PropertyRead(t)
    BY <1>1, <1>2, <1>5, NextPropertyForm DEF PropertyRead
<1>6. CASE PropertyWritten(t)
    <2>1. /\ th[t].pc = "access" /\ UNCHANGED <<connReqs, granted, crossed>>
          /\ th[t].op = "WRITE" /\ (NextProperty(t, th[t]) \/ Leaves(t))
        BY <1>6 DEF PropertyWritten
    <2>2. connReqs \subseteq Macs
        BY DEF IInv, TypeOK
    <2> QED
        BY <2>1, <2>2, <1>1, <1>2, NextPropertyForm, LeavesEnds
<1> QED
    BY <1>1, <1>2, <1>3, <1>4, <1>5, <1>6 DEF Handler

LEMMA DisconnectedForm ==
    ASSUME IInv, NEW t \in Threads, Disconnected(t)
    PROVE  /\ th[t].pc \in {"disconnect", "cleanup"}
           /\ Returned(t) /\ UNCHANGED <<strays, granted, crossed>>
           /\ connReqs' = IF th[t].ans = "ok" THEN connReqs \ {th[t].mac} ELSE connReqs
    BY ReturnsForm DEF Disconnected

-----------------------------------------------------------------------------
(* IInv *)

LEMMA ClientTyped ==
    ASSUME IInv, NEW t \in Threads, NEW m \in Macs, Client(t, m)
    PROVE  IInv'
<1>1. Opens(t, m)
    BY ClientForm
<1>2. connReqs' \subseteq Macs /\ granted' \subseteq Macs /\ crossed' \subseteq Macs
    BY <1>1 DEF IInv, TypeOK, Opens
<1>3. PICK r, o : Called(t, r, o) /\ Fits(r)
    BY <1>1 DEF Opens
<1> QED
    BY <1>1, <1>2, <1>3, CalledKeeps DEF Opens

LEMMA HandlerTyped ==
    ASSUME IInv, NEW t \in Threads, Handler(t)
    PROVE  IInv'
<1>1. /\ th[t] \in RequestType /\ th[t].ans # "none"
      /\ GoesOn(t) \/ Ends(t) \/ Disconnected(t)
    BY HandlerForm
<1>2. /\ granted \subseteq Macs /\ connReqs \subseteq Macs /\ strays \subseteq Macs
      /\ crossed \subseteq Macs /\ th[t].mac \in Macs
    BY <1>1, RequestFields DEF IInv, TypeOK
<1>3. CASE GoesOn(t)
    <2>1. PICK r, o : Called(t, r, o) /\ Fits(r)
        BY <1>3 DEF GoesOn
    <2>2. connReqs' \subseteq Macs /\ granted' \subseteq Macs /\ crossed' \subseteq Macs
        BY <1>2, <1>3 DEF GoesOn
    <2> QED
        BY <1>1, <2>1, <2>2, CalledKeeps
<1>4. CASE Ends(t)
    <2>1. /\ Returned(t) /\ connReqs' \subseteq Macs /\ strays' \subseteq Macs
          /\ granted' \subseteq Macs /\ UNCHANGED crossed
        BY <1>2, <1>4 DEF Ends
    <2> QED
        BY <1>1, <2>1, ReturnedKeeps
<1>5. CASE Disconnected(t)
    <2>1. /\ Returned(t) /\ connReqs' \subseteq Macs /\ strays' \subseteq Macs
          /\ granted' \subseteq Macs /\ UNCHANGED crossed
        BY <1>2, <1>5, DisconnectedForm
    <2> QED
        BY <1>1, <2>1, ReturnedKeeps
<1> QED
    BY <1>1, <1>3, <1>4, <1>5

LEMMA FaultCounted ==
    ASSUME TypeOK, NEW kind, Fault(kind)
    PROVE  faults' \in 0..MaxFaults
    BY BoundsAssumption DEF TypeOK, Fault

LEMMA DeadlineTyped ==
    ASSUME IInv, NEW t \in Threads, Deadline(t)
    PROVE  IInv'
<1>1. TypeOK /\ orders \in Seq(OrderType)
    BY DEF IInv, TypeOK
<1>2. /\ th[t].pc # "idle" /\ AnswerSet(t, "err") /\ orders' = Abandoned(orders, t)
      /\ UNCHANGED <<connReqs, link, events, streaming, granted, strays, crossed>>
      /\ faults' \in 0..MaxFaults
    BY <1>1, FaultCounted DEF Deadline, AnswerSet
<1>3. th[t] # Idle
    BY <1>1, <1>2, Busy
<1>4. /\ orders' \in Seq(OrderType) /\ SameOrders(orders, orders')
      /\ \A k \in DOMAIN orders :
            orders'[k].thread = IF orders[k].thread = t THEN NoThread ELSE orders[k].thread
    BY <1>1, <1>2, AbandonedOnes
<1>5. /\ th' \in [Threads -> {Idle} \cup RequestType]
      /\ Fits(th[t]) => Fits(th'[t])
      /\ \A u \in Threads : u # t => th'[u] = th[u]
    BY <1>1, <1>2, <1>3, AnswerSetTo
<1>6. TypeOK'
    BY <1>1, <1>2, <1>4, <1>5 DEF TypeOK
<1>7. ASSUME NEW k \in DOMAIN orders', orders'[k].thread # NoThread
      PROVE  /\ k \in DOMAIN orders
             /\ orders'[k].thread = orders[k].thread
             /\ th'[orders'[k].thread] = th[orders[k].thread]
             /\ orders'[k].mac = orders[k].mac /\ orders'[k].cmd = orders[k].cmd
    <2>1. k \in DOMAIN orders /\ orders[k] \in OrderType
        BY <1>1, <1>4 DEF SameOrders
    <2>2. orders[k].thread \in Threads /\ orders[k].thread # t
          /\ orders'[k].thread = orders[k].thread
        BY <2>1, <1>4, <1>7, OrderFields
    <2> QED
        BY <2>1, <2>2, <1>4, <1>5 DEF SameOrders
<1>8. CallsWait'
    BY <1>7 DEF IInv, CallsWait
<1> QED
    BY <1>5, <1>6, <1>8 DEF IInv

LEMMA UnreachableTyped ==
    ASSUME IInv, NEW t \in Threads, Unreachable(t)
    PROVE  IInv'
<1>1. TypeOK /\ orders \in Seq(OrderType) /\ strays \subseteq Macs
    BY DEF IInv, TypeOK
<1>2. /\ th[t].pc # "idle" /\ AnswerSet(t, "err")
      /\ strays' = IF Command(th[t].pc) = "DISCONNECT" THEN strays \cup {th[t].mac} ELSE strays
      /\ UNCHANGED <<connReqs, link, events, streaming, granted, crossed>>
      /\ faults' \in 0..MaxFaults
    BY <1>1, FaultCounted DEF Unreachable, AnswerSet
<1>3. PICK n \in DOMAIN orders : orders[n].thread = t /\ orders' = RemoveAt(orders, n)
    BY DEF Unreachable
<1>4. th[t] # Idle /\ th[t] \in RequestType
    BY <1>1, <1>2, Busy
<1>5. strays' \subseteq Macs
    BY <1>1, <1>2, <1>4, RequestFields
<1>6. /\ orders' \in Seq(OrderType) /\ Len(orders) \in Nat
      /\ DOMAIN orders = 1..Len(orders) /\ DOMAIN orders' = 1..(Len(orders) - 1)
      /\ \A k \in 1..(Len(orders) - 1) : orders'[k] = IF k < n THEN orders[k] ELSE orders[k + 1]
    <2>1. n \in 1..Len(orders) /\ orders' = RemoveAt(orders, n)
        BY <1>1, <1>3
    <2> QED
        BY <1>1, <2>1, RemovedOne
<1> DEFINE From(k) == IF k < n THEN k ELSE k + 1
<1>7. ASSUME NEW k \in DOMAIN orders'
      PROVE  From(k) \in DOMAIN orders /\ orders'[k] = orders[From(k)] /\ From(k) # n
    BY <1>6
<1>8. ASSUME NEW j \in DOMAIN orders', NEW k \in DOMAIN orders', From(j) = From(k)
      PROVE  j = k
    BY <1>6, <1>8
<1> HIDE DEF From
<1>9. /\ th' \in [Threads -> {Idle} \cup RequestType]
      /\ Fits(th[t]) => Fits(th'[t])
      /\ \A u \in Threads : u # t => th'[u] = th[u]
    BY <1>1, <1>2, <1>4, AnswerSetTo
<1>10. TypeOK'
    BY <1>1, <1>2, <1>5, <1>6, <1>9 DEF TypeOK
<1>11. ASSUME NEW k \in DOMAIN orders', orders'[k].thread # NoThread
       PROVE  /\ th'[orders'[k].thread] # Idle /\ th'[orders'[k].thread].ans = "none"
              /\ th'[orders'[k].thread].mac = orders'[k].mac
              /\ Command(th'[orders'[k].thread].pc) = orders'[k].cmd
    <2>1. From(k) \in DOMAIN orders /\ orders'[k] = orders[From(k)] /\ From(k) # n
        BY <1>7
    <2>2. orders'[k].thread # t
        BY <2>1, <1>3, <1>11 DEF IInv, CallsWait
    <2>3. orders'[k].thread \in Threads
        BY <1>6, <1>11, OrderFields
    <2> QED
        BY <2>1, <2>2, <2>3, <1>9, <1>11 DEF IInv, CallsWait
<1>12. ASSUME NEW j \in DOMAIN orders', NEW k \in DOMAIN orders',
              orders'[j].thread = orders'[k].thread, orders'[j].thread # NoThread
       PROVE  j = k
    <2>1. /\ From(j) \in DOMAIN orders /\ From(k) \in DOMAIN orders
          /\ orders'[j] = orders[From(j)] /\ orders'[k] = orders[From(k)]
        BY <1>7
    <2>2. From(j) = From(k)
        BY <2>1, <1>12 DEF IInv, CallsWait
    <2> QED
        BY <2>2, <1>8
<1>13. CallsWait'
    BY <1>11, <1>12 DEF CallsWait
<1> QED
    BY <1>9, <1>10, <1>13 DEF IInv

LEMMA SucceedsTyped ==
    ASSUME IInv, NEW c \in PiCommands, Succeeds(c)
    PROVE  IInv'
<1>1. TypeOK
    BY DEF IInv
<1>2. orders # <<>> /\ UNCHANGED <<granted, crossed>>
    BY DEF Succeeds
<1>3. Head(orders).mac \in Macs
    BY <1>1, <1>2, Taken, OrderFields DEF TypeOK
<1>4. Answered(Head(orders), "ok") /\ OrderTaken
    BY DEF Succeeds
<1> DEFINE m == Head(orders).mac
<1>5. \/ link' = [link EXCEPT ![m] = "up"] /\ events' = Queued(m, TRUE)
      \/ UNCHANGED <<link, events>>
      \/ link' = [link EXCEPT ![m] = "down"] /\ events' = Queued(m, FALSE)
    BY DEF Succeeds
<1> HIDE DEF m
<1>6. /\ Queued(m, TRUE) \in Seq(EventType) /\ Queued(m, FALSE) \in Seq(EventType)
      /\ link \in [Macs -> {"up", "down"}] /\ events \in Seq(EventType)
    BY <1>1, <1>3, EventQueued DEF TypeOK, m
<1>7. link' \in [Macs -> {"up", "down"}] /\ events' \in Seq(EventType)
    BY <1>5, <1>6
<1> QED
    BY <1>2, <1>4, <1>7, TakenKeeps

LEMMA FruitlessTyped ==
    ASSUME IInv, Fruitless
    PROVE  IInv'
<1>1. TypeOK
    BY DEF IInv
<1>2. /\ orders # <<>> /\ UNCHANGED <<link, events, granted, crossed>>
      /\ Retried(Head(orders)) \/ GivesUp(Head(orders))
    BY DEF Fruitless
<1>3. CASE Retried(Head(orders))
    BY <1>2, <1>3, RetriedKeeps
<1>4. CASE GivesUp(Head(orders))
    <2>1. Answered(Head(orders), "err") /\ OrderTaken
        BY <1>4 DEF GivesUp
    <2>2. link' \in [Macs -> {"up", "down"}] /\ events' \in Seq(EventType)
        BY <1>1, <1>2 DEF TypeOK
    <2> QED
        BY <1>2, <2>1, <2>2, TakenKeeps
<1> QED
    BY <1>2, <1>3, <1>4

LEMMA LinkLostTyped ==
    ASSUME IInv, NEW m \in Macs, LinkLost(m)
    PROVE  IInv'
<1>1. TypeOK
    BY DEF IInv
<1>2. faults' \in 0..MaxFaults /\ Queued(m, FALSE) \in Seq(EventType)
    BY <1>1, FaultCounted, EventQueued DEF LinkLost
<1>3. TypeOK'
    BY <1>1, <1>2 DEF TypeOK, LinkLost
<1> QED
    BY <1>3, QueuesMoved DEF LinkLost

(* An event never names an entry of conn_reqs: its address is another one. *)
LEMMA EventArrivesForm ==
    ASSUME TypeOK, EventArrives
    PROVE  UNCHANGED <<connReqs, th, orders, link, streaming, granted, strays, crossed, faults>>
<1>1. events \in Seq(EventType) /\ events # <<>> /\ connReqs \subseteq Macs
    BY DEF TypeOK, EventArrives
<1>2. Head(events) \in EventType
    BY <1>1, Taken
<1>3. Head(events).mac \notin Macs
    BY <1>2, AddressAssumption DEF EventType
<1> QED
    BY <1>1, <1>3 DEF EventArrives

LEMMA EventArrivesTyped ==
    ASSUME IInv, EventArrives
    PROVE  IInv'
<1>1. TypeOK
    BY DEF IInv
<1>2. UNCHANGED <<connReqs, th, orders, link, streaming, granted, strays, crossed, faults>>
    BY <1>1, EventArrivesForm
<1>3. events' \in Seq(EventType)
    BY <1>1, Taken DEF TypeOK, EventArrives
<1>4. TypeOK'
    BY <1>1, <1>2, <1>3 DEF TypeOK
<1> QED
    BY <1>2, <1>4, QueuesMoved

LEMMA StreamEndsTyped ==
    ASSUME IInv, StreamEnds
    PROVE  IInv'
<1>1. TypeOK
    BY DEF IInv
<1>2. faults' \in 0..MaxFaults /\ <<>> \in Seq(EventType)
    BY <1>1, FaultCounted DEF StreamEnds
<1>3. TypeOK'
    BY <1>1, <1>2 DEF TypeOK, StreamEnds
<1> QED
    BY <1>3, QueuesMoved DEF StreamEnds

LEMMA RestartForm ==
    ASSUME TypeOK, Restart
    PROVE  /\ orders' \in Seq(OrderType) /\ SameOrders(orders, orders')
           /\ \A k \in DOMAIN orders' : orders'[k].thread = NoThread
           /\ \A t \in Threads : th'[t] = Idle
           /\ granted' = {} /\ strays' = Macs /\ UNCHANGED crossed
<1>1. orders \in Seq(OrderType)
    BY DEF TypeOK
<1>2. /\ orders' = [k \in DOMAIN orders |-> [orders[k] EXCEPT !.thread = NoThread]]
      /\ th' = [t \in Threads |-> Idle] /\ granted' = {} /\ strays' = Macs
      /\ UNCHANGED crossed
    BY DEF Restart
<1>3. /\ orders' \in Seq(OrderType) /\ SameOrders(orders, orders')
      /\ \A k \in DOMAIN orders : orders'[k].thread = NoThread
    BY <1>1, <1>2, OrdersLeft
<1> QED
    BY <1>2, <1>3 DEF SameOrders

LEMMA RestartTyped ==
    ASSUME IInv, Restart
    PROVE  IInv'
<1>1. TypeOK
    BY DEF IInv
<1>2. /\ orders' \in Seq(OrderType)
      /\ \A k \in DOMAIN orders' : orders'[k].thread = NoThread
      /\ \A t \in Threads : th'[t] = Idle
    BY <1>1, RestartForm
<1>3. faults' \in 0..MaxFaults /\ <<>> \in Seq(EventType)
    BY <1>1, FaultCounted DEF Restart
<1>4. TypeOK'
    BY <1>1, <1>2, <1>3 DEF TypeOK, Restart
<1>5. CallsWait'
    BY <1>2 DEF CallsWait
<1> QED
    BY <1>2, <1>4, <1>5, IdleFields DEF IInv

LEMMA InitTyped == Init => IInv
<1> SUFFICES ASSUME Init PROVE IInv
    OBVIOUS
<1>1. orders = <<>> /\ \A t \in Threads : th[t] = Idle
    BY DEF Init
<1>2. <<>> \in Seq(OrderType) /\ <<>> \in Seq(EventType)
    OBVIOUS
<1>3. TypeOK
    BY <1>2, BoundsAssumption DEF Init, TypeOK
<1>4. CallsWait
    BY <1>1 DEF CallsWait
<1> QED
    BY <1>1, <1>3, <1>4, IdleFields DEF IInv

LEMMA NextTyped ==
    ASSUME IInv, [Next]_vars
    PROVE  IInv'
<1>1. ASSUME NEW t \in Threads, NEW m \in Macs, Client(t, m) PROVE IInv'
    BY <1>1, ClientTyped
<1>2. ASSUME NEW t \in Threads, Handler(t) PROVE IInv'
    BY <1>2, HandlerTyped
<1>3. ASSUME NEW t \in Threads, Deadline(t) PROVE IInv'
    BY <1>3, DeadlineTyped
<1>4. ASSUME NEW t \in Threads, Unreachable(t) PROVE IInv'
    BY <1>4, UnreachableTyped
<1>5. ASSUME NEW c \in PiCommands, Succeeds(c) PROVE IInv'
    BY <1>5, SucceedsTyped
<1>6. CASE Fruitless
    BY <1>6, FruitlessTyped
<1>7. ASSUME NEW m \in Macs, LinkLost(m) PROVE IInv'
    BY <1>7, LinkLostTyped
<1>8. CASE EventArrives
    BY <1>8, EventArrivesTyped
<1>9. CASE StreamEnds
    BY <1>9, StreamEndsTyped
<1>10. CASE Restart
    BY <1>10, RestartTyped
<1>11. CASE UNCHANGED vars
    BY <1>11 DEF vars, IInv, TypeOK, CallsWait
<1> QED
    BY <1>1, <1>2, <1>3, <1>4, <1>5, <1>6, <1>7, <1>8, <1>9, <1>10, <1>11 DEF Next

(* Whatever requests overlap, a command waits in the Pi for a call that is *)
(* still being made, and at most one for each thread: the answer to it     *)
(* goes to the stub call that asked (gateway/grpc_access_point.py), for    *)
(* any number of threads, devices and faults.                              *)
THEOREM CommandsHaveCallers == Spec => []IInv
<1>1. IInv /\ [Next]_vars => IInv'
    BY NextTyped
<1> QED
    BY <1>1, InitTyped, PTL DEF Spec

(* conn_reqs, the requests in the Flask threads, the commands in the Pi    *)
(* and the events of its stream keep their types; no event ever names an   *)
(* entry of conn_reqs, because the firmware prints the address with its    *)
(* type.                                                                   *)
THEOREM ConnectionsTypeCorrect == Spec => []TypeOK
<1>1. IInv => TypeOK
    BY DEF IInv
<1> QED
    BY <1>1, CommandsHaveCallers, PTL

-----------------------------------------------------------------------------
(* DEVICES THAT WERE NOT CROSSED: what the steps do to the rest of SInv *)

LEMMA Typed ==
    ASSUME SInv
    PROVE  /\ IInv /\ TypeOK /\ CallsWait /\ Alone /\ InTurn /\ Accounted /\ Unmaking /\ Untouched
           /\ orders \in Seq(OrderType) /\ Len(orders) \in Nat /\ DOMAIN orders = 1..Len(orders)
           /\ th \in [Threads -> {Idle} \cup RequestType]
<1>1. IInv /\ TypeOK /\ CallsWait /\ Alone /\ InTurn /\ Accounted /\ Unmaking /\ Untouched
    BY DEF SInv, IInv
<1>2. orders \in Seq(OrderType) /\ th \in [Threads -> {Idle} \cup RequestType]
    BY <1>1 DEF TypeOK
<1> QED
    BY <1>1, <1>2

(* Only requests that connect or disconnect write such commands.           *)
LEMMA SwitchesOfChanges ==
    ASSUME NEW r \in RequestType, Fits(r), NEW o, o.cmd = Command(r.pc), Switches(o)
    PROVE  Changes(r)
    BY CommandKnown, RequestFields DEF Fits, Changes, Switches

LEMMA ClosingChanges ==
    ASSUME NEW r, Fits(r), r.pc \in {"disconnect", "cleanup"}
    PROVE  Changes(r)
    BY DEF Fits, Changes

(* A command that is written last.                                         *)
LEMMA WrittenLast ==
    ASSUME TypeOK, NEW o \in OrderType, orders' = Append(orders, o)
    PROVE  /\ Len(orders) \in Nat
           /\ DOMAIN orders = 1..Len(orders) /\ DOMAIN orders' = 1..(Len(orders) + 1)
           /\ Len(orders') = Len(orders) + 1
           /\ \A k \in 1..Len(orders) : orders'[k] = orders[k]
           /\ orders'[Len(orders) + 1] = o
    BY Appended DEF TypeOK

LEMMA WrittenUndone ==
    ASSUME TypeOK, NEW o \in OrderType, orders' = Append(orders, o), UNCHANGED link, NEW m \in Macs,
           Asks(o, "DISCONNECT", m) \/ (Undone(m) /\ ~Asks(o, "CONNECT", m))
    PROVE  Undone(m)'
<1>1. /\ Len(orders) \in Nat
      /\ DOMAIN orders = 1..Len(orders) /\ DOMAIN orders' = 1..(Len(orders) + 1)
      /\ \A k \in 1..Len(orders) : orders'[k] = orders[k]
      /\ orders'[Len(orders) + 1] = o
    BY WrittenLast
<1>2. CASE Asks(o, "DISCONNECT", m)
    <2>1. Len(orders) + 1 \in DOMAIN orders' /\ Asks(orders'[Len(orders) + 1], "DISCONNECT", m)
        BY <1>1, <1>2
    <2>2. ~Asks(o, "CONNECT", m)
        BY <1>2 DEF Asks
    <2>3. ASSUME NEW k \in DOMAIN orders', Asks(orders'[k], "CONNECT", m)
          PROVE  Len(orders) + 1 > k
        BY <2>2, <2>3, <1>1
    <2> QED
        BY <2>1, <2>3 DEF Undone
<1>3. CASE Undone(m) /\ ~Asks(o, "CONNECT", m)
    <2>1. ASSUME NEW k \in DOMAIN orders', Asks(orders'[k], "CONNECT", m)
          PROVE  \E j \in DOMAIN orders' : j > k /\ Asks(orders'[j], "DISCONNECT", m)
        <3>1. k \in DOMAIN orders /\ orders'[k] = orders[k]
            BY <2>1, <1>1, <1>3
        <3>2. PICK j \in DOMAIN orders : j > k /\ Asks(orders[j], "DISCONNECT", m)
            BY <3>1, <2>1, <1>3 DEF Undone
        <3> QED
            BY <3>2, <1>1
    <2>2. ASSUME link[m] = "up"
          PROVE  \E j \in DOMAIN orders' : Asks(orders'[j], "DISCONNECT", m)
        <3>1. PICK j \in DOMAIN orders : Asks(orders[j], "DISCONNECT", m)
            BY <2>2, <1>3 DEF Undone
        <3> QED
            BY <3>1, <1>1
    <2> QED
        BY <2>1, <2>2 DEF Undone
<1> QED
    BY <1>2, <1>3

(* A request that connects or disconnects meets no other one.              *)
Unmet(t, r) ==
    (Changes(r) /\ r.mac \notin crossed')
        => \A u \in Threads : (u # t /\ th[u].mac = r.mac) => ~Changes(th[u])

LEMMA CalledInTurn ==
    ASSUME SInv, NEW t \in Threads, th[t] = Idle \/ th[t].ans # "none",
           NEW r, NEW o, Called(t, r, o), Fits(r), crossed \subseteq crossed', Unmet(t, r)
    PROVE  Alone' /\ InTurn'
<1>1. /\ TypeOK /\ IInv /\ Alone /\ InTurn
      /\ orders \in Seq(OrderType) /\ th \in [Threads -> {Idle} \cup RequestType]
    BY Typed
<1>2. /\ o \in OrderType /\ o.thread = t /\ o.mac = r.mac /\ o.cmd = Command(r.pc)
      /\ orders' = Append(orders, o) /\ r.ans = "none" /\ r \in RequestType
      /\ th' = [th EXCEPT ![t] = r]
    BY DEF Called
<1>3. /\ Len(orders) \in Nat
      /\ DOMAIN orders = 1..Len(orders) /\ DOMAIN orders' = 1..(Len(orders) + 1)
      /\ \A k \in 1..Len(orders) : orders'[k] = orders[k]
      /\ orders'[Len(orders) + 1] = o
    BY <1>1, <1>2, WrittenLast
<1>4. \A k \in 1..Len(orders) : orders[k].thread # t
    BY <1>1, <1>3, NobodyWaits
<1>5. th'[t] = r /\ \A u \in Threads : u # t => th'[u] = th[u]
    BY <1>1, <1>2
<1>6. Switches(o) => Changes(r)
    BY <1>2, SwitchesOfChanges
<1>7. Alone'
    <2> SUFFICES ASSUME NEW u \in Threads, NEW v \in Threads,
                        Changes(th'[u]), Changes(th'[v]),
                        th'[u].mac = th'[v].mac, th'[u].mac \notin crossed'
                 PROVE  u = v
        BY DEF Alone
    <2>1. CASE u # t /\ v # t
        BY <2>1, <1>1, <1>5 DEF Alone
    <2>2. CASE u = t \/ v = t
        BY <2>2, <1>5 DEF Unmet
    <2> QED
        BY <2>1, <2>2
<1>8. InTurn'
    <2> SUFFICES ASSUME NEW u \in Threads, Changes(th'[u]), th'[u].mac \notin crossed'
                 PROVE  /\ \A j, k \in DOMAIN orders' :
                              (/\ orders'[j].thread = u
                               /\ orders'[k].mac = th'[u].mac /\ Switches(orders'[k])) => k <= j
                        /\ th'[u].ans = "ok" =>
                              \A k \in DOMAIN orders' :
                                 orders'[k].mac = th'[u].mac => ~Switches(orders'[k])
        BY DEF InTurn
    <2>1. CASE u = t
        <3>1. \A j \in DOMAIN orders' : orders'[j].thread = u => j = Len(orders) + 1
            BY <2>1, <1>3, <1>4
        <3>2. th'[u].ans = "none"
            BY <2>1, <1>2, <1>5
        <3> QED
            BY <3>1, <3>2, <1>3
    <2>2. CASE u # t
        <3>1. th'[u] = th[u] /\ th[u].mac \notin crossed
            BY <2>2, <1>5
        <3>2. ~(o.mac = th[u].mac /\ Switches(o))
            BY <2>2, <3>1, <1>2, <1>6 DEF Unmet
        <3>3. \A k \in DOMAIN orders' : (orders'[k].mac = th[u].mac /\ Switches(orders'[k]))
                                            => k \in DOMAIN orders /\ orders'[k] = orders[k]
            BY <3>2, <1>3
        <3>4. \A j \in DOMAIN orders' : orders'[j].thread = u
                                            => j \in DOMAIN orders /\ orders'[j] = orders[j]
            BY <2>2, <1>2, <1>3
        <3> QED
            BY <3>1, <3>3, <3>4, <1>1 DEF InTurn
    <2> QED
        BY <2>1, <2>2
<1> QED
    BY <1>7, <1>8

(* The first or the next call of a request.                                *)
LEMMA CalledKeepsAll ==
    ASSUME SInv, NEW t \in Threads, th[t] = Idle \/ th[t].ans # "none",
           NEW r, NEW o, Called(t, r, o), Fits(r),
           th[t] = Idle \/ r.mac = th[t].mac,
           Makes(th[t]) => Makes(r) \/ o.cmd = "DISCONNECT",
           connReqs \subseteq connReqs', connReqs' \subseteq Macs, granted' \subseteq granted,
           crossed \subseteq crossed', crossed' \subseteq Macs, Unmet(t, r),
           r.mac \in granted' \ crossed' => ~Changes(r)
    PROVE  SInv'
<1>1. /\ TypeOK /\ IInv /\ Accounted /\ Unmaking /\ Untouched
      /\ orders \in Seq(OrderType) /\ th \in [Threads -> {Idle} \cup RequestType]
    BY Typed
<1>2. /\ o \in OrderType /\ o.thread = t /\ o.mac = r.mac /\ o.cmd = Command(r.pc)
      /\ orders' = Append(orders, o) /\ r \in RequestType
      /\ th' = [th EXCEPT ![t] = r] /\ UNCHANGED <<link, strays>>
    BY DEF Called
<1>3. th'[t] = r /\ \A u \in Threads : u # t => th'[u] = th[u]
    BY <1>1, <1>2
<1>4. granted' \subseteq Macs
    BY <1>1 DEF TypeOK
<1>5. IInv'
    BY <1>1, <1>4, CalledKeeps
<1>6. Alone' /\ InTurn'
    BY CalledInTurn
<1>7. /\ o.cmd = "CONNECT" => Makes(r)
      /\ Switches(o) => Changes(r)
    BY <1>2, CommandKnown, RequestFields, SwitchesOfChanges DEF Fits, Makes
<1>8. ASSUME NEW m \in Macs \ crossed'
      PROVE  m \in connReqs' \cup strays' \/ Making(m)' \/ Undone(m)'
    <2>1. CASE m \in connReqs \cup strays
        BY <2>1, <1>2
    <2>2. CASE m = r.mac /\ Makes(r)
        BY <2>2, <1>3 DEF Making
    <2>3. CASE m = r.mac /\ o.cmd = "DISCONNECT"
        <3>1. Asks(o, "DISCONNECT", m)
            BY <2>3, <1>2 DEF Asks
        <3> QED
            BY <3>1, <1>1, <1>2, WrittenUndone
    <2>4. CASE Making(m)
        <3>1. PICK u \in Threads : th[u].mac = m /\ Makes(th[u])
            BY <2>4 DEF Making
        <3>2. CASE u = t
            BY <3>1, <3>2, <2>2, <2>3, IdleFields
        <3>3. CASE u # t
            BY <3>1, <3>3, <1>3 DEF Making
        <3> QED
            BY <3>2, <3>3
    <2>5. CASE Undone(m) /\ ~(m = r.mac /\ Makes(r))
        <3>1. ~Asks(o, "CONNECT", m)
            BY <2>5, <1>2, <1>7 DEF Asks
        <3> QED
            BY <2>5, <3>1, <1>1, <1>2, WrittenUndone
    <2> QED
        BY <2>1, <2>2, <2>4, <2>5, <1>1 DEF Accounted
<1>9. Accounted'
    BY <1>8 DEF Accounted
<1>10. ASSUME NEW u \in Threads, th'[u].pc \in {"disconnect", "cleanup"}, NEW m, m = th'[u].mac
       PROVE  m \in strays' \cup crossed' \/ Undone(m)'
    <2>1. CASE u = t
        <3>1. Asks(o, "DISCONNECT", m) /\ m \in Macs
            BY <2>1, <1>2, <1>3, <1>10, CommandKnown, RequestFields DEF Asks
        <3> QED
            BY <3>1, <1>1, <1>2, WrittenUndone
    <2>2. CASE u # t
        <3>1. th'[u] = th[u] /\ th[u].pc \in {"disconnect", "cleanup"} /\ th[u].mac = m
            BY <2>2, <1>3, <1>10
        <3>2. Changes(th[u]) /\ m \in Macs
            BY <3>1, <1>1, ClosingChanges, IdleFields, RequestFields DEF IInv
        <3>3. Asks(o, "CONNECT", m) => m \in crossed'
            BY <2>2, <3>1, <3>2, <1>2, <1>7 DEF Asks, Switches, Unmet
        <3>4. m \in strays \cup crossed \/ Undone(m)
            BY <3>1, <1>1 DEF Unmaking
        <3> QED
            BY <3>2, <3>3, <3>4, <1>1, <1>2, WrittenUndone
    <2> QED
        BY <2>1, <2>2
<1>11. Unmaking'
    BY <1>10 DEF Unmaking, Undone
<1>12. Untouched'
    <2>1. /\ Len(orders) \in Nat
          /\ DOMAIN orders = 1..Len(orders) /\ DOMAIN orders' = 1..(Len(orders) + 1)
          /\ \A k \in 1..Len(orders) : orders'[k] = orders[k]
          /\ orders'[Len(orders) + 1] = o
        BY <1>1, <1>2, WrittenLast
    <2>2. ASSUME NEW m \in granted' \ crossed'
          PROVE  /\ m \in connReqs' /\ link'[m] = "up"
                 /\ \A k \in DOMAIN orders' : orders'[k].mac = m => ~Switches(orders'[k])
                 /\ \A u \in Threads : th'[u].mac = m => ~Changes(th'[u])
        <3>1. m \in granted \ crossed
            OBVIOUS
        <3>2. m \in connReqs' /\ link'[m] = "up"
            BY <3>1, <1>1, <1>2 DEF Untouched
        <3>3. ASSUME NEW k \in DOMAIN orders', orders'[k].mac = m
              PROVE  ~Switches(orders'[k])
            BY <3>1, <3>3, <2>1, <1>1, <1>2, <1>7 DEF Untouched
        <3>4. \A u \in Threads : th'[u].mac = m => ~Changes(th'[u])
            BY <3>1, <1>1, <1>3 DEF Untouched
        <3> QED
            BY <3>2, <3>3, <3>4
    <2> QED
        BY <2>2 DEF Untouched
<1> QED
    BY <1>5, <1>6, <1>9, <1>11, <1>12 DEF SInv

(* The link and the commands stay as they are.                             *)
LEMMA StaysUndone ==
    ASSUME UNCHANGED <<orders, link>>, NEW m
    PROVE  Undone(m) => Undone(m)'
    BY DEF Undone

LEMMA ReturnedKeepsAll ==
    ASSUME SInv, NEW t \in Threads, th[t].ans # "none", Returned(t), UNCHANGED crossed,
           connReqs' \subseteq Macs, strays' \subseteq Macs, granted' \subseteq Macs,
           strays \subseteq strays',
           \A m \in connReqs : m \in connReqs' \cup strays' \cup crossed \/ Undone(m),
           Makes(th[t]) => th[t].mac \in connReqs' \cup strays',
           \A m \in granted' \ crossed :
              /\ m \in connReqs'
              /\ \/ m \in granted
                 \/ m = th[t].mac /\ Changes(th[t]) /\ th[t].ans = "ok" /\ link[m] = "up"
    PROVE  SInv'
<1>1. /\ TypeOK /\ IInv /\ Alone /\ InTurn /\ Accounted /\ Unmaking /\ Untouched
      /\ orders \in Seq(OrderType) /\ th \in [Threads -> {Idle} \cup RequestType]
    BY Typed
<1>2. th' = [th EXCEPT ![t] = Idle] /\ UNCHANGED <<orders, link>>
    BY DEF Returned, piVars
<1>3. /\ th'[t] = Idle /\ \A u \in Threads : u # t => th'[u] = th[u]
      /\ \A u \in Threads : Changes(th'[u]) => u # t
    BY <1>1, <1>2, IdleFields
<1>4. IInv'
    BY <1>1, ReturnedKeeps
<1>5. Alone'
    BY <1>1, <1>3 DEF Alone
<1>6. InTurn'
    BY <1>1, <1>2, <1>3 DEF InTurn
<1>7. ASSUME NEW m \in Macs \ crossed
      PROVE  m \in connReqs' \cup strays' \/ Making(m)' \/ Undone(m)'
    <2>1. Making(m) => Making(m)' \/ m \in connReqs' \cup strays'
        BY <1>3 DEF Making
    <2> QED
        BY <2>1, <1>1, <1>2, StaysUndone DEF Accounted
<1>8. Accounted'
    BY <1>7 DEF Accounted
<1>9. ASSUME NEW u \in Threads, th'[u].pc \in {"disconnect", "cleanup"}, NEW m, m = th'[u].mac
      PROVE  m \in strays' \cup crossed' \/ Undone(m)'
    <2>1. u # t /\ th'[u] = th[u]
        BY <1>3, <1>9, IdleFields
    <2> QED
        BY <2>1, <1>1, <1>2, <1>9, StaysUndone DEF Unmaking
<1>10. Unmaking'
    BY <1>9 DEF Unmaking, Undone
<1>11. ASSUME NEW m \in granted' \ crossed
       PROVE  /\ m \in connReqs' /\ link'[m] = "up"
              /\ \A k \in DOMAIN orders' : orders'[k].mac = m => ~Switches(orders'[k])
              /\ \A u \in Threads : th'[u].mac = m => ~Changes(th'[u])
    <2>1. m \in connReqs'
        OBVIOUS
    <2>2. CASE m \in granted
        BY <2>1, <2>2, <1>1, <1>2, <1>3 DEF Untouched
    <2>3. CASE m = th[t].mac /\ Changes(th[t]) /\ th[t].ans = "ok" /\ link[m] = "up"
        <3>1. \A k \in DOMAIN orders : orders[k].mac = m => ~Switches(orders[k])
            BY <2>3, <1>1 DEF InTurn
        <3>2. \A u \in Threads : th'[u].mac = m => ~Changes(th'[u])
            BY <2>3, <1>1, <1>3 DEF Alone
        <3> QED
            BY <2>1, <2>3, <3>1, <3>2, <1>2
    <2> QED
        BY <2>2, <2>3
<1>12. Untouched'
    BY <1>11 DEF Untouched
<1> QED
    BY <1>4, <1>5, <1>6, <1>8, <1>10, <1>12 DEF SInv

LEMMA ClientKeeps ==
    ASSUME SInv, NEW t \in Threads, NEW m \in Macs, Client(t, m)
    PROVE  SInv'
<1>1. Opens(t, m)
    BY ClientForm
<1>2. /\ th[t] = Idle /\ UNCHANGED connReqs /\ granted' \subseteq granted
      /\ crossed \subseteq crossed' /\ crossed' \subseteq crossed \cup {m}
    BY <1>1 DEF Opens
<1>3. PICK r, o : /\ Called(t, r, o) /\ Fits(r) /\ r.mac = m
                  /\ (m \in granted' /\ m \in connReqs) => ~Changes(r)
                  /\ (Changes(r) /\ m \notin crossed')
                        => \A u \in Threads : th[u].mac = m => ~Changes(th[u])
    BY <1>1 DEF Opens
<1>4. granted \ crossed \subseteq connReqs /\ connReqs \subseteq Macs /\ crossed \subseteq Macs
    BY Typed DEF Untouched, TypeOK
<1>5. ~Makes(th[t])
    BY <1>2, IdleFields
<1>6. r.mac \in granted' \ crossed' => ~Changes(r)
    BY <1>2, <1>3, <1>4
<1>7. Unmet(t, r)
    BY <1>3 DEF Unmet
<1>8. crossed' \subseteq Macs
    BY <1>2, <1>4
<1> QED
    BY <1>2, <1>3, <1>4, <1>5, <1>6, <1>7, <1>8, CalledKeepsAll

LEMMA GoesOnKeeps ==
    ASSUME SInv, NEW t \in Threads, th[t] \in RequestType, th[t].ans # "none", GoesOn(t)
    PROVE  SInv'
<1>1. /\ connReqs \subseteq connReqs' /\ connReqs' \subseteq Macs
      /\ granted' = granted /\ crossed' = crossed
    BY DEF GoesOn
<1>2. PICK r, o : /\ Called(t, r, o) /\ Fits(r)
                  /\ r.op = th[t].op /\ r.mac = th[t].mac /\ r.implicit = th[t].implicit
                  /\ Makes(th[t]) => Makes(r) \/ r.pc \in {"disconnect", "cleanup"}
    BY DEF GoesOn
<1>3. r \in RequestType /\ o.cmd = Command(r.pc) /\ (Changes(r) <=> Changes(th[t]))
    BY <1>2 DEF Called, Changes
<1>4. Makes(th[t]) => Makes(r) \/ o.cmd = "DISCONNECT"
    BY <1>2, <1>3, CommandKnown
<1>5. r.mac \in granted' \ crossed' => ~Changes(r)
    BY <1>1, <1>2, <1>3, Typed DEF Untouched
<1>6. Unmet(t, r)
    BY <1>1, <1>2, <1>3, Typed DEF Unmet, Alone
<1>7. crossed' \subseteq Macs
    BY <1>1, Typed DEF TypeOK
<1> QED
    BY <1>1, <1>2, <1>4, <1>5, <1>6, <1>7, CalledKeepsAll

LEMMA EndsKeeps ==
    ASSUME SInv, NEW t \in Threads, th[t] \in RequestType, th[t].ans # "none", Ends(t)
    PROVE  SInv'
<1>1. /\ Returned(t) /\ connReqs' \subseteq Macs /\ strays' \subseteq Macs /\ UNCHANGED crossed
      /\ strays \subseteq strays' /\ connReqs \subseteq connReqs'
      /\ Makes(th[t]) => th[t].mac \in connReqs' \cup strays'
      /\ \/ granted' = granted
         \/ /\ granted' = granted \cup {th[t].mac}
            /\ th[t].op = "CONNECT" /\ th[t].ans = "ok"
            /\ link[th[t].mac] = "up" /\ th[t].mac \in connReqs'
    BY DEF Ends
<1>2. granted \ crossed \subseteq connReqs /\ granted \subseteq Macs /\ th[t].mac \in Macs
    BY Typed, RequestFields DEF Untouched, TypeOK
<1>3. granted' \subseteq Macs
    BY <1>1, <1>2
<1>4. th[t].op = "CONNECT" => Changes(th[t])
    BY DEF Changes
<1>5. \A m \in granted' \ crossed :
         /\ m \in connReqs'
         /\ \/ m \in granted
            \/ m = th[t].mac /\ Changes(th[t]) /\ th[t].ans = "ok" /\ link[m] = "up"
    BY <1>1, <1>2, <1>4
<1> QED
    BY <1>1, <1>3, <1>5, ReturnedKeepsAll

LEMMA DisconnectedKeeps ==
    ASSUME SInv, NEW t \in Threads, th[t] \in RequestType, th[t].ans # "none", Disconnected(t)
    PROVE  SInv'
<1>1. /\ th[t].pc \in {"disconnect", "cleanup"}
      /\ Returned(t) /\ UNCHANGED <<strays, granted, crossed>>
      /\ connReqs' = IF th[t].ans = "ok" THEN connReqs \ {th[t].mac} ELSE connReqs
    BY Typed, DisconnectedForm
<1>2. /\ granted \ crossed \subseteq connReqs /\ granted \subseteq Macs /\ connReqs \subseteq Macs
      /\ strays \subseteq Macs /\ Fits(th[t])
    BY Typed DEF Untouched, TypeOK, IInv
<1>3. th[t].mac \notin granted \ crossed
    BY <1>1, <1>2, ClosingChanges, Typed DEF Untouched
<1>4. ~Makes(th[t])
    BY <1>1 DEF Makes
<1>5. th[t].mac \in strays \cup crossed \/ Undone(th[t].mac)
    BY <1>1, Typed DEF Unmaking
<1>6. \A m \in connReqs : m \in connReqs' \cup strays' \cup crossed \/ Undone(m)
    BY <1>1, <1>5
<1>7. connReqs' \subseteq Macs /\ strays' \subseteq Macs /\ granted' \subseteq Macs
    BY <1>1, <1>2
<1>8. \A m \in granted' \ crossed : m \in connReqs' /\ m \in granted
    BY <1>1, <1>2, <1>3
<1>9. strays \subseteq strays' /\ (Makes(th[t]) => th[t].mac \in connReqs' \cup strays')
    BY <1>1, <1>4
<1> QED
    BY <1>1, <1>6, <1>7, <1>8, <1>9, ReturnedKeepsAll

LEMMA HandlerKeeps ==
    ASSUME SInv, NEW t \in Threads, Handler(t)
    PROVE  SInv'
<1>1. /\ th[t] \in RequestType /\ th[t].ans # "none"
      /\ GoesOn(t) \/ Ends(t) \/ Disconnected(t)
    BY Typed, HandlerForm
<1> QED
    BY <1>1, GoesOnKeeps, EndsKeeps, DisconnectedKeeps

(* Steps of the Pi and of the environment: of a request at most the answer *)
(* changes.                                                                *)
SameRequest(r, s) ==
    /\ r = Idle <=> s = Idle
    /\ r.mac = s.mac /\ r.pc = s.pc
    /\ Makes(r) <=> Makes(s)
    /\ Changes(r) <=> Changes(s)

LEMMA SameRequestsKeep ==
    ASSUME SInv, IInv', InTurn', \A u \in Threads : SameRequest(th'[u], th[u]),
           UNCHANGED <<connReqs, crossed>>, granted' \subseteq granted, strays \subseteq strays',
           \A m \in Macs \ crossed : Undone(m) => Undone(m)' \/ m \in strays',
           \A m \in granted' \ crossed :
              /\ link'[m] = "up"
              /\ \A k \in DOMAIN orders' : orders'[k].mac = m => ~Switches(orders'[k])
    PROVE  SInv'
<1>1. Alone /\ Accounted /\ Unmaking /\ Untouched
    BY Typed
<1>2. ASSUME NEW m \in Macs \ crossed
      PROVE  m \in connReqs' \cup strays' \/ Making(m)' \/ Undone(m)'
    <2>1. Making(m) => Making(m)'
        BY DEF Making, SameRequest
    <2> QED
        BY <2>1, <1>1 DEF Accounted
<1>3. Accounted'
    BY <1>2 DEF Accounted
<1>4. ASSUME NEW u \in Threads, th'[u].pc \in {"disconnect", "cleanup"}, NEW m, m = th'[u].mac
      PROVE  m \in strays' \cup crossed' \/ Undone(m)'
    <2>1. th[u].mac = m /\ th[u].pc \in {"disconnect", "cleanup"}
        BY <1>4 DEF SameRequest
    <2>2. m \in strays \cup crossed \/ Undone(m)
        BY <2>1, <1>1 DEF Unmaking
    <2>3. m \in Macs
        BY <2>1, IdleFields, RequestFields, Typed
    <2> QED
        BY <2>2, <2>3
<1>5. Unmaking'
    BY <1>4 DEF Unmaking, Undone
<1>6. Untouched'
    BY <1>1 DEF Untouched, SameRequest
<1>7. Alone'
    BY <1>1 DEF Alone, SameRequest
<1> QED
    BY <1>3, <1>5, <1>6, <1>7 DEF SInv

LEMMA AnswerIsSame ==
    ASSUME TypeOK, NEW t \in Threads, th[t] # Idle, NEW a \in {"none", "ok", "err"},
           AnswerSet(t, a)
    PROVE  /\ th'[t].ans = a
           /\ \A u \in Threads : SameRequest(th'[u], th[u])
           /\ \A u \in Threads : u # t => th'[u] = th[u]
    BY AnswerSetTo DEF SameRequest

LEMMA SameIsSame ==
    ASSUME UNCHANGED th
    PROVE  \A u \in Threads : SameRequest(th'[u], th[u])
    BY DEF SameRequest

(* Commands that were there before, in the same order.                     *)
Kept(f, s, q) ==
    /\ \A k \in DOMAIN q : /\ f[k] \in DOMAIN s
                           /\ q[k].mac = s[f[k]].mac /\ q[k].cmd = s[f[k]].cmd
                           /\ q[k].thread \in {s[f[k]].thread, NoThread}
    /\ \A j, k \in DOMAIN q : f[k] <= f[j] => k <= j

LEMMA KeptInTurn ==
    ASSUME InTurn, UNCHANGED crossed, \A u \in Threads : SameRequest(th'[u], th[u]),
           NEW f, Kept(f, orders, orders'),
           \A u \in Threads :
              (Changes(th[u]) /\ th[u].mac \notin crossed /\ th'[u].ans = "ok" /\ th[u].ans # "ok")
                 => \A k \in DOMAIN orders' : orders'[k].mac = th[u].mac => ~Switches(orders'[k])
    PROVE  InTurn'
<1> SUFFICES ASSUME NEW u \in Threads, Changes(th'[u]), th'[u].mac \notin crossed'
             PROVE  /\ \A j, k \in DOMAIN orders' :
                          (/\ orders'[j].thread = u
                           /\ orders'[k].mac = th'[u].mac /\ Switches(orders'[k])) => k <= j
                    /\ th'[u].ans = "ok" =>
                          \A k \in DOMAIN orders' :
                             orders'[k].mac = th'[u].mac => ~Switches(orders'[k])
    BY DEF InTurn
<1>1. Changes(th[u]) /\ th[u].mac \notin crossed /\ th'[u].mac = th[u].mac
    BY DEF SameRequest
<1>2. \A k \in DOMAIN orders' : Switches(orders'[k]) <=> Switches(orders[f[k]])
    BY DEF Kept, Switches
<1>3. ASSUME NEW j \in DOMAIN orders', NEW k \in DOMAIN orders',
             orders'[j].thread = u, orders'[k].mac = th'[u].mac, Switches(orders'[k])
      PROVE  k <= j
    <2>1. orders[f[j]].thread = u /\ f[j] \in DOMAIN orders /\ f[k] \in DOMAIN orders
        BY <1>3, ThreadAssumption DEF Kept
    <2>2. orders[f[k]].mac = th[u].mac /\ Switches(orders[f[k]])
        BY <1>1, <1>2, <1>3 DEF Kept
    <2>3. f[k] <= f[j]
        BY <2>1, <2>2, <1>1 DEF InTurn
    <2> QED
        BY <2>3 DEF Kept
<1>4. ASSUME th'[u].ans = "ok", NEW k \in DOMAIN orders', orders'[k].mac = th'[u].mac
      PROVE  ~Switches(orders'[k])
    <2>1. CASE th[u].ans # "ok"
        BY <2>1, <1>1, <1>4
    <2>2. CASE th[u].ans = "ok"
        <3>1. f[k] \in DOMAIN orders /\ orders[f[k]].mac = th[u].mac
            BY <1>1, <1>4 DEF Kept
        <3> QED
            BY <2>2, <3>1, <1>1, <1>2 DEF InTurn
    <2> QED
        BY <2>1, <2>2
<1> QED
    BY <1>3, <1>4

(* Commands of which only the callers change.                              *)
LEMMA SameOrdersUndone ==
    ASSUME TypeOK, SameOrders(orders, orders'), UNCHANGED link, NEW m
    PROVE  Undone(m) => Undone(m)'
    BY DEF SameOrders, Undone, Asks

LEMMA DeadlineKeeps ==
    ASSUME SInv, NEW t \in Threads, Deadline(t)
    PROVE  SInv'
<1>1. /\ TypeOK /\ IInv /\ InTurn /\ Untouched /\ orders \in Seq(OrderType)
      /\ Len(orders) \in Nat /\ DOMAIN orders = 1..Len(orders)
    BY Typed
<1>2. IInv'
    BY <1>1, DeadlineTyped
<1>3. /\ th[t].pc # "idle" /\ AnswerSet(t, "err") /\ orders' = Abandoned(orders, t)
      /\ UNCHANGED <<connReqs, link, granted, strays, crossed>>
    BY DEF Deadline, AnswerSet
<1>4. th[t] # Idle
    BY <1>1, <1>3, Busy
<1>5. /\ th'[t].ans = "err" /\ \A u \in Threads : SameRequest(th'[u], th[u])
      /\ \A u \in Threads : u # t => th'[u] = th[u]
    BY <1>1, <1>3, <1>4, AnswerIsSame
<1>6. /\ SameOrders(orders, orders')
      /\ \A k \in DOMAIN orders :
            orders'[k].thread = IF orders[k].thread = t THEN NoThread ELSE orders[k].thread
    BY <1>1, <1>3, AbandonedOnes
<1>7. InTurn'
    <2>1. PICK f : f = [k \in DOMAIN orders |-> k]
        OBVIOUS
    <2>2. \A k \in DOMAIN orders : f[k] = k /\ k \in Nat
        BY <2>1, <1>1
    <2>3. Kept(f, orders, orders')
        BY <2>2, <1>6 DEF Kept, SameOrders
    <2>4. \A u \in Threads : th'[u].ans = "ok" => th[u].ans = "ok"
        BY <1>5
    <2> QED
        BY <2>3, <2>4, <1>1, <1>3, <1>5, KeptInTurn
<1>8. \A m \in Macs \ crossed : Undone(m) => Undone(m)'
    BY <1>1, <1>3, <1>6, SameOrdersUndone
<1>9. \A m \in granted' \ crossed :
         /\ link'[m] = "up"
         /\ \A k \in DOMAIN orders' : orders'[k].mac = m => ~Switches(orders'[k])
    BY <1>1, <1>3, <1>6 DEF Untouched, SameOrders, Switches
<1> QED
    BY <1>2, <1>3, <1>5, <1>7, <1>8, <1>9, SameRequestsKeep

(* The command that never reached the Pi is taken out.                     *)
LEMMA UnreachableKeeps ==
    ASSUME SInv, NEW t \in Threads, Unreachable(t)
    PROVE  SInv'
<1>1. /\ TypeOK /\ IInv /\ CallsWait /\ InTurn /\ Untouched
      /\ orders \in Seq(OrderType) /\ Len(orders) \in Nat /\ DOMAIN orders = 1..Len(orders)
    BY Typed
<1>2. IInv'
    BY <1>1, UnreachableTyped
<1>3. /\ th[t].pc # "idle" /\ AnswerSet(t, "err")
      /\ strays' = IF Command(th[t].pc) = "DISCONNECT" THEN strays \cup {th[t].mac} ELSE strays
      /\ UNCHANGED <<connReqs, link, granted, crossed>>
    BY DEF Unreachable, AnswerSet
<1>4. th[t] # Idle
    BY <1>1, <1>3, Busy
<1>5. /\ th'[t].ans = "err" /\ \A u \in Threads : SameRequest(th'[u], th[u])
      /\ \A u \in Threads : u # t => th'[u] = th[u]
    BY <1>1, <1>3, <1>4, AnswerIsSame
<1>6. PICK n \in DOMAIN orders : orders[n].thread = t /\ orders' = RemoveAt(orders, n)
    BY DEF Unreachable
<1>7. /\ DOMAIN orders' = 1..(Len(orders) - 1) /\ n \in 1..Len(orders)
      /\ \A k \in 1..(Len(orders) - 1) : orders'[k] = IF k < n THEN orders[k] ELSE orders[k + 1]
    <2>1. n \in 1..Len(orders)
        BY <1>1, <1>6
    <2> QED
        BY <1>1, <1>6, <2>1, RemovedOne
<1>8. PICK f : f = [k \in DOMAIN orders' |-> IF k < n THEN k ELSE k + 1]
    OBVIOUS
<1>9. \A k \in DOMAIN orders' : /\ f[k] = IF k < n THEN k ELSE k + 1
                                /\ f[k] \in DOMAIN orders /\ orders'[k] = orders[f[k]]
    BY <1>1, <1>7, <1>8
<1>10. Kept(f, orders, orders')
    <2>1. ASSUME NEW j \in DOMAIN orders', NEW k \in DOMAIN orders', f[k] <= f[j]
          PROVE  k <= j
        BY <2>1, <1>1, <1>7, <1>9
    <2> QED
        BY <2>1, <1>9 DEF Kept
<1>11. InTurn'
    <2>1. \A u \in Threads : th'[u].ans = "ok" => th[u].ans = "ok"
        BY <1>5
    <2> QED
        BY <2>1, <1>1, <1>3, <1>5, <1>10, KeptInTurn
<1>12. orders[n].mac = th[t].mac /\ orders[n].cmd = Command(th[t].pc)
    BY <1>1, <1>6, ThreadAssumption DEF CallsWait
<1>13. ASSUME NEW m \in Macs, Undone(m)
       PROVE  Undone(m)' \/ m \in strays'
    <2>1. CASE Asks(orders[n], "DISCONNECT", m)
        BY <2>1, <1>3, <1>12 DEF Asks
    <2>2. CASE ~Asks(orders[n], "DISCONNECT", m)
        <3>1. ASSUME NEW j \in DOMAIN orders, Asks(orders[j], "DISCONNECT", m)
              PROVE  \E i \in DOMAIN orders' : f[i] = j /\ Asks(orders'[i], "DISCONNECT", m)
            <4>1. j # n /\ j \in 1..Len(orders)
                BY <2>2, <3>1, <1>1
            <4>2. CASE j < n
                <5>1. j \in DOMAIN orders' /\ f[j] = j
                    BY <4>1, <4>2, <1>1, <1>7, <1>9
                <5> QED
                    BY <5>1, <3>1, <1>9
            <4>3. CASE j > n
                <5>1. j - 1 \in DOMAIN orders' /\ f[j - 1] = j
                    BY <4>1, <4>3, <1>1, <1>7, <1>9
                <5> QED
                    BY <5>1, <3>1, <1>9
            <4> QED
                BY <4>1, <4>2, <4>3, <1>7
        <3>2. ASSUME NEW k \in DOMAIN orders', Asks(orders'[k], "CONNECT", m)
              PROVE  \E i \in DOMAIN orders' : i > k /\ Asks(orders'[i], "DISCONNECT", m)
            <4>1. f[k] \in DOMAIN orders /\ Asks(orders[f[k]], "CONNECT", m)
                BY <3>2, <1>9
            <4>2. PICK j \in DOMAIN orders : j > f[k] /\ Asks(orders[j], "DISCONNECT", m)
                BY <4>1, <1>13 DEF Undone
            <4>3. PICK i \in DOMAIN orders' : f[i] = j /\ Asks(orders'[i], "DISCONNECT", m)
                BY <4>2, <3>1
            <4>4. i > k
                BY <4>1, <4>2, <4>3, <1>1, <1>7, <1>9
            <4> QED
                BY <4>3, <4>4
        <3>3. ASSUME link'[m] = "up"
              PROVE  \E i \in DOMAIN orders' : Asks(orders'[i], "DISCONNECT", m)
            BY <3>1, <3>3, <1>3, <1>13 DEF Undone
        <3> QED
            BY <3>2, <3>3 DEF Undone
    <2> QED
        BY <2>1, <2>2
<1>14. \A m \in granted' \ crossed :
          /\ link'[m] = "up"
          /\ \A k \in DOMAIN orders' : orders'[k].mac = m => ~Switches(orders'[k])
    BY <1>1, <1>3, <1>9 DEF Untouched
<1>15. strays \subseteq strays'
    BY <1>3
<1> QED
    BY <1>2, <1>3, <1>5, <1>11, <1>13, <1>14, <1>15, SameRequestsKeep

(* What the command at the head has done to the links.                     *)
Executed(o) ==
    \/ o.cmd = "CONNECT" /\ link' = [link EXCEPT ![o.mac] = "up"]
    \/ o.cmd = "DISCONNECT" /\ link' = [link EXCEPT ![o.mac] = "down"]
    \/ link' = link /\ (o.cmd = "DISCONNECT" => link[o.mac] = "down")

LEMMA ExecutedOn ==
    ASSUME TypeOK, NEW o \in OrderType, Executed(o), NEW m \in Macs
    PROVE  /\ link'[m] = "up" => link[m] = "up" \/ Asks(o, "CONNECT", m)
           /\ link'[m] = "up" => ~Asks(o, "DISCONNECT", m)
           /\ (link[m] = "up" /\ ~Asks(o, "DISCONNECT", m)) => link'[m] = "up"
           /\ link'[m] = "down" \/ link'[m] = "up"
<1>1. link \in [Macs -> {"up", "down"}] /\ o.mac \in Macs
    BY OrderFields DEF TypeOK
<1>2. CASE o.cmd = "CONNECT" /\ link' = [link EXCEPT ![o.mac] = "up"]
    BY <1>1, <1>2 DEF Asks
<1>3. CASE o.cmd = "DISCONNECT" /\ link' = [link EXCEPT ![o.mac] = "down"]
    BY <1>1, <1>3 DEF Asks
<1>4. CASE link' = link /\ (o.cmd = "DISCONNECT" => link[o.mac] = "down")
    BY <1>1, <1>4 DEF Asks
<1> QED
    BY <1>2, <1>3, <1>4 DEF Executed

LEMMA HeadTaken ==
    ASSUME TypeOK, orders # <<>>, orders' = Tail(orders)
    PROVE  /\ Len(orders) \in Nat /\ Len(orders) > 0 /\ Len(orders') = Len(orders) - 1
           /\ DOMAIN orders = 1..Len(orders) /\ DOMAIN orders' = 1..(Len(orders) - 1)
           /\ \A k \in 1..(Len(orders) - 1) : orders'[k] = orders[k + 1]
           /\ Head(orders) = orders[1] /\ orders[1] \in OrderType
    BY Taken DEF TypeOK

LEMMA TakenUndone ==
    ASSUME TypeOK, orders # <<>>, orders' = Tail(orders), Executed(Head(orders)),
           NEW m \in Macs, Undone(m)
    PROVE  Undone(m)'
<1>1. /\ Len(orders) \in Nat /\ Len(orders) > 0
      /\ DOMAIN orders = 1..Len(orders) /\ DOMAIN orders' = 1..(Len(orders) - 1)
      /\ \A k \in 1..(Len(orders) - 1) : orders'[k] = orders[k + 1]
      /\ Head(orders) = orders[1] /\ orders[1] \in OrderType
    BY HeadTaken
<1>2. ASSUME NEW j \in DOMAIN orders, j > 1
      PROVE  j - 1 \in DOMAIN orders' /\ orders'[j - 1] = orders[j]
    BY <1>1, <1>2
<1>3. ASSUME NEW k \in DOMAIN orders', Asks(orders'[k], "CONNECT", m)
      PROVE  \E j \in DOMAIN orders' : j > k /\ Asks(orders'[j], "DISCONNECT", m)
    <2>1. k + 1 \in DOMAIN orders /\ Asks(orders[k + 1], "CONNECT", m) /\ k \in Nat
        BY <1>1, <1>3
    <2>2. PICK j \in DOMAIN orders : j > k + 1 /\ Asks(orders[j], "DISCONNECT", m)
        BY <2>1 DEF Undone
    <2>3. j \in Nat /\ j > 1 /\ j - 1 > k
        BY <2>1, <2>2, <1>1
    <2> QED
        BY <2>2, <2>3, <1>2
<1>4. ASSUME link'[m] = "up"
      PROVE  \E j \in DOMAIN orders' : Asks(orders'[j], "DISCONNECT", m)
    <2>1. /\ link[m] = "up" \/ Asks(orders[1], "CONNECT", m)
          /\ ~Asks(orders[1], "DISCONNECT", m)
        BY <1>1, <1>4, ExecutedOn
    <2>2. PICK j \in DOMAIN orders : Asks(orders[j], "DISCONNECT", m)
        <3>1. 1 \in DOMAIN orders
            BY <1>1
        <3> QED
            BY <2>1, <3>1 DEF Undone
    <2>3. j > 1
        BY <2>1, <2>2, <1>1
    <2> QED
        BY <2>2, <2>3, <1>2
<1> QED
    BY <1>3, <1>4 DEF Undone

LEMMA TakenKeepsAll ==
    ASSUME SInv, IInv', orders # <<>>, NEW a \in {"ok", "err"},
           Answered(Head(orders), a), OrderTaken, Executed(Head(orders)),
           UNCHANGED <<granted, crossed>>
    PROVE  SInv'
<1>1. TypeOK /\ CallsWait /\ InTurn /\ Untouched
    BY Typed
<1>2. orders' = Tail(orders) /\ UNCHANGED <<connReqs, strays>>
    BY DEF OrderTaken
<1>3. /\ Len(orders) \in Nat /\ Len(orders) > 0
      /\ DOMAIN orders = 1..Len(orders) /\ DOMAIN orders' = 1..(Len(orders) - 1)
      /\ \A k \in 1..(Len(orders) - 1) : orders'[k] = orders[k + 1]
      /\ Head(orders) = orders[1] /\ orders[1] \in OrderType
    BY <1>1, <1>2, HeadTaken
<1>4. 1 \in DOMAIN orders
    BY <1>3
<1>5. PICK f : f = [k \in DOMAIN orders' |-> k + 1]
    OBVIOUS
<1>6. \A k \in DOMAIN orders' : /\ f[k] = k + 1 /\ k + 1 > 1 /\ k \in Int
                                /\ k + 1 \in DOMAIN orders /\ orders'[k] = orders[k + 1]
    BY <1>3, <1>5
<1>7. Kept(f, orders, orders')
    BY <1>6 DEF Kept
<1>8. (\A u \in Threads : SameRequest(th'[u], th[u])) /\ InTurn'
    <2>1. CASE orders[1].thread = NoThread
        <3>1. UNCHANGED th
            BY <2>1, <1>3 DEF Answered
        <3> QED
            BY <3>1, <1>1, <1>7, SameIsSame, KeptInTurn
    <2>2. CASE orders[1].thread # NoThread
        <3>1. /\ orders[1].thread \in Threads /\ th[orders[1].thread] # Idle
              /\ th[orders[1].thread].mac = orders[1].mac
            BY <2>2, <1>1, <1>3, <1>4, OrderFields DEF CallsWait
        <3>2. PICK t \in Threads : t = orders[1].thread
            BY <3>1
        <3>3. AnswerSet(t, a) /\ th[t] # Idle
            BY <2>2, <3>1, <3>2, <1>3 DEF Answered, AnswerSet
        <3>4. /\ th'[t].ans = a /\ \A u \in Threads : SameRequest(th'[u], th[u])
              /\ \A u \in Threads : u # t => th'[u] = th[u]
            BY <3>3, <1>1, AnswerIsSame
        <3>5. ASSUME NEW u \in Threads, Changes(th[u]), th[u].mac \notin crossed,
                     th'[u].ans = "ok", th[u].ans # "ok",
                     NEW k \in DOMAIN orders', orders'[k].mac = th[u].mac
              PROVE  ~Switches(orders'[k])
            <4>1. u = t
                BY <3>4, <3>5
            <4>2. ~(k + 1 <= 1) /\ k + 1 \in DOMAIN orders /\ orders'[k] = orders[k + 1]
                BY <1>6
            <4> QED
                BY <4>1, <4>2, <3>2, <3>5, <1>1, <1>4 DEF InTurn
        <3> QED
            BY <3>4, <3>5, <1>1, <1>7, KeptInTurn
    <2> QED
        BY <2>1, <2>2
<1>9. \A m \in Macs : Undone(m) => Undone(m)'
    BY <1>1, <1>2, TakenUndone
<1>10. ASSUME NEW m \in granted' \ crossed
       PROVE  /\ link'[m] = "up"
              /\ \A k \in DOMAIN orders' : orders'[k].mac = m => ~Switches(orders'[k])
    <2>1. /\ m \in Macs /\ link[m] = "up"
          /\ \A k \in DOMAIN orders : orders[k].mac = m => ~Switches(orders[k])
        BY <1>1 DEF Untouched, TypeOK
    <2>2. ~Asks(orders[1], "DISCONNECT", m)
        BY <2>1, <1>4 DEF Asks, Switches
    <2>3. link'[m] = "up"
        BY <2>1, <2>2, <1>1, <1>3, ExecutedOn
    <2> QED
        BY <2>1, <2>3, <1>6
<1> QED
    BY <1>2, <1>8, <1>9, <1>10, SameRequestsKeep

LEMMA SucceedsKeeps ==
    ASSUME SInv, NEW c \in PiCommands, Succeeds(c)
    PROVE  SInv'
<1>1. IInv /\ IInv'
    BY Typed, SucceedsTyped
<1>2. /\ orders # <<>> /\ UNCHANGED <<granted, crossed>>
      /\ Answered(Head(orders), "ok") /\ OrderTaken
    BY DEF Succeeds
<1>3. Executed(Head(orders))
    BY DEF Succeeds, Executed
<1> QED
    BY <1>1, <1>2, <1>3, TakenKeepsAll

(* An attempt that is written again: its request alone connects, and no    *)
(* DISCONNECT is behind it.                                                *)
LEMMA RetriedKeepsAll ==
    ASSUME SInv, IInv', orders # <<>>, Retried(Head(orders)),
           UNCHANGED <<link, events, granted, crossed>>
    PROVE  SInv'
<1>1. TypeOK /\ IInv /\ CallsWait /\ Alone /\ InTurn /\ Untouched
    BY Typed
<1>2. PICK o \in OrderType :
         /\ o.thread = orders[1].thread /\ o.mac = orders[1].mac /\ o.cmd = orders[1].cmd
         /\ Len(orders) \in Nat /\ Len(orders) > 0
         /\ DOMAIN orders = 1..Len(orders) /\ DOMAIN orders' = 1..Len(orders)
         /\ \A k \in 1..(Len(orders) - 1) : orders'[k] = orders[k + 1]
         /\ orders'[Len(orders)] = o
    BY <1>1, RetriedForm
<1>3. /\ orders[1].thread # NoThread /\ orders[1].cmd \in {"CONNECT", "DISCOVER"}
      /\ UNCHANGED <<connReqs, th, strays>> /\ orders[1] \in OrderType /\ 1 \in DOMAIN orders
    <2>1. Head(orders) = orders[1] /\ Head(orders) \in OrderType
        BY <1>1, Taken DEF TypeOK
    <2> QED
        BY <2>1, <1>2 DEF Retried
<1>4. PICK v \in Threads : v = orders[1].thread
    BY <1>3, OrderFields
<1>5. /\ th[v] \in RequestType /\ th[v].mac = orders[1].mac /\ Command(th[v].pc) = orders[1].cmd
      /\ Fits(th[v])
    BY <1>1, <1>3, <1>4, Busy DEF CallsWait, IInv
<1>6. Switches(orders[1]) => Changes(th[v])
    BY <1>5, SwitchesOfChanges
<1>7. /\ \A k \in DOMAIN orders' : k # Len(orders) =>
            k \in Nat /\ k + 1 \in DOMAIN orders /\ orders'[k] = orders[k + 1]
      /\ \A k \in DOMAIN orders : k > 1 =>
            k - 1 \in DOMAIN orders' /\ k \in Nat /\ orders'[k - 1] = orders[k]
      /\ \A k \in DOMAIN orders' : k <= Len(orders)
    BY <1>2
<1>8. InTurn'
    <2> SUFFICES ASSUME NEW u \in Threads, Changes(th[u]), th[u].mac \notin crossed
                 PROVE  /\ \A j, k \in DOMAIN orders' :
                              (/\ orders'[j].thread = u
                               /\ orders'[k].mac = th[u].mac /\ Switches(orders'[k])) => k <= j
                        /\ th[u].ans = "ok" =>
                              \A k \in DOMAIN orders' :
                                 orders'[k].mac = th[u].mac => ~Switches(orders'[k])
        BY <1>3 DEF InTurn
    <2>1. Switches(orders'[Len(orders)]) <=> Switches(orders[1])
        BY <1>2 DEF Switches
    <2>2. ASSUME NEW j \in DOMAIN orders', NEW k \in DOMAIN orders',
                 orders'[j].thread = u, orders'[k].mac = th[u].mac, Switches(orders'[k])
          PROVE  k <= j
        <3>1. CASE k = Len(orders)
            <4>1. v = u
                BY <2>1, <2>2, <3>1, <1>1, <1>2, <1>5, <1>6 DEF Alone
            <4>2. ASSUME j # Len(orders) PROVE FALSE
                <5>1. /\ j + 1 \in DOMAIN orders /\ j + 1 # 1
                      /\ orders[j + 1].thread = orders[1].thread
                    BY <4>1, <4>2, <2>2, <1>2, <1>4, <1>7
                <5> QED
                    BY <5>1, <1>1, <1>3 DEF CallsWait
            <4> QED
                BY <3>1, <4>2, <1>2
        <3>2. CASE j = Len(orders)
            BY <3>2, <1>7
        <3>3. CASE k # Len(orders) /\ j # Len(orders)
            <4>1. k + 1 <= j + 1
                BY <2>2, <3>3, <1>1, <1>7 DEF InTurn
            <4> QED
                BY <4>1, <3>3, <1>7
        <3> QED
            BY <3>1, <3>2, <3>3
    <2>3. ASSUME th[u].ans = "ok", NEW k \in DOMAIN orders', orders'[k].mac = th[u].mac
          PROVE  ~Switches(orders'[k])
        <3>1. CASE k = Len(orders)
            BY <2>1, <2>3, <3>1, <1>1, <1>2, <1>3 DEF InTurn
        <3>2. CASE k # Len(orders)
            BY <2>3, <3>2, <1>1, <1>7 DEF InTurn
        <3> QED
            BY <3>1, <3>2
    <2> QED
        BY <2>2, <2>3
<1>9. ASSUME NEW m \in Macs \ crossed, Undone(m)
      PROVE  Undone(m)'
    <2>1. ~Asks(orders[1], "CONNECT", m)
        <3> SUFFICES ASSUME Asks(orders[1], "CONNECT", m) PROVE FALSE
            OBVIOUS
        <3>1. PICK j \in DOMAIN orders : j > 1 /\ Asks(orders[j], "DISCONNECT", m)
            BY <1>3, <1>9 DEF Undone
        <3>2. Changes(th[v]) /\ th[v].mac = m /\ Switches(orders[j]) /\ orders[j].mac = m
            BY <3>1, <1>5, <1>6 DEF Asks, Switches
        <3>3. j <= 1
            BY <3>2, <1>1, <1>3, <1>4 DEF InTurn
        <3> QED
            BY <3>1, <3>3, <1>2
    <2>2. ~Asks(orders[1], "DISCONNECT", m)
        BY <1>3 DEF Asks
    <2>3. ASSUME NEW j \in DOMAIN orders, Asks(orders[j], "DISCONNECT", m)
          PROVE  j > 1 /\ j - 1 \in DOMAIN orders' /\ Asks(orders'[j - 1], "DISCONNECT", m)
        <3>1. j > 1
            BY <2>2, <2>3, <1>2
        <3> QED
            BY <2>3, <3>1, <1>7
    <2>4. ASSUME NEW k \in DOMAIN orders', Asks(orders'[k], "CONNECT", m)
          PROVE  \E j \in DOMAIN orders' : j > k /\ Asks(orders'[j], "DISCONNECT", m)
        <3>1. k # Len(orders)
            BY <2>1, <2>4, <1>2 DEF Asks
        <3>2. k \in Nat /\ k + 1 \in DOMAIN orders /\ Asks(orders[k + 1], "CONNECT", m)
            BY <2>4, <3>1, <1>7
        <3>3. PICK j \in DOMAIN orders : j > k + 1 /\ Asks(orders[j], "DISCONNECT", m)
            BY <3>2, <1>9 DEF Undone
        <3>4. j - 1 > k
            BY <3>2, <3>3, <1>2
        <3> QED
            BY <3>3, <3>4, <2>3
    <2>5. ASSUME link'[m] = "up"
          PROVE  \E j \in DOMAIN orders' : Asks(orders'[j], "DISCONNECT", m)
        BY <2>3, <2>5, <1>9 DEF Undone
    <2> QED
        BY <2>4, <2>5 DEF Undone
<1>10. ASSUME NEW m \in granted' \ crossed
       PROVE  /\ link'[m] = "up"
              /\ \A k \in DOMAIN orders' : orders'[k].mac = m => ~Switches(orders'[k])
    <2>1. link'[m] = "up" /\ \A k \in DOMAIN orders : orders[k].mac = m => ~Switches(orders[k])
        BY <1>1 DEF Untouched
    <2>2. ASSUME NEW k \in DOMAIN orders', orders'[k].mac = m
          PROVE  ~Switches(orders'[k])
        <3>1. CASE k = Len(orders)
            BY <3>1, <2>1, <2>2, <1>2, <1>3 DEF Switches
        <3>2. CASE k # Len(orders)
            BY <3>2, <2>1, <2>2, <1>7
        <3> QED
            BY <3>1, <3>2
    <2> QED
        BY <2>1, <2>2
<1> QED
    BY <1>3, <1>8, <1>9, <1>10, SameIsSame, SameRequestsKeep

LEMMA FruitlessKeeps ==
    ASSUME SInv, Fruitless
    PROVE  SInv'
<1>1. IInv /\ IInv'
    BY Typed, FruitlessTyped
<1>2. /\ orders # <<>> /\ UNCHANGED <<link, events, granted, crossed>> /\ MayFail(Head(orders))
      /\ Retried(Head(orders)) \/ GivesUp(Head(orders))
    BY DEF Fruitless
<1>3. CASE Retried(Head(orders))
    BY <1>1, <1>2, <1>3, RetriedKeepsAll
<1>4. CASE GivesUp(Head(orders))
    <2>1. Answered(Head(orders), "err") /\ OrderTaken
        BY <1>4 DEF GivesUp
    <2>2. Executed(Head(orders))
        BY <1>2 DEF Executed, MayFail
    <2> QED
        BY <1>1, <1>2, <2>1, <2>2, TakenKeepsAll
<1> QED
    BY <1>2, <1>3, <1>4

LEMMA LinkLostKeeps ==
    ASSUME SInv, NEW m \in Macs, LinkLost(m)
    PROVE  SInv'
<1>1. TypeOK /\ IInv /\ InTurn /\ Untouched /\ link \in [Macs -> {"up", "down"}]
    BY Typed DEF TypeOK
<1>2. IInv'
    BY <1>1, LinkLostTyped
<1>3. /\ link' = [link EXCEPT ![m] = "down"] /\ granted' = granted \ {m}
      /\ UNCHANGED <<connReqs, th, orders, strays, crossed>>
    BY DEF LinkLost
<1>4. InTurn'
    BY <1>1, <1>3 DEF InTurn
<1>5. \A n \in Macs : link'[n] = IF n = m THEN "down" ELSE link[n]
    BY <1>1, <1>3
<1>6. \A n \in Macs : Undone(n) => Undone(n)'
    BY <1>3, <1>5 DEF Undone
<1>7. granted' \subseteq Macs
    BY <1>1, <1>3 DEF TypeOK
<1>8. \A n \in granted' \ crossed :
         /\ link'[n] = "up"
         /\ \A k \in DOMAIN orders' : orders'[k].mac = n => ~Switches(orders'[k])
    BY <1>1, <1>3, <1>5, <1>7 DEF Untouched
<1>9. granted' \subseteq granted
    BY <1>3
<1> QED
    BY <1>2, <1>3, <1>4, <1>6, <1>8, <1>9, SameIsSame, SameRequestsKeep

(* Steps that touch the events alone.                                      *)
LEMMA EventsOnlyKeep ==
    ASSUME SInv, IInv', UNCHANGED <<connReqs, th, orders, link, granted, strays, crossed>>
    PROVE  SInv'
<1>1. Alone' /\ InTurn' /\ Untouched'
    BY DEF SInv, Alone, InTurn, Untouched
<1>2. Accounted'
    BY DEF SInv, Accounted, Making, Undone
<1>3. Unmaking'
    BY DEF SInv, Unmaking, Undone
<1> QED
    BY <1>1, <1>2, <1>3 DEF SInv

LEMMA EventArrivesKeeps ==
    ASSUME SInv, EventArrives
    PROVE  SInv'
<1>1. TypeOK /\ IInv /\ IInv'
    BY Typed, EventArrivesTyped
<1> QED
    BY <1>1, EventArrivesForm, EventsOnlyKeep

LEMMA StreamEndsKeeps ==
    ASSUME SInv, StreamEnds
    PROVE  SInv'
<1>1. IInv'
    BY Typed, StreamEndsTyped
<1> QED
    BY <1>1, EventsOnlyKeep DEF StreamEnds

LEMMA RestartKeeps ==
    ASSUME SInv, Restart
    PROVE  SInv'
<1>1. TypeOK /\ IInv /\ IInv'
    BY Typed, RestartTyped
<1>2. (\A t \in Threads : th'[t] = Idle) /\ granted' = {} /\ strays' = Macs
    BY <1>1, RestartForm
<1>3. Alone' /\ InTurn'
    BY <1>2, IdleFields DEF Alone, InTurn
<1>4. Accounted'
    BY <1>2 DEF Accounted
<1>5. Unmaking' /\ Untouched'
    BY <1>2, IdleFields DEF Unmaking, Untouched
<1> QED
    BY <1>1, <1>3, <1>4, <1>5 DEF SInv

-----------------------------------------------------------------------------
(* SInv *)

LEMMA InitAccounted == Init => SInv
<1> SUFFICES ASSUME Init PROVE SInv
    OBVIOUS
<1>1. IInv
    BY InitTyped
<1>2. /\ DOMAIN orders = {} /\ granted = {}
      /\ (\A t \in Threads : th[t] = Idle) /\ \A m \in Macs : link[m] = "down"
    BY DEF Init
<1>3. Alone /\ InTurn
    BY <1>2, IdleFields DEF Alone, InTurn
<1>4. Accounted
    BY <1>2 DEF Accounted, Undone
<1>5. Unmaking /\ Untouched
    BY <1>2, IdleFields DEF Unmaking, Untouched
<1> QED
    BY <1>1, <1>3, <1>4, <1>5 DEF SInv

LEMMA NextAccounted ==
    ASSUME SInv, [Next]_vars
    PROVE  SInv'
<1>1. ASSUME NEW t \in Threads, NEW m \in Macs, Client(t, m) PROVE SInv'
    BY <1>1, ClientKeeps
<1>2. ASSUME NEW t \in Threads, Handler(t) PROVE SInv'
    BY <1>2, HandlerKeeps
<1>3. ASSUME NEW t \in Threads, Deadline(t) PROVE SInv'
    BY <1>3, DeadlineKeeps
<1>4. ASSUME NEW t \in Threads, Unreachable(t) PROVE SInv'
    BY <1>4, UnreachableKeeps
<1>5. ASSUME NEW c \in PiCommands, Succeeds(c) PROVE SInv'
    BY <1>5, SucceedsKeeps
<1>6. CASE Fruitless
    BY <1>6, FruitlessKeeps
<1>7. ASSUME NEW m \in Macs, LinkLost(m) PROVE SInv'
    BY <1>7, LinkLostKeeps
<1>8. CASE EventArrives
    BY <1>8, EventArrivesKeeps
<1>9. CASE StreamEnds
    BY <1>9, StreamEndsKeeps
<1>10. CASE Restart
    BY <1>10, RestartKeeps
<1>11. CASE UNCHANGED vars
    <2>1. IInv'
        BY <1>11, Typed, NextTyped
    <2> QED
        BY <1>11, <2>1, EventsOnlyKeep DEF vars
<1> QED
    BY <1>1, <1>2, <1>3, <1>4, <1>5, <1>6, <1>7, <1>8, <1>9, <1>10, <1>11 DEF Next

(* Whatever the Flask threads serve at the same time, the link of every    *)
(* device whose connecting and disconnecting requests did not cross is     *)
(* accounted for: in conn_reqs, in the making by a handler of control.py,  *)
(* about to be closed by a DISCONNECT behind every CONNECT in the Pi, or   *)
(* left behind by a handler that could not undo it.  Late commands of      *)
(* calls whose deadline has passed, lost links, restarts of the gateway    *)
(* and requests that only use the connection included.                     *)
THEOREM LinksAreAccounted == Spec => []SInv
<1>1. SInv /\ [Next]_vars => SInv'
    BY NextAccounted
<1> QED
    BY <1>1, InitAccounted, PTL DEF Spec

(* Once the last request for a device has returned and the last command    *)
(* for it was executed, its link is not up without conn_reqs knowing it,   *)
(* unless a handler left it or its requests crossed: the cleanup of        *)
(* control.connect undoes a connection that is made after the deadline of  *)
(* its call.                                                               *)
THEOREM NoLinkIsLeaked == Spec => []NoLeakedLink
<1>1. SInv => NoLeakedLink
    <2> SUFFICES ASSUME SInv, NEW m \in Macs \ crossed, Settled(m), link[m] = "up"
                 PROVE  m \in connReqs \cup strays
        BY DEF NoLeakedLink
    <2>1. ~Making(m)
        BY DEF Settled, Making
    <2>2. ~Undone(m)
        BY DEF Settled, Undone, Asks
    <2> QED
        BY <2>1, <2>2, Typed DEF Accounted
<1> QED
    BY <1>1, LinksAreAccounted, PTL

(* A connection a CONNECT was granted stays up until the link is lost or a *)
(* client asks to connect or disconnect the device: reads, writes and      *)
(* updates served at the same time, requests for other devices, the        *)
(* implicit connections of read_properties and write_properties            *)
(* (control.py) and late commands never take it down, unless requests that *)
(* connect or disconnect this device crossed.                              *)
THEOREM GrantedConnectionsStay == Spec => []GrantedStays
<1>1. SInv => GrantedStays
    BY DEF SInv, Untouched, GrantedStays
<1> QED
    BY <1>1, LinksAreAccounted, PTL

(* A handler's step concerns its own request.                              *)
LEMMA OthersWait ==
    ASSUME SInv, NEW t \in Threads, NEW u \in Threads, u # t, Handler(u)
    PROVE  th'[t] = th[t]
<1>1. GoesOn(u) \/ Ends(u) \/ Disconnected(u)
    BY Typed, HandlerForm
<1>2. th \in [Threads -> {Idle} \cup RequestType]
    BY Typed
<1>3. \E r : th' = [th EXCEPT ![u] = r]
    BY <1>1, DisconnectedForm, Typed DEF GoesOn, Ends, Called, Returned
<1> QED
    BY <1>2, <1>3

(* A CONNECT that answers with an error has left the device disconnected,  *)
(* or a DISCONNECT behind every command that connects it, unless that      *)
(* DISCONNECT never reached the Pi (control.connect's cleanup) or requests *)
(* that connect or disconnect the device crossed.                          *)
THEOREM FailedConnectsAreUndone == Spec => FailedConnectUndone
<1> DEFINE Errs(t) == th[t].op = "CONNECT" /\ th'[t] = Idle
                      /\ (th[t].pc # "discover" \/ th[t].ans = "err")
           Fine(t) == th[t].mac \in strays' \cup crossed \/ Undone(th[t].mac)
<1>1. ASSUME SInv, Next, NEW t \in Threads, Errs(t)
      PROVE  Fine(t)
    <2>1. th[t] # Idle /\ th[t] \in RequestType
        BY <1>1, IdleFields, Typed
    <2>2. ASSUME NEW u \in Threads, NEW m \in Macs, Client(u, m) PROVE FALSE
        <3>1. th[u] = Idle /\ u # t
            BY <2>1, <2>2, ClientForm DEF Opens
        <3>2. PICK r, o : Called(u, r, o)
            BY <2>2, ClientForm DEF Opens
        <3>3. th'[t] = th[t]
            BY <3>1, <3>2, <1>1, Typed DEF Called
        <3> QED
            BY <3>3, <2>1, <1>1
    <2>3. ASSUME NEW u \in Threads, Handler(u) PROVE Fine(t)
        <3>1. u = t
            BY <2>1, <2>3, <1>1, OthersWait
        <3>2. GoesOn(t) \/ Ends(t) \/ Disconnected(t)
            BY <2>3, <3>1, <1>1, Typed, HandlerForm
        <3>3. CASE GoesOn(t)
            <4>1. PICK r, o : Called(t, r, o)
                BY <3>3 DEF GoesOn
            <4>2. r \in RequestType /\ th' = [th EXCEPT ![t] = r]
                BY <4>1 DEF Called
            <4>3. th'[t] = r
                BY <4>2, <1>1, Typed
            <4> QED
                BY <4>2, <4>3, <1>1, IdleFields
        <3>4. CASE Ends(t)
            BY <3>4, <1>1 DEF Ends
        <3>5. CASE Disconnected(t)
            <4>1. th[t].pc \in {"disconnect", "cleanup"} /\ strays' = strays
                BY <3>5, <1>1, Typed, DisconnectedForm
            <4> QED
                BY <4>1, <1>1, Typed DEF Unmaking
        <3> QED
            BY <3>2, <3>3, <3>4, <3>5
    <2>4. ASSUME NEW u \in Threads, NEW a \in {"ok", "err"}, AnswerSet(u, a) PROVE FALSE
        <3>1. CASE u = t
            BY <3>1, <2>1, <2>4, <1>1, Typed, AnswerSetTo
        <3>2. CASE u # t
            <4>1. th'[t] = th[t]
                BY <3>2, <2>4, <1>1, Typed DEF AnswerSet
            <4> QED
                BY <4>1, <2>1, <1>1
        <3> QED
            BY <3>1, <3>2
    <2>5. ASSUME NEW u \in Threads, Deadline(u) \/ Unreachable(u) PROVE FALSE
        BY <2>4, <2>5 DEF Deadline, Unreachable, AnswerSet
    <2>6. ASSUME NEW a \in {"ok", "err"}, Answered(Head(orders), a), orders # <<>> PROVE FALSE
        <3>1. Head(orders).thread \in Threads \cup {NoThread}
            BY <2>6, <1>1, Typed, Taken, OrderFields
        <3>2. UNCHANGED th \/ (Head(orders).thread \in Threads /\ AnswerSet(Head(orders).thread, a))
            BY <2>6, <3>1 DEF Answered, AnswerSet
        <3> QED
            BY <3>2, <2>1, <2>4, <1>1
    <2>7. ASSUME NEW c \in PiCommands, Succeeds(c) PROVE FALSE
        BY <2>6, <2>7 DEF Succeeds
    <2>8. CASE Fruitless
        <3>1. orders # <<>> /\ (UNCHANGED th \/ Answered(Head(orders), "err"))
            BY <2>8 DEF Fruitless, Retried, GivesUp
        <3> QED
            BY <3>1, <2>1, <2>6, <1>1
    <2>9. ASSUME NEW m \in Macs, LinkLost(m) PROVE FALSE
        BY <2>1, <2>9, <1>1 DEF LinkLost
    <2>10. CASE EventArrives \/ StreamEnds
        BY <2>1, <2>10, <1>1 DEF EventArrives, StreamEnds
    <2>11. CASE Restart
        <3>1. strays' = Macs /\ th[t].mac \in Macs
            BY <2>1, <2>11, RequestFields DEF Restart
        <3> QED
            BY <3>1
    <2> QED
        BY <1>1, <2>2, <2>3, <2>5, <2>7, <2>8, <2>9, <2>10, <2>11 DEF Next
<1>2. SInv /\ [Next]_vars => [\A t \in Threads : Errs(t) => Fine(t)]_vars
    BY <1>1
<1> QED
    BY <1>2, LinksAreAccounted, PTL DEF FailedConnectUndone, Spec
=============================================================================
