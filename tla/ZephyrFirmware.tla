--------------------------- MODULE ZephyrFirmware ---------------------------
(***************************************************************************)
(* The command handler and the Bluetooth callbacks of the dongle firmware, *)
(* pi-ap/zephyr-firmware/main.c.                                           *)
(*                                                                         *)
(* handle_command() runs to completion for one line at a time in the       *)
(* context that calls uart_cb; the Bluetooth stack calls connected_cb,     *)
(* disconnected_cb and the GATT callbacks from its receive thread.  Both   *)
(* are cooperative, so they interleave only where the handler blocks: at   *)
(* the four k_sem_take() calls.  A command is therefore a first step up to *)
(* its semaphore, and a further step for every time it is woken.           *)
(*                                                                         *)
(* The stack is external.  Its callback may come after the handler has     *)
(* stopped waiting for it: a GATT procedure may take 30 s where the        *)
(* handler waits 10 s or 15 s, a link is closed only after a supervision   *)
(* time-out the peer may have negotiated above the 5 s of DISCONNECT, and  *)
(* nothing but the stack's own time-out (3 s by default) ends the creation *)
(* of a link within the 15 s of CONNECT.  SlowPeers says whether that      *)
(* happens; without it every wait ends with its callback.                  *)
(***************************************************************************)
EXTENDS Integers, Sequences, FiniteSets

CONSTANTS
    Macs,          \* peripherals
    NoMac,         \* the empty string, and the NULL connection
    MaxConn,       \* MAX_CONNECTIONS
    MaxServices,   \* MAX_SERVICES
    MaxChars,      \* MAX_CHARS
    PeerServices,  \* services of a peripheral
    PeerChars,     \* characteristics of one of its services
    SlowPeers,     \* may the stack's callback come after the wait for it?
    MaxProcs       \* bound: GATT procedures queued on one link

ASSUME MacAssumption == NoMac \notin Macs
ASSUME SizeAssumption ==
    /\ MaxConn \in Nat \ {0}
    /\ MaxServices \in Nat
    /\ MaxChars \in Nat
    /\ PeerServices \in Nat
    /\ PeerChars \in Nat
    /\ SlowPeers \in BOOLEAN
    /\ MaxProcs \in Nat

Slots == 1..MaxConn
NoSlot == 0

VARIABLES
    slots,      \* slots[]
    gattSem,    \* gatt_sem: 0 or 1
    disc,       \* disc_ctx.slot, the slot the discovery callbacks fill
    scan,       \* is the scanner running?
    cmd,        \* the command being handled and where it blocks
    link,       \* the stack: state of the connection object of every peer
    procs,      \* the stack: queue of GATT procedures on every link
    lateGive,   \* gatt_sem was last given by a procedure nobody waits for
    answers,    \* RSP OK and ERR lines sent for the current or last command
    told        \* the last EVENT line about every peer

vars == <<slots, gattSem, disc, scan, cmd, link, procs, lateGive, answers, told>>

stackVars == <<link, procs>>

-----------------------------------------------------------------------------
FreeSlot == [conn |-> NoMac, mac |-> NoMac, active |-> FALSE, sem |-> 0,
             err |-> FALSE, svcs |-> <<>>, chrs |-> <<>>]

NoCommand == [pc |-> "idle", mac |-> NoMac, slot |-> NoSlot, svc |-> 0]

Init ==
    /\ slots = [i \in Slots |-> FreeSlot]
    /\ gattSem = 0
    /\ disc = NoSlot
    /\ scan = TRUE
    /\ cmd = NoCommand
    /\ link = [m \in Macs |-> "none"]
    /\ procs = [m \in Macs |-> <<>>]
    /\ lateGive = FALSE
    /\ answers = <<>>
    /\ told = [m \in Macs |-> "none"]

First(S) == IF S = {} THEN NoSlot ELSE CHOOSE i \in S : \A j \in S : i <= j

SlotByMac(m) == First({i \in Slots : slots[i].active /\ slots[i].mac = m})

SlotFree == First({i \in Slots : ~slots[i].active})

SlotByConn(m) == First({i \in Slots : slots[i].active /\ slots[i].conn = m})

(* The handler returns to uart_cb, or blocks. *)
Done == cmd' = NoCommand

Blocks(pc, m, i, n) == cmd' = [pc |-> pc, mac |-> m, slot |-> i, svc |-> n]

Says(as) == answers' = as

(* A rejected command changes nothing. *)
Rejects ==
    /\ Says(<<"ERR">>)
    /\ UNCHANGED <<slots, gattSem, disc, scan, cmd, lateGive, told, stackVars>>

-----------------------------------------------------------------------------
(* CONNECT *)

(* The slot is filled in before connected_cb needs it.  Slips: the         *)
(* semaphore is not drained, or the connection is not stored.              *)
PrefilledUndrained(s, m) == [s EXCEPT !.active = TRUE, !.err = FALSE, !.mac = m, !.conn = m]

PrefilledWithoutConn(s, m) == [s EXCEPT !.active = TRUE, !.err = FALSE, !.mac = m, !.sem = 0]

Prefilled(s, m) ==
    [s EXCEPT !.active = TRUE, !.err = FALSE, !.mac = m, !.conn = m, !.sem = 0]

(* bt_conn_le_create failed, and a slip: the slot stays taken.             *)
CreateFailedKeepsSlot(s) == [s EXCEPT !.err = FALSE, !.sem = 0, !.active = TRUE]

CreateFailed(s) == [s EXCEPT !.err = FALSE, !.sem = 0, !.active = FALSE, !.mac = NoMac]

DoConnect(m) ==
    /\ cmd = NoCommand
    /\ IF SlotByMac(m) # NoSlot \/ SlotFree = NoSlot
       THEN Rejects
       ELSE LET i == SlotFree
            IN  \/ /\ link[m] = "none"                   \* bt_conn_le_create succeeds
                   /\ link' = [link EXCEPT ![m] = "creating"]
                   /\ slots' = [slots EXCEPT ![i] = Prefilled(@, m)]
                   /\ scan' = FALSE
                   /\ Says(<<>>)
                   /\ Blocks("connect", m, i, 0)
                   /\ UNCHANGED <<gattSem, disc, procs, lateGive, told>>
                \/ /\ slots' = [slots EXCEPT ![i] = CreateFailed(@)]
                   /\ scan' = TRUE
                   /\ Says(<<"ERR">>)
                   /\ UNCHANGED <<gattSem, disc, cmd, lateGive, told, stackVars>>

(* k_sem_take(&s->sem) returns, given or not: its result is ignored. *)
ConnectEnds ==
    LET i == cmd.slot
        s == slots[i]
    IN  /\ IF s.err \/ s.conn = NoMac
           THEN /\ slots' = [slots EXCEPT ![i] = [s EXCEPT !.sem = 0, !.active = FALSE, !.mac = NoMac]]
                /\ Says(<<"ERR">>)
           ELSE /\ slots' = [slots EXCEPT ![i] = [s EXCEPT !.sem = 0]]
                /\ Says(<<"OK">>)
        /\ scan' = TRUE
        /\ Done
        /\ UNCHANGED <<gattSem, disc, lateGive, told, stackVars>>

ConnectWakes ==
    /\ cmd.pc = "connect"
    /\ slots[cmd.slot].sem = 1
    /\ ConnectEnds

(* The link is still being created: neither last_err nor conn says so, and *)
(* the answer is OK.                                                       *)
ConnectTimesOut ==
    /\ SlowPeers
    /\ cmd.pc = "connect"
    /\ slots[cmd.slot].sem = 0
    /\ ConnectEnds

-----------------------------------------------------------------------------
(* DISCONNECT *)

(* bt_conn_disconnect begins to close the link.  One that is still being   *)
(* created is cancelled: connected_cb says what became of it.              *)
Closing(m) == [link EXCEPT ![m] = IF @ = "creating" THEN "creating" ELSE "lost"]

DoDisconnect(m) ==
    /\ cmd = NoCommand
    /\ LET i == SlotByMac(m)
       IN  \/ /\ i = NoSlot
              /\ Rejects
           \/ /\ i # NoSlot                    \* bt_conn_disconnect accepts
              /\ slots' = [slots EXCEPT ![i].sem = 0]
              /\ link' = Closing(m)
              /\ Says(<<>>)
              /\ Blocks("disconnect", m, i, 0)
              /\ UNCHANGED <<gattSem, disc, scan, procs, lateGive, told>>
           \/ /\ i # NoSlot                    \* bt_conn_disconnect fails
              /\ slots' = [slots EXCEPT ![i].sem = 0]
              /\ Says(<<"ERR">>)
              /\ UNCHANGED <<gattSem, disc, scan, cmd, lateGive, told, stackVars>>

(* k_sem_take(&s->sem) returns, given or not: OK either way. *)
DisconnectEnds ==
    /\ slots' = [slots EXCEPT ![cmd.slot].sem = 0]
    /\ Says(<<"OK">>)
    /\ Done
    /\ UNCHANGED <<gattSem, disc, scan, lateGive, told, stackVars>>

DisconnectWakes ==
    /\ cmd.pc = "disconnect"
    /\ slots[cmd.slot].sem = 1
    /\ DisconnectEnds

DisconnectTimesOut ==
    /\ SlowPeers
    /\ cmd.pc = "disconnect"
    /\ slots[cmd.slot].sem = 0
    /\ DisconnectEnds

-----------------------------------------------------------------------------
(* DISCOVER *)

Procedure(op, n) == [op |-> op, left |-> n, late |-> FALSE]

(* drain_sem(&gatt_sem), then the stack accepts the procedure. *)
Starts(m, op, n) ==
    /\ link[m] = "up"
    /\ Len(procs[m]) < MaxProcs
    /\ procs' = [procs EXCEPT ![m] = Append(@, Procedure(op, n))]
    /\ gattSem' = 0
    /\ UNCHANGED link

(* drain_sem(&gatt_sem), then the stack refuses it. *)
Refuses ==
    /\ gattSem' = 0
    /\ UNCHANGED stackVars

DoDiscover(m) ==
    /\ cmd = NoCommand
    /\ LET i == SlotByMac(m)
       IN  \/ /\ i = NoSlot
              /\ Rejects
           \/ /\ i # NoSlot
              /\ slots' = [slots EXCEPT ![i].svcs = <<>>, ![i].chrs = <<>>]
              /\ disc' = i
              /\ scan' = FALSE
              /\ \/ /\ Starts(m, "services", PeerServices)
                    /\ Says(<<>>)
                    /\ Blocks("services", m, i, 0)
                 \/ /\ Refuses                   \* returns without restart_scan()
                    /\ Says(<<"ERR">>)
                    /\ UNCHANGED cmd
              /\ UNCHANGED <<lateGive, told>>

(* The loop over the services found, about to do the one with index i (the *)
(* count is read again: a link that drops sets it to 0).                   *)
NextService(i) ==
    LET m == cmd.mac
        s == cmd.slot
    IN  \/ /\ i >= Len(slots[s].svcs)
           /\ Says(<<"OK">>)
           /\ scan' = TRUE
           /\ Done
           /\ gattSem' = 0
           /\ UNCHANGED <<disc, stackVars>>
        \/ /\ i < Len(slots[s].svcs)
           /\ disc' = s
           /\ \/ /\ Starts(m, "chars", PeerChars)
                 /\ Blocks("chars", m, s, i)
                 /\ UNCHANGED answers
              \/ /\ Refuses                      \* returns without restart_scan()
                 /\ Says(<<"ERR">>)
                 /\ Done
           /\ UNCHANGED scan

ServicesWake ==
    /\ cmd.pc = "services"
    /\ gattSem = 1
    /\ NextService(0)
    /\ UNCHANGED <<slots, lateGive, told>>

CharsWake ==
    /\ cmd.pc = "chars"
    /\ gattSem = 1
    /\ NextService(cmd.svc + 1)
    /\ UNCHANGED <<slots, lateGive, told>>

(* k_sem_take(&gatt_sem) times out: the procedure goes on without anybody  *)
(* waiting for it.  Discovery sends its own ERR and handle_command another *)
(* one; READ and WRITE ignore the time-out and answer OK.                  *)
Abandoned(m) == [k \in DOMAIN procs[m] |-> [procs[m][k] EXCEPT !.late = TRUE]]

GattWaitTimesOut ==
    /\ SlowPeers
    /\ cmd.pc \in {"services", "chars", "read", "write"}
    /\ gattSem = 0
    /\ procs' = [procs EXCEPT ![cmd.mac] = Abandoned(cmd.mac)]
    /\ IF cmd.pc \in {"services", "chars"}
       THEN Says(<<"ERR", "ERR">>) /\ scan' = TRUE
       ELSE Says(<<"OK">>) /\ UNCHANGED scan
    /\ Done
    /\ UNCHANGED <<slots, gattSem, disc, link, lateGive, told>>

-----------------------------------------------------------------------------
(* READ and WRITE: the characteristic may be unknown, the value malformed, *)
(* or the stack refuse the procedure.                                      *)

DoAccess(op, m) ==
    /\ cmd = NoCommand
    /\ LET i == SlotByMac(m)
       IN  \/ Rejects
           \/ /\ i # NoSlot
              /\ slots[i].chrs # <<>>
              /\ \/ /\ Starts(m, op, 0)
                    /\ Says(<<>>)
                    /\ Blocks(op, m, i, 0)
                 \/ /\ Refuses
                    /\ Says(<<"ERR">>)
                    /\ UNCHANGED cmd
              /\ UNCHANGED <<slots, disc, scan, lateGive, told>>

DoRead(m) == DoAccess("read", m)

DoWrite(m) == DoAccess("write", m)

(* The result of the procedure is not looked at. *)
AccessWakes ==
    /\ cmd.pc \in {"read", "write"}
    /\ gattSem = 1
    /\ gattSem' = 0
    /\ Says(<<"OK">>)
    /\ Done
    /\ UNCHANGED <<slots, disc, scan, lateGive, told, stackVars>>

(* LIST *)
DoList ==
    /\ cmd = NoCommand
    /\ Says(<<"OK">>)
    /\ UNCHANGED <<slots, gattSem, disc, scan, cmd, lateGive, told, stackVars>>

-----------------------------------------------------------------------------
(* connected_cb and disconnected_cb *)

(* EVENT,CONNECT is printed for an established link only; a slip prints it *)
(* for every callback.                                                     *)
ReportAlways(m, failed) == [told EXCEPT ![m] = "CONNECT"]

Report(m, failed) == IF failed THEN told ELSE [told EXCEPT ![m] = "CONNECT"]

ConnectedCb(m, failed) ==
    LET found == SlotByConn(m)
        i == IF found # NoSlot THEN found ELSE SlotFree
        s == IF found # NoSlot THEN slots[i]
             ELSE [slots[i] EXCEPT !.conn = m, !.active = TRUE, !.mac = m]
    IN  /\ IF i = NoSlot
           THEN UNCHANGED <<slots, told>>
           ELSE /\ slots' = [slots EXCEPT ![i] =
                               IF failed
                               THEN [s EXCEPT !.err = TRUE, !.sem = 1, !.conn = NoMac, !.active = FALSE]
                               ELSE [s EXCEPT !.err = FALSE, !.sem = 1]]
                /\ told' = Report(m, failed)
        /\ scan' = TRUE

(* bt_conn_le_create comes to its end. *)
StackConnects(m) ==
    /\ link[m] = "creating"
    /\ \/ link' = [link EXCEPT ![m] = "up"] /\ ConnectedCb(m, FALSE)
       \/ link' = [link EXCEPT ![m] = "none"] /\ ConnectedCb(m, TRUE)
    /\ UNCHANGED <<gattSem, disc, cmd, procs, lateGive, answers>>

(* The slot after disconnected_cb.  Slips: the cached handles survive the  *)
(* connection, or the semaphore is not given.                              *)
ClearedWithoutGive(s) ==
    [s EXCEPT !.conn = NoMac, !.active = FALSE, !.svcs = <<>>, !.chrs = <<>>, !.mac = NoMac]

ClearedKeepsChars(s) ==
    [s EXCEPT !.conn = NoMac, !.active = FALSE, !.svcs = <<>>, !.mac = NoMac, !.sem = 1]

Cleared(s) ==
    [s EXCEPT !.conn = NoMac, !.active = FALSE, !.svcs = <<>>, !.chrs = <<>>,
              !.mac = NoMac, !.sem = 1]

(* The supervision time-out, or the peer: the callback comes later.        *)
StackLosesLink(m) ==
    /\ link[m] = "up"
    /\ link' = [link EXCEPT ![m] = "lost"]
    /\ UNCHANGED <<slots, gattSem, disc, scan, cmd, procs, lateGive, answers, told>>

(* The stack first ends the link's GATT procedures, whose callbacks give   *)
(* gatt_sem, then calls disconnected_cb.                                   *)
StackDisconnects(m) ==
    /\ link[m] = "lost"
    /\ link' = [link EXCEPT ![m] = "none"]
    /\ procs' = [procs EXCEPT ![m] = <<>>]
    /\ IF procs[m] = <<>>
       THEN UNCHANGED <<gattSem, lateGive>>
       ELSE gattSem' = 1 /\ lateGive' = procs[m][Len(procs[m])].late
    /\ LET i == SlotByConn(m)
       IN  IF i = NoSlot
           THEN UNCHANGED <<slots, scan, told>>
           ELSE /\ slots' = [slots EXCEPT ![i] = Cleared(slots[i])]
                /\ told' = [told EXCEPT ![m] = "DISCONNECT"]
                /\ scan' = TRUE
    /\ UNCHANGED <<disc, cmd, answers>>

-----------------------------------------------------------------------------
(* discover_services_cb, discover_chars_cb, read_cb, write_cb *)

(* An entry of svcs[] or chrs[] is counted and filled in, and a slip: the  *)
(* entry is counted and left blank.                                        *)
StoreBlank(seq, max, m) == IF Len(seq) < max THEN Append(seq, NoMac) ELSE seq

Store(seq, max, m) == IF Len(seq) < max THEN Append(seq, m) ELSE seq

(* An attribute found on m's server goes to the slot of disc_ctx.  The     *)
(* params of a discovery nobody waits for any more are overwritten by the  *)
(* next one while the stack still uses them: either callback may run.      *)
GattAttribute(m) ==
    /\ link[m] = "up"
    /\ procs[m] # <<>>
    /\ LET p == Head(procs[m])
           s == slots[disc]
       IN  /\ p.left > 0
           /\ procs' = [procs EXCEPT ![m] = <<[p EXCEPT !.left = @ - 1]>> \o Tail(@)]
           /\ \E op \in IF p.late THEN {"services", "chars"} ELSE {p.op} :
                 slots' = [slots EXCEPT ![disc] =
                             IF op = "services"
                             THEN [s EXCEPT !.svcs = Store(s.svcs, MaxServices, m)]
                             ELSE [s EXCEPT !.chrs = Store(s.chrs, MaxChars, m)]]
    /\ UNCHANGED <<gattSem, disc, scan, cmd, link, lateGive, answers, told>>

(* The procedure is over, well or badly. *)
GattCompletes(m) ==
    /\ link[m] = "up"
    /\ procs[m] # <<>>
    /\ Head(procs[m]).left = 0
    /\ procs' = [procs EXCEPT ![m] = Tail(@)]
    /\ gattSem' = 1
    /\ lateGive' = Head(procs[m]).late
    /\ UNCHANGED <<slots, disc, scan, cmd, link, answers, told>>

-----------------------------------------------------------------------------
HandleCommand ==
    \/ \E m \in Macs : DoConnect(m) \/ DoDisconnect(m) \/ DoDiscover(m)
    \/ \E m \in Macs : DoRead(m) \/ DoWrite(m)
    \/ DoList

HandlerWakes == ConnectWakes \/ DisconnectWakes \/ ServicesWake \/ CharsWake \/ AccessWakes

Stack(m) == StackConnects(m) \/ StackDisconnects(m) \/ GattAttribute(m) \/ GattCompletes(m)

Next ==
    \/ HandleCommand
    \/ HandlerWakes
    \/ ConnectTimesOut \/ DisconnectTimesOut \/ GattWaitTimesOut
    \/ \E m \in Macs : Stack(m) \/ StackLosesLink(m)

(* The handler's thread runs when its semaphore is given, and the stack    *)
(* ends what it has begun.                                                 *)
Fairness == WF_vars(HandlerWakes) /\ \A m \in Macs : WF_vars(Stack(m))

Spec == Init /\ [][Next]_vars

FairSpec == Spec /\ Fairness

-----------------------------------------------------------------------------
(* PROPERTIES *)

SlotType ==
    [conn : Macs \cup {NoMac}, mac : Macs \cup {NoMac}, active : BOOLEAN, sem : {0, 1},
     err : BOOLEAN, svcs : Seq(Macs), chrs : Seq(Macs)]

CommandType ==
    [pc : {"idle", "connect", "disconnect", "services", "chars", "read", "write"},
     mac : Macs \cup {NoMac}, slot : Slots \cup {NoSlot}, svc : Nat]

ProcedureType ==
    [op : {"services", "chars", "read", "write"}, left : Nat, late : BOOLEAN]

TypeOK ==
    /\ slots \in [Slots -> SlotType]
    /\ gattSem \in {0, 1}
    /\ disc \in Slots \cup {NoSlot}
    /\ scan \in BOOLEAN
    /\ cmd \in CommandType
    /\ link \in [Macs -> {"none", "creating", "up", "lost"}]
    /\ procs \in [Macs -> Seq(ProcedureType)]
    /\ lateGive \in BOOLEAN
    /\ answers \in Seq({"OK", "ERR"})
    /\ told \in [Macs -> {"none", "CONNECT", "DISCONNECT"}]

(* No peer ever occupies two slots, and no link the stack holds is without *)
(* its slot: such a link could neither be used nor be disconnected.        *)
OneSlotPerLink ==
    \A m \in Macs :
        /\ Cardinality({i \in Slots : slots[i].active /\ slots[i].mac = m}) <= 1
        /\ link[m] # "none" => \E i \in Slots : /\ slots[i].active
                                                /\ slots[i].conn = m
                                                /\ slots[i].mac = m

(* Following the EVENT lines, the host knows which peers have a link: the  *)
(* last event about m is CONNECT exactly while m's link is up or its loss  *)
(* is still to be reported.                                                *)
EventsTellLinks ==
    \A m \in Macs : (told[m] = "CONNECT") <=> (link[m] \in {"up", "lost"})

(* When the handler is free, every slot marked active holds a connection:  *)
(* no path of CONNECT leaves a slot behind.                                *)
NoSlotLeaked ==
    cmd = NoCommand => \A i \in Slots : slots[i].active => slots[i].conn \in Macs

(* The handles cached in a slot were discovered on the peer that uses the  *)
(* slot now, so READ and WRITE never use another device's handles.         *)
OwnCharacteristics ==
    \A i \in Slots : slots[i].active =>
        \A k \in DOMAIN slots[i].chrs : slots[i].chrs[k] = slots[i].mac

(* gatt_sem is a single semaphore for all GATT operations "(commands are   *)
(* serialised by UART ISR)" (main.c:58): the one a command waits for is    *)
(* given by the procedure that command started.                            *)
OwnCompletion ==
    (cmd.pc \in {"services", "chars", "read", "write"} /\ gattSem = 1) => ~lateGive

(* CONNECT answered with ERR leaves no link behind, and when its wait was  *)
(* ended by a callback OK means that the link exists: neither a semaphore  *)
(* left over from an earlier connection nor a late callback is taken for   *)
(* its own.  (After a time-out OK says nothing, see SlowPeers.)            *)
TruthfulConnect ==
    [][ (cmd.pc = "connect" /\ cmd' = NoCommand) =>
          /\ answers' = <<"ERR">> => link[cmd.mac] = "none"
          /\ (answers' = <<"OK">> /\ slots[cmd.slot].sem = 1)
                => link[cmd.mac] \in {"up", "lost"} ]_vars

(* With callbacks that come in time, DISCONNECT is answered only once the  *)
(* link is gone, whatever gave the slot's semaphore before.  (With a peer  *)
(* that outlasts the 5 s the answer is OK with the link still there.)      *)
TruthfulDisconnect ==
    [][ (cmd.pc = "disconnect" /\ cmd' = NoCommand) => link[cmd.mac] = "none" ]_vars

(* Every command ends by a callback and not by running into the time-out   *)
(* of its wait: no semaphore the handler blocks on is left without someone *)
(* to give it, whatever the stack drops or refuses meanwhile.              *)
EveryCommandEnds == cmd # NoCommand ~> cmd = NoCommand
=============================================================================
