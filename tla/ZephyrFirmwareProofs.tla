------------------------ MODULE ZephyrFirmwareProofs ------------------------
(***************************************************************************)
(* The slots of the dongle firmware always match the links of the          *)
(* Bluetooth stack, for any number of peers, slots and table entries, and  *)
(* with peers that outlast the handler's waits.                            *)
(***************************************************************************)
EXTENDS ZephyrFirmware, FiniteSetTheorems, WellFoundedInduction, TLAPS

(* The handler's slots and the stack's links.                              *)
SlotsAreLinks ==
    /\ \A i \in Slots :
          IF slots[i].active
          THEN /\ slots[i].conn \in Macs
               /\ slots[i].mac = slots[i].conn
               /\ link[slots[i].conn] # "none"
               /\ ~slots[i].err
          ELSE slots[i].conn = NoMac
    /\ \A i, j \in Slots :
          (slots[i].active /\ slots[j].active /\ slots[i].mac = slots[j].mac) => i = j
    /\ \A m \in Macs : link[m] # "none" => \E i \in Slots : slots[i].active /\ slots[i].conn = m

(* A command that blocks still has the slot it began with.                 *)
CommandHasSlot ==
    cmd.pc # "idle" =>
        /\ cmd.mac \in Macs
        /\ cmd.slot \in Slots
        /\ slots[cmd.slot].active => slots[cmd.slot].conn = cmd.mac
        /\ link[cmd.mac] # "none" => slots[cmd.slot].active

(* While CONNECT waits for the stack its semaphore is not given.  Without  *)
(* time-outs only a CONNECT that waits has a link that is being created,   *)
(* and DISCONNECT is woken when disconnected_cb has run.                   *)
NoEarlyGive ==
    /\ (cmd.pc = "connect" /\ slots[cmd.slot].sem = 1) => link[cmd.mac] # "creating"
    /\ ~SlowPeers =>
          /\ \A m \in Macs : link[m] = "creating" =>
                cmd.pc = "connect" /\ cmd.mac = m /\ slots[cmd.slot].sem = 0
          /\ (cmd.pc = "disconnect" /\ slots[cmd.slot].sem = 1) => link[cmd.mac] = "none"

IInv == TypeOK /\ SlotsAreLinks /\ CommandHasSlot /\ NoEarlyGive /\ EventsTellLinks

(* Peers that answer in time: a procedure is always the one the command    *)
(* waits for, and discovery fills that command's slot.                     *)
OwnProcedure ==
    /\ \A m \in Macs : procs[m] # <<>> =>
          /\ cmd.pc \in {"services", "chars", "read", "write"}
          /\ cmd.mac = m
          /\ gattSem = 0
          /\ procs[m] = <<Head(procs[m])>>
          /\ Head(procs[m]).op = cmd.pc
          /\ ~Head(procs[m]).late
          /\ cmd.pc \in {"read", "write"} => Head(procs[m]).left = 0
    /\ cmd.pc \in {"services", "chars"} => disc = cmd.slot

OwnHandles ==
    \A i \in Slots :
        IF slots[i].active /\ link[slots[i].conn] # "creating"
        THEN \A k \in DOMAIN slots[i].chrs : slots[i].chrs[k] = slots[i].mac
        ELSE slots[i].chrs = <<>>

PromptInv == IInv /\ OwnProcedure /\ OwnHandles

-----------------------------------------------------------------------------
(* The loops that look for a slot *)

LEMMA FirstIn ==
    ASSUME NEW S, S \subseteq Nat, S # {}
    PROVE  First(S) \in S
<1>1. PICK i \in S : \A j \in S : ~(<<j, i>> \in OpToRel(<, Nat))
    BY NatLessThanWellFounded, WFMin, Zenon
<1>2. \A j \in S : ~(j < i)
    BY <1>1, Zenon DEF OpToRel
<1>3. \A j \in S : i <= j
    BY <1>2
<1> QED
    BY <1>3 DEF First

LEMMA FirstOf ==
    ASSUME NEW S, S \subseteq Slots
    PROVE  /\ First(S) # NoSlot => First(S) \in S
           /\ First(S) = NoSlot => S = {}
<1>1. S \subseteq Nat /\ 0 \notin S
    BY SizeAssumption DEF Slots
<1>2. CASE S = {}
    BY <1>2 DEF First
<1>3. CASE S # {}
    BY <1>1, <1>3, FirstIn DEF NoSlot
<1> QED
    BY <1>2, <1>3

LEMMA ByMac ==
    ASSUME NEW m
    PROVE  /\ SlotByMac(m) # NoSlot => /\ SlotByMac(m) \in Slots
                                       /\ slots[SlotByMac(m)].active
                                       /\ slots[SlotByMac(m)].mac = m
           /\ SlotByMac(m) = NoSlot => \A i \in Slots : ~(slots[i].active /\ slots[i].mac = m)
<1> DEFINE S == {i \in Slots : slots[i].active /\ slots[i].mac = m}
<1>1. SlotByMac(m) = First(S)
    BY DEF SlotByMac
<1>2. S \subseteq Slots
    OBVIOUS
<1>3. (First(S) # NoSlot => First(S) \in S) /\ (First(S) = NoSlot => S = {})
    BY <1>2, FirstOf
<1> QED
    BY <1>1, <1>3

LEMMA ByConn ==
    ASSUME NEW m
    PROVE  /\ SlotByConn(m) # NoSlot => /\ SlotByConn(m) \in Slots
                                        /\ slots[SlotByConn(m)].active
                                        /\ slots[SlotByConn(m)].conn = m
           /\ SlotByConn(m) = NoSlot => \A i \in Slots : ~(slots[i].active /\ slots[i].conn = m)
<1> DEFINE S == {i \in Slots : slots[i].active /\ slots[i].conn = m}
<1>1. SlotByConn(m) = First(S)
    BY DEF SlotByConn
<1>2. S \subseteq Slots
    OBVIOUS
<1>3. (First(S) # NoSlot => First(S) \in S) /\ (First(S) = NoSlot => S = {})
    BY <1>2, FirstOf
<1> QED
    BY <1>1, <1>3

LEMMA FreeOne ==
    SlotFree # NoSlot => SlotFree \in Slots /\ ~slots[SlotFree].active
<1> DEFINE S == {i \in Slots : ~slots[i].active}
<1>1. SlotFree = First(S)
    BY DEF SlotFree
<1>2. S \subseteq Slots
    OBVIOUS
<1>3. First(S) # NoSlot => First(S) \in S
    BY <1>2, FirstOf
<1> QED
    BY <1>1, <1>3

LEMMA NoSlotIsNone == NoSlot \notin Slots
    BY SizeAssumption DEF NoSlot, Slots

-----------------------------------------------------------------------------
(* Steps that leave the links alone *)

(* Two slots that differ in their semaphores and tables only.              *)
SameUse(r, s) == r.conn = s.conn /\ r.mac = s.mac /\ r.active = s.active /\ r.err = s.err

SlotUpdated(i, r) == slots' = [slots EXCEPT ![i] = r]

LEMMA Updating ==
    ASSUME TypeOK, NEW i \in Slots, NEW r \in SlotType, SlotUpdated(i, r)
    PROVE  /\ slots' \in [Slots -> SlotType]
           /\ slots'[i] = r
           /\ \A j \in Slots : j # i => slots'[j] = slots[j]
    BY DEF TypeOK, SlotUpdated

LEMMA SameUseKeeps ==
    ASSUME IInv, UNCHANGED <<link, told>>, \A i \in Slots : SameUse(slots'[i], slots[i])
    PROVE  SlotsAreLinks' /\ EventsTellLinks'
<1>1. SlotsAreLinks'
    BY DEF IInv, SlotsAreLinks, SameUse
<1>2. EventsTellLinks'
    BY DEF IInv, EventsTellLinks
<1> QED
    BY <1>1, <1>2

(* A command goes on, or comes to its end.                                 *)
LEMMA WaitingKeeps ==
    ASSUME IInv, UNCHANGED link, \A i \in Slots : SameUse(slots'[i], slots[i]),
           cmd'.pc # "idle" => cmd.pc # "idle" /\ cmd'.mac = cmd.mac /\ cmd'.slot = cmd.slot
    PROVE  CommandHasSlot'
    BY DEF IInv, CommandHasSlot, SameUse

(* A command begins to use the slot it has found.                          *)
LEMMA FoundSlotKeeps ==
    ASSUME IInv, NEW m \in Macs, NEW i \in Slots, slots[i].active, slots[i].mac = m,
           UNCHANGED link, \A j \in Slots : SameUse(slots'[j], slots[j]),
           cmd'.mac = m, cmd'.slot = i
    PROVE  CommandHasSlot'
    BY DEF IInv, SlotsAreLinks, CommandHasSlot, SameUse

(* Without time-outs nobody is connecting when the handler is free or does *)
(* something else.                                                         *)
LEMMA NobodyCreating ==
    ASSUME IInv, ~SlowPeers, cmd.pc # "connect"
    PROVE  \A m \in Macs : link[m] # "creating"
    BY DEF IInv, NoEarlyGive

LEMMA FreeHandler ==
    ASSUME cmd = NoCommand
    PROVE  cmd.pc = "idle"
    BY DEF NoCommand

LEMMA IdleIsCommand == NoCommand \in CommandType /\ NoCommand.pc = "idle"
    BY DEF NoCommand, CommandType

LEMMA SaysAnswers ==
    /\ <<>> \in Seq({"OK", "ERR"}) /\ <<"OK">> \in Seq({"OK", "ERR"})
    /\ <<"ERR">> \in Seq({"OK", "ERR"}) /\ <<"ERR", "ERR">> \in Seq({"OK", "ERR"})
    OBVIOUS

LEMMA RejectsKeeps ==
    ASSUME IInv, Rejects
    PROVE  IInv'
<1>1. UNCHANGED <<slots, gattSem, disc, scan, cmd, lateGive, told, link, procs>>
    BY DEF Rejects, stackVars
<1>2. TypeOK'
    BY <1>1, SaysAnswers DEF IInv, TypeOK, Rejects, Says
<1> QED
    BY <1>1, <1>2 DEF IInv, SlotsAreLinks, CommandHasSlot, NoEarlyGive, EventsTellLinks

-----------------------------------------------------------------------------
(* CONNECT and DISCONNECT *)

LEMMA PrefilledIs ==
    ASSUME NEW s \in SlotType, NEW m \in Macs
    PROVE  /\ Prefilled(s, m) \in SlotType
           /\ Prefilled(s, m).active /\ ~Prefilled(s, m).err
           /\ Prefilled(s, m).mac = m /\ Prefilled(s, m).conn = m /\ Prefilled(s, m).sem = 0
           /\ Prefilled(s, m).svcs = s.svcs /\ Prefilled(s, m).chrs = s.chrs
    BY DEF Prefilled, SlotType

LEMMA CreateFailedIs ==
    ASSUME NEW s \in SlotType
    PROVE  /\ CreateFailed(s) \in SlotType
           /\ ~CreateFailed(s).active /\ CreateFailed(s).conn = s.conn
           /\ CreateFailed(s).svcs = s.svcs /\ CreateFailed(s).chrs = s.chrs
    BY DEF CreateFailed, SlotType

ConnectStarts(m, i) ==
    /\ link[m] = "none"
    /\ link' = [link EXCEPT ![m] = "creating"]
    /\ slots' = [slots EXCEPT ![i] = Prefilled(@, m)]
    /\ scan' = FALSE
    /\ answers' = <<>>
    /\ cmd' = [pc |-> "connect", mac |-> m, slot |-> i, svc |-> 0]
    /\ UNCHANGED <<gattSem, disc, procs, lateGive, told>>

LEMMA ConnectStartsKeeps ==
    ASSUME IInv, NEW m \in Macs, NEW i \in Slots, ~slots[i].active,
           \A j \in Slots : ~(slots[j].active /\ slots[j].mac = m),
           cmd.pc = "idle", ConnectStarts(m, i)
    PROVE  IInv'
<1> DEFINE r == Prefilled(slots[i], m)
<1>1. slots[i] \in SlotType /\ SlotUpdated(i, r) /\ TypeOK
    BY DEF IInv, TypeOK, ConnectStarts, SlotUpdated
<1>2. /\ r \in SlotType /\ r.active /\ ~r.err /\ r.mac = m /\ r.conn = m /\ r.sem = 0
      /\ r.svcs = slots[i].svcs /\ r.chrs = slots[i].chrs
    BY <1>1, PrefilledIs
<1> HIDE DEF r
<1>3. /\ slots' \in [Slots -> SlotType] /\ slots'[i] = r
      /\ \A j \in Slots : j # i => slots'[j] = slots[j]
    BY <1>1, <1>2, Updating
<1>4. /\ cmd' \in CommandType /\ cmd'.pc = "connect" /\ cmd'.mac = m /\ cmd'.slot = i
    BY DEF ConnectStarts, CommandType
<1>5. /\ link' \in [Macs -> {"none", "creating", "up", "lost"}]
      /\ link'[m] = "creating" /\ link[m] = "none"
      /\ \A n \in Macs : n # m => link'[n] = link[n]
    BY DEF IInv, TypeOK, ConnectStarts
<1>6. TypeOK'
    BY <1>3, <1>4, <1>5, SaysAnswers DEF IInv, TypeOK, ConnectStarts
<1>8. SlotsAreLinks'
  <2>1. ASSUME NEW j \in Slots
        PROVE  IF slots'[j].active
               THEN /\ slots'[j].conn \in Macs /\ slots'[j].mac = slots'[j].conn
                    /\ link'[slots'[j].conn] # "none" /\ ~slots'[j].err
               ELSE slots'[j].conn = NoMac
    <3>1. CASE j = i
        BY <1>2, <1>3, <1>5, <3>1
    <3>2. CASE j # i
        BY <1>3, <1>5, <3>2 DEF IInv, SlotsAreLinks
    <3> QED
        BY <3>1, <3>2
  <2>2. ASSUME NEW j \in Slots, NEW k \in Slots, slots'[j].active, slots'[k].active,
               slots'[j].mac = slots'[k].mac
        PROVE  j = k
    <3>1. CASE j # i /\ k # i
        BY <1>3, <2>2, <3>1 DEF IInv, SlotsAreLinks
    <3>2. CASE j = i \/ k = i
        BY <1>2, <1>3, <2>2, <3>2
    <3> QED
        BY <3>1, <3>2
  <2>3. ASSUME NEW n \in Macs, link'[n] # "none"
        PROVE  \E j \in Slots : slots'[j].active /\ slots'[j].conn = n
    <3>1. CASE n = m
        BY <1>2, <1>3, <3>1
    <3>2. CASE n # m
        BY <1>3, <1>5, <2>3, <3>2 DEF IInv, SlotsAreLinks
    <3> QED
        BY <3>1, <3>2
  <2> QED
      BY <2>1, <2>2, <2>3 DEF SlotsAreLinks
<1>9. CommandHasSlot'
    BY <1>2, <1>3, <1>4 DEF CommandHasSlot
<1>10. NoEarlyGive'
  <2>1. ~SlowPeers => \A n \in Macs : link[n] # "creating"
      BY NobodyCreating
  <2> QED
      BY <1>2, <1>3, <1>4, <1>5, <2>1 DEF NoEarlyGive
<1>11. EventsTellLinks'
  <2>1. told' = told
      BY DEF ConnectStarts
  <2> QED
      BY <1>5, <2>1 DEF IInv, EventsTellLinks
<1> QED
    BY <1>6, <1>8, <1>9, <1>10, <1>11 DEF IInv

ConnectFails(i) ==
    /\ slots' = [slots EXCEPT ![i] = CreateFailed(@)]
    /\ scan' = TRUE
    /\ answers' = <<"ERR">>
    /\ UNCHANGED <<gattSem, disc, cmd, lateGive, told, link, procs>>

LEMMA ConnectFailsKeeps ==
    ASSUME IInv, NEW i \in Slots, ~slots[i].active, cmd.pc = "idle", ConnectFails(i)
    PROVE  IInv'
<1> DEFINE r == CreateFailed(slots[i])
<1>1. slots[i] \in SlotType /\ SlotUpdated(i, r) /\ TypeOK
    BY DEF IInv, TypeOK, ConnectFails, SlotUpdated
<1>2. /\ r \in SlotType /\ ~r.active /\ r.conn = slots[i].conn
      /\ r.svcs = slots[i].svcs /\ r.chrs = slots[i].chrs
    BY <1>1, CreateFailedIs
<1> HIDE DEF r
<1>3. /\ slots' \in [Slots -> SlotType] /\ slots'[i] = r
      /\ \A j \in Slots : j # i => slots'[j] = slots[j]
    BY <1>1, <1>2, Updating
<1>4. UNCHANGED <<gattSem, disc, cmd, lateGive, told, link, procs>>
    BY DEF ConnectFails
<1>5. TypeOK'
    BY <1>3, <1>4, SaysAnswers DEF IInv, TypeOK, ConnectFails
<1>7. SlotsAreLinks'
  <2>1. /\ r.conn = NoMac
        /\ \A j \in Slots : slots'[j].active => j # i
        /\ \A j \in Slots : slots[j].active => j # i
      BY <1>2, <1>3 DEF IInv, SlotsAreLinks
  <2> QED
      BY <1>2, <1>3, <1>4, <2>1 DEF IInv, SlotsAreLinks
<1>8. CommandHasSlot' /\ NoEarlyGive' /\ EventsTellLinks'
    BY <1>4, NobodyCreating DEF IInv, CommandHasSlot, NoEarlyGive, EventsTellLinks
<1> QED
    BY <1>5, <1>7, <1>8 DEF IInv

LEMMA DoConnectKeeps ==
    ASSUME IInv, NEW m \in Macs, DoConnect(m)
    PROVE  IInv'
<1>1. CASE SlotByMac(m) # NoSlot \/ SlotFree = NoSlot
    BY <1>1, RejectsKeeps DEF DoConnect
<1>2. CASE SlotByMac(m) = NoSlot /\ SlotFree # NoSlot
  <2>1. /\ SlotFree \in Slots /\ ~slots[SlotFree].active /\ cmd.pc = "idle"
        /\ \A j \in Slots : ~(slots[j].active /\ slots[j].mac = m)
      BY <1>2, ByMac, FreeOne, FreeHandler DEF DoConnect
  <2>2. ConnectStarts(m, SlotFree) \/ ConnectFails(SlotFree)
      BY <1>2 DEF DoConnect, ConnectStarts, ConnectFails, Says, Blocks, stackVars
  <2> QED
      BY <2>1, <2>2, ConnectStartsKeeps, ConnectFailsKeeps
<1> QED
    BY <1>1, <1>2

LEMMA ConnectEndsKeeps ==
    ASSUME IInv, cmd.pc = "connect", ConnectEnds, slots[cmd.slot].sem = 1 \/ SlowPeers
    PROVE  IInv'
<1> DEFINE i == cmd.slot
           s == slots[i]
           failed == s.err \/ s.conn = NoMac
           r == IF failed THEN [s EXCEPT !.sem = 0, !.active = FALSE, !.mac = NoMac]
                ELSE [s EXCEPT !.sem = 0]
<1>1. /\ i \in Slots /\ s \in SlotType /\ (s.sem = 1 \/ SlowPeers)
      /\ SlotUpdated(i, r) /\ TypeOK
    BY DEF IInv, TypeOK, ConnectEnds, CommandHasSlot, SlotUpdated
<1>2. failed => ~s.active
    BY <1>1, MacAssumption DEF IInv, SlotsAreLinks
<1>3. ~failed => s.active
    BY <1>1 DEF IInv, SlotsAreLinks
<1>4. /\ r \in SlotType /\ r.conn = s.conn /\ r.err = s.err /\ r.active = s.active
      /\ r.svcs = s.svcs /\ r.chrs = s.chrs
      /\ s.active => r.mac = s.mac
  <2>1. CASE failed
      BY <1>1, <1>2, <2>1 DEF SlotType
  <2>2. CASE ~failed
      BY <1>1, <1>3, <2>2 DEF SlotType
  <2> QED
      BY <2>1, <2>2
<1> HIDE DEF r, failed
<1>5. /\ slots' \in [Slots -> SlotType] /\ slots'[i] = r
      /\ \A j \in Slots : j # i => slots'[j] = slots[j]
    BY <1>1, <1>4, Updating
<1>6. /\ UNCHANGED <<gattSem, disc, lateGive, told, link, procs>>
      /\ cmd' = NoCommand /\ scan' = TRUE /\ answers' \in Seq({"OK", "ERR"})
    BY SaysAnswers DEF ConnectEnds, Done, Says, stackVars
<1>7. TypeOK'
    BY <1>5, <1>6, IdleIsCommand DEF IInv, TypeOK
<1>9. /\ \A j \in Slots : /\ slots'[j].conn = slots[j].conn
                          /\ slots'[j].active = slots[j].active
                          /\ slots'[j].err = slots[j].err
                          /\ slots[j].active => slots'[j].mac = slots[j].mac
    BY <1>4, <1>5
<1>10. SlotsAreLinks'
    BY <1>6, <1>9 DEF IInv, SlotsAreLinks
<1>11. CommandHasSlot'
    BY <1>6, IdleIsCommand DEF CommandHasSlot
<1>12. NoEarlyGive'
  <2>1. ~SlowPeers => \A m \in Macs : link[m] # "creating"
      BY <1>1 DEF IInv, NoEarlyGive
  <2> QED
      BY <1>6, <2>1, IdleIsCommand DEF NoEarlyGive
<1>13. EventsTellLinks'
    BY <1>6 DEF IInv, EventsTellLinks
<1> QED
    BY <1>7, <1>10, <1>11, <1>12, <1>13 DEF IInv

DisconnectStarts(m, i) ==
    /\ slots' = [slots EXCEPT ![i].sem = 0]
    /\ link' = Closing(m)
    /\ answers' = <<>>
    /\ cmd' = [pc |-> "disconnect", mac |-> m, slot |-> i, svc |-> 0]
    /\ UNCHANGED <<gattSem, disc, scan, procs, lateGive, told>>

LEMMA Drained ==
    ASSUME TypeOK, NEW i \in Slots, slots' = [slots EXCEPT ![i].sem = 0]
    PROVE  /\ slots' \in [Slots -> SlotType]
           /\ \A j \in Slots : /\ SameUse(slots'[j], slots[j])
                               /\ slots'[j].svcs = slots[j].svcs /\ slots'[j].chrs = slots[j].chrs
           /\ slots'[i].sem = 0
           /\ \A j \in Slots : j # i => slots'[j] = slots[j]
<1> DEFINE r == [slots[i] EXCEPT !.sem = 0]
<1>1. slots[i] \in SlotType /\ SlotUpdated(i, r)
    BY DEF TypeOK, SlotUpdated
<1>2. /\ r \in SlotType /\ r.sem = 0 /\ SameUse(r, slots[i])
      /\ r.svcs = slots[i].svcs /\ r.chrs = slots[i].chrs
    BY <1>1 DEF SlotType, SameUse
<1> HIDE DEF r
<1>3. /\ slots' \in [Slots -> SlotType] /\ slots'[i] = r
      /\ \A j \in Slots : j # i => slots'[j] = slots[j]
    BY <1>1, <1>2, Updating
<1> QED
    BY <1>2, <1>3 DEF SameUse

LEMMA DisconnectStartsKeeps ==
    ASSUME IInv, NEW m \in Macs, NEW i \in Slots, slots[i].active, slots[i].mac = m,
           cmd.pc = "idle", DisconnectStarts(m, i)
    PROVE  IInv'
<1>1. /\ slots' \in [Slots -> SlotType]
      /\ \A j \in Slots : /\ SameUse(slots'[j], slots[j])
                          /\ slots'[j].svcs = slots[j].svcs /\ slots'[j].chrs = slots[j].chrs
      /\ slots'[i].sem = 0
    BY Drained DEF IInv, DisconnectStarts
<1>2. /\ cmd' \in CommandType /\ cmd'.pc = "disconnect" /\ cmd'.mac = m /\ cmd'.slot = i
    BY DEF DisconnectStarts, CommandType
<1>3. /\ link' \in [Macs -> {"none", "creating", "up", "lost"}]
      /\ \/ link'[m] = "lost" /\ link[m] \in {"up", "lost"}
         \/ link'[m] = "creating" /\ link[m] = "creating"
      /\ \A n \in Macs : n # m => link'[n] = link[n]
  <2>1. link[m] # "none"
      BY DEF IInv, SlotsAreLinks
  <2> QED
      BY <2>1 DEF IInv, TypeOK, DisconnectStarts, Closing
<1>4. TypeOK'
    BY <1>1, <1>2, <1>3, SaysAnswers DEF IInv, TypeOK, DisconnectStarts
<1>6. SlotsAreLinks'
    BY <1>1, <1>3 DEF IInv, SlotsAreLinks, SameUse
<1>7. CommandHasSlot'
    BY <1>1, <1>2, <1>3 DEF IInv, SlotsAreLinks, CommandHasSlot, SameUse
<1>8. NoEarlyGive'
    BY <1>1, <1>2, <1>3, NobodyCreating DEF NoEarlyGive
<1>9. EventsTellLinks'
  <2>1. told' = told
      BY DEF DisconnectStarts
  <2> QED
      BY <1>3, <2>1 DEF IInv, EventsTellLinks
<1> QED
    BY <1>4, <1>6, <1>7, <1>8, <1>9 DEF IInv

DisconnectFails(i) ==
    /\ slots' = [slots EXCEPT ![i].sem = 0]
    /\ answers' = <<"ERR">>
    /\ UNCHANGED <<gattSem, disc, scan, cmd, lateGive, told, link, procs>>

LEMMA DisconnectFailsKeeps ==
    ASSUME IInv, NEW i \in Slots, cmd.pc = "idle", DisconnectFails(i)
    PROVE  IInv'
<1>1. /\ slots' \in [Slots -> SlotType]
      /\ \A j \in Slots : /\ SameUse(slots'[j], slots[j])
                          /\ slots'[j].svcs = slots[j].svcs /\ slots'[j].chrs = slots[j].chrs
    BY Drained DEF IInv, DisconnectFails
<1>2. UNCHANGED <<gattSem, disc, scan, cmd, lateGive, told, link, procs>>
    BY DEF DisconnectFails
<1>3. TypeOK'
    BY <1>1, <1>2, SaysAnswers DEF IInv, TypeOK, DisconnectFails
<1>5. SlotsAreLinks' /\ EventsTellLinks' /\ CommandHasSlot'
    BY <1>1, <1>2, SameUseKeeps, WaitingKeeps
<1>6. NoEarlyGive'
    BY <1>2, NobodyCreating DEF NoEarlyGive
<1> QED
    BY <1>3, <1>5, <1>6 DEF IInv

LEMMA DoDisconnectKeeps ==
    ASSUME IInv, NEW m \in Macs, DoDisconnect(m)
    PROVE  IInv'
<1>1. CASE SlotByMac(m) = NoSlot
    BY <1>1, RejectsKeeps DEF DoDisconnect
<1>2. CASE SlotByMac(m) # NoSlot
  <2>1. /\ SlotByMac(m) \in Slots /\ slots[SlotByMac(m)].active
        /\ slots[SlotByMac(m)].mac = m /\ cmd.pc = "idle"
      BY <1>2, ByMac, FreeHandler DEF DoDisconnect
  <2>2. DisconnectStarts(m, SlotByMac(m)) \/ DisconnectFails(SlotByMac(m))
      BY <1>2 DEF DoDisconnect, DisconnectStarts, DisconnectFails, Says, Blocks, stackVars
  <2> QED
      BY <2>1, <2>2, DisconnectStartsKeeps, DisconnectFailsKeeps
<1> QED
    BY <1>1, <1>2

LEMMA DisconnectEndsKeeps ==
    ASSUME IInv, cmd.pc = "disconnect", DisconnectEnds
    PROVE  IInv'
<1>1. cmd.slot \in Slots
    BY DEF IInv, CommandHasSlot
<1>2. /\ slots' \in [Slots -> SlotType]
      /\ \A j \in Slots : /\ SameUse(slots'[j], slots[j])
                          /\ slots'[j].svcs = slots[j].svcs /\ slots'[j].chrs = slots[j].chrs
    BY <1>1, Drained DEF IInv, DisconnectEnds
<1>3. UNCHANGED <<gattSem, disc, scan, lateGive, told, link, procs>> /\ cmd' = NoCommand
    BY DEF DisconnectEnds, Done, stackVars
<1>4. TypeOK'
    BY <1>2, <1>3, SaysAnswers, IdleIsCommand DEF IInv, TypeOK, DisconnectEnds, Says
<1>6. SlotsAreLinks' /\ EventsTellLinks' /\ CommandHasSlot'
    BY <1>2, <1>3, SameUseKeeps, WaitingKeeps, IdleIsCommand
<1>7. NoEarlyGive'
    BY <1>1, <1>3, NobodyCreating, IdleIsCommand DEF NoEarlyGive
<1> QED
    BY <1>4, <1>6, <1>7 DEF IInv

-----------------------------------------------------------------------------
(* DISCOVER, READ, WRITE and LIST *)

LEMMA StartsTypes ==
    ASSUME TypeOK, NEW m \in Macs, NEW op \in {"services", "chars", "read", "write"},
           NEW n \in Nat, Starts(m, op, n)
    PROVE  procs' \in [Macs -> Seq(ProcedureType)] /\ gattSem' \in {0, 1} /\ link' = link
<1>1. Procedure(op, n) \in ProcedureType
    BY DEF Procedure, ProcedureType
<1>2. procs[m] \in Seq(ProcedureType)
    BY DEF TypeOK
<1>3. Append(procs[m], Procedure(op, n)) \in Seq(ProcedureType)
    BY <1>1, <1>2
<1> QED
    BY <1>3 DEF TypeOK, Starts

LEMMA RefusesTypes ==
    ASSUME TypeOK, Refuses
    PROVE  procs' \in [Macs -> Seq(ProcedureType)] /\ gattSem' \in {0, 1} /\ link' = link
    BY DEF TypeOK, Refuses, stackVars

(* A command that uses GATT waits for neither connected_cb nor             *)
(* disconnected_cb.                                                        *)
LEMMA GattStepKeeps ==
    ASSUME IInv, UNCHANGED <<link, told>>, \A i \in Slots : SameUse(slots'[i], slots[i]),
           cmd.pc # "connect", cmd'.pc \notin {"connect", "disconnect"}
    PROVE  SlotsAreLinks' /\ EventsTellLinks' /\ NoEarlyGive'
<1>1. NoEarlyGive'
    BY NobodyCreating DEF NoEarlyGive
<1> QED
    BY <1>1, SameUseKeeps

LEMMA Emptied ==
    ASSUME TypeOK, NEW i \in Slots, slots' = [slots EXCEPT ![i].svcs = <<>>, ![i].chrs = <<>>]
    PROVE  /\ slots' \in [Slots -> SlotType]
           /\ \A j \in Slots : SameUse(slots'[j], slots[j])
           /\ slots'[i].svcs = <<>> /\ slots'[i].chrs = <<>>
           /\ \A j \in Slots : j # i => slots'[j] = slots[j]
<1> DEFINE r == [slots[i] EXCEPT !.svcs = <<>>, !.chrs = <<>>]
<1>1. slots[i] \in SlotType /\ SlotUpdated(i, r)
    BY DEF TypeOK, SlotUpdated
<1>2. /\ r \in SlotType /\ SameUse(r, slots[i]) /\ r.svcs = <<>> /\ r.chrs = <<>>
  <2>1. <<>> \in Seq(Macs)
      OBVIOUS
  <2>2. r \in SlotType
      BY <1>1, <2>1 DEF SlotType
  <2> QED
      BY <1>1, <2>2 DEF SlotType, SameUse
<1> HIDE DEF r
<1>3. /\ slots' \in [Slots -> SlotType] /\ slots'[i] = r
      /\ \A j \in Slots : j # i => slots'[j] = slots[j]
    BY <1>1, <1>2, Updating
<1> QED
    BY <1>2, <1>3 DEF SameUse

LEMMA DoDiscoverKeeps ==
    ASSUME IInv, NEW m \in Macs, DoDiscover(m)
    PROVE  IInv'
<1>1. CASE SlotByMac(m) = NoSlot
    BY <1>1, RejectsKeeps DEF DoDiscover
<1>2. CASE SlotByMac(m) # NoSlot
  <2> DEFINE i == SlotByMac(m)
  <2>1. i \in Slots /\ slots[i].active /\ slots[i].mac = m /\ cmd.pc = "idle" /\ TypeOK
      BY <1>2, ByMac, FreeHandler DEF DoDiscover, IInv
  <2>2. /\ slots' = [slots EXCEPT ![i].svcs = <<>>, ![i].chrs = <<>>]
        /\ disc' = i /\ scan' = FALSE /\ UNCHANGED <<lateGive, told>>
        /\ \/ /\ Starts(m, "services", PeerServices) /\ answers' = <<>>
              /\ cmd' = [pc |-> "services", mac |-> m, slot |-> i, svc |-> 0]
           \/ Refuses /\ answers' = <<"ERR">> /\ cmd' = cmd
      BY <1>2 DEF DoDiscover, Says, Blocks
  <2> HIDE DEF i
  <2>3. /\ slots' \in [Slots -> SlotType]
        /\ \A j \in Slots : SameUse(slots'[j], slots[j])
        /\ slots'[i].svcs = <<>> /\ slots'[i].chrs = <<>>
        /\ \A j \in Slots : j # i => slots'[j] = slots[j]
      BY <2>1, <2>2, Emptied
  <2>4. procs' \in [Macs -> Seq(ProcedureType)] /\ gattSem' \in {0, 1} /\ link' = link
    <3>1. CASE Starts(m, "services", PeerServices)
        BY <2>1, <3>1, StartsTypes, SizeAssumption
    <3>2. CASE Refuses
        BY <2>1, <3>2, RefusesTypes
    <3> QED
        BY <2>2, <3>1, <3>2
  <2>5. /\ cmd' \in CommandType /\ answers' \in Seq({"OK", "ERR"})
        /\ cmd'.pc \notin {"connect", "disconnect"}
        /\ cmd' = cmd \/ (cmd'.mac = m /\ cmd'.slot = i)
    <3>1. CASE cmd' = cmd /\ answers' = <<"ERR">>
        BY <2>1, <3>1, SaysAnswers DEF IInv, TypeOK
    <3>2. CASE /\ answers' = <<>>
               /\ cmd' = [pc |-> "services", mac |-> m, slot |-> i, svc |-> 0]
        BY <2>1, <3>2, SaysAnswers DEF CommandType
    <3> QED
        BY <2>2, <3>1, <3>2
  <2>6. TypeOK'
      BY <2>1, <2>2, <2>3, <2>4, <2>5 DEF TypeOK
  <2>8. SlotsAreLinks' /\ EventsTellLinks' /\ NoEarlyGive'
      BY <2>1, <2>2, <2>3, <2>4, <2>5, GattStepKeeps
  <2>9. CommandHasSlot'
    <3>1. CASE cmd' = cmd
        BY <2>1, <2>3, <2>4, <3>1, WaitingKeeps
    <3>2. CASE cmd'.mac = m /\ cmd'.slot = i
        BY <2>1, <2>3, <2>4, <3>2, FoundSlotKeeps
    <3> QED
        BY <2>5, <3>1, <3>2
  <2> QED
      BY <2>6, <2>8, <2>9 DEF IInv
<1> QED
    BY <1>1, <1>2

LEMMA NextServiceKeeps ==
    ASSUME IInv, NEW n \in Nat, cmd.pc \in {"services", "chars"}, NextService(n),
           UNCHANGED <<slots, lateGive, told>>
    PROVE  IInv'
<1> DEFINE m == cmd.mac
           i == cmd.slot
<1>1. m \in Macs /\ i \in Slots /\ TypeOK
    BY DEF IInv, CommandHasSlot
<1>2. procs' \in [Macs -> Seq(ProcedureType)] /\ gattSem' \in {0, 1} /\ link' = link
  <2>1. CASE Starts(m, "chars", PeerChars)
      BY <1>1, <2>1, StartsTypes, SizeAssumption
  <2>2. CASE Refuses
      BY <1>1, <2>2, RefusesTypes
  <2>3. CASE gattSem' = 0 /\ UNCHANGED stackVars
      BY <1>1, <2>3 DEF TypeOK, stackVars
  <2> QED
      BY <2>1, <2>2, <2>3 DEF NextService
<1>3. \/ cmd' = NoCommand
      \/ cmd' = [pc |-> "chars", mac |-> m, slot |-> i, svc |-> n]
    BY DEF NextService, Done, Blocks
<1>4. scan' \in BOOLEAN /\ disc' \in Slots \cup {NoSlot} /\ answers' \in Seq({"OK", "ERR"})
    BY <1>1, SaysAnswers DEF NextService, Says, TypeOK
<1> HIDE DEF m, i
<1>5. /\ cmd' \in CommandType /\ cmd'.pc \notin {"connect", "disconnect"}
      /\ cmd'.pc # "idle" => cmd'.mac = m /\ cmd'.slot = i
  <2>1. CASE cmd' = NoCommand
      BY <2>1, IdleIsCommand
  <2>2. CASE cmd' = [pc |-> "chars", mac |-> m, slot |-> i, svc |-> n]
      BY <1>1, <2>2 DEF CommandType
  <2> QED
      BY <1>3, <2>1, <2>2
<1>6. TypeOK'
    BY <1>1, <1>2, <1>4, <1>5 DEF TypeOK
<1>7. \A j \in Slots : SameUse(slots'[j], slots[j])
    BY DEF SameUse
<1>8. SlotsAreLinks' /\ EventsTellLinks' /\ NoEarlyGive'
    BY <1>2, <1>5, <1>7, GattStepKeeps
<1>9. CommandHasSlot'
    BY <1>2, <1>5, <1>7, WaitingKeeps DEF m, i
<1> QED
    BY <1>6, <1>7, <1>8, <1>9 DEF IInv

LEMMA ServicesWakeKeeps ==
    ASSUME IInv, ServicesWake
    PROVE  IInv'
    BY NextServiceKeeps DEF ServicesWake

LEMMA CharsWakeKeeps ==
    ASSUME IInv, CharsWake
    PROVE  IInv'
<1>1. cmd.svc + 1 \in Nat
    BY DEF IInv, TypeOK, CommandType
<1> QED
    BY <1>1, NextServiceKeeps DEF CharsWake

(* A command comes to its end and leaves slots and links as they are.      *)
LEMMA EndKeeps ==
    ASSUME IInv, cmd.pc # "connect", cmd' = NoCommand,
           UNCHANGED <<slots, disc, link, told>>, gattSem' \in {0, 1}, scan' \in BOOLEAN,
           procs' \in [Macs -> Seq(ProcedureType)], lateGive' = lateGive,
           answers' \in Seq({"OK", "ERR"})
    PROVE  IInv'
<1>1. TypeOK'
    BY IdleIsCommand DEF IInv, TypeOK
<1>2. \A j \in Slots : SameUse(slots'[j], slots[j])
    BY DEF SameUse
<1>3. SlotsAreLinks' /\ EventsTellLinks' /\ NoEarlyGive'
    BY <1>2, GattStepKeeps, IdleIsCommand
<1>4. CommandHasSlot'
    BY IdleIsCommand DEF CommandHasSlot
<1> QED
    BY <1>1, <1>2, <1>3, <1>4 DEF IInv

LEMMA AbandonedTypes ==
    ASSUME TypeOK, NEW m \in Macs
    PROVE  Abandoned(m) \in Seq(ProcedureType)
<1> DEFINE q == procs[m]
<1>1. q \in Seq(ProcedureType)
    BY DEF TypeOK
<1>2. ASSUME NEW k \in DOMAIN q
      PROVE  [q[k] EXCEPT !.late = TRUE] \in ProcedureType
  <2>1. q[k] \in ProcedureType
      BY <1>1
  <2> QED
      BY <2>1 DEF ProcedureType
<1>3. DOMAIN q = 1..Len(q) /\ Len(q) \in Nat
    BY <1>1
<1>4. Abandoned(m) = [k \in 1..Len(q) |-> [q[k] EXCEPT !.late = TRUE]]
    BY <1>3 DEF Abandoned
<1> HIDE DEF q
<1>5. [k \in 1..Len(q) |-> [q[k] EXCEPT !.late = TRUE]] \in [1..Len(q) -> ProcedureType]
    BY <1>2, <1>3
<1>6. \A n \in Nat : \A f \in [1..n -> ProcedureType] : f \in Seq(ProcedureType)
    OBVIOUS
<1> QED
    BY <1>3, <1>4, <1>5, <1>6

LEMMA GattWaitTimesOutKeeps ==
    ASSUME IInv, GattWaitTimesOut
    PROVE  IInv'
<1>1. /\ cmd.pc \in {"services", "chars", "read", "write"} /\ cmd' = NoCommand
      /\ procs' = [procs EXCEPT ![cmd.mac] = Abandoned(cmd.mac)]
      /\ UNCHANGED <<slots, gattSem, disc, link, lateGive, told>>
    BY DEF GattWaitTimesOut, Done
<1>2. scan' \in BOOLEAN /\ answers' \in Seq({"OK", "ERR"}) /\ gattSem' \in {0, 1}
    BY SaysAnswers DEF IInv, TypeOK, GattWaitTimesOut, Says
<1>3. procs' \in [Macs -> Seq(ProcedureType)]
  <2>1. TypeOK /\ cmd.mac \in Macs
      BY <1>1 DEF IInv, CommandHasSlot
  <2>2. Abandoned(cmd.mac) \in Seq(ProcedureType)
      BY <2>1, AbandonedTypes
  <2> QED
      BY <1>1, <2>1, <2>2 DEF TypeOK
<1> QED
    BY <1>1, <1>2, <1>3, EndKeeps

LEMMA DoAccessKeeps ==
    ASSUME IInv, NEW op \in {"read", "write"}, NEW m \in Macs, DoAccess(op, m)
    PROVE  IInv'
<1>1. CASE Rejects
    BY <1>1, RejectsKeeps
<1>2. CASE ~Rejects
  <2> DEFINE i == SlotByMac(m)
  <2>1. i \in Slots /\ slots[i].active /\ slots[i].mac = m /\ cmd.pc = "idle" /\ TypeOK
      BY <1>2, ByMac, FreeHandler DEF DoAccess, IInv
  <2>2. /\ UNCHANGED <<slots, disc, scan, lateGive, told>>
        /\ \/ /\ Starts(m, op, 0) /\ answers' = <<>>
              /\ cmd' = [pc |-> op, mac |-> m, slot |-> i, svc |-> 0]
           \/ Refuses /\ answers' = <<"ERR">> /\ cmd' = cmd
      BY <1>2 DEF DoAccess, Says, Blocks
  <2> HIDE DEF i
  <2>3. procs' \in [Macs -> Seq(ProcedureType)] /\ gattSem' \in {0, 1} /\ link' = link
    <3>1. CASE Starts(m, op, 0)
        BY <2>1, <3>1, StartsTypes
    <3>2. CASE Refuses
        BY <2>1, <3>2, RefusesTypes
    <3> QED
        BY <2>2, <3>1, <3>2
  <2>4. /\ cmd' \in CommandType /\ answers' \in Seq({"OK", "ERR"})
        /\ cmd'.pc \notin {"connect", "disconnect"}
        /\ cmd' = cmd \/ (cmd'.mac = m /\ cmd'.slot = i)
    <3>1. CASE cmd' = cmd /\ answers' = <<"ERR">>
        BY <2>1, <3>1, SaysAnswers DEF IInv, TypeOK
    <3>2. CASE answers' = <<>> /\ cmd' = [pc |-> op, mac |-> m, slot |-> i, svc |-> 0]
        BY <2>1, <3>2, SaysAnswers DEF CommandType
    <3> QED
        BY <2>2, <3>1, <3>2
  <2>5. TypeOK'
      BY <2>1, <2>2, <2>3, <2>4 DEF TypeOK
  <2>6. \A j \in Slots : SameUse(slots'[j], slots[j])
      BY <2>2 DEF SameUse
  <2>7. SlotsAreLinks' /\ EventsTellLinks' /\ NoEarlyGive'
      BY <2>1, <2>2, <2>3, <2>4, <2>6, GattStepKeeps
  <2>8. CommandHasSlot'
    <3>1. CASE cmd' = cmd
        BY <2>1, <2>3, <2>6, <3>1, WaitingKeeps
    <3>2. CASE cmd'.mac = m /\ cmd'.slot = i
        BY <2>1, <2>3, <2>6, <3>2, FoundSlotKeeps
    <3> QED
        BY <2>4, <3>1, <3>2
  <2> QED
      BY <2>5, <2>6, <2>7, <2>8 DEF IInv
<1> QED
    BY <1>1, <1>2

LEMMA AccessWakesKeeps ==
    ASSUME IInv, AccessWakes
    PROVE  IInv'
<1>1. /\ cmd.pc # "connect" /\ cmd' = NoCommand /\ gattSem' = 0 /\ answers' = <<"OK">>
      /\ UNCHANGED <<slots, disc, scan, lateGive, told, link, procs>>
    BY DEF AccessWakes, Done, Says, stackVars
<1>2. procs' \in [Macs -> Seq(ProcedureType)] /\ scan' \in BOOLEAN
    BY <1>1 DEF IInv, TypeOK
<1> QED
    BY <1>1, <1>2, EndKeeps, SaysAnswers

LEMMA DoListKeeps ==
    ASSUME IInv, DoList
    PROVE  IInv'
<1>1. /\ cmd.pc # "connect" /\ cmd' = NoCommand /\ answers' = <<"OK">>
      /\ UNCHANGED <<slots, gattSem, disc, scan, lateGive, told, link, procs>>
    BY FreeHandler DEF DoList, Says, stackVars
<1>2. procs' \in [Macs -> Seq(ProcedureType)] /\ scan' \in BOOLEAN /\ gattSem' \in {0, 1}
    BY <1>1 DEF IInv, TypeOK
<1> QED
    BY <1>1, <1>2, EndKeeps, SaysAnswers

-----------------------------------------------------------------------------
(* The callbacks of the stack *)

LEMMA LinkHasSlot ==
    ASSUME IInv, NEW m \in Macs, link[m] # "none"
    PROVE  /\ SlotByConn(m) # NoSlot /\ SlotByConn(m) \in Slots
           /\ slots[SlotByConn(m)].active
           /\ slots[SlotByConn(m)].conn = m /\ slots[SlotByConn(m)].mac = m
<1>1. \E i \in Slots : slots[i].active /\ slots[i].conn = m
    BY DEF IInv, SlotsAreLinks
<1> QED
    BY <1>1, ByConn DEF IInv, SlotsAreLinks

(* The slot i of m's link is given up with the link.                       *)
LEMMA SlotGoesWithLink ==
    ASSUME IInv, NEW m \in Macs, NEW i \in Slots, slots[i].active, slots[i].conn = m,
           ~slots'[i].active, slots'[i].conn = NoMac,
           \A j \in Slots : j # i => slots'[j] = slots[j],
           link' = [link EXCEPT ![m] = "none"]
    PROVE  SlotsAreLinks'
<1>1. link'[m] = "none" /\ \A n \in Macs : n # m => link'[n] = link[n]
    BY DEF IInv, TypeOK
<1>2. ASSUME NEW j \in Slots
      PROVE  IF slots'[j].active
             THEN /\ slots'[j].conn \in Macs /\ slots'[j].mac = slots'[j].conn
                  /\ link'[slots'[j].conn] # "none" /\ ~slots'[j].err
             ELSE slots'[j].conn = NoMac
  <2>1. CASE j = i
      BY <2>1
  <2>2. CASE j # i
    <3>1. slots[j].active => slots[j].conn # m
        BY <2>2 DEF IInv, SlotsAreLinks
    <3> QED
        BY <1>1, <2>2, <3>1 DEF IInv, SlotsAreLinks
  <2> QED
      BY <2>1, <2>2
<1>3. ASSUME NEW j \in Slots, NEW k \in Slots, slots'[j].active, slots'[k].active,
             slots'[j].mac = slots'[k].mac
      PROVE  j = k
    BY <1>3 DEF IInv, SlotsAreLinks
<1>4. ASSUME NEW n \in Macs, link'[n] # "none"
      PROVE  \E j \in Slots : slots'[j].active /\ slots'[j].conn = n
  <2>1. n # m /\ link[n] # "none"
      BY <1>1, <1>4
  <2>2. PICK j \in Slots : slots[j].active /\ slots[j].conn = n
      BY <2>1 DEF IInv, SlotsAreLinks
  <2>3. j # i
      BY <2>1, <2>2
  <2> QED
      BY <2>2, <2>3
<1> QED
    BY <1>2, <1>3, <1>4 DEF SlotsAreLinks

LEMMA CommandLosesSlot ==
    ASSUME IInv, NEW m \in Macs, NEW i \in Slots, slots[i].active, slots[i].conn = m,
           ~slots'[i].active,
           \A j \in Slots : j # i => slots'[j] = slots[j],
           link' = [link EXCEPT ![m] = "none"], cmd' = cmd
    PROVE  CommandHasSlot'
<1>1. link'[m] = "none" /\ \A n \in Macs : n # m => link'[n] = link[n]
    BY DEF IInv, TypeOK
<1> SUFFICES ASSUME cmd.pc # "idle"
             PROVE  /\ cmd.mac \in Macs /\ cmd.slot \in Slots
                    /\ slots'[cmd.slot].active => slots'[cmd.slot].conn = cmd.mac
                    /\ link'[cmd.mac] # "none" => slots'[cmd.slot].active
    BY DEF CommandHasSlot
<1>2. /\ cmd.mac \in Macs /\ cmd.slot \in Slots
      /\ slots[cmd.slot].active => slots[cmd.slot].conn = cmd.mac
      /\ link[cmd.mac] # "none" => slots[cmd.slot].active
    BY DEF IInv, CommandHasSlot
<1>3. CASE cmd.mac = m
    BY <1>1, <1>2, <1>3
<1>4. CASE cmd.mac # m
    BY <1>1, <1>2, <1>4
<1> QED
    BY <1>3, <1>4

(* A callback for m gives the semaphore of m's slot only.                  *)
LEMMA OthersWait ==
    ASSUME IInv, NEW m \in Macs, NEW i \in Slots, slots[i].active, slots[i].conn = m,
           \A j \in Slots : j # i => slots'[j] = slots[j],
           link'[m] # "creating", \A n \in Macs : n # m => link'[n] = link[n],
           cmd.pc = "connect", slots'[cmd.slot].sem = 1
    PROVE  link'[cmd.mac] # "creating"
<1>1. /\ cmd.mac \in Macs /\ cmd.slot \in Slots
      /\ link[cmd.mac] # "none" => slots[cmd.slot].active /\ slots[cmd.slot].conn = cmd.mac
    BY DEF IInv, CommandHasSlot
<1>2. CASE cmd.mac # m /\ link[cmd.mac] = "creating"
  <2>1. cmd.slot # i
      BY <1>1, <1>2
  <2> QED
      BY <1>1, <1>2, <2>1 DEF IInv, NoEarlyGive
<1> QED
    BY <1>1, <1>2

LEMMA StackConnectsKeeps ==
    ASSUME IInv, NEW m \in Macs, StackConnects(m)
    PROVE  IInv'
<1> DEFINE i == SlotByConn(m)
           s == slots[i]
           up == [s EXCEPT !.err = FALSE, !.sem = 1]
           down == [s EXCEPT !.err = TRUE, !.sem = 1, !.conn = NoMac, !.active = FALSE]
<1>1. link[m] = "creating" /\ UNCHANGED <<gattSem, disc, cmd, procs, lateGive, answers>>
    BY DEF StackConnects
<1>2. /\ i # NoSlot /\ i \in Slots /\ s.active /\ s.conn = m /\ s.mac = m /\ s \in SlotType
      /\ ~s.err /\ TypeOK
    BY <1>1, LinkHasSlot DEF IInv, TypeOK, SlotsAreLinks
<1>3. ASSUME ~SlowPeers
      PROVE  cmd.pc = "connect" /\ \A n \in Macs : link[n] = "creating" => n = m
    BY <1>1, <1>3 DEF IInv, NoEarlyGive
<1>4. /\ up \in SlotType /\ SameUse(up, s) /\ up.svcs = s.svcs /\ up.chrs = s.chrs
      /\ down \in SlotType /\ ~down.active /\ down.conn = NoMac
      /\ down.svcs = s.svcs /\ down.chrs = s.chrs
  <2> HIDE DEF s
  <2>1. up \in SlotType /\ SameUse(up, s) /\ up.svcs = s.svcs /\ up.chrs = s.chrs
      BY <1>2 DEF SlotType, SameUse
  <2>2. /\ down \in SlotType /\ ~down.active /\ down.conn = NoMac
        /\ down.svcs = s.svcs /\ down.chrs = s.chrs
      BY <1>2 DEF SlotType
  <2> QED
      BY <2>1, <2>2
<1>5. \/ /\ link' = [link EXCEPT ![m] = "up"] /\ SlotUpdated(i, up)
         /\ told' = [told EXCEPT ![m] = "CONNECT"] /\ scan' = TRUE
      \/ /\ link' = [link EXCEPT ![m] = "none"] /\ SlotUpdated(i, down)
         /\ told' = told /\ scan' = TRUE
    BY <1>2 DEF StackConnects, ConnectedCb, Report, SlotUpdated
<1> HIDE DEF up, down, s, i
<1>6. CASE /\ link' = [link EXCEPT ![m] = "up"] /\ SlotUpdated(i, up)
           /\ told' = [told EXCEPT ![m] = "CONNECT"] /\ scan' = TRUE
  <2>1. /\ slots' \in [Slots -> SlotType] /\ slots'[i] = up
        /\ \A j \in Slots : j # i => slots'[j] = slots[j]
      BY <1>2, <1>4, <1>6, Updating
  <2>2. /\ link' \in [Macs -> {"none", "creating", "up", "lost"}]
        /\ link'[m] = "up" /\ \A n \in Macs : n # m => link'[n] = link[n]
      BY <1>2, <1>6 DEF TypeOK
  <2>3. /\ told' \in [Macs -> {"none", "CONNECT", "DISCONNECT"}]
        /\ told'[m] = "CONNECT" /\ \A n \in Macs : n # m => told'[n] = told[n]
      BY <1>2, <1>6 DEF TypeOK
  <2>4. TypeOK'
      BY <1>1, <1>2, <1>6, <2>1, <2>2, <2>3 DEF TypeOK
  <2>5. \A j \in Slots : SameUse(slots'[j], slots[j])
      BY <1>4, <2>1 DEF SameUse, s
  <2>6. SlotsAreLinks'
      BY <1>1, <2>2, <2>5 DEF IInv, SlotsAreLinks, SameUse
  <2>7. CommandHasSlot'
      BY <1>1, <2>2, <2>5 DEF IInv, CommandHasSlot, SameUse
  <2>8. NoEarlyGive'
    <3>1. (cmd.pc = "connect" /\ slots'[cmd.slot].sem = 1) => link'[cmd.mac] # "creating"
        BY <1>2, <2>1, <2>2, OthersWait DEF s
    <3> QED
        BY <1>1, <1>3, <2>2, <3>1 DEF NoEarlyGive
  <2>9. EventsTellLinks'
      BY <2>2, <2>3 DEF IInv, EventsTellLinks
  <2> QED
      BY <2>4, <2>5, <2>6, <2>7, <2>8, <2>9 DEF IInv
<1>7. CASE /\ link' = [link EXCEPT ![m] = "none"] /\ SlotUpdated(i, down)
           /\ told' = told /\ scan' = TRUE
  <2>1. /\ slots' \in [Slots -> SlotType] /\ slots'[i] = down
        /\ \A j \in Slots : j # i => slots'[j] = slots[j]
      BY <1>2, <1>4, <1>7, Updating
  <2>2. /\ link' \in [Macs -> {"none", "creating", "up", "lost"}]
        /\ link'[m] = "none" /\ \A n \in Macs : n # m => link'[n] = link[n]
      BY <1>2, <1>7 DEF TypeOK
  <2>3. TypeOK'
      BY <1>1, <1>2, <1>7, <2>1, <2>2 DEF TypeOK
  <2>5. SlotsAreLinks' /\ CommandHasSlot'
      BY <1>1, <1>2, <1>4, <1>7, <2>1, SlotGoesWithLink, CommandLosesSlot DEF s
  <2>6. NoEarlyGive'
    <3>1. (cmd.pc = "connect" /\ slots'[cmd.slot].sem = 1) => link'[cmd.mac] # "creating"
        BY <1>2, <2>1, <2>2, OthersWait DEF s
    <3> QED
        BY <1>1, <1>3, <2>2, <3>1 DEF NoEarlyGive
  <2>7. EventsTellLinks'
      BY <1>1, <1>7, <2>2 DEF IInv, EventsTellLinks
  <2> QED
      BY <2>3, <2>5, <2>6, <2>7 DEF IInv
<1> QED
    BY <1>5, <1>6, <1>7

LEMMA StackLosesLinkKeeps ==
    ASSUME IInv, NEW m \in Macs, StackLosesLink(m)
    PROVE  IInv'
<1>1. /\ link[m] = "up" /\ link' = [link EXCEPT ![m] = "lost"]
      /\ UNCHANGED <<slots, gattSem, disc, scan, cmd, procs, lateGive, answers, told>>
    BY DEF StackLosesLink
<1>2. /\ link' \in [Macs -> {"none", "creating", "up", "lost"}]
      /\ link'[m] = "lost" /\ \A n \in Macs : n # m => link'[n] = link[n]
    BY <1>1 DEF IInv, TypeOK
<1>3. TypeOK'
    BY <1>1, <1>2 DEF IInv, TypeOK
<1>4. SlotsAreLinks'
    BY <1>1, <1>2 DEF IInv, SlotsAreLinks
<1>5. CommandHasSlot'
    BY <1>1, <1>2 DEF IInv, CommandHasSlot
<1>6. NoEarlyGive'
    BY <1>1, <1>2 DEF IInv, NoEarlyGive, CommandHasSlot
<1>7. EventsTellLinks'
    BY <1>1, <1>2 DEF IInv, EventsTellLinks
<1> QED
    BY <1>3, <1>4, <1>5, <1>6, <1>7 DEF IInv

LEMMA ClearedIs ==
    ASSUME NEW s \in SlotType
    PROVE  /\ Cleared(s) \in SlotType
           /\ ~Cleared(s).active /\ Cleared(s).conn = NoMac
           /\ Cleared(s).svcs = <<>> /\ Cleared(s).chrs = <<>>
<1>1. <<>> \in Seq(Macs)
    OBVIOUS
<1>2. Cleared(s) \in SlotType
    BY <1>1 DEF Cleared, SlotType
<1> QED
    BY <1>2 DEF Cleared, SlotType

LEMMA StackDisconnectsKeeps ==
    ASSUME IInv, NEW m \in Macs, StackDisconnects(m)
    PROVE  IInv'
<1> DEFINE i == SlotByConn(m)
           r == Cleared(slots[i])
<1>1. /\ link[m] = "lost" /\ link' = [link EXCEPT ![m] = "none"]
      /\ procs' = [procs EXCEPT ![m] = <<>>]
      /\ UNCHANGED <<disc, cmd, answers>>
    BY DEF StackDisconnects
<1>2. /\ i # NoSlot /\ i \in Slots /\ slots[i].active /\ slots[i].conn = m
      /\ slots[i] \in SlotType /\ TypeOK
    BY <1>1, LinkHasSlot DEF IInv, TypeOK
<1>3. SlotUpdated(i, r) /\ told' = [told EXCEPT ![m] = "DISCONNECT"] /\ scan' = TRUE
    BY <1>2 DEF StackDisconnects, SlotUpdated
<1>4. gattSem' \in {0, 1} /\ lateGive' \in BOOLEAN
  <2>1. CASE procs[m] = <<>>
      BY <1>2, <2>1 DEF StackDisconnects, TypeOK
  <2>2. CASE procs[m] # <<>>
    <3>1. procs[m] \in Seq(ProcedureType)
        BY <1>2 DEF TypeOK
    <3>2. procs[m][Len(procs[m])] \in ProcedureType
        BY <2>2, <3>1
    <3> QED
        BY <2>2, <3>2 DEF StackDisconnects, ProcedureType
  <2> QED
      BY <2>1, <2>2
<1>5. /\ r \in SlotType /\ ~r.active /\ r.conn = NoMac /\ r.svcs = <<>> /\ r.chrs = <<>>
    BY <1>2, ClearedIs
<1> HIDE DEF r, i
<1>6. /\ slots' \in [Slots -> SlotType] /\ slots'[i] = r
      /\ \A j \in Slots : j # i => slots'[j] = slots[j]
    BY <1>2, <1>3, <1>5, Updating
<1>7. /\ link' \in [Macs -> {"none", "creating", "up", "lost"}]
      /\ link'[m] = "none" /\ \A n \in Macs : n # m => link'[n] = link[n]
    BY <1>1, <1>2 DEF TypeOK
<1>8. /\ told' \in [Macs -> {"none", "CONNECT", "DISCONNECT"}]
      /\ told'[m] = "DISCONNECT" /\ \A n \in Macs : n # m => told'[n] = told[n]
    BY <1>2, <1>3 DEF TypeOK
<1>9. procs' \in [Macs -> Seq(ProcedureType)]
  <2>1. <<>> \in Seq(ProcedureType)
      OBVIOUS
  <2> QED
      BY <1>1, <1>2, <2>1 DEF TypeOK
<1>10. TypeOK'
    BY <1>1, <1>2, <1>3, <1>4, <1>6, <1>7, <1>8, <1>9 DEF TypeOK
<1>12. SlotsAreLinks' /\ CommandHasSlot'
    BY <1>1, <1>2, <1>5, <1>6, SlotGoesWithLink, CommandLosesSlot
<1>13. NoEarlyGive'
  <2>1. ASSUME ~SlowPeers, NEW n \in Macs, link'[n] = "creating"
        PROVE  cmd.pc = "connect" /\ cmd.mac = n /\ slots'[cmd.slot].sem = 0
    <3>1. n # m /\ link[n] = "creating"
        BY <1>7, <2>1
    <3>2. cmd.pc = "connect" /\ cmd.mac = n /\ slots[cmd.slot].sem = 0
        BY <2>1, <3>1 DEF IInv, NoEarlyGive
    <3>3. cmd.slot \in Slots /\ slots[cmd.slot].conn = n
        BY <3>1, <3>2 DEF IInv, CommandHasSlot
    <3> QED
        BY <1>2, <1>6, <3>1, <3>2, <3>3
  <2>2. ASSUME ~SlowPeers, cmd.pc = "disconnect", slots'[cmd.slot].sem = 1
        PROVE  link'[cmd.mac] = "none"
    <3>1. /\ cmd.mac \in Macs /\ cmd.slot \in Slots
          /\ slots[cmd.slot].active => slots[cmd.slot].conn = cmd.mac
        BY <2>2 DEF IInv, CommandHasSlot
    <3>2. CASE cmd.slot = i
        BY <1>2, <1>7, <3>1, <3>2
    <3>3. CASE cmd.slot # i
        BY <1>6, <1>7, <2>2, <3>1, <3>3 DEF IInv, NoEarlyGive
    <3> QED
        BY <3>2, <3>3
  <2>3. (cmd.pc = "connect" /\ slots'[cmd.slot].sem = 1) => link'[cmd.mac] # "creating"
      BY <1>2, <1>6, <1>7, OthersWait
  <2> QED
      BY <1>1, <2>1, <2>2, <2>3 DEF NoEarlyGive
<1>14. EventsTellLinks'
    BY <1>7, <1>8 DEF IInv, EventsTellLinks
<1> QED
    BY <1>10, <1>12, <1>13, <1>14 DEF IInv

LEMMA StoreTypes ==
    ASSUME NEW q \in Seq(Macs), NEW max \in Nat, NEW m \in Macs
    PROVE  Store(q, max, m) \in Seq(Macs)
    BY DEF Store

(* A slot with one attribute more.                                         *)
WithAttribute(s, op, m) ==
    IF op = "services" THEN [s EXCEPT !.svcs = Store(s.svcs, MaxServices, m)]
    ELSE [s EXCEPT !.chrs = Store(s.chrs, MaxChars, m)]

LEMMA WithAttributeIs ==
    ASSUME NEW s \in SlotType, NEW op, NEW m \in Macs
    PROVE  /\ WithAttribute(s, op, m) \in SlotType
           /\ SameUse(WithAttribute(s, op, m), s) /\ WithAttribute(s, op, m).sem = s.sem
           /\ op = "services" => WithAttribute(s, op, m).chrs = s.chrs
           /\ op # "services" => WithAttribute(s, op, m).chrs = Store(s.chrs, MaxChars, m)
<1>1. s.svcs \in Seq(Macs) /\ s.chrs \in Seq(Macs)
    BY DEF SlotType
<1>2. /\ Store(s.svcs, MaxServices, m) \in Seq(Macs)
      /\ Store(s.chrs, MaxChars, m) \in Seq(Macs)
    BY <1>1, StoreTypes, SizeAssumption
<1>3. CASE op = "services"
    BY <1>2, <1>3 DEF WithAttribute, SlotType, SameUse
<1>4. CASE op # "services"
    BY <1>2, <1>4 DEF WithAttribute, SlotType, SameUse
<1> QED
    BY <1>3, <1>4

(* What one more attribute does to the slots and the queue.                *)
LEMMA AttributeStored ==
    ASSUME IInv, NEW m \in Macs, GattAttribute(m)
    PROVE  \E op : /\ op \in IF Head(procs[m]).late THEN {"services", "chars"}
                             ELSE {Head(procs[m]).op}
                   /\ \/ disc \in Slots /\ SlotUpdated(disc, WithAttribute(slots[disc], op, m))
                      \/ disc = NoSlot /\ slots' = slots
<1>1. PICK op : /\ op \in IF Head(procs[m]).late THEN {"services", "chars"}
                          ELSE {Head(procs[m]).op}
                /\ SlotUpdated(disc, WithAttribute(slots[disc], op, m))
    BY DEF GattAttribute, SlotUpdated, WithAttribute
<1>2. CASE disc \in Slots
    BY <1>1, <1>2
<1>3. CASE disc = NoSlot
  <2>1. slots \in [Slots -> SlotType] /\ NoSlot \notin Slots
      BY NoSlotIsNone DEF IInv, TypeOK
  <2>2. slots' = slots
      BY <1>1, <1>3, <2>1 DEF SlotUpdated
  <2> QED
      BY <1>1, <1>3, <2>2
<1> QED
    BY <1>2, <1>3 DEF IInv, TypeOK

LEMMA GattAttributeKeeps ==
    ASSUME IInv, NEW m \in Macs, GattAttribute(m)
    PROVE  IInv'
<1> DEFINE q == procs[m]
           p == Head(q)
<1>1. /\ q # <<>> /\ p.left > 0
      /\ procs' = [procs EXCEPT ![m] = <<[p EXCEPT !.left = @ - 1]>> \o Tail(q)]
      /\ UNCHANGED <<gattSem, disc, scan, cmd, link, lateGive, answers, told>>
    BY DEF GattAttribute
<1>2. TypeOK /\ q \in Seq(ProcedureType)
    BY DEF IInv, TypeOK
<1>3. procs' \in [Macs -> Seq(ProcedureType)]
  <2>1. p \in ProcedureType /\ Tail(q) \in Seq(ProcedureType)
      BY <1>1, <1>2
  <2>2. p.left \in Nat /\ p.left - 1 \in Nat
      BY <1>1, <2>1 DEF ProcedureType
  <2>3. [p EXCEPT !.left = @ - 1] \in ProcedureType
      BY <2>1, <2>2 DEF ProcedureType
  <2>4. \A e \in ProcedureType, t \in Seq(ProcedureType) : <<e>> \o t \in Seq(ProcedureType)
      OBVIOUS
  <2> QED
      BY <1>1, <1>2, <2>1, <2>3, <2>4 DEF TypeOK
<1>4. /\ slots' \in [Slots -> SlotType]
      /\ \A j \in Slots : SameUse(slots'[j], slots[j]) /\ slots'[j].sem = slots[j].sem
  <2>1. PICK op : \/ /\ disc \in Slots
                     /\ SlotUpdated(disc, WithAttribute(slots[disc], op, m))
                  \/ disc = NoSlot /\ slots' = slots
      BY AttributeStored
  <2>2. CASE disc \in Slots /\ SlotUpdated(disc, WithAttribute(slots[disc], op, m))
    <3> DEFINE r == WithAttribute(slots[disc], op, m)
    <3>1. slots[disc] \in SlotType
        BY <2>2 DEF IInv, TypeOK
    <3>2. r \in SlotType /\ SameUse(r, slots[disc]) /\ r.sem = slots[disc].sem
        BY <3>1, WithAttributeIs
    <3> HIDE DEF r
    <3>3. /\ slots' \in [Slots -> SlotType] /\ slots'[disc] = r
          /\ \A j \in Slots : j # disc => slots'[j] = slots[j]
        BY <1>2, <2>2, <3>2, Updating DEF r
    <3> QED
        BY <3>2, <3>3 DEF SameUse
  <2>3. CASE slots' = slots
      BY <2>3 DEF IInv, TypeOK, SameUse
  <2> QED
      BY <2>1, <2>2, <2>3
<1>5. TypeOK'
    BY <1>1, <1>2, <1>3, <1>4 DEF TypeOK
<1>6. SlotsAreLinks' /\ EventsTellLinks' /\ CommandHasSlot'
    BY <1>1, <1>4, SameUseKeeps, WaitingKeeps
<1>7. NoEarlyGive'
    BY <1>1, <1>4 DEF IInv, NoEarlyGive, CommandHasSlot
<1> QED
    BY <1>4, <1>5, <1>6, <1>7 DEF IInv

LEMMA GattCompletesKeeps ==
    ASSUME IInv, NEW m \in Macs, GattCompletes(m)
    PROVE  IInv'
<1>1. /\ procs[m] # <<>> /\ procs' = [procs EXCEPT ![m] = Tail(procs[m])]
      /\ gattSem' = 1 /\ lateGive' = Head(procs[m]).late
      /\ UNCHANGED <<slots, disc, scan, cmd, link, answers, told>>
    BY DEF GattCompletes
<1>2. procs[m] \in Seq(ProcedureType) /\ TypeOK
    BY DEF IInv, TypeOK
<1>3. Tail(procs[m]) \in Seq(ProcedureType) /\ Head(procs[m]) \in ProcedureType
    BY <1>1, <1>2
<1>4. lateGive' \in BOOLEAN
    BY <1>1, <1>3 DEF ProcedureType
<1>5. TypeOK'
    BY <1>1, <1>2, <1>3, <1>4 DEF TypeOK
<1> QED
    BY <1>1, <1>5 DEF IInv, SlotsAreLinks, CommandHasSlot, NoEarlyGive, EventsTellLinks

-----------------------------------------------------------------------------
LEMMA InitHolds == Init => IInv
<1> SUFFICES ASSUME Init
             PROVE  IInv
    OBVIOUS
<1>1. <<>> \in Seq(Macs) /\ <<>> \in Seq(ProcedureType) /\ Len(<<>>) = 0
    OBVIOUS
<1>2. FreeSlot \in SlotType
    BY <1>1 DEF FreeSlot, SlotType
<1>3. TypeOK
    BY <1>1, <1>2, SaysAnswers, IdleIsCommand DEF Init, TypeOK
<1>5. SlotsAreLinks /\ EventsTellLinks
    BY DEF Init, SlotsAreLinks, EventsTellLinks, FreeSlot
<1>6. CommandHasSlot /\ NoEarlyGive
    BY IdleIsCommand DEF Init, CommandHasSlot, NoEarlyGive
<1> QED
    BY <1>3, <1>5, <1>6 DEF IInv

LEMMA StepKeeps ==
    ASSUME IInv, [Next]_vars
    PROVE  IInv'
<1>1. CASE HandleCommand
    BY <1>1, DoConnectKeeps, DoDisconnectKeeps, DoDiscoverKeeps, DoAccessKeeps, DoListKeeps
       DEF HandleCommand, DoRead, DoWrite
<1>2. CASE HandlerWakes
    BY <1>2, ConnectEndsKeeps, DisconnectEndsKeeps, ServicesWakeKeeps, CharsWakeKeeps,
       AccessWakesKeeps DEF HandlerWakes, ConnectWakes, DisconnectWakes
<1>3. CASE ConnectTimesOut \/ DisconnectTimesOut \/ GattWaitTimesOut
    BY <1>3, ConnectEndsKeeps, DisconnectEndsKeeps, GattWaitTimesOutKeeps
       DEF ConnectTimesOut, DisconnectTimesOut
<1>4. CASE \E m \in Macs : Stack(m) \/ StackLosesLink(m)
    BY <1>4, StackConnectsKeeps, StackDisconnectsKeeps, GattAttributeKeeps, GattCompletesKeeps,
       StackLosesLinkKeeps DEF Stack
<1>5. CASE UNCHANGED vars
    BY <1>5 DEF IInv, TypeOK, SlotsAreLinks, CommandHasSlot, NoEarlyGive,
                EventsTellLinks, vars
<1> QED
    BY <1>1, <1>2, <1>3, <1>4, <1>5 DEF Next

(* Whatever commands arrive and whatever the stack does between the        *)
(* handler's waits, the slots describe the stack's links.                  *)
THEOREM SlotsMatchLinks == Spec => []IInv
    BY InitHolds, StepKeeps, PTL DEF Spec

(* The variables of main.c keep their types: in particular disc_ctx.slot   *)
(* is a slot of the table or NULL, and the event lines are well-formed.    *)
THEOREM FirmwareTypeCorrect == Spec => []TypeOK
<1>1. IInv => TypeOK
    BY DEF IInv
<1> QED
    BY <1>1, SlotsMatchLinks, PTL

LEMMA AtMostOne ==
    ASSUME NEW S, \A i, j \in S : i = j
    PROVE  Cardinality(S) <= 1
<1>1. CASE S = {}
    BY <1>1, FS_EmptySet
<1>2. CASE S # {}
  <2>1. PICK x : x \in S
      BY <1>2
  <2>2. S = {x}
      BY <2>1
  <2> QED
      BY <2>2, FS_Singleton
<1> QED
    BY <1>1, <1>2

(* No command sequence gives a peer two slots, and disconnected_cb and     *)
(* do_disconnect find the slot of every link.                              *)
THEOREM OneSlotForEachLink == Spec => []OneSlotPerLink
<1>1. IInv => OneSlotPerLink
  <2> SUFFICES ASSUME IInv, NEW m \in Macs
               PROVE  /\ Cardinality({i \in Slots : slots[i].active /\ slots[i].mac = m}) <= 1
                      /\ link[m] # "none" => \E i \in Slots : /\ slots[i].active
                                                              /\ slots[i].conn = m
                                                              /\ slots[i].mac = m
      BY DEF OneSlotPerLink
  <2>1. \A i, j \in {k \in Slots : slots[k].active /\ slots[k].mac = m} : i = j
      BY DEF IInv, SlotsAreLinks
  <2>2. Cardinality({i \in Slots : slots[i].active /\ slots[i].mac = m}) <= 1
      BY <2>1, AtMostOne
  <2> QED
      BY <2>2 DEF IInv, SlotsAreLinks
<1> QED
    BY <1>1, SlotsMatchLinks, PTL

(* The EVENT lines of connected_cb and disconnected_cb tell which links    *)
(* exist: no link comes or goes without its line.                          *)
THEOREM EventsAreTruthful == Spec => []EventsTellLinks
<1>1. IInv => EventsTellLinks
    BY DEF IInv
<1> QED
    BY <1>1, SlotsMatchLinks, PTL

(* No way out of do_connect, and no failed connected_cb, leaves a slot     *)
(* marked active without a connection.                                     *)
THEOREM NoSlotIsLeaked == Spec => []NoSlotLeaked
<1>1. IInv => NoSlotLeaked
    BY DEF IInv, SlotsAreLinks, NoSlotLeaked
<1> QED
    BY <1>1, SlotsMatchLinks, PTL

(* The handler ends CONNECT and DISCONNECT in their own steps only.        *)
LEMMA OwnEnd ==
    ASSUME IInv, Next, cmd.pc \in {"connect", "disconnect"}, cmd' = NoCommand
    PROVE  IF cmd.pc = "connect" THEN ConnectEnds
           ELSE DisconnectWakes \/ DisconnectTimesOut
<1>1. cmd # NoCommand
    BY IdleIsCommand
<1>2. ~HandleCommand
    BY <1>1 DEF HandleCommand, DoConnect, DoDisconnect, DoDiscover, DoRead, DoWrite, DoAccess,
                DoList
<1>3. ~(ServicesWake \/ CharsWake \/ AccessWakes \/ GattWaitTimesOut)
    BY DEF ServicesWake, CharsWake, AccessWakes, GattWaitTimesOut
<1>4. ~\E m \in Macs : Stack(m) \/ StackLosesLink(m)
    BY <1>1 DEF Stack, StackConnects, StackDisconnects, GattAttribute, GattCompletes,
                StackLosesLink
<1>5. ConnectWakes \/ ConnectTimesOut \/ DisconnectWakes \/ DisconnectTimesOut
    BY <1>2, <1>3, <1>4 DEF Next, HandlerWakes
<1> QED
    BY <1>5 DEF ConnectWakes, ConnectTimesOut, DisconnectWakes, DisconnectTimesOut

LEMMA ConnectTellsTruth ==
    ASSUME IInv, Next, cmd.pc = "connect", cmd' = NoCommand
    PROVE  /\ answers' = <<"ERR">> => link[cmd.mac] = "none"
           /\ (answers' = <<"OK">> /\ slots[cmd.slot].sem = 1)
                => link[cmd.mac] \in {"up", "lost"}
<1> DEFINE s == slots[cmd.slot]
<1>1. /\ cmd.slot \in Slots /\ cmd.mac \in Macs
      /\ s.active => s.conn = cmd.mac
      /\ link[cmd.mac] # "none" => s.active
    BY DEF IInv, CommandHasSlot
<1>2. ConnectEnds
    BY OwnEnd
<1>3. CASE s.err \/ s.conn = NoMac
  <2>1. ~s.active
      BY <1>1, <1>3, MacAssumption DEF IInv, SlotsAreLinks
  <2>2. answers' = <<"ERR">>
      BY <1>2, <1>3 DEF ConnectEnds, Says
  <2>3. <<"ERR">> # <<"OK">>
      OBVIOUS
  <2> QED
      BY <1>1, <2>1, <2>2, <2>3
<1>4. CASE ~(s.err \/ s.conn = NoMac)
  <2>1. s.active
      BY <1>1, <1>4 DEF IInv, SlotsAreLinks
  <2>2. link[cmd.mac] # "none"
      BY <1>1, <2>1 DEF IInv, SlotsAreLinks
  <2>3. s.sem = 1 => link[cmd.mac] # "creating"
      BY DEF IInv, NoEarlyGive
  <2>4. link[cmd.mac] \in {"none", "creating", "up", "lost"}
      BY <1>1 DEF IInv, TypeOK
  <2>5. answers' = <<"OK">> /\ <<"ERR">> # <<"OK">>
      BY <1>2, <1>4 DEF ConnectEnds, Says
  <2> QED
      BY <2>2, <2>3, <2>4, <2>5
<1> QED
    BY <1>3, <1>4

(* CONNECT's ERR always means that there is no link, and its OK that there *)
(* is one unless its k_sem_take timed out: neither the semaphore left over *)
(* from an earlier use of the slot nor a late callback of another command  *)
(* is taken for its own.                                                   *)
THEOREM ConnectsAreTruthful == Spec => TruthfulConnect
<1>1. IInv /\ [Next]_vars =>
        [ (cmd.pc = "connect" /\ cmd' = NoCommand) =>
            /\ answers' = <<"ERR">> => link[cmd.mac] = "none"
            /\ (answers' = <<"OK">> /\ slots[cmd.slot].sem = 1)
                  => link[cmd.mac] \in {"up", "lost"} ]_vars
    BY ConnectTellsTruth
<1> QED
    BY <1>1, SlotsMatchLinks, PTL DEF Spec, TruthfulConnect

(* With callbacks that come within the waits, DISCONNECT is answered only  *)
(* once disconnected_cb has run, whatever gave the slot's semaphore before.*)
THEOREM PromptDisconnectsAreTruthful == ~SlowPeers => (Spec => TruthfulDisconnect)
<1> SUFFICES ASSUME ~SlowPeers
             PROVE  Spec => TruthfulDisconnect
    OBVIOUS
<1>1. ASSUME IInv, Next, cmd.pc = "disconnect", cmd' = NoCommand
      PROVE  link[cmd.mac] = "none"
  <2>1. DisconnectWakes
      BY <1>1, OwnEnd DEF DisconnectTimesOut
  <2> QED
      BY <1>1, <2>1 DEF DisconnectWakes, IInv, NoEarlyGive
<1>2. IInv /\ [Next]_vars =>
        [ (cmd.pc = "disconnect" /\ cmd' = NoCommand) => link[cmd.mac] = "none" ]_vars
    BY <1>1
<1> QED
    BY <1>2, SlotsMatchLinks, PTL DEF Spec, TruthfulDisconnect

-----------------------------------------------------------------------------
(* Peers that answer in time *)

Waiting == cmd.pc \in {"services", "chars", "read", "write"}

LEMMA NobodyBusy ==
    ASSUME OwnProcedure, ~Waiting \/ gattSem = 1
    PROVE  \A m \in Macs : procs[m] = <<>>
    BY DEF OwnProcedure, Waiting

(* The one procedure of a command that begins to wait.                     *)
LEMMA OwnStart ==
    ASSUME IInv, OwnProcedure, ~Waiting \/ gattSem = 1, NEW m \in Macs,
           NEW op \in {"services", "chars", "read", "write"}, NEW n \in Nat, Starts(m, op, n),
           cmd'.pc = op, cmd'.mac = m, op \in {"read", "write"} => n = 0,
           op \in {"services", "chars"} => disc' = cmd'.slot
    PROVE  OwnProcedure'
<1>1. \A k \in Macs : procs[k] = <<>>
    BY NobodyBusy
<1>2. gattSem' = 0 /\ procs' = [procs EXCEPT ![m] = Append(procs[m], Procedure(op, n))]
    BY DEF Starts
<1>3. /\ procs'[m] = <<Procedure(op, n)>>
      /\ \A k \in Macs : k # m => procs'[k] = <<>>
  <2>1. Append(<<>>, Procedure(op, n)) = <<Procedure(op, n)>>
      OBVIOUS
  <2> QED
      BY <1>1, <1>2, <2>1 DEF IInv, TypeOK
<1>4. /\ Procedure(op, n).op = op /\ ~Procedure(op, n).late /\ Procedure(op, n).left = n
    BY DEF Procedure
<1>5. Head(<<Procedure(op, n)>>) = Procedure(op, n)
    OBVIOUS
<1> QED
    BY <1>2, <1>3, <1>4, <1>5 DEF OwnProcedure

(* No procedure runs, and none is waited for.                              *)
LEMMA OwnNone ==
    ASSUME OwnProcedure, ~Waiting \/ gattSem = 1, procs' = procs,
           cmd'.pc \notin {"services", "chars"}
    PROVE  OwnProcedure'
    BY NobodyBusy DEF OwnProcedure

LEMMA HandlesStay ==
    ASSUME OwnHandles, link' = link,
           \A i \in Slots : SameUse(slots'[i], slots[i]) /\ slots'[i].chrs = slots[i].chrs
    PROVE  OwnHandles'
    BY DEF OwnHandles, SameUse

LEMMA StaysPrompt ==
    ASSUME OwnProcedure, OwnHandles, UNCHANGED <<slots, gattSem, disc, cmd, link, procs>>
    PROVE  OwnProcedure' /\ OwnHandles'
    BY DEF OwnProcedure, OwnHandles

LEMMA RejectsPrompt ==
    ASSUME OwnProcedure, OwnHandles, Rejects
    PROVE  OwnProcedure' /\ OwnHandles'
    BY StaysPrompt DEF Rejects, stackVars

LEMMA DoConnectPrompt ==
    ASSUME IInv, OwnProcedure, OwnHandles, NEW m \in Macs, DoConnect(m)
    PROVE  OwnProcedure' /\ OwnHandles'
<1>1. CASE SlotByMac(m) # NoSlot \/ SlotFree = NoSlot
    BY <1>1, RejectsPrompt DEF DoConnect
<1>2. CASE SlotByMac(m) = NoSlot /\ SlotFree # NoSlot
  <2> DEFINE i == SlotFree
  <2>1. /\ i \in Slots /\ ~slots[i].active /\ cmd.pc = "idle" /\ slots[i] \in SlotType
        /\ slots[i].chrs = <<>> /\ TypeOK
      BY <1>2, FreeOne, FreeHandler DEF DoConnect, IInv, TypeOK, OwnHandles
  <2>2. ConnectStarts(m, i) \/ ConnectFails(i)
      BY <1>2 DEF DoConnect, ConnectStarts, ConnectFails, Says, Blocks, stackVars
  <2> HIDE DEF i
  <2>3. CASE ConnectStarts(m, i)
    <3>1. SlotUpdated(i, Prefilled(slots[i], m))
        BY <2>3 DEF ConnectStarts, SlotUpdated
    <3>2. /\ Prefilled(slots[i], m) \in SlotType
          /\ Prefilled(slots[i], m).conn = m /\ Prefilled(slots[i], m).chrs = <<>>
        BY <2>1, PrefilledIs
    <3>3. /\ slots'[i].conn = m /\ slots'[i].chrs = <<>>
          /\ \A j \in Slots : j # i => slots'[j] = slots[j]
        BY <2>1, <3>1, <3>2, Updating
    <3>4. /\ link[m] = "none" /\ link'[m] = "creating"
          /\ \A n \in Macs : n # m => link'[n] = link[n]
        BY <2>1, <2>3 DEF ConnectStarts, TypeOK
    <3>5. OwnHandles'
      <4>1. \A j \in Slots : slots[j].active => slots[j].conn \in Macs /\ slots[j].conn # m
          BY <3>4 DEF IInv, SlotsAreLinks
      <4> QED
          BY <3>3, <3>4, <4>1 DEF OwnHandles
    <3>6. cmd'.pc = "connect" /\ procs' = procs
        BY <2>3 DEF ConnectStarts
    <3>7. OwnProcedure'
        BY <2>1, <3>6, OwnNone DEF Waiting
    <3> QED
        BY <3>5, <3>7
  <2>4. CASE ConnectFails(i)
    <3>1. SlotUpdated(i, CreateFailed(slots[i]))
        BY <2>4 DEF ConnectFails, SlotUpdated
    <3>2. /\ CreateFailed(slots[i]) \in SlotType /\ ~CreateFailed(slots[i]).active
          /\ CreateFailed(slots[i]).chrs = <<>>
        BY <2>1, CreateFailedIs
    <3>3. /\ ~slots'[i].active /\ slots'[i].chrs = <<>>
          /\ \A j \in Slots : j # i => slots'[j] = slots[j]
        BY <2>1, <3>1, <3>2, Updating
    <3>4. UNCHANGED <<link, cmd, procs>>
        BY <2>4 DEF ConnectFails
    <3>5. OwnHandles'
        BY <3>3, <3>4 DEF OwnHandles
    <3>6. OwnProcedure'
        BY <2>1, <3>4, OwnNone DEF Waiting
    <3> QED
        BY <3>5, <3>6
  <2> QED
      BY <2>2, <2>3, <2>4
<1> QED
    BY <1>1, <1>2

LEMMA ConnectWakesPrompt ==
    ASSUME IInv, OwnProcedure, OwnHandles, ConnectWakes
    PROVE  OwnProcedure' /\ OwnHandles'
<1> DEFINE i == cmd.slot
           s == slots[i]
           failed == s.err \/ s.conn = NoMac
           r == IF failed THEN [s EXCEPT !.sem = 0, !.active = FALSE, !.mac = NoMac]
                ELSE [s EXCEPT !.sem = 0]
<1>1. /\ cmd.pc = "connect" /\ i \in Slots /\ s \in SlotType
      /\ SlotUpdated(i, r) /\ TypeOK
      /\ UNCHANGED <<procs, link>> /\ cmd' = NoCommand
    BY DEF IInv, TypeOK, ConnectWakes, ConnectEnds, CommandHasSlot, SlotUpdated, Done, stackVars
<1>2. failed => ~s.active
    BY <1>1, MacAssumption DEF IInv, SlotsAreLinks
<1>3. /\ r \in SlotType /\ r.conn = s.conn /\ r.active = s.active /\ r.chrs = s.chrs
      /\ s.active => r.mac = s.mac
  <2>1. CASE failed
      BY <1>1, <1>2, <2>1 DEF SlotType
  <2>2. CASE ~failed
      BY <1>1, <2>2 DEF SlotType
  <2> QED
      BY <2>1, <2>2
<1> HIDE DEF r, failed
<1>4. /\ slots'[i] = r
      /\ \A j \in Slots : j # i => slots'[j] = slots[j]
    BY <1>1, <1>3, Updating
<1>5. \A j \in Slots : /\ slots'[j].conn = slots[j].conn /\ slots'[j].chrs = slots[j].chrs
                       /\ slots'[j].active = slots[j].active
                       /\ slots[j].active => slots'[j].mac = slots[j].mac
    BY <1>3, <1>4
<1>6. OwnHandles'
    BY <1>1, <1>5 DEF OwnHandles
<1>7. OwnProcedure'
    BY <1>1, OwnNone, IdleIsCommand DEF Waiting
<1> QED
    BY <1>6, <1>7

LEMMA DoDisconnectPrompt ==
    ASSUME ~SlowPeers, IInv, OwnProcedure, OwnHandles, NEW m \in Macs, DoDisconnect(m)
    PROVE  OwnProcedure' /\ OwnHandles'
<1>1. CASE SlotByMac(m) = NoSlot
    BY <1>1, RejectsPrompt DEF DoDisconnect
<1>2. CASE SlotByMac(m) # NoSlot
  <2> DEFINE i == SlotByMac(m)
  <2>1. /\ i \in Slots /\ slots[i].active /\ slots[i].mac = m /\ cmd.pc = "idle" /\ TypeOK
      BY <1>2, ByMac, FreeHandler DEF DoDisconnect, IInv
  <2>2. DisconnectStarts(m, i) \/ DisconnectFails(i)
      BY <1>2 DEF DoDisconnect, DisconnectStarts, DisconnectFails, Says, Blocks, stackVars
  <2> HIDE DEF i
  <2>3. /\ \A j \in Slots : SameUse(slots'[j], slots[j]) /\ slots'[j].chrs = slots[j].chrs
        /\ procs' = procs /\ cmd'.pc \notin {"services", "chars"}
      BY <2>1, <2>2, Drained DEF DisconnectStarts, DisconnectFails
  <2>4. \A n \in Macs : link[n] # "creating" /\ link'[n] # "creating"
      BY <2>1, <2>2, NobodyCreating DEF DisconnectStarts, DisconnectFails, TypeOK, Closing
  <2>5. \A j \in Slots : slots[j].active => slots[j].conn \in Macs
      BY DEF IInv, SlotsAreLinks
  <2>6. OwnHandles'
      BY <2>3, <2>4, <2>5 DEF OwnHandles, SameUse
  <2>7. OwnProcedure'
      BY <2>1, <2>3, OwnNone DEF Waiting
  <2> QED
      BY <2>6, <2>7
<1> QED
    BY <1>1, <1>2

LEMMA DisconnectWakesPrompt ==
    ASSUME IInv, OwnProcedure, OwnHandles, DisconnectWakes
    PROVE  OwnProcedure' /\ OwnHandles'
<1>1. /\ cmd.pc = "disconnect" /\ cmd.slot \in Slots /\ TypeOK
      /\ UNCHANGED <<procs, link>> /\ cmd' = NoCommand
    BY DEF IInv, DisconnectWakes, DisconnectEnds, CommandHasSlot, Done, stackVars
<1>2. \A j \in Slots : SameUse(slots'[j], slots[j]) /\ slots'[j].chrs = slots[j].chrs
    BY <1>1, Drained DEF DisconnectWakes, DisconnectEnds
<1>3. OwnHandles'
    BY <1>1, <1>2, HandlesStay
<1>4. OwnProcedure'
    BY <1>1, OwnNone, IdleIsCommand DEF Waiting
<1> QED
    BY <1>3, <1>4

LEMMA DoDiscoverPrompt ==
    ASSUME IInv, OwnProcedure, OwnHandles, NEW m \in Macs, DoDiscover(m)
    PROVE  OwnProcedure' /\ OwnHandles'
<1>1. CASE SlotByMac(m) = NoSlot
    BY <1>1, RejectsPrompt DEF DoDiscover
<1>2. CASE SlotByMac(m) # NoSlot
  <2> DEFINE i == SlotByMac(m)
  <2>1. i \in Slots /\ cmd.pc = "idle" /\ TypeOK
      BY <1>2, ByMac, FreeHandler DEF DoDiscover, IInv
  <2>2. /\ slots' = [slots EXCEPT ![i].svcs = <<>>, ![i].chrs = <<>>] /\ disc' = i
        /\ \/ /\ Starts(m, "services", PeerServices)
              /\ cmd' = [pc |-> "services", mac |-> m, slot |-> i, svc |-> 0]
           \/ Refuses /\ cmd' = cmd
      BY <1>2 DEF DoDiscover, Blocks
  <2> HIDE DEF i
  <2>3. /\ \A j \in Slots : SameUse(slots'[j], slots[j])
        /\ slots'[i].chrs = <<>>
        /\ \A j \in Slots : j # i => slots'[j] = slots[j]
      BY <2>1, <2>2, Emptied
  <2>4. link' = link
      BY <2>2 DEF Starts, Refuses, stackVars
  <2>5. OwnHandles'
    <3>1. \A k \in DOMAIN <<>> : FALSE
        OBVIOUS
    <3> QED
        BY <2>3, <2>4, <3>1 DEF OwnHandles, SameUse
  <2>6. OwnProcedure'
    <3>1. CASE /\ Starts(m, "services", PeerServices)
               /\ cmd' = [pc |-> "services", mac |-> m, slot |-> i, svc |-> 0]
        BY <2>1, <2>2, <3>1, OwnStart, SizeAssumption DEF Waiting
    <3>2. CASE Refuses /\ cmd' = cmd
        BY <2>1, <3>2, OwnNone DEF Waiting, Refuses, stackVars
    <3> QED
        BY <2>2, <3>1, <3>2
  <2> QED
      BY <2>5, <2>6
<1> QED
    BY <1>1, <1>2

LEMMA NextServicePrompt ==
    ASSUME IInv, OwnProcedure, OwnHandles, NEW n \in Nat, gattSem = 1,
           cmd.pc \in {"services", "chars"}, NextService(n), slots' = slots
    PROVE  OwnProcedure' /\ OwnHandles'
<1>1. link' = link
    BY DEF NextService, Starts, Refuses, stackVars
<1>2. OwnHandles'
    BY <1>1 DEF OwnHandles
<1>3. cmd.mac \in Macs
    BY DEF IInv, CommandHasSlot
<1>4. CASE /\ Starts(cmd.mac, "chars", PeerChars) /\ disc' = cmd.slot
           /\ cmd' = [pc |-> "chars", mac |-> cmd.mac, slot |-> cmd.slot, svc |-> n]
    BY <1>2, <1>3, <1>4, OwnStart, SizeAssumption
<1>5. CASE procs' = procs /\ cmd' = NoCommand
    BY <1>2, <1>5, OwnNone, IdleIsCommand
<1> QED
    BY <1>4, <1>5 DEF NextService, Refuses, Done, Blocks, stackVars

LEMMA DoAccessPrompt ==
    ASSUME IInv, OwnProcedure, OwnHandles, NEW op \in {"read", "write"}, NEW m \in Macs,
           DoAccess(op, m)
    PROVE  OwnProcedure' /\ OwnHandles'
<1>1. CASE Rejects
    BY <1>1, RejectsPrompt
<1>2. CASE ~Rejects
  <2> DEFINE i == SlotByMac(m)
  <2>1. /\ cmd.pc = "idle" /\ slots' = slots
        /\ \/ Starts(m, op, 0) /\ cmd' = [pc |-> op, mac |-> m, slot |-> i, svc |-> 0]
           \/ Refuses /\ cmd' = cmd
      BY <1>2, FreeHandler DEF DoAccess, Blocks
  <2> HIDE DEF i
  <2>2. link' = link
      BY <2>1 DEF Starts, Refuses, stackVars
  <2>3. OwnHandles'
      BY <2>1, <2>2 DEF OwnHandles
  <2>4. CASE Starts(m, op, 0) /\ cmd' = [pc |-> op, mac |-> m, slot |-> i, svc |-> 0]
      BY <2>1, <2>3, <2>4, OwnStart DEF Waiting
  <2>5. CASE Refuses /\ cmd' = cmd
      BY <2>1, <2>3, <2>5, OwnNone DEF Waiting, Refuses, stackVars
  <2> QED
      BY <2>1, <2>4, <2>5
<1> QED
    BY <1>1, <1>2

LEMMA AccessWakesPrompt ==
    ASSUME OwnProcedure, OwnHandles, AccessWakes
    PROVE  OwnProcedure' /\ OwnHandles'
<1>1. UNCHANGED <<slots, link, procs>> /\ cmd' = NoCommand /\ gattSem = 1
    BY DEF AccessWakes, Done, stackVars
<1> QED
    BY <1>1, OwnNone, IdleIsCommand DEF OwnHandles

LEMMA StackConnectsPrompt ==
    ASSUME IInv, OwnProcedure, OwnHandles, NEW m \in Macs, StackConnects(m)
    PROVE  OwnProcedure' /\ OwnHandles'
<1> DEFINE i == SlotByConn(m)
           s == slots[i]
           up == [s EXCEPT !.err = FALSE, !.sem = 1]
           down == [s EXCEPT !.err = TRUE, !.sem = 1, !.conn = NoMac, !.active = FALSE]
<1>1. link[m] = "creating" /\ UNCHANGED <<gattSem, disc, cmd, procs>>
    BY DEF StackConnects
<1>2. /\ i # NoSlot /\ i \in Slots /\ s.active /\ s.conn = m /\ s \in SlotType
      /\ s.chrs = <<>> /\ TypeOK
    BY <1>1, LinkHasSlot DEF IInv, TypeOK, OwnHandles
<1>3. OwnProcedure'
    BY <1>1 DEF OwnProcedure
<1>4. \/ link' = [link EXCEPT ![m] = "up"] /\ SlotUpdated(i, up)
      \/ link' = [link EXCEPT ![m] = "none"] /\ SlotUpdated(i, down)
    BY <1>2 DEF StackConnects, ConnectedCb, SlotUpdated
<1>5. up \in SlotType /\ up.chrs = <<>> /\ down \in SlotType /\ down.chrs = <<>>
  <2> HIDE DEF s
  <2> QED
      BY <1>2 DEF SlotType
<1> HIDE DEF up, down, s, i
<1>6. /\ slots'[i].chrs = <<>>
      /\ \A j \in Slots : j # i => slots'[j] = slots[j]
    BY <1>2, <1>4, <1>5, Updating
<1>7. /\ \A n \in Macs : n # m => link'[n] = link[n]
      /\ \A j \in Slots : j # i /\ slots[j].active => slots[j].conn \in Macs /\ slots[j].conn # m
  <2>1. \A j \in Slots : j # i /\ slots[j].active => slots[j].conn \in Macs /\ slots[j].conn # m
      BY <1>2 DEF IInv, SlotsAreLinks, s
  <2> QED
      BY <1>2, <1>4, <2>1 DEF TypeOK
<1>8. OwnHandles'
  <2>1. \A k \in DOMAIN <<>> : FALSE
      OBVIOUS
  <2> QED
      BY <1>6, <1>7, <2>1 DEF OwnHandles
<1> QED
    BY <1>3, <1>8

LEMMA StackLosesLinkPrompt ==
    ASSUME IInv, OwnProcedure, OwnHandles, NEW m \in Macs, StackLosesLink(m)
    PROVE  OwnProcedure' /\ OwnHandles'
<1>1. /\ link[m] = "up" /\ link' = [link EXCEPT ![m] = "lost"]
      /\ UNCHANGED <<slots, gattSem, disc, cmd, procs>>
    BY DEF StackLosesLink
<1>2. \A n \in Macs : link'[n] = "creating" <=> link[n] = "creating"
    BY <1>1 DEF IInv, TypeOK
<1>3. \A i \in Slots : slots[i].active => slots[i].conn \in Macs
    BY DEF IInv, SlotsAreLinks
<1> QED
    BY <1>1, <1>2, <1>3 DEF OwnProcedure, OwnHandles

LEMMA StackDisconnectsPrompt ==
    ASSUME IInv, OwnProcedure, OwnHandles, NEW m \in Macs, StackDisconnects(m)
    PROVE  OwnProcedure' /\ OwnHandles'
<1> DEFINE i == SlotByConn(m)
<1>1. /\ link[m] = "lost" /\ link' = [link EXCEPT ![m] = "none"]
      /\ procs' = [procs EXCEPT ![m] = <<>>]
      /\ procs[m] = <<>> => gattSem' = gattSem
      /\ UNCHANGED <<disc, cmd>>
    BY DEF StackDisconnects
<1>2. /\ i # NoSlot /\ i \in Slots /\ slots[i].active /\ slots[i].conn = m
      /\ slots[i] \in SlotType /\ TypeOK
    BY <1>1, LinkHasSlot DEF IInv, TypeOK
<1>3. SlotUpdated(i, Cleared(slots[i]))
    BY <1>2 DEF StackDisconnects, SlotUpdated
<1> HIDE DEF i
<1>4. /\ slots'[i].chrs = <<>>
      /\ \A j \in Slots : j # i => slots'[j] = slots[j]
    BY <1>2, <1>3, ClearedIs, Updating
<1>5. \A j \in Slots : j # i /\ slots[j].active => slots[j].conn \in Macs /\ slots[j].conn # m
    BY <1>2 DEF IInv, SlotsAreLinks
<1>6. OwnHandles'
  <2>1. \A k \in DOMAIN <<>> : FALSE
      OBVIOUS
  <2>2. \A n \in Macs : n # m => link'[n] = link[n]
      BY <1>1, <1>2 DEF TypeOK
  <2> QED
      BY <1>4, <1>5, <2>1, <2>2 DEF OwnHandles
<1>7. OwnProcedure'
  <2>1. procs'[m] = <<>> /\ \A n \in Macs : n # m => procs'[n] = procs[n]
      BY <1>1, <1>2 DEF TypeOK
  <2>2. ASSUME NEW n \in Macs, procs'[n] # <<>>
        PROVE  n # m /\ procs[n] # <<>> /\ gattSem' = gattSem
    <3>1. n # m /\ procs[n] # <<>>
        BY <2>1, <2>2
    <3>2. procs[m] = <<>>
        BY <3>1 DEF OwnProcedure
    <3> QED
        BY <1>1, <3>1, <3>2
  <2> QED
      BY <1>1, <2>1, <2>2 DEF OwnProcedure
<1> QED
    BY <1>6, <1>7

LEMMA GattAttributePrompt ==
    ASSUME IInv, OwnProcedure, OwnHandles, NEW m \in Macs, GattAttribute(m)
    PROVE  OwnProcedure' /\ OwnHandles'
<1> DEFINE p == Head(procs[m])
           p1 == [p EXCEPT !.left = @ - 1]
<1>1. /\ link[m] = "up" /\ procs[m] # <<>> /\ p.left > 0
      /\ procs' = [procs EXCEPT ![m] = <<p1>> \o Tail(procs[m])]
      /\ UNCHANGED <<gattSem, disc, cmd, link>>
    BY DEF GattAttribute
<1>2. /\ Waiting /\ cmd.mac = m /\ gattSem = 0 /\ procs[m] = <<p>> /\ p.op = cmd.pc /\ ~p.late
      /\ cmd.pc \in {"services", "chars"} /\ disc = cmd.slot
  <2>1. /\ Waiting /\ cmd.mac = m /\ gattSem = 0 /\ procs[m] = <<p>> /\ p.op = cmd.pc /\ ~p.late
        /\ cmd.pc \in {"read", "write"} => p.left = 0
      BY <1>1 DEF OwnProcedure, Waiting
  <2>2. cmd.pc \in {"services", "chars"}
      BY <1>1, <2>1 DEF Waiting
  <2> QED
      BY <2>1, <2>2 DEF OwnProcedure
<1>3. /\ disc \in Slots /\ slots[disc].active /\ slots[disc].conn = m /\ slots[disc].mac = m
      /\ slots[disc] \in SlotType /\ TypeOK
    BY <1>1, <1>2 DEF IInv, TypeOK, SlotsAreLinks, CommandHasSlot, Waiting
<1>4. p \in ProcedureType
  <2>1. procs[m] \in Seq(ProcedureType)
      BY <1>3 DEF TypeOK
  <2> QED
      BY <1>1, <2>1
<1>5. p1.op = p.op /\ p1.late = p.late
    BY <1>4 DEF ProcedureType
<1>6. SlotUpdated(disc, WithAttribute(slots[disc], cmd.pc, m))
    BY <1>2, <1>3, NoSlotIsNone, AttributeStored
<1> HIDE DEF p1, p
<1>7. OwnProcedure'
  <2>1. Tail(<<p>>) = <<>> /\ <<p1>> \o <<>> = <<p1>> /\ Head(<<p1>>) = p1
      OBVIOUS
  <2>2. /\ procs'[m] = <<p1>>
        /\ \A n \in Macs : n # m => procs'[n] = procs[n]
      BY <1>1, <1>2, <1>3, <2>1 DEF TypeOK
  <2>3. \A n \in Macs : n # m => procs[n] = <<>>
      BY <1>2 DEF OwnProcedure
  <2> QED
      BY <1>1, <1>2, <1>5, <2>1, <2>2, <2>3 DEF OwnProcedure, Waiting
<1>8. OwnHandles'
  <2> DEFINE r == WithAttribute(slots[disc], cmd.pc, m)
  <2>1. /\ r \in SlotType /\ SameUse(r, slots[disc])
        /\ r.chrs = slots[disc].chrs \/ r.chrs = Store(slots[disc].chrs, MaxChars, m)
      BY <1>3, WithAttributeIs
  <2> HIDE DEF r
  <2>2. /\ slots'[disc] = r
        /\ \A j \in Slots : j # disc => slots'[j] = slots[j]
      BY <1>3, <1>6, <2>1, Updating DEF r
  <2>3. \A k \in DOMAIN slots[disc].chrs : slots[disc].chrs[k] = m
      BY <1>1, <1>3 DEF OwnHandles
  <2>4. \A k \in DOMAIN r.chrs : r.chrs[k] = m
    <3>1. slots[disc].chrs \in Seq(Macs)
        BY <1>3 DEF SlotType
    <3>2. \A q \in Seq(Macs) : (\A k \in DOMAIN q : q[k] = m)
             => \A k \in DOMAIN Append(q, m) : Append(q, m)[k] = m
        OBVIOUS
    <3>3. r.chrs = slots[disc].chrs \/ r.chrs = Append(slots[disc].chrs, m)
        BY <2>1 DEF Store
    <3> QED
        BY <2>3, <3>1, <3>2, <3>3
  <2>5. r.active /\ r.conn = m /\ r.mac = m /\ link'[m] = "up"
      BY <1>1, <1>3, <2>1 DEF SameUse
  <2> QED
      BY <1>1, <2>2, <2>4, <2>5 DEF OwnHandles
<1> QED
    BY <1>7, <1>8

LEMMA GattCompletesPrompt ==
    ASSUME IInv, OwnProcedure, OwnHandles, NEW m \in Macs, GattCompletes(m)
    PROVE  OwnProcedure' /\ OwnHandles'
<1>1. /\ procs[m] # <<>> /\ procs' = [procs EXCEPT ![m] = Tail(procs[m])]
      /\ UNCHANGED <<slots, disc, cmd, link>>
    BY DEF GattCompletes
<1>2. procs[m] = <<Head(procs[m])>> /\ \A n \in Macs : n # m => procs[n] = <<>>
    BY <1>1 DEF OwnProcedure
<1>3. \A x : Tail(<<x>>) = <<>>
    OBVIOUS
<1>4. \A n \in Macs : procs'[n] = <<>>
    BY <1>1, <1>2, <1>3 DEF IInv, TypeOK
<1> QED
    BY <1>1, <1>4 DEF OwnProcedure, OwnHandles

LEMMA PromptStepKeeps ==
    ASSUME ~SlowPeers, PromptInv, [Next]_vars
    PROVE  PromptInv'
<1>1. IInv /\ OwnProcedure /\ OwnHandles /\ IInv'
    BY StepKeeps DEF PromptInv
<1>2. CASE HandleCommand
    BY <1>1, <1>2, DoConnectPrompt, DoDisconnectPrompt, DoDiscoverPrompt, DoAccessPrompt,
       StaysPrompt DEF HandleCommand, DoRead, DoWrite, DoList, stackVars, PromptInv
<1>3. CASE ServicesWake
    BY <1>1, <1>3, NextServicePrompt DEF ServicesWake, PromptInv
<1>4. CASE CharsWake
  <2>1. cmd.svc + 1 \in Nat
      BY <1>1 DEF IInv, TypeOK, CommandType
  <2> QED
      BY <1>1, <1>4, <2>1, NextServicePrompt DEF CharsWake, PromptInv
<1>5. CASE ConnectWakes \/ DisconnectWakes \/ AccessWakes
    BY <1>1, <1>5, ConnectWakesPrompt, DisconnectWakesPrompt, AccessWakesPrompt DEF PromptInv
<1>6. CASE ConnectTimesOut \/ DisconnectTimesOut \/ GattWaitTimesOut
    BY <1>6 DEF ConnectTimesOut, DisconnectTimesOut, GattWaitTimesOut
<1>7. CASE \E m \in Macs : Stack(m) \/ StackLosesLink(m)
    BY <1>1, <1>7, StackConnectsPrompt, StackDisconnectsPrompt, GattAttributePrompt,
       GattCompletesPrompt, StackLosesLinkPrompt DEF Stack, PromptInv
<1>8. CASE UNCHANGED vars
    BY <1>1, <1>8, StaysPrompt DEF vars, PromptInv
<1> QED
    BY <1>2, <1>3, <1>4, <1>5, <1>6, <1>7, <1>8 DEF Next, HandlerWakes

(* With peers that answer within the handler's waits, READ and WRITE never *)
(* use a handle of another device, through lost links, reused slots and    *)
(* discoveries that fail half way.                                         *)
THEOREM PromptPeersOwnHandles == ~SlowPeers => (Spec => []OwnCharacteristics)
<1> SUFFICES ASSUME ~SlowPeers
             PROVE  Spec => []OwnCharacteristics
    OBVIOUS
<1>1. Init => PromptInv
  <2>1. Init => OwnProcedure /\ OwnHandles
      BY IdleIsCommand DEF Init, OwnProcedure, OwnHandles, FreeSlot
  <2> QED
      BY <2>1, InitHolds DEF PromptInv
<1>2. PromptInv /\ [Next]_vars => PromptInv'
    BY PromptStepKeeps
<1>3. PromptInv => OwnCharacteristics
  <2>1. \A k \in DOMAIN <<>> : FALSE
      OBVIOUS
  <2> QED
      BY <2>1 DEF PromptInv, OwnHandles, OwnCharacteristics
<1> QED
    BY <1>1, <1>2, <1>3, PTL DEF Spec
=============================================================================
