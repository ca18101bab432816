------------------------- MODULE ZephyrSerialProofs -------------------------
(* Proofs about ZephyrSerial, for every set of handlers and every bound.   *)
EXTENDS ZephyrSerial, FiniteSetTheorems, SequenceTheorems, TLAPS

Handlers == [Rpcs -> [pc : Pcs, cmd : AllCommands \cup {"none"}, id : Nat,
                      tries : Nat, fut : Results]]

PendingMaps == SUBSET [id : Nat, rpc : Rpcs]

DiscoverMaps == SUBSET [id : Nat, parts : Nat]

Jobs == {Idle} \cup [state : {"busy"}, req : Requests, sent : Nat \cup {-1}]

-----------------------------------------------------------------------------
(* What the helpers return. *)

LEMMA NoResultType == NoResult \in Results /\ Stopped \in Results
BY DEF Results

LEMMA IdleRpcType ==
    IdleRpc \in [pc : Pcs, cmd : AllCommands \cup {"none"}, id : Nat, tries : Nat, fut : Results]
BY NoResultType DEF IdleRpc, Pcs

LEMMA ConcatType ==
    ASSUME NEW S, NEW s \in Seq(S), NEW t \in Seq(S)
    PROVE  s \o t \in Seq(S)
OBVIOUS

LEMMA PopType ==
    ASSUME NEW S, NEW m \in SUBSET S, NEW i
    PROVE  Pop(m, i) \in SUBSET S
BY DEF Pop

LEMMA EndedType ==
    ASSUME TypeOK, NEW r \in Rpcs
    PROVE  Ended(r) \in Handlers
BY IdleRpcType DEF Ended, TypeOK, Handlers

(* release() keeps the types of what it writes. *)
LEMMA ReleaseType ==
    ASSUME TypeOK, NEW n \in Nat, NEW rs \in Handlers,
           NEW pend \in PendingMaps, NEW disc \in DiscoverMaps,
           Release(n, rs, pend, disc)
    PROVE  /\ refcount' \in Nat
           /\ ser' \in {"closed", "open", "broken"}
           /\ reader' \in {"none", "run", "dead"}
           /\ pending' \in PendingMaps
           /\ discover' \in DiscoverMaps
           /\ rpc' \in Handlers
           /\ wireIn' \in Seq(Lines)
<1>1. Left(n) \in Nat
  BY DEF Left
<1>2. CASE Left(n) = 0
  <2>1. rpc' \in Handlers
    <3> DEFINE h(r) == IF rs[r].pc = "waiting" /\ [id |-> rs[r].id, rpc |-> r] \in pend
                       THEN [rs[r] EXCEPT !.pc = "resolved", !.fut = Stopped]
                       ELSE rs[r]
    <3>1. rpc' = [r \in Rpcs |-> h(r)]
      BY <1>2 DEF Release, Stop
    <3>2. ASSUME NEW r \in Rpcs
          PROVE  h(r) \in [pc : Pcs, cmd : AllCommands \cup {"none"}, id : Nat,
                           tries : Nat, fut : Results]
      BY NoResultType DEF Handlers, Pcs
    <3> QED BY <3>1, <3>2 DEF Handlers
  <2>2. wireIn' \in Seq(Lines)
    <3>1. wireIn' \in {wireIn, <<>>}
      BY <1>2 DEF Release, Stop, PortClosed
    <3>2. wireIn \in Seq(Lines) /\ <<>> \in Seq(Lines)
      BY DEF TypeOK
    <3> QED BY <3>1, <3>2
  <2> QED BY <1>1, <1>2, <2>1, <2>2 DEF Release, Stop, PendingMaps, DiscoverMaps
<1>3. CASE Left(n) # 0
  BY <1>1, <1>3 DEF Release, TypeOK
<1> QED BY <1>2, <1>3

(* _request keeps the types of what it writes. *)
LEMMA SendType ==
    ASSUME TypeOK, NEW r \in Rpcs, NEW c \in AllCommands, NEW tries \in Nat,
           NEW pend \in PendingMaps, NEW disc \in DiscoverMaps,
           Send(r, c, tries, pend, disc)
    PROVE  /\ rpc' \in Handlers
           /\ pending' \in PendingMaps
           /\ discover' \in DiscoverMaps
           /\ nextId' \in Nat
           /\ wireOut' \in Seq(Requests)
<1>1. Request(epoch, nextId, r, c) \in Requests
  BY DEF Request, Requests, TypeOK
<1>2. wireOut' \in Seq(Requests)
  BY <1>1 DEF Send, TypeOK
<1>3. rpc' \in Handlers
  BY NoResultType DEF Send, TypeOK, Handlers, Pcs
<1>4. pending' \in PendingMaps
  BY DEF Send, TypeOK, PendingMaps, Pop
<1> QED BY <1>2, <1>3, <1>4 DEF Send, NextRequestId, TypeOK

LEMMA AttemptFailedType ==
    ASSUME TypeOK, NEW r \in Rpcs, rpc[r].cmd \in AllCommands,
           NEW pend \in PendingMaps, NEW disc \in DiscoverMaps,
           AttemptFailed(r, pend, disc)
    PROVE  /\ refcount' \in Nat
           /\ ser' \in {"closed", "open", "broken"}
           /\ reader' \in {"none", "run", "dead"}
           /\ nextId' \in Nat
           /\ pending' \in PendingMaps
           /\ discover' \in DiscoverMaps
           /\ rpc' \in Handlers
           /\ wireIn' \in Seq(Lines)
           /\ wireOut' \in Seq(Requests)
<1>0. rpc[r].tries \in Nat
  BY DEF TypeOK
<1>1. CASE /\ MoreAttempts(r) /\ Send(r, rpc[r].cmd, rpc[r].tries - 1, pend, disc)
           /\ UNCHANGED <<refcount, ser, reader, wireIn>>
  <2>1. rpc[r].tries - 1 \in Nat
    BY <1>0, <1>1 DEF MoreAttempts
  <2> QED BY <1>1, <2>1, SendType DEF TypeOK
<1>2. CASE /\ Release(refcount, Ended(r), pend, disc)
           /\ nextId' = nextId + rpc[r].tries
           /\ UNCHANGED wireOut
  <2>1. nextId' \in Nat /\ wireOut' \in Seq(Requests) /\ refcount \in Nat
    BY <1>0, <1>2 DEF TypeOK
  <2> QED BY <1>2, <2>1, EndedType, ReleaseType
<1>3. CASE Finish(r, pend, disc)
  BY <1>3, EndedType, ReleaseType DEF Finish, TypeOK
<1> QED BY <1>1, <1>2, <1>3 DEF AttemptFailed

-----------------------------------------------------------------------------
(* Type correctness. *)

(* set_result on a future. *)
LEMMA ResolveType ==
    ASSUME TypeOK, NEW i \in Nat, NEW res \in Results, Resolve(i, res)
    PROVE  rpc' \in Handlers
<1> DEFINE h(r) == IF [id |-> i, rpc |-> r] \in pending /\ Waits(r, i)
                   THEN [rpc[r] EXCEPT !.pc = "resolved", !.fut = res]
                   ELSE rpc[r]
<1>1. rpc' = [r \in Rpcs |-> h(r)]
  BY DEF Resolve
<1>2. ASSUME NEW r \in Rpcs
      PROVE  h(r) \in [pc : Pcs, cmd : AllCommands \cup {"none"}, id : Nat,
                       tries : Nat, fut : Results]
  BY DEF TypeOK, Pcs
<1> QED BY <1>1, <1>2 DEF Handlers

(* What a response line does: the future of its id may be completed with a *)
(* result that comes from it, and the maps keep their types.               *)
LEMMA HandleRspResults ==
    ASSUME TypeOK, NEW l \in Lines, HandleRsp(l)
    PROVE  /\ pending' \in PendingMaps /\ discover' \in DiscoverMaps
           /\ \/ UNCHANGED <<rpc, pending>>
              \/ \E res \in Results :
                    /\ res.tag # "stopped" /\ res.src = l.req
                    /\ Resolve(l.req.id, res)
                    /\ pending' = Pop(pending, l.req.id)
<1> DEFINE i == l.req.id
           collected == {d \in discover : d.id = i}
           parts == IF collected = {} THEN 0 ELSE (CHOOSE d \in collected : TRUE).parts
<1>1. l.req \in Requests /\ l.tag \in Tags /\ l.parts \in Nat /\ i \in Nat
  BY DEF Lines, Requests
<1>2. parts \in Nat
  <2>1. CASE collected = {}
    BY <2>1
  <2>2. CASE collected # {}
    <3>1. (CHOOSE d \in collected : TRUE) \in collected
      BY <2>2
    <3>2. (CHOOSE d \in collected : TRUE) \in [id : Nat, parts : Nat]
      BY <3>1 DEF TypeOK
    <3> HIDE DEF collected
    <3> QED BY <2>2, <3>2
  <2> QED BY <2>1, <2>2
<1>3. Pop(pending, i) \in PendingMaps /\ Pop(discover, i) \in DiscoverMaps
  BY PopType DEF TypeOK, PendingMaps, DiscoverMaps
<1>4. /\ Result("ERR", l.req, 0, 0) \in Results
      /\ Result(l.tag, l.req, 0, 0) \in Results
      /\ Result("END", l.req, parts, l.parts) \in Results
  <2> HIDE DEF parts
  <2> QED BY <1>1, <1>2 DEF Result, Results, Tags
<1>5. rpc \in Handlers /\ pending \in PendingMaps /\ discover \in DiscoverMaps
  BY DEF TypeOK, Handlers, PendingMaps, DiscoverMaps
<1>6. CASE /\ l.tag = "ERR"
           /\ Resolve(i, Result("ERR", l.req, 0, 0))
           /\ pending' = Pop(pending, i)
           /\ discover' = Pop(discover, i)
  <2>1. Result("ERR", l.req, 0, 0).tag # "stopped" /\ Result("ERR", l.req, 0, 0).src = l.req
    BY DEF Result
  <2> QED BY <1>3, <1>4, <1>6, <2>1
<1>7. CASE /\ l.tag = "BEGIN"
           /\ discover' = Pop(discover, i) \cup {[id |-> i, parts |-> 0]}
           /\ UNCHANGED <<rpc, pending>>
  BY <1>1, <1>3, <1>5, <1>7 DEF DiscoverMaps
<1>8. CASE /\ l.tag = "END"
           /\ Resolve(i, Result("END", l.req, parts, l.parts))
           /\ pending' = Pop(pending, i)
           /\ discover' = Pop(discover, i)
  <2>1. /\ Result("END", l.req, parts, l.parts).tag # "stopped"
        /\ Result("END", l.req, parts, l.parts).src = l.req
    BY DEF Result
  <2> HIDE DEF parts
  <2> QED BY <1>3, <1>4, <1>8, <2>1
<1>9. CASE /\ l.tag \in {"OK", "READ"}
           /\ Resolve(i, Result(l.tag, l.req, 0, 0))
           /\ pending' = Pop(pending, i)
           /\ UNCHANGED discover
  <2>1. Result(l.tag, l.req, 0, 0).tag # "stopped" /\ Result(l.tag, l.req, 0, 0).src = l.req
    BY <1>9 DEF Result
  <2> QED BY <1>3, <1>4, <1>5, <1>9, <2>1
<1> QED BY <1>6, <1>7, <1>8, <1>9 DEF HandleRsp

LEMMA HandleRspType ==
    ASSUME TypeOK, NEW l \in Lines, HandleRsp(l)
    PROVE  rpc' \in Handlers /\ pending' \in PendingMaps /\ discover' \in DiscoverMaps
<1>1. l.req.id \in Nat
  BY DEF Lines, Requests
<1>2. rpc' \in Handlers
  <2>1. CASE UNCHANGED rpc
    BY <2>1 DEF TypeOK, Handlers
  <2>2. CASE \E res \in Results : Resolve(l.req.id, res)
    BY <1>1, <2>2, ResolveType
  <2> QED BY <2>1, <2>2, HandleRspResults
<1> QED BY <1>2, HandleRspResults

LEMMA HandlePartsType ==
    ASSUME TypeOK, NEW l \in Lines, HandleDiscoverParts(l)
    PROVE  rpc' \in Handlers /\ pending' \in PendingMaps /\ discover' \in DiscoverMaps
<1>1. rpc' \in Handlers /\ pending' \in PendingMaps
  BY DEF HandleDiscoverParts, TypeOK, Handlers, PendingMaps
<1>2. ASSUME NEW d \in discover
      PROVE  [d EXCEPT !.parts = IF d.id = l.req.id THEN @ + 1 ELSE @] \in [id : Nat, parts : Nat]
  <2>1. d \in [id : Nat, parts : Nat]
    BY DEF TypeOK
  <2> QED BY <2>1
<1> QED BY <1>1, <1>2 DEF HandleDiscoverParts, Collect, DiscoverMaps

(* A handler that is running has a command: TypeOK needs it to be          *)
(* inductive, because a retry writes the handler's command to the wire.    *)
HasCommand(rs) == \A r \in Rpcs : rs[r].pc # "idle" => rs[r].cmd \in AllCommands

Typed == TypeOK /\ HasCommand(rpc)

LEMMA ReleaseCommand ==
    ASSUME NEW n, NEW rs \in Handlers, NEW pend, NEW disc,
           HasCommand(rs), Release(n, rs, pend, disc)
    PROVE  HasCommand(rpc')
<1>1. CASE Left(n) = 0
  <2>1. ASSUME NEW r \in Rpcs
        PROVE  rpc'[r].cmd = rs[r].cmd /\ (rpc'[r].pc # "idle" => rs[r].pc # "idle")
    BY <1>1 DEF Release, Stop, Handlers
  <2> QED BY <2>1 DEF HasCommand
<1>2. CASE Left(n) # 0
  BY <1>2 DEF Release
<1> QED BY <1>1, <1>2

LEMMA EndedCommand ==
    ASSUME Typed, NEW r \in Rpcs
    PROVE  HasCommand(Ended(r))
BY DEF Typed, HasCommand, TypeOK, Ended, IdleRpc

LEMMA SendCommand ==
    ASSUME Typed, NEW r \in Rpcs, NEW c \in AllCommands, NEW tries, NEW pend, NEW disc,
           Send(r, c, tries, pend, disc)
    PROVE  HasCommand(rpc')
BY DEF Typed, HasCommand, TypeOK, Send

LEMMA AttemptFailedCommand ==
    ASSUME Typed, NEW r \in Rpcs, rpc[r].cmd \in AllCommands, NEW pend, NEW disc,
           AttemptFailed(r, pend, disc)
    PROVE  HasCommand(rpc')
<1>1. Ended(r) \in Handlers /\ HasCommand(Ended(r))
  BY EndedType, EndedCommand DEF Typed
<1>2. CASE Send(r, rpc[r].cmd, rpc[r].tries - 1, pend, disc)
  BY <1>2, SendCommand
<1>3. CASE Release(refcount, Ended(r), pend, disc)
  BY <1>1, <1>3, ReleaseCommand
<1> QED BY <1>2, <1>3 DEF AttemptFailed, Finish

LEMMA TypedInit == Init => Typed
<1> SUFFICES ASSUME Init PROVE Typed
  OBVIOUS
<1>1. rpc \in Handlers
  BY IdleRpcType DEF Init, Handlers
<1>2. discReq \subseteq Requests /\ room \in Nat /\ stray \in BOOLEAN
  BY DEF Init
<1>3. TypeOK
  BY <1>1, <1>2 DEF Init, TypeOK, Handlers
<1>4. HasCommand(rpc)
  BY DEF Init, HasCommand, IdleRpc
<1> QED BY <1>3, <1>4 DEF Typed

LEMMA HandlerTyped ==
    ASSUME Typed, NEW r \in Rpcs, Handler(r)
    PROVE  Typed'
<1> USE DEF Typed
<1>0. /\ rpc \in Handlers /\ pending \in PendingMaps /\ discover \in DiscoverMaps
      /\ refcount \in Nat /\ refcount + 1 \in Nat /\ nextId \in Nat
      /\ Ended(r) \in Handlers /\ HasCommand(Ended(r))
      /\ Pop(pending, rpc[r].id) \in PendingMaps
      /\ Pop(discover, rpc[r].id) \in DiscoverMaps
  <2>1. /\ rpc \in Handlers /\ pending \in PendingMaps /\ discover \in DiscoverMaps
        /\ refcount \in Nat /\ refcount + 1 \in Nat /\ nextId \in Nat
    BY DEF TypeOK, Handlers, PendingMaps, DiscoverMaps
  <2>2. Ended(r) \in Handlers /\ HasCommand(Ended(r))
    BY EndedType, EndedCommand
  <2>3. Pop(pending, rpc[r].id) \in PendingMaps /\ Pop(discover, rpc[r].id) \in DiscoverMaps
    BY <2>1, PopType DEF PendingMaps, DiscoverMaps
  <2> QED BY <2>1, <2>2, <2>3
<1>1. ASSUME NEW c \in Commands, Call(r, c) PROVE Typed'
  <2>1. c \in AllCommands /\ Attempts(c) \in Nat
    BY CommandsKnown, BoundsAssumption DEF Attempts
  <2>2. Send(r, c, Attempts(c), pending, discover)
    BY <1>1 DEF Call
  <2>3. HasCommand(rpc')
    BY <2>1, <2>2, SendCommand
  <2>4. ser' \in {"closed", "open", "broken"} /\ reader' \in {"none", "run", "dead"}
    BY <1>1 DEF Call, Acquire, TypeOK
  <2>5. /\ rpc' \in Handlers /\ pending' \in PendingMaps /\ discover' \in DiscoverMaps
        /\ nextId' \in Nat /\ wireOut' \in Seq(Requests)
    BY <1>0, <2>1, <2>2, SendType
  <2> QED BY <1>0, <1>1, <2>3, <2>4, <2>5
          DEF Call, TypeOK, Handlers, PendingMaps, DiscoverMaps, hostIdle, gattVars
<1>2. ASSUME NEW c \in Commands, CallCannotWrite(r, c) PROVE Typed'
  <2>1. nextId' \in Nat
    BY <1>0, <1>2, BoundsAssumption DEF CallCannotWrite, Attempts
  <2>2. Release(refcount + 1, Ended(r), pending, discover)
    BY <1>2 DEF CallCannotWrite
  <2>3. HasCommand(rpc')
    BY <1>0, <2>2, ReleaseCommand
  <2> QED BY <1>0, <1>2, <2>1, <2>2, <2>3, ReleaseType
          DEF CallCannotWrite, TypeOK, Handlers, PendingMaps, DiscoverMaps, hostIdle,
              dongleVars, gattVars
<1>3. ASSUME NEW c \in Commands, CallRaises(r, c) PROVE Typed'
  BY <1>0, <1>3 DEF CallRaises, TypeOK, Handlers, hostIdle, dongleVars, gattVars
<1>4. CASE DiscoverTooLate(r)
  <2>1. Release(refcount + 1, Ended(r), pending, discover)
    BY <1>4 DEF DiscoverTooLate
  <2>2. HasCommand(rpc')
    BY <1>0, <2>1, ReleaseCommand
  <2> QED BY <1>0, <1>4, <2>1, <2>2, ReleaseType
          DEF DiscoverTooLate, TypeOK, Handlers, PendingMaps, DiscoverMaps, hostIdle,
              dongleVars, gattVars
<1>5. CASE Wake(r)
  <2>1. rpc[r].cmd \in AllCommands
    BY <1>5 DEF Wake, HasCommand
  <2>2. CASE Finish(r, pending, discover)
    <3>1. HasCommand(rpc')
      BY <1>0, <2>2, ReleaseCommand DEF Finish
    <3> QED BY <1>0, <1>5, <2>2, <3>1, ReleaseType
            DEF Wake, Finish, TypeOK, Handlers, PendingMaps, DiscoverMaps, hostIdle,
                gattVars
  <2>3. CASE AttemptFailed(r, pending, discover)
    <3>1. HasCommand(rpc')
      BY <1>0, <2>1, <2>3, AttemptFailedCommand
    <3> QED BY <1>0, <1>5, <2>1, <2>3, <3>1, AttemptFailedType
            DEF Wake, TypeOK, Handlers, PendingMaps, DiscoverMaps, hostIdle, gattVars
  <2> QED BY <1>5, <2>2, <2>3 DEF Wake
<1>6. CASE Timeout(r)
  <2>1. rpc[r].cmd \in AllCommands
    BY <1>6 DEF Timeout, HasCommand
  <2>2. AttemptFailed(r, Pop(pending, rpc[r].id), Pop(discover, rpc[r].id))
    BY <1>6 DEF Timeout
  <2>3. HasCommand(rpc')
    BY <1>0, <2>1, <2>2, AttemptFailedCommand
  <2> QED BY <1>0, <1>6, <2>1, <2>2, <2>3, AttemptFailedType
          DEF Timeout, TypeOK, Handlers, PendingMaps, DiscoverMaps, hostIdle, gattVars
<1>7. CASE Cancel(r)
  <2>1. HasCommand(rpc')
    BY <1>0, <1>7, ReleaseCommand DEF Cancel, Finish
  <2> QED BY <1>0, <1>7, <2>1, ReleaseType
          DEF Cancel, Finish, TypeOK, Handlers, PendingMaps, DiscoverMaps, hostIdle, gattVars
<1> QED BY <1>1, <1>2, <1>3, <1>4, <1>5, <1>6, <1>7 DEF Handler

LEMMA StreamTyped ==
    ASSUME Typed, NEW s \in Streams, Streaming(s)
    PROVE  Typed'
<1> USE DEF Typed
<1>0. /\ rpc \in Handlers /\ pending \in PendingMaps /\ discover \in DiscoverMaps
      /\ refcount \in Nat /\ refcount + 1 \in Nat
  BY DEF TypeOK, Handlers, PendingMaps, DiscoverMaps
<1>1. CASE StreamOpen(s)
  <2>1. ser' \in {"closed", "open", "broken"} /\ reader' \in {"none", "run", "dead"}
    BY <1>1 DEF StreamOpen, Acquire, TypeOK
  <2>2. streams' \subseteq Streams
    BY <1>1 DEF StreamOpen, TypeOK
  <2> QED BY <1>0, <1>1, <2>1, <2>2 DEF StreamOpen, TypeOK, dongleVars, gattVars
<1>2. CASE StreamRefused(s)
  <2>1. HasCommand(rpc')
    BY <1>0, <1>2, ReleaseCommand DEF StreamRefused
  <2> QED BY <1>0, <1>2, <2>1, ReleaseType
          DEF StreamRefused, TypeOK, Handlers, PendingMaps, DiscoverMaps, hostIdle,
              dongleVars, gattVars
<1>3. CASE StreamClose(s)
  <2>1. HasCommand(rpc')
    BY <1>0, <1>3, ReleaseCommand DEF StreamClose
  <2> QED BY <1>0, <1>3, <2>1, ReleaseType
          DEF StreamClose, TypeOK, Handlers, PendingMaps, DiscoverMaps, dongleVars, gattVars
<1> QED BY <1>1, <1>2, <1>3 DEF Streaming

LEMMA ReaderTyped ==
    ASSUME Typed, ReaderLoop \/ ReaderDies
    PROVE  Typed'
<1> USE DEF Typed
<1>1. CASE ReaderLoop
  <2>1. loopq' \in Seq(Lines) /\ wireIn' \in Seq(Lines)
    BY <1>1 DEF ReaderLoop, TypeOK
  <2> QED BY <1>1, <2>1 DEF ReaderLoop, TypeOK, dongleVars, gattVars
<1>2. CASE ReaderDies
  BY <1>2 DEF ReaderDies, TypeOK, hostIdle, dongleVars, gattVars
<1> QED BY <1>1, <1>2

(* A response line changes the handlers only by completing a future.       *)
LEMMA ResultWitness ==
    ASSUME TypeOK, NEW l \in Lines, HandleRsp(l)
    PROVE  UNCHANGED rpc \/ \E i \in Nat, res \in Results : Resolve(i, res)
BY HandleRspResults DEF Lines, Requests

LEMMA HandleLineTyped ==
    ASSUME Typed, HandleLine
    PROVE  Typed'
<1> USE DEF Typed
<1>1. Head(loopq) \in Lines /\ loopq' \in Seq(Lines)
  BY DEF HandleLine, TypeOK
<1>2. rpc' \in Handlers /\ pending' \in PendingMaps /\ discover' \in DiscoverMaps
  BY <1>1, HandleRspType, HandlePartsType DEF HandleLine
<1>3. ASSUME NEW r \in Rpcs
      PROVE  rpc'[r].cmd = rpc[r].cmd /\ (rpc'[r].pc # "idle" => rpc[r].pc # "idle")
  <2>1. UNCHANGED rpc \/ \E i \in Nat, res \in Results : Resolve(i, res)
    <3>1. CASE HandleDiscoverParts(Head(loopq))
      BY <3>1 DEF HandleDiscoverParts
    <3>2. CASE HandleRsp(Head(loopq))
      BY <1>1, <3>2, ResultWitness
    <3> QED BY <3>1, <3>2 DEF HandleLine
  <2>2. CASE UNCHANGED rpc
    BY <2>2
  <2>3. CASE \E i \in Nat, res \in Results : Resolve(i, res)
    <3>1. PICK i \in Nat, res \in Results : Resolve(i, res)
      BY <2>3
    <3>2. rpc[r] \in [pc : Pcs, cmd : AllCommands \cup {"none"}, id : Nat,
                      tries : Nat, fut : Results]
      BY DEF TypeOK
    <3> QED BY <3>1, <3>2 DEF Resolve, Waits
  <2> QED BY <2>1, <2>2, <2>3
<1>4. HasCommand(rpc')
  BY <1>3 DEF HasCommand
<1> QED BY <1>1, <1>2, <1>4
        DEF HandleLine, TypeOK, Handlers, PendingMaps, DiscoverMaps, dongleVars, gattVars

LEMMA DongleTyped ==
    ASSUME Typed, Dongle
    PROVE  Typed'
<1> USE DEF Typed
<1>0. ASSUME NEW q \in Requests, NEW t \in Tags, NEW n \in Nat
      PROVE  Line(q, t, n) \in Lines
  BY DEF Line, Lines
<1>1. CASE DongleTakes
  <2>1. wireOut' \in Seq(Requests) /\ Head(wireOut) \in Requests
    BY <1>1 DEF DongleTakes, TypeOK
  <2>2. job' = Working(Head(wireOut), -1)
    BY <1>1 DEF DongleTakes
  <2>3. job' \in Jobs
    BY <2>1, <2>2 DEF Working, Jobs
  <2> QED BY <1>1, <2>1, <2>3 DEF DongleTakes, TypeOK, Jobs, hostVars, gattVars
<1>2. CASE DongleOverruns
  <2>1. wireOut' \in Seq(Requests)
    BY <1>2 DEF DongleOverruns, TypeOK
  <2> QED BY <1>2, <2>1 DEF DongleOverruns, TypeOK, hostVars, gattVars
<1>3. ASSUME job # Idle
      PROVE  job.req \in Requests /\ job.sent \in Nat \cup {-1}
  BY <1>3 DEF TypeOK, Idle
<1>4. CASE DongleAnswers
  <2>1. PICK t \in {"READ", "OK"} : wireIn' = wireIn \o <<Line(job.req, t, 0)>>
    BY <1>4 DEF DongleAnswers, Says
  <2>2. Line(job.req, t, 0) \in Lines
    BY <1>0, <1>3, <1>4 DEF DongleAnswers, Tags
  <2>3. wireIn' \in Seq(Lines)
    BY <2>1, <2>2 DEF TypeOK
  <2>4. stray' \in BOOLEAN
    BY <1>4 DEF DongleAnswers, TypeOK
  <2> QED BY <1>4, <2>3, <2>4 DEF DongleAnswers, TypeOK, Jobs, hostVars
<1>5. CASE DongleFails
  <2> DEFINE err == Line(job.req, "ERR", 0)
  <2>1. wireIn' = wireIn \o <<err>> \/ wireIn' = wireIn \o <<err, err>>
    BY <1>5 DEF DongleFails, Says
  <2>2. err \in Lines
    BY <1>0, <1>3, <1>5 DEF DongleFails, Tags
  <2>3. wireIn' \in Seq(Lines)
    <3> HIDE DEF err
    <3>1. <<err>> \in Seq(Lines) /\ <<err, err>> \in Seq(Lines)
      BY <2>2
    <3>2. wireIn \in Seq(Lines)
      BY DEF TypeOK
    <3>3. CASE wireIn' = wireIn \o <<err>>
      BY <3>1, <3>2, <3>3
    <3>4. CASE wireIn' = wireIn \o <<err, err>>
      BY <3>1, <3>2, <3>4, ConcatType
    <3> QED BY <2>1, <3>3, <3>4
  <2>4. stray' \in BOOLEAN
    BY <1>5 DEF DongleFails, TypeOK
  <2> QED BY <1>5, <2>3, <2>4 DEF DongleFails, TypeOK, Jobs, hostVars
<1>6. CASE DongleDiscovers
  <2>1. PICK t \in {"BEGIN", "PART", "END"}, n \in Nat :
             wireIn' = wireIn \o <<Line(job.req, t, n)>>
    <3>1. job.sent \in Nat \cup {-1}
      BY <1>3, <1>6 DEF DongleDiscovers
    <3>2. CASE wireIn' = wireIn \o <<Line(job.req, "BEGIN", 0)>>
      BY <3>2
    <3>3. CASE job.sent >= 0 /\ wireIn' = wireIn \o <<Line(job.req, "PART", job.sent + 1)>>
      <4>1. job.sent + 1 \in Nat
        BY <3>1, <3>3
      <4> QED BY <3>3, <4>1
    <3>4. CASE job.sent >= 0 /\ wireIn' = wireIn \o <<Line(job.req, "END", job.sent)>>
      BY <3>1, <3>4
    <3> QED BY <1>6, <3>2, <3>3, <3>4 DEF DongleDiscovers, Says
  <2>2. Line(job.req, t, n) \in Lines
    BY <1>0, <1>3, <1>6 DEF DongleDiscovers, Tags
  <2>3. wireIn' \in Seq(Lines)
    BY <2>1, <2>2 DEF TypeOK
  <2>4. job' \in Jobs
    <3>1. job \in [state : {"busy"}, req : Requests, sent : Nat \cup {-1}]
      BY <1>6 DEF DongleDiscovers, TypeOK
    <3>2. \/ job' = [job EXCEPT !.sent = 0]
          \/ job.sent >= 0 /\ job' = [job EXCEPT !.sent = job.sent + 1]
          \/ job' = Idle
      BY <1>6, <3>1 DEF DongleDiscovers
    <3>3. job.sent >= 0 => job.sent + 1 \in Nat
      BY <3>1
    <3> QED BY <3>1, <3>2, <3>3 DEF Jobs
  <2>5. discReq' \subseteq Requests /\ room' \in Nat
    BY <1>3, <1>6, BoundsAssumption DEF DongleDiscovers, TypeOK
  <2> QED BY <1>6, <2>3, <2>4, <2>5 DEF DongleDiscovers, TypeOK, Jobs, hostVars
<1>7. CASE DongleStrayLine
  <2>1. PICK q \in discReq : wireIn' = wireIn \o <<Line(q, "PART", 0)>>
    BY <1>7 DEF DongleStrayLine, Says
  <2>2. Line(q, "PART", 0) \in Lines
    BY <1>0 DEF Tags, TypeOK
  <2>3. wireIn' \in Seq(Lines)
    BY <2>1, <2>2 DEF TypeOK
  <2>4. room' \in Nat
    BY <1>7 DEF DongleStrayLine, TypeOK
  <2> QED BY <1>7, <2>3, <2>4 DEF DongleStrayLine, TypeOK, hostVars
<1>8. CASE DongleStrayEnds
  BY <1>8 DEF DongleStrayEnds, TypeOK, hostVars
<1> QED BY <1>1, <1>2, <1>4, <1>5, <1>6, <1>7, <1>8 DEF Dongle

LEMMA TypedStep == Typed /\ [Next]_vars => Typed'
<1> SUFFICES ASSUME Typed, [Next]_vars PROVE Typed'
  OBVIOUS
<1>1. CASE Unplug
  <2>1. wireOut' \in Seq(Requests) /\ wireIn' \in Seq(Lines) /\ job' \in Jobs
    BY <1>1 DEF Unplug, Jobs
  <2>2. ser' \in {"closed", "open", "broken"} /\ plugged' \in BOOLEAN
    BY <1>1 DEF Unplug, Typed, TypeOK
  <2> QED BY <1>1, <2>1, <2>2 DEF Typed, Unplug, TypeOK, Jobs
<1>2. CASE Plug
  BY <1>2 DEF Typed, Plug, TypeOK, hostVars, gattVars
<1>3. CASE Restart
  <2>1. rpc' \in Handlers /\ HasCommand(rpc')
    BY <1>3, IdleRpcType DEF Restart, Handlers, HasCommand, IdleRpc
  <2>2. wireIn' \in Seq(Lines)
    <3>1. wireIn' \in {wireIn, <<>>}
      BY <1>3 DEF Restart, PortClosed
    <3>2. wireIn \in Seq(Lines) /\ <<>> \in Seq(Lines)
      BY DEF Typed, TypeOK
    <3> QED BY <3>1, <3>2
  <2> QED BY <1>3, <2>1, <2>2 DEF Typed, Restart, TypeOK, Handlers, dongleVars, gattVars
<1>4. CASE UNCHANGED vars
  BY <1>4 DEF Typed, TypeOK, vars
<1> QED BY <1>1, <1>2, <1>3, <1>4, HandlerTyped, StreamTyped, ReaderTyped,
           HandleLineTyped, DongleTyped DEF Next

(* Every behaviour of the backend keeps its state well typed: in           *)
(* particular ids, counts and the number of attempts left never go         *)
(* negative (zephyr_serial_backend.py:103, grpc_server.py:178).            *)
THEOREM TypeCorrect == Spec => []TypeOK
<1>1. Spec => []Typed
  BY TypedInit, TypedStep, PTL DEF Spec
<1>2. Typed => TypeOK
  BY DEF Typed
<1> QED BY <1>1, <1>2, PTL

-----------------------------------------------------------------------------
(* The port is shared safely. *)

UsersOf(rs, st) == {r \in Rpcs : rs[r].pc # "idle"} \cup st

Counted(n, U) == Cardinality(U) <= n /\ n <= Cardinality(U) + 1

ClosedWhenFree == refcount = 0 => ser = "closed" /\ reader = "none" /\ pending = {}

NotStopped(rs) == \A r \in Rpcs : rs[r].fut.tag # "stopped"

(* The inductive invariant: the reference count bounds the users, the port *)
(* is closed when the count is zero, and no future was failed by _stop.    *)
ShareInv ==
    /\ Typed
    /\ Counted(refcount, UsersOf(rpc, streams))
    /\ ClosedWhenFree
    /\ NotStopped(rpc)

LEMMA UsersFinite ==
    ASSUME NEW rs, NEW st \in SUBSET Streams
    PROVE  IsFiniteSet(UsersOf(rs, st)) /\ Cardinality(UsersOf(rs, st)) \in Nat
<1>1. IsFiniteSet(Rpcs \cup Streams)
  BY RpcsFinite, StreamsFinite, FS_Union
<1>2. UsersOf(rs, st) \in SUBSET (Rpcs \cup Streams)
  BY DEF UsersOf
<1>3. IsFiniteSet(UsersOf(rs, st))
  BY <1>1, <1>2, FS_Subset
<1> QED BY <1>3, FS_CardinalityType

LEMMA SomeUser ==
    ASSUME NEW rs, NEW st \in SUBSET Streams, NEW u \in UsersOf(rs, st), NEW n \in Nat,
           Counted(n, UsersOf(rs, st))
    PROVE  n > 0
<1>1. Cardinality(UsersOf(rs, st)) # 0
  BY UsersFinite, FS_EmptySet
<1> QED BY <1>1, UsersFinite DEF Counted

(* release() keeps the invariant when the handlers it is given have one    *)
(* reference too many counted.                                             *)
LEMMA ReleaseShares ==
    ASSUME Typed, NEW n \in Nat, NEW rs \in Handlers, NEW st \in SUBSET Streams,
           NEW pend, NEW disc,
           NotStopped(rs), Counted(Left(n), UsersOf(rs, st)),
           Release(n, rs, pend, disc), streams' = st
    PROVE  /\ Counted(refcount', UsersOf(rpc', streams'))
           /\ ClosedWhenFree'
           /\ NotStopped(rpc')
<1>1. Left(n) \in Nat /\ refcount' = Left(n)
  BY DEF Left, Release
<1>2. CASE Left(n) = 0
  <2>1. UsersOf(rs, st) = {}
    <3>1. Cardinality(UsersOf(rs, st)) = 0
      BY <1>2, UsersFinite DEF Counted
    <3> QED BY <3>1, UsersFinite, FS_EmptySet
  <2>2. ASSUME NEW r \in Rpcs PROVE rs[r].pc # "waiting"
    BY <2>1 DEF UsersOf
  <2>3. ASSUME NEW r \in Rpcs PROVE rpc'[r] = rs[r]
    BY <1>2, <2>2 DEF Release, Stop
  <2>5. UsersOf(rpc', streams') = UsersOf(rs, st)
    BY <2>3 DEF UsersOf
  <2>6. NotStopped(rpc')
    BY <2>3 DEF NotStopped
  <2>7. ClosedWhenFree'
    BY <1>2 DEF Release, Stop, ClosedWhenFree
  <2> QED BY <1>1, <2>5, <2>6, <2>7
<1>3. CASE Left(n) # 0
  <2>1. rpc' = rs
    BY <1>3 DEF Release
  <2> QED BY <1>1, <1>3, <2>1 DEF ClosedWhenFree
<1> QED BY <1>2, <1>3

(* A user that leaves takes one reference along. *)
LEMMA OneUserLess ==
    ASSUME NEW n \in Nat, NEW U, IsFiniteSet(U), NEW u \in U, Counted(n, U)
    PROVE  Counted(Left(n), U \ {u})
<1>1. Cardinality(U) \in Nat /\ Cardinality(U \ {u}) = Cardinality(U) - 1
  BY FS_CardinalityType, FS_RemoveElement
<1>2. Cardinality(U) # 0
  BY FS_EmptySet
<1>3. Cardinality(U) <= n /\ n <= Cardinality(U) + 1
  BY DEF Counted
<1>4. Left(n) = n - 1
  BY <1>1, <1>2, <1>3 DEF Left
<1> QED BY <1>1, <1>3, <1>4 DEF Counted

LEMMA OneUserMore ==
    ASSUME NEW n \in Nat, NEW U, IsFiniteSet(U), NEW u, u \notin U, Counted(n, U)
    PROVE  Counted(n + 1, U \cup {u})
<1>1. Cardinality(U) \in Nat /\ Cardinality(U \cup {u}) = Cardinality(U) + 1
  BY FS_CardinalityType, FS_AddElement
<1> QED BY <1>1 DEF Counted

LEMMA EndedUsers ==
    ASSUME ShareInv, NEW r \in Rpcs
    PROVE  /\ NotStopped(Ended(r))
           /\ rpc[r].pc # "idle" => /\ r \in UsersOf(rpc, streams)
                                    /\ UsersOf(Ended(r), streams) = UsersOf(rpc, streams) \ {r}
           /\ rpc[r].pc = "idle" => UsersOf(Ended(r), streams) = UsersOf(rpc, streams)
<1>1. Ended(r) \in Handlers /\ rpc \in Handlers
  BY EndedType DEF ShareInv, Typed, TypeOK, Handlers
<1>2. ASSUME NEW q \in Rpcs
      PROVE  /\ q # r => Ended(r)[q] = rpc[q]
             /\ q = r => Ended(r)[q] = IdleRpc
  BY <1>1 DEF Ended, Handlers
<1>3. r \notin streams
  BY RpcsAreNotStreams DEF ShareInv, Typed, TypeOK
<1>4. NotStopped(Ended(r))
  BY <1>2 DEF NotStopped, ShareInv, IdleRpc, NoResult
<1>5. UsersOf(Ended(r), streams) = UsersOf(rpc, streams) \ {r}
  BY <1>2, <1>3 DEF UsersOf, IdleRpc
<1>6. rpc[r].pc # "idle" <=> r \in UsersOf(rpc, streams)
  BY <1>3 DEF UsersOf
<1> QED BY <1>4, <1>5, <1>6

LEMMA FinishShares ==
    ASSUME ShareInv, NEW r \in Rpcs, rpc[r].pc # "idle", NEW pend, NEW disc,
           Release(refcount, Ended(r), pend, disc), UNCHANGED streams
    PROVE  /\ Counted(refcount', UsersOf(rpc', streams'))
           /\ ClosedWhenFree'
           /\ NotStopped(rpc')
<1>1. Typed /\ refcount \in Nat /\ streams \in SUBSET Streams /\ Ended(r) \in Handlers
  BY EndedType DEF ShareInv, Typed, TypeOK
<1>2. Counted(Left(refcount), UsersOf(Ended(r), streams))
  BY <1>1, EndedUsers, UsersFinite, OneUserLess DEF ShareInv
<1> QED BY <1>1, <1>2, EndedUsers, ReleaseShares

(* acquire() and release() within one step, by a handler that was idle.    *)
LEMMA VisitShares ==
    ASSUME ShareInv, NEW r \in Rpcs, rpc[r].pc = "idle",
           Release(refcount + 1, Ended(r), pending, discover), UNCHANGED streams
    PROVE  /\ Counted(refcount', UsersOf(rpc', streams'))
           /\ ClosedWhenFree'
           /\ NotStopped(rpc')
<1>1. Typed /\ refcount + 1 \in Nat /\ streams \in SUBSET Streams /\ Ended(r) \in Handlers
  BY EndedType DEF ShareInv, Typed, TypeOK
<1>2. Left(refcount + 1) = refcount
  BY DEF Left, ShareInv, Typed, TypeOK
<1> QED BY <1>1, <1>2, EndedUsers, ReleaseShares DEF ShareInv

LEMMA SendUsers ==
    ASSUME ShareInv, NEW r \in Rpcs, NEW c, NEW tries, NEW pend, NEW disc,
           Send(r, c, tries, pend, disc), UNCHANGED streams
    PROVE  /\ UsersOf(rpc', streams') = UsersOf(rpc, streams) \cup {r}
           /\ NotStopped(rpc')
<1>1. rpc \in Handlers
  BY DEF ShareInv, Typed, TypeOK, Handlers
<1>2. ASSUME NEW q \in Rpcs
      PROVE  /\ q # r => rpc'[q] = rpc[q]
             /\ q = r => rpc'[q].pc = "waiting" /\ rpc'[q].fut = NoResult
  BY <1>1 DEF Send, Handlers
<1>3. NotStopped(rpc')
  BY <1>2 DEF NotStopped, ShareInv, NoResult
<1>4. UsersOf(rpc', streams') = UsersOf(rpc, streams) \cup {r}
  BY <1>2 DEF UsersOf
<1> QED BY <1>3, <1>4

LEMMA AttemptFailedShares ==
    ASSUME ShareInv, NEW r \in Rpcs, rpc[r].pc # "idle", NEW pend, NEW disc,
           AttemptFailed(r, pend, disc), UNCHANGED streams
    PROVE  /\ Counted(refcount', UsersOf(rpc', streams'))
           /\ ClosedWhenFree'
           /\ NotStopped(rpc')
<1>1. CASE /\ Send(r, rpc[r].cmd, rpc[r].tries - 1, pend, disc)
           /\ UNCHANGED <<refcount, ser, reader, wireIn>>
  <2>1. r \in UsersOf(rpc, streams)
    BY EndedUsers
  <2>2. UsersOf(rpc', streams') = UsersOf(rpc, streams) /\ NotStopped(rpc')
    BY <1>1, <2>1, SendUsers
  <2>3. refcount \in Nat /\ streams \in SUBSET Streams
    BY DEF ShareInv, Typed, TypeOK
  <2>4. refcount > 0
    BY <2>1, <2>3, SomeUser DEF ShareInv
  <2> QED BY <1>1, <2>2, <2>3, <2>4 DEF ShareInv, ClosedWhenFree
<1>2. CASE Release(refcount, Ended(r), pend, disc)
  BY <1>2, FinishShares
<1> QED BY <1>1, <1>2 DEF AttemptFailed, Finish

LEMMA HandlerShares ==
    ASSUME ShareInv, NEW r \in Rpcs, Handler(r)
    PROVE  ShareInv'
<1>0. Typed'
  BY HandlerTyped DEF ShareInv
<1> SUFFICES /\ Counted(refcount', UsersOf(rpc', streams'))
             /\ ClosedWhenFree'
             /\ NotStopped(rpc')
  BY <1>0 DEF ShareInv
<1>1. ASSUME NEW c \in Commands, Call(r, c)
      PROVE  /\ Counted(refcount', UsersOf(rpc', streams'))
             /\ ClosedWhenFree'
             /\ NotStopped(rpc')
  <2>1. rpc[r].pc = "idle" /\ UNCHANGED streams /\ refcount' = refcount + 1
        /\ Send(r, c, Attempts(c), pending, discover)
    BY <1>1 DEF Call, hostIdle
  <2>2. refcount \in Nat /\ streams \in SUBSET Streams /\ r \notin streams
    BY RpcsAreNotStreams DEF ShareInv, Typed, TypeOK
  <2>3. r \notin UsersOf(rpc, streams)
    BY <2>1, <2>2 DEF UsersOf
  <2>4. Counted(refcount + 1, UsersOf(rpc, streams) \cup {r})
    BY <2>2, <2>3, UsersFinite, OneUserMore DEF ShareInv
  <2> QED BY <2>1, <2>2, <2>4, SendUsers DEF ClosedWhenFree
<1>2. ASSUME NEW c \in Commands, CallCannotWrite(r, c)
      PROVE  /\ Counted(refcount', UsersOf(rpc', streams'))
             /\ ClosedWhenFree'
             /\ NotStopped(rpc')
  BY <1>2, VisitShares DEF CallCannotWrite, hostIdle
<1>3. ASSUME NEW c \in Commands, CallRaises(r, c)
      PROVE  /\ Counted(refcount', UsersOf(rpc', streams'))
             /\ ClosedWhenFree'
             /\ NotStopped(rpc')
  <2>1. refcount = 0 /\ refcount' = 1 /\ rpc' = Ended(r) /\ streams' = streams
        /\ rpc[r].pc = "idle"
    BY <1>3 DEF CallRaises, CanStart, hostIdle, ShareInv, Typed, TypeOK
  <2>2. UsersOf(rpc', streams') = UsersOf(rpc, streams) /\ NotStopped(rpc')
    BY <2>1, EndedUsers
  <2>3. Cardinality(UsersOf(rpc, streams)) \in Nat
    BY UsersFinite DEF ShareInv, Typed, TypeOK
  <2>4. Counted(1, UsersOf(rpc, streams))
    BY <2>1, <2>3 DEF ShareInv, Counted
  <2> QED BY <2>1, <2>2, <2>4 DEF ClosedWhenFree
<1>4. CASE DiscoverTooLate(r)
  BY <1>4, VisitShares DEF DiscoverTooLate, hostIdle
<1>5. CASE Wake(r)
  BY <1>5, FinishShares, AttemptFailedShares DEF Wake, Finish, hostIdle
<1>6. CASE Timeout(r)
  BY <1>6, AttemptFailedShares DEF Timeout, hostIdle
<1>7. CASE Cancel(r)
  BY <1>7, FinishShares DEF Cancel, Finish, hostIdle
<1> QED BY <1>1, <1>2, <1>3, <1>4, <1>5, <1>6, <1>7 DEF Handler

LEMMA StreamShares ==
    ASSUME ShareInv, NEW s \in Streams, Streaming(s)
    PROVE  ShareInv'
<1>0. Typed'
  BY StreamTyped DEF ShareInv
<1> SUFFICES /\ Counted(refcount', UsersOf(rpc', streams'))
             /\ ClosedWhenFree'
             /\ NotStopped(rpc')
  BY <1>0 DEF ShareInv
<1>1. /\ refcount \in Nat /\ refcount + 1 \in Nat
      /\ streams \in SUBSET Streams /\ rpc \in Handlers /\ s \notin Rpcs
  BY RpcsAreNotStreams DEF ShareInv, Typed, TypeOK, Handlers
<1>2. IsFiniteSet(UsersOf(rpc, streams))
  BY <1>1, UsersFinite
<1>3. CASE StreamOpen(s)
  <2>1. s \notin UsersOf(rpc, streams)
    BY <1>1, <1>3 DEF StreamOpen, UsersOf
  <2>2. UsersOf(rpc', streams') = UsersOf(rpc, streams) \cup {s}
    BY <1>3 DEF StreamOpen, UsersOf
  <2>3. Counted(refcount + 1, UsersOf(rpc, streams) \cup {s})
    BY <1>1, <1>2, <2>1, OneUserMore DEF ShareInv
  <2>4. rpc' = rpc /\ refcount' = refcount + 1
    BY <1>3 DEF StreamOpen
  <2>5. refcount' # 0
    BY <1>1, <2>4
  <2>6. NotStopped(rpc')
    BY <2>4 DEF ShareInv
  <2> QED BY <2>2, <2>3, <2>4, <2>5, <2>6 DEF ClosedWhenFree
<1>4. CASE StreamRefused(s)
  <2>1. Left(refcount + 1) = refcount
    BY <1>1 DEF Left
  <2>2. Typed /\ NotStopped(rpc) /\ Counted(Left(refcount + 1), UsersOf(rpc, streams))
    BY <2>1 DEF ShareInv
  <2>3. Release(refcount + 1, rpc, pending, discover) /\ streams' = streams
    BY <1>4 DEF StreamRefused, hostIdle
  <2> QED BY <1>1, <2>2, <2>3, ReleaseShares
<1>5. CASE StreamClose(s)
  <2>1. s \in UsersOf(rpc, streams)
    BY <1>5 DEF StreamClose, UsersOf
  <2>2. UsersOf(rpc, streams \ {s}) = UsersOf(rpc, streams) \ {s}
    BY <1>1 DEF UsersOf
  <2>3. Counted(Left(refcount), UsersOf(rpc, streams \ {s}))
    BY <1>1, <1>2, <2>1, <2>2, OneUserLess DEF ShareInv
  <2>4. streams \ {s} \in SUBSET Streams /\ Typed /\ NotStopped(rpc)
    BY <1>1 DEF ShareInv
  <2>5. Release(refcount, rpc, pending, discover) /\ streams' = streams \ {s}
    BY <1>5 DEF StreamClose
  <2> QED BY <1>1, <2>3, <2>4, <2>5, ReleaseShares
<1> QED BY <1>3, <1>4, <1>5 DEF Streaming

LEMMA HandleLineShares ==
    ASSUME ShareInv, HandleLine
    PROVE  ShareInv'
<1>0. Typed'
  BY HandleLineTyped DEF ShareInv
<1>1. Head(loopq) \in Lines /\ rpc \in Handlers
  BY DEF HandleLine, ShareInv, Typed, TypeOK, Handlers
<1>2. TypeOK
  BY DEF ShareInv, Typed
<1>3. CASE UNCHANGED <<rpc, pending>>
  BY <1>0, <1>3 DEF HandleLine, ShareInv, ClosedWhenFree
<1>4. CASE \E res \in Results :
              /\ res.tag # "stopped"
              /\ Resolve(Head(loopq).req.id, res)
              /\ pending' = Pop(pending, Head(loopq).req.id)
  <2>1. PICK res \in Results :
              /\ res.tag # "stopped"
              /\ Resolve(Head(loopq).req.id, res)
              /\ pending' = Pop(pending, Head(loopq).req.id)
    BY <1>4
  <2>2. ASSUME NEW r \in Rpcs
        PROVE  /\ rpc'[r].pc # "idle" <=> rpc[r].pc # "idle"
               /\ rpc'[r].fut.tag # "stopped"
    <3>1. rpc[r] \in [pc : Pcs, cmd : AllCommands \cup {"none"}, id : Nat,
                      tries : Nat, fut : Results]
      BY <1>1 DEF Handlers
    <3>2. rpc[r].fut.tag # "stopped"
      BY DEF ShareInv, NotStopped
    <3> QED BY <2>1, <3>1, <3>2 DEF Resolve, Waits
  <2>3. streams' = streams /\ refcount' = refcount /\ ser' = ser /\ reader' = reader
    BY DEF HandleLine
  <2>4. UsersOf(rpc', streams') = UsersOf(rpc, streams) /\ NotStopped(rpc')
    BY <2>2, <2>3 DEF UsersOf, NotStopped
  <2>5. pending = {} => pending' = {}
    BY <2>1 DEF Pop
  <2> QED BY <1>0, <2>3, <2>4, <2>5 DEF ShareInv, ClosedWhenFree
<1>5. CASE HandleRsp(Head(loopq))
  <2>1. \/ UNCHANGED <<rpc, pending>>
        \/ \E res \in Results :
              /\ res.tag # "stopped"
              /\ Resolve(Head(loopq).req.id, res)
              /\ pending' = Pop(pending, Head(loopq).req.id)
    BY <1>1, <1>2, <1>5, HandleRspResults
  <2> QED BY <1>3, <1>4, <2>1
<1>6. CASE HandleDiscoverParts(Head(loopq))
  BY <1>3, <1>6 DEF HandleDiscoverParts
<1> QED BY <1>5, <1>6 DEF HandleLine

LEMMA ShareInit == Init => ShareInv
<1> SUFFICES ASSUME Init PROVE ShareInv
  OBVIOUS
<1>1. UsersOf(rpc, streams) = {}
  BY DEF Init, UsersOf, IdleRpc
<1>2. Counted(refcount, UsersOf(rpc, streams))
  <2>1. Cardinality(UsersOf(rpc, streams)) = 0 /\ refcount = 0
    BY <1>1, FS_EmptySet DEF Init
  <2> QED BY <2>1 DEF Counted
<1>3. ClosedWhenFree /\ NotStopped(rpc)
  BY DEF Init, ClosedWhenFree, NotStopped, IdleRpc, NoResult
<1> QED BY <1>2, <1>3, TypedInit DEF ShareInv

LEMMA ShareStep == ShareInv /\ [Next]_vars => ShareInv'
<1> SUFFICES ASSUME ShareInv, [Next]_vars PROVE ShareInv'
  OBVIOUS
<1>0. Typed'
  BY TypedStep DEF ShareInv
<1>1. CASE ReaderLoop \/ ReaderDies
  BY <1>0, <1>1 DEF ReaderLoop, ReaderDies, ShareInv, ClosedWhenFree, hostIdle
<1>2. CASE Dongle
  BY <1>0, <1>2 DEF Dongle, DongleTakes, DongleOverruns, DongleAnswers, DongleFails,
                    DongleDiscovers, DongleStrayLine, DongleStrayEnds, hostVars, ShareInv,
                    ClosedWhenFree
<1>3. CASE Unplug \/ Plug
  BY <1>0, <1>3 DEF Unplug, Plug, hostVars, ShareInv, ClosedWhenFree
<1>4. CASE Restart
  <2>1. UsersOf(rpc', streams') = {}
    BY <1>4 DEF Restart, UsersOf, IdleRpc
  <2>2. Counted(refcount', UsersOf(rpc', streams'))
    BY <1>4, <2>1, FS_EmptySet DEF Restart, Counted
  <2>3. ClosedWhenFree' /\ NotStopped(rpc')
    BY <1>4 DEF Restart, ClosedWhenFree, NotStopped, IdleRpc, NoResult
  <2> QED BY <1>0, <2>2, <2>3 DEF ShareInv
<1>5. CASE UNCHANGED vars
  BY <1>0, <1>5 DEF vars, ShareInv, ClosedWhenFree
<1> QED BY <1>1, <1>2, <1>3, <1>4, <1>5, HandlerShares, StreamShares, HandleLineShares DEF Next

LEMMA ShareInvariant == Spec => []ShareInv
BY ShareInit, ShareStep, PTL DEF Spec

LEMMA UsersAreUsersOf == Users = UsersOf(rpc, streams)
BY DEF Users, Active, UsersOf

(* However many handlers and streams share the backend, release() never    *)
(* closes the port under one of them (zephyr_serial_backend.py:101-105).   *)
THEOREM PortIsShared == Spec => []NoUserStopped
<1>1. ShareInv => NoUserStopped
  BY DEF ShareInv, NotStopped, NoUserStopped
<1> QED BY <1>1, ShareInvariant, PTL

(* With no reference left the port is closed, the reader thread is gone    *)
(* and _pending is empty (zephyr_serial_backend.py:131-153).               *)
THEOREM IdleIsClean == Spec => []IdleClean
<1>1. ShareInv => IdleClean
  <2> SUFFICES ASSUME ShareInv, refcount = 0 PROVE Users = {}
    BY DEF ShareInv, ClosedWhenFree, IdleClean
  <2>1. Cardinality(UsersOf(rpc, streams)) = 0
    BY UsersFinite DEF ShareInv, Counted, Typed, TypeOK
  <2> QED BY <2>1, UsersFinite, FS_EmptySet, UsersAreUsersOf DEF ShareInv, Typed, TypeOK
<1> QED BY <1>1, ShareInvariant, PTL

(* The reference count is the number of users, or one more: a failed first *)
(* acquire() leaves one reference behind and never a second                *)
(* (zephyr_serial_backend.py:92-99).                                       *)
THEOREM CountIsBounded == Spec => []UsersCounted
<1>1. ShareInv => UsersCounted
  BY UsersAreUsersOf DEF ShareInv, Counted, UsersCounted
<1> QED BY <1>1, ShareInvariant, PTL

-----------------------------------------------------------------------------
(* Every handler gets its own answer, and the whole of it. *)

(* The answer lines on their way to the handlers, oldest first.            *)
Stream == loopq \o wireIn

(* The requests that are still written, executed or answered, and the one  *)
(* whose id a stray line would carry.                                      *)
Carried ==
    {wireOut[k] : k \in DOMAIN wireOut}
      \cup {j.req : j \in {job} \ {Idle}}
      \cup {Stream[k].req : k \in DOMAIN Stream}
      \cup discReq

(* What handler r is waiting for, and what all of them are.                *)
Sought(r) == Request(epoch, rpc[r].id, r, rpc[r].cmd)

Awaited == {Sought(r) : r \in {s \in Rpcs : rpc[s].pc = "waiting"}}

(* No request on its way has an id that is still to be given.              *)
Past == \A q \in Carried : q.epoch < epoch \/ (q.epoch = epoch /\ q.id < nextId)

Numbered ==
    \A r \in Rpcs : rpc[r].pc # "idle" =>
        /\ rpc[r].id < nextId
        /\ \A s \in Rpcs : rpc[s].pc # "idle" /\ rpc[s].id = rpc[r].id => s = r

(* A request of this run of the process with the id of a running handler   *)
(* is the one that this handler wrote.                                     *)
Matching ==
    \A r \in Rpcs, q \in Carried :
        rpc[r].pc # "idle" /\ q.epoch = epoch /\ q.id = rpc[r].id => q = Sought(r)

(* _discover_state is a map. *)
OneEntry == \A d \in discover, e \in discover : d.id = e.id => d = e

(* After the first k lines of S the entry of q in _discover_state, which   *)
(* is D now, has n parts.                                                  *)
Collected(S, D, q, n, k) ==
    IF k = 0
    THEN [id |-> q.id, parts |-> n] \in D
    ELSE /\ S[k].req = q
         /\ \/ S[k].tag = "BEGIN" /\ n = 0
            \/ S[k].tag = "PART" /\ S[k].parts = n /\ n > 0

(* Not a stray line: those have the number 0. *)
InTurn(l) == l.tag = "END" \/ (l.tag = "PART" /\ l.parts > 0)

(* How many parts come before a PART or an END line. *)
PartsBefore(l) == IF l.tag = "END" THEN l.parts ELSE l.parts - 1

(* The lines of an awaited discovery follow each other without a gap ...   *)
LinesInOrder(A, S, D) ==
    \A q \in A, k \in DOMAIN S :
        S[k].req = q /\ InTurn(S[k])
          => Collected(S, D, q, PartsBefore(S[k]), k - 1)

(* ... and the dongle goes on where the last of them stopped.              *)
JobInOrder(A, S, D, j) ==
    \A q \in A :
        j # Idle /\ j.req = q /\ j.sent >= 0 => Collected(S, D, q, j.sent, Len(S))

(* While a discovery runs every CHR line carries its id: what is stray     *)
(* counts for it, and no other discovery gets a line.                      *)
OnlyItsLines == job # Idle /\ job.sent >= 0 => discReq = {job.req}

(* The inductive invariant of OwnAnswer and DiscoverComplete.              *)
AnswerInv ==
    /\ ShareInv
    /\ Past
    /\ Numbered
    /\ Matching
    /\ OneEntry
    /\ LinesInOrder(Awaited, Stream, discover)
    /\ JobInOrder(Awaited, Stream, discover, job)
    /\ OnlyItsLines
    /\ OwnAnswer
    /\ DiscoverComplete

LEMMA StreamIsSeq ==
    ASSUME TypeOK
    PROVE  /\ Stream \in Seq(Lines)
           /\ Len(Stream) = Len(loopq) + Len(wireIn)
           /\ Len(Stream) \in Nat
           /\ DOMAIN Stream = 1..Len(Stream)
<1>1. loopq \in Seq(Lines) /\ wireIn \in Seq(Lines)
  BY DEF TypeOK
<1> QED BY <1>1, ConcatProperties, LenProperties DEF Stream

LEMMA HandlerFields ==
    ASSUME TypeOK, NEW r \in Rpcs
    PROVE  /\ rpc[r].id \in Nat /\ rpc[r].pc \in Pcs
           /\ rpc[r] \in [pc : Pcs, cmd : AllCommands \cup {"none"}, id : Nat,
                          tries : Nat, fut : Results]
BY DEF TypeOK

LEMMA CarriedTyped ==
    ASSUME TypeOK, NEW q \in Carried
    PROVE  q \in Requests /\ q.epoch \in Nat /\ q.id \in Nat
<1>1. q \in Requests
  <2>1. CASE \E k \in DOMAIN wireOut : q = wireOut[k]
    BY <2>1 DEF TypeOK
  <2>2. CASE \E j \in {job} \ {Idle} : q = j.req
    BY <2>2 DEF TypeOK
  <2>3. CASE \E k \in DOMAIN Stream : q = Stream[k].req
    <3>1. PICK k \in DOMAIN Stream : q = Stream[k].req
      BY <2>3
    <3>2. Stream[k] \in Lines
      BY StreamIsSeq, ElementOfSeq
    <3> QED BY <3>1, <3>2 DEF Lines
  <2>4. CASE q \in discReq
    BY <2>4 DEF TypeOK
  <2> QED BY <2>1, <2>2, <2>3, <2>4 DEF Carried
<1> QED BY <1>1 DEF Requests

LEMMA SoughtFields ==
    ASSUME NEW r
    PROVE  Sought(r).epoch = epoch /\ Sought(r).id = rpc[r].id /\ Sought(r).rpc = r
BY DEF Sought, Request

(* With no reference left no handler runs. *)
LEMMA FreeIsIdle ==
    ASSUME NEW rs, NEW st \in SUBSET Streams, Counted(0, UsersOf(rs, st))
    PROVE  \A r \in Rpcs : rs[r].pc = "idle"
<1>1. Cardinality(UsersOf(rs, st)) = 0
  BY UsersFinite DEF Counted
<1>2. UsersOf(rs, st) = {}
  BY <1>1, UsersFinite, FS_EmptySet
<1> QED BY <1>2 DEF UsersOf

(* A step that leaves every handler alone or ends it, and puts no new      *)
(* request on the way.                                                     *)
LEMMA KeptAnswers ==
    ASSUME AnswerInv, TypeOK', epoch' = epoch, nextId <= nextId', Carried' \subseteq Carried,
           \A r \in Rpcs : rpc'[r] = rpc[r] \/ rpc'[r].pc = "idle"
    PROVE  /\ Past' /\ Numbered' /\ Matching' /\ OwnAnswer' /\ DiscoverComplete'
           /\ Awaited' \subseteq Awaited
<1>0. TypeOK /\ nextId \in Nat /\ nextId' \in Nat
  BY DEF AnswerInv, ShareInv, Typed, TypeOK
<1>1. Past'
  <2> SUFFICES ASSUME NEW q \in Carried'
               PROVE  q.epoch < epoch' \/ (q.epoch = epoch' /\ q.id < nextId')
    BY DEF Past
  <2>1. q \in Carried /\ q.id \in Nat
    BY <1>0, CarriedTyped
  <2> QED BY <1>0, <2>1 DEF AnswerInv, Past
<1>2. Numbered'
  <2> SUFFICES ASSUME NEW r \in Rpcs, rpc'[r].pc # "idle"
               PROVE  /\ rpc'[r].id < nextId'
                      /\ \A s \in Rpcs :
                           rpc'[s].pc # "idle" /\ rpc'[s].id = rpc'[r].id => s = r
    BY DEF Numbered
  <2>1. rpc'[r] = rpc[r] /\ rpc[r].id \in Nat
    BY <1>0, HandlerFields
  <2> QED BY <1>0, <2>1 DEF AnswerInv, Numbered
<1>3. Matching'
  BY DEF AnswerInv, Matching, Sought
<1>4. OwnAnswer' /\ DiscoverComplete'
  BY DEF AnswerInv, OwnAnswer, DiscoverComplete
<1>5. Awaited' \subseteq Awaited
  BY DEF Awaited, Sought
<1> QED BY <1>1, <1>2, <1>3, <1>4, <1>5

(* A step that leaves the lines and the dongle alone, drops at most one    *)
(* entry of _discover_state and awaits nothing that is on its way.         *)
LEMMA KeptOrder ==
    ASSUME AnswerInv, Stream' = Stream, job' = job, NEW i,
           discover' = discover \/ discover' = Pop(discover, i),
           \A q \in Awaited' : \/ q \notin Carried
                               \/ q \in Awaited /\ (discover' = discover \/ q.id # i)
    PROVE  /\ OneEntry'
           /\ LinesInOrder(Awaited, Stream, discover)'
           /\ JobInOrder(Awaited, Stream, discover, job)'
<1>1. OneEntry'
  BY DEF AnswerInv, OneEntry, Pop
<1>2. ASSUME NEW q \in Awaited', q \in Carried, NEW n, NEW k,
             Collected(Stream, discover, q, n, k)
      PROVE  Collected(Stream, discover', q, n, k)
  BY <1>2 DEF Collected, Pop
<1>3. LinesInOrder(Awaited', Stream, discover')
  <2> SUFFICES ASSUME NEW q \in Awaited', NEW k \in DOMAIN Stream,
                      Stream[k].req = q, InTurn(Stream[k])
               PROVE  Collected(Stream, discover', q, PartsBefore(Stream[k]), k - 1)
    BY DEF LinesInOrder
  <2>1. q \in Carried
    BY DEF Carried
  <2>2. q \in Awaited
    BY <2>1
  <2>3. Collected(Stream, discover, q, PartsBefore(Stream[k]), k - 1)
    BY <2>2 DEF AnswerInv, LinesInOrder
  <2> QED BY <1>2, <2>1, <2>3
<1>4. JobInOrder(Awaited', Stream, discover', job)
  <2> SUFFICES ASSUME NEW q \in Awaited', job # Idle, job.req = q, job.sent >= 0
               PROVE  Collected(Stream, discover', q, job.sent, Len(Stream))
    BY DEF JobInOrder
  <2>1. q \in Carried
    BY DEF Carried
  <2>2. q \in Awaited
    BY <2>1
  <2>3. Collected(Stream, discover, q, job.sent, Len(Stream))
    BY <2>2 DEF AnswerInv, JobInOrder
  <2> QED BY <1>2, <2>1, <2>3
<1> QED BY <1>1, <1>3, <1>4

(* _request puts a request with a fresh id on the way. *)
LEMMA SendAnswers ==
    ASSUME AnswerInv, ShareInv', NEW r \in Rpcs, NEW c \in AllCommands, NEW tries,
           NEW pend, NEW disc,
           disc = discover \/ (disc = Pop(discover, rpc[r].id) /\ rpc[r].pc # "idle"),
           Send(r, c, tries, pend, disc), UNCHANGED <<epoch, job, discReq, wireIn, loopq>>
    PROVE  AnswerInv'
<1> DEFINE new == Request(epoch, nextId, r, c)
<1>0. /\ TypeOK /\ nextId \in Nat /\ nextId' = nextId + 1 /\ rpc \in Handlers /\ epoch \in Nat
      /\ wireOut \in Seq(Requests) /\ new \in Requests
  BY DEF AnswerInv, ShareInv, Typed, TypeOK, Send, NextRequestId, Handlers, Request, Requests
<1>1. /\ rpc'[r].pc = "waiting" /\ rpc'[r].id = nextId /\ rpc'[r].cmd = c
      /\ \A s \in Rpcs : s # r => rpc'[s] = rpc[s]
  BY <1>0 DEF Send, Handlers
<1>2. Stream' = Stream /\ discover' = disc
  BY DEF Stream, Send
<1>3. new.epoch = epoch /\ new.id = nextId
  BY DEF Request
<1>4. new \notin Carried
  BY <1>0, <1>3 DEF AnswerInv, Past
<1>5. Carried' \subseteq Carried \cup {new}
  <2>1. \A k \in DOMAIN wireOut' : wireOut'[k] = new \/ wireOut'[k] \in Carried
    <3> HIDE DEF new
    <3>1. wireOut' = Append(wireOut, new)
      BY DEF Send, new
    <3>2. \A k \in DOMAIN wireOut' :
            wireOut'[k] = new \/ \E m \in DOMAIN wireOut : wireOut'[k] = wireOut[m]
      BY <1>0, <3>1
    <3> QED BY <3>2 DEF Carried
  <2>2. {Stream'[k].req : k \in DOMAIN Stream'} \subseteq Carried
    BY <1>2 DEF Carried
  <2>3. {j.req : j \in {job'} \ {Idle}} \subseteq Carried /\ discReq' \subseteq Carried
    BY DEF Carried
  <2> HIDE DEF new
  <2> QED BY <2>1, <2>2, <2>3 DEF Carried
<1>6. Sought(r)' = new
  BY <1>1 DEF Sought
<1>7. ASSUME NEW s \in Rpcs, s # r
      PROVE  Sought(s)' = Sought(s) /\ rpc'[s] = rpc[s]
  BY <1>1, <1>7 DEF Sought
<1>8. ASSUME NEW s \in Rpcs, rpc[s].pc # "idle"
      PROVE  rpc[s].id \in Nat /\ rpc[s].id < nextId /\ rpc[s].id # nextId
  BY <1>0, <1>8, HandlerFields DEF AnswerInv, Numbered
<1> HIDE DEF new
<1>9. Past'
  <2> SUFFICES ASSUME NEW q \in Carried'
               PROVE  q.epoch < epoch' \/ (q.epoch = epoch' /\ q.id < nextId')
    BY DEF Past
  <2>1. CASE q = new
    BY <1>0, <1>3, <2>1
  <2>2. CASE q \in Carried
    <3>1. q.id \in Nat
      BY <1>0, <2>2, CarriedTyped
    <3> QED BY <1>0, <2>2, <3>1 DEF AnswerInv, Past
  <2> QED BY <1>5, <2>1, <2>2
<1>10. Numbered'
  <2> SUFFICES ASSUME NEW s \in Rpcs, rpc'[s].pc # "idle"
               PROVE  /\ rpc'[s].id < nextId'
                      /\ \A t \in Rpcs :
                           rpc'[t].pc # "idle" /\ rpc'[t].id = rpc'[s].id => t = s
    BY DEF Numbered
  <2>1. CASE s = r
    BY <1>0, <1>1, <1>8, <2>1
  <2>2. CASE s # r
    <3>1. rpc'[s] = rpc[s]
      BY <1>1, <2>2
    <3>2. rpc[s].id < nextId' /\ rpc'[r].id # rpc[s].id
      BY <1>0, <1>1, <1>8, <3>1
    <3> QED BY <1>1, <3>1, <3>2 DEF AnswerInv, Numbered
  <2> QED BY <2>1, <2>2
<1>11. Matching'
  <2> SUFFICES ASSUME NEW s \in Rpcs, NEW q \in Carried', rpc'[s].pc # "idle",
                      q.epoch = epoch, q.id = rpc'[s].id
               PROVE  q = Sought(s)'
    BY DEF Matching
  <2>1. CASE s = r
    <3>1. q \in Carried => q.id < nextId /\ q.id \in Nat
      BY <1>0, CarriedTyped DEF AnswerInv, Past
    <3>2. q \notin Carried
      BY <1>0, <1>1, <2>1, <3>1
    <3> QED BY <1>5, <1>6, <2>1, <3>2
  <2>2. CASE s # r
    <3>1. q # new
      BY <1>3, <1>7, <1>8, <2>2
    <3> QED BY <1>5, <1>7, <2>2, <3>1 DEF AnswerInv, Matching
  <2> QED BY <2>1, <2>2
<1>12. OwnAnswer' /\ DiscoverComplete'
  BY <1>1 DEF AnswerInv, OwnAnswer, DiscoverComplete
<1>13. ASSUME NEW q \in Awaited'
       PROVE  \/ q \notin Carried
              \/ q \in Awaited /\ (discover' = discover \/ q.id # rpc[r].id)
  <2>1. PICK s \in Rpcs : q = Sought(s)' /\ rpc'[s].pc = "waiting"
    BY <1>13 DEF Awaited
  <2>2. CASE s = r
    BY <1>4, <1>6, <2>1, <2>2
  <2>3. CASE s # r
    <3>1. q = Sought(s) /\ rpc[s].pc = "waiting"
      BY <1>7, <2>1, <2>3
    <3>2. q \in Awaited /\ q.id = rpc[s].id
      BY <3>1, SoughtFields DEF Awaited
    <3>3. rpc[r].pc # "idle" => rpc[r].id # rpc[s].id
      BY <2>3, <3>1 DEF AnswerInv, Numbered
    <3> QED BY <1>2, <3>2, <3>3
  <2> QED BY <2>2, <2>3
<1>14. /\ OneEntry'
       /\ LinesInOrder(Awaited, Stream, discover)'
       /\ JobInOrder(Awaited, Stream, discover, job)'
  BY <1>2, <1>13, KeptOrder
<1>15. OnlyItsLines'
  BY DEF AnswerInv, OnlyItsLines
<1> QED BY <1>9, <1>10, <1>11, <1>12, <1>14, <1>15 DEF AnswerInv

(* release() leaves what the caller hands it, or nobody uses the port.     *)
LEMMA ReleaseLeaves ==
    ASSUME ShareInv', NEW n, NEW rs, NEW pend, NEW disc, Release(n, rs, pend, disc)
    PROVE  \/ rpc' = rs /\ discover' = disc /\ wireIn' = wireIn
           \/ /\ \A r \in Rpcs : rpc'[r].pc = "idle"
              /\ discover' = {} /\ wireIn' \in {wireIn, <<>>}
<1>1. CASE Left(n) = 0
  <2>1. \A r \in Rpcs : rpc'[r].pc = "idle"
    <3>1. streams' \in SUBSET Streams /\ Counted(0, UsersOf(rpc', streams'))
      BY <1>1 DEF Release, ShareInv, Typed, TypeOK
    <3> QED BY <3>1, FreeIsIdle
  <2> QED BY <1>1, <2>1 DEF Release, Stop, PortClosed
<1>2. CASE Left(n) # 0
  BY <1>2 DEF Release
<1> QED BY <1>1, <1>2

(* Lines that are lost take nothing else along. *)
LEMMA LinesLost ==
    ASSUME TypeOK, wireIn' \in {wireIn, <<>>}, loopq' \in {loopq, <<>>}, 
           UNCHANGED <<wireOut, job, discReq>>
    PROVE  Carried' \subseteq Carried
<1>1. loopq \in Seq(Lines) /\ wireIn \in Seq(Lines)
  BY DEF TypeOK
<1>2. \A k \in DOMAIN Stream' : \E m \in DOMAIN Stream : Stream'[k].req = Stream[m].req
  <2>1. CASE wireIn' = wireIn /\ loopq' = loopq
    BY <2>1 DEF Stream
  <2>2. CASE wireIn' = <<>> /\ loopq' = loopq
    BY <1>1, <2>2 DEF Stream
  <2>3. CASE wireIn' = wireIn /\ loopq' = <<>>
    <3>1. ASSUME NEW k \in DOMAIN Stream'
          PROVE  \E m \in DOMAIN Stream : Stream'[k].req = Stream[m].req
      <4>1. Stream' = wireIn
        BY <1>1, <2>3, ConcatEmptySeq DEF Stream
      <4>2. Len(loopq) \in Nat /\ k \in 1..Len(wireIn) /\ Len(wireIn) \in Nat
        BY <1>1, <4>1
      <4>3. Len(loopq) + k \in DOMAIN Stream /\ Stream[Len(loopq) + k] = wireIn[k]
        BY <1>1, <4>2, ConcatProperties, LenProperties DEF Stream
      <4> QED BY <4>1, <4>3
    <3> QED BY <3>1
  <2>4. CASE wireIn' = <<>> /\ loopq' = <<>>
    BY <2>4, ConcatEmptySeq DEF Stream
  <2> QED BY <2>1, <2>2, <2>3, <2>4
<1> QED BY <1>2 DEF Carried

(* A handler or a stream that leaves. *)
LEMMA LeaveAnswers ==
    ASSUME AnswerInv, ShareInv', NEW n, NEW rs, NEW pend, NEW disc, NEW i,
           \A r \in Rpcs : rs[r] = rpc[r] \/ rs[r].pc = "idle",
           disc = discover
             \/ (disc = Pop(discover, i)
                   /\ \A r \in Rpcs : rs[r].pc # "idle" => rs[r].id # i),
           Release(n, rs, pend, disc), nextId <= nextId',
           UNCHANGED <<wireOut, loopq, job, discReq, epoch>>
    PROVE  AnswerInv'
<1>0. TypeOK /\ TypeOK' /\ OnlyItsLines'
  BY DEF AnswerInv, ShareInv, Typed, OnlyItsLines
<1>1. Carried' \subseteq Carried
  BY <1>0, ReleaseLeaves, LinesLost
<1>2. CASE rpc' = rs /\ discover' = disc /\ wireIn' = wireIn
  <2>1. /\ Past' /\ Numbered' /\ Matching' /\ OwnAnswer' /\ DiscoverComplete'
        /\ Awaited' \subseteq Awaited
    BY <1>0, <1>1, <1>2, KeptAnswers
  <2>2. Stream' = Stream
    BY <1>2 DEF Stream
  <2>3. ASSUME NEW q \in Awaited'
        PROVE  q \in Awaited /\ (discover' = discover \/ q.id # i)
    <3>1. PICK r \in Rpcs : q = Sought(r)' /\ rpc'[r].pc = "waiting"
      BY <2>3 DEF Awaited
    <3>2. q.id = rs[r].id
      BY <1>2, <3>1 DEF Sought, Request
    <3> QED BY <1>2, <2>1, <3>1, <3>2
  <2>4. /\ OneEntry'
        /\ LinesInOrder(Awaited, Stream, discover)'
        /\ JobInOrder(Awaited, Stream, discover, job)'
    BY <1>2, <2>2, <2>3, KeptOrder
  <2> QED BY <1>0, <2>1, <2>4 DEF AnswerInv
<1>3. CASE (\A r \in Rpcs : rpc'[r].pc = "idle") /\ discover' = {}
  <2>1. Past' /\ Numbered' /\ Matching' /\ OwnAnswer' /\ DiscoverComplete'
    BY <1>0, <1>1, <1>3, KeptAnswers
  <2>2. Awaited' = {}
    BY <1>3 DEF Awaited
  <2>3. /\ OneEntry'
        /\ LinesInOrder(Awaited, Stream, discover)'
        /\ JobInOrder(Awaited, Stream, discover, job)'
    BY <1>3, <2>2 DEF OneEntry, LinesInOrder, JobInOrder
  <2> QED BY <1>0, <2>1, <2>3 DEF AnswerInv
<1> QED BY <1>2, <1>3, ReleaseLeaves

LEMMA EndedOthers ==
    ASSUME AnswerInv, NEW r \in Rpcs
    PROVE  /\ \A s \in Rpcs : Ended(r)[s] = rpc[s] \/ Ended(r)[s].pc = "idle"
           /\ rpc[r].pc # "idle" =>
                \A s \in Rpcs : Ended(r)[s].pc # "idle" => Ended(r)[s].id # rpc[r].id
<1>1. rpc \in Handlers
  BY DEF AnswerInv, ShareInv, Typed, TypeOK, Handlers
<1>2. ASSUME NEW s \in Rpcs
      PROVE  /\ s # r => Ended(r)[s] = rpc[s]
             /\ s = r => Ended(r)[s].pc = "idle"
  BY <1>1 DEF Ended, Handlers, IdleRpc
<1>3. ASSUME NEW s \in Rpcs, rpc[r].pc # "idle", Ended(r)[s].pc # "idle"
      PROVE  Ended(r)[s].id # rpc[r].id
  <2>1. s # r /\ Ended(r)[s] = rpc[s]
    BY <1>2, <1>3
  <2> QED BY <1>3, <2>1 DEF AnswerInv, Numbered
<1> QED BY <1>2, <1>3

(* The except branch of an attempt, with the entry of the attempt's id     *)
(* still in _discover_state or not.                                        *)
LEMMA AttemptFailedAnswers ==
    ASSUME AnswerInv, ShareInv', NEW r \in Rpcs, rpc[r].pc # "idle", NEW pend, NEW disc,
           disc = discover \/ disc = Pop(discover, rpc[r].id),
           AttemptFailed(r, pend, disc), UNCHANGED <<loopq, job, discReq, epoch>>
    PROVE  AnswerInv'
<1>0. rpc[r].cmd \in AllCommands /\ rpc[r].tries \in Nat /\ nextId \in Nat
  BY DEF AnswerInv, ShareInv, Typed, TypeOK, HasCommand
<1>1. CASE Send(r, rpc[r].cmd, rpc[r].tries - 1, pend, disc) /\ UNCHANGED wireIn
  BY <1>0, <1>1, SendAnswers
<1>2. CASE /\ Release(refcount, Ended(r), pend, disc) /\ UNCHANGED wireOut
           /\ nextId' = nextId + rpc[r].tries \/ nextId' = nextId
  <2>1. nextId <= nextId'
    BY <1>0, <1>2
  <2> QED BY <1>2, <2>1, EndedOthers, LeaveAnswers
<1> QED BY <1>1, <1>2 DEF AttemptFailed, Finish

LEMMA HandlerAnswers ==
    ASSUME AnswerInv, ShareInv', NEW r \in Rpcs, Handler(r)
    PROVE  AnswerInv'
<1>0. nextId \in Nat /\ TypeOK /\ TypeOK' /\ Retries \in Nat
  BY BoundsAssumption DEF AnswerInv, ShareInv, Typed, TypeOK
<1>1. ASSUME NEW c \in Commands, Call(r, c) PROVE AnswerInv'
  <2>1. c \in AllCommands
    BY CommandsKnown
  <2>2. /\ Send(r, c, Attempts(c), pending, discover)
        /\ UNCHANGED <<epoch, job, discReq, wireIn, loopq>>
    BY <1>1 DEF Call, hostIdle, gattVars
  <2> QED BY <2>1, <2>2, SendAnswers
<1>2. ASSUME Release(refcount + 1, Ended(r), pending, discover), nextId <= nextId',
             UNCHANGED <<hostIdle, dongleVars>>
      PROVE  AnswerInv'
  <2>1. UNCHANGED <<wireOut, loopq, job, discReq, epoch>>
    BY <1>2 DEF hostIdle, dongleVars, gattVars
  <2> QED BY <1>2, <2>1, EndedOthers, LeaveAnswers
<1>3. ASSUME NEW c \in Commands, CallCannotWrite(r, c) PROVE AnswerInv'
  <2>1. nextId <= nextId'
    BY <1>0, <1>3 DEF CallCannotWrite, Attempts
  <2> QED BY <1>2, <1>3, <2>1 DEF CallCannotWrite
<1>4. ASSUME NEW c \in Commands, CallRaises(r, c) PROVE AnswerInv'
  <2>1. /\ rpc' = Ended(r) /\ nextId' = nextId /\ epoch' = epoch
        /\ UNCHANGED <<discover, wireIn, loopq, wireOut, job, discReq>>
    BY <1>4 DEF CallRaises, hostIdle, dongleVars, gattVars
  <2>2. Stream' = Stream /\ Carried' = Carried
    BY <2>1 DEF Stream, Carried
  <2>3. /\ Past' /\ Numbered' /\ Matching' /\ OwnAnswer' /\ DiscoverComplete'
        /\ Awaited' \subseteq Awaited
    BY <1>0, <2>1, <2>2, EndedOthers, KeptAnswers
  <2>4. /\ OneEntry'
        /\ LinesInOrder(Awaited, Stream, discover)'
        /\ JobInOrder(Awaited, Stream, discover, job)'
    BY <2>1, <2>2, <2>3, KeptOrder
  <2>5. OnlyItsLines'
    BY <2>1 DEF AnswerInv, OnlyItsLines
  <2> QED BY <2>3, <2>4, <2>5 DEF AnswerInv
<1>5. CASE DiscoverTooLate(r)
  BY <1>0, <1>2, <1>5 DEF DiscoverTooLate
<1>6. ASSUME rpc[r].pc # "idle", Finish(r, pending, discover), 
             UNCHANGED <<plugged, job, gattVars, hostIdle>>
      PROVE  AnswerInv'
  <2>1. /\ Release(refcount, Ended(r), pending, discover) /\ nextId <= nextId'
        /\ UNCHANGED <<wireOut, loopq, job, discReq, epoch>>
    BY <1>0, <1>6 DEF Finish, hostIdle, gattVars
  <2> QED BY <2>1, EndedOthers, LeaveAnswers
<1>7. CASE Wake(r)
  <2>1. CASE Finish(r, pending, discover)
    BY <1>6, <1>7, <2>1 DEF Wake
  <2>2. CASE AttemptFailed(r, pending, discover)
    BY <1>7, <2>2, AttemptFailedAnswers DEF Wake, hostIdle, gattVars
  <2> QED BY <1>7, <2>1, <2>2 DEF Wake
<1>8. CASE Timeout(r)
  BY <1>8, AttemptFailedAnswers DEF Timeout, hostIdle, gattVars
<1>9. CASE Cancel(r)
  BY <1>6, <1>9 DEF Cancel
<1> QED BY <1>1, <1>3, <1>4, <1>5, <1>7, <1>8, <1>9 DEF Handler

LEMMA StreamAnswers ==
    ASSUME AnswerInv, ShareInv', NEW s \in Streams, Streaming(s)
    PROVE  AnswerInv'
<1>0. nextId \in Nat /\ TypeOK /\ TypeOK'
  BY DEF AnswerInv, ShareInv, Typed, TypeOK
<1>1. CASE StreamOpen(s)
  <2>1. Stream' = Stream /\ Carried' = Carried
    BY <1>1 DEF StreamOpen, Stream, Carried, dongleVars, gattVars
  <2>2. /\ Past' /\ Numbered' /\ Matching' /\ OwnAnswer' /\ DiscoverComplete'
        /\ Awaited' \subseteq Awaited
    BY <1>0, <1>1, <2>1, KeptAnswers DEF StreamOpen
  <2>3. /\ OneEntry'
        /\ LinesInOrder(Awaited, Stream, discover)'
        /\ JobInOrder(Awaited, Stream, discover, job)'
    BY <1>1, <2>1, <2>2, KeptOrder DEF StreamOpen, dongleVars
  <2>4. OnlyItsLines'
    BY <1>1 DEF AnswerInv, OnlyItsLines, StreamOpen, dongleVars, gattVars
  <2> QED BY <2>2, <2>3, <2>4 DEF AnswerInv
<1>2. CASE StreamRefused(s)
  BY <1>0, <1>2, LeaveAnswers DEF StreamRefused, hostIdle, dongleVars, gattVars
<1>3. CASE StreamClose(s)
  BY <1>0, <1>3, LeaveAnswers DEF StreamClose, dongleVars, gattVars
<1> QED BY <1>1, <1>2, <1>3 DEF Streaming

(* The reader thread only moves a line along. *)
LEMMA ReaderMoves ==
    ASSUME NEW S, NEW s \in Seq(S), NEW t \in Seq(S), t # <<>>
    PROVE  Append(s, Head(t)) \o Tail(t) = s \o t
<1>1. Head(t) \in S /\ Tail(t) \in Seq(S) /\ Len(t) \in Nat \ {0} /\ Len(Tail(t)) = Len(t) - 1
      /\ \A i \in 1..(Len(t) - 1) : Tail(t)[i] = t[i + 1]
  BY EmptySeq
<1>2. PICK u : u = Append(s, Head(t))
  OBVIOUS
<1>3. u \in Seq(S) /\ Len(u) = Len(s) + 1 /\ Len(s) \in Nat
      /\ \A i \in 1..Len(s) : u[i] = s[i]
  BY <1>1, <1>2
<1>4. u[Len(s) + 1] = t[1]
  BY <1>1, <1>2
<1>5. /\ u \o Tail(t) \in Seq(S) /\ s \o t \in Seq(S)
      /\ Len(u \o Tail(t)) = Len(s \o t) /\ Len(s \o t) = Len(s) + Len(t)
  <2>1. u \o Tail(t) \in Seq(S) /\ Len(u \o Tail(t)) = Len(u) + Len(Tail(t))
    BY <1>1, <1>3, ConcatProperties
  <2>2. s \o t \in Seq(S) /\ Len(s \o t) = Len(s) + Len(t)
    BY ConcatProperties
  <2> QED BY <1>1, <1>3, <2>1, <2>2
<1>6. ASSUME NEW i \in 1..Len(s \o t)
      PROVE  (u \o Tail(t))[i] = (s \o t)[i]
  <2>1. i \in 1..(Len(s) + Len(t)) /\ i \in 1..(Len(u) + Len(Tail(t)))
    BY <1>1, <1>3, <1>5
  <2>2. /\ (u \o Tail(t))[i] = IF i <= Len(u) THEN u[i] ELSE Tail(t)[i - Len(u)]
        /\ (s \o t)[i] = IF i <= Len(s) THEN s[i] ELSE t[i - Len(s)]
    BY <1>1, <1>3, <2>1, ConcatProperties
  <2>3. CASE i <= Len(s)
    BY <1>1, <1>3, <2>1, <2>2, <2>3
  <2>4. CASE i = Len(s) + 1
    BY <1>1, <1>3, <1>4, <2>1, <2>2, <2>4
  <2>5. CASE i > Len(s) + 1
    <3>1. i - Len(u) \in 1..(Len(t) - 1) /\ i - Len(u) + 1 = i - Len(s)
      BY <1>1, <1>3, <2>1, <2>5
    <3> QED BY <1>1, <1>3, <2>1, <2>2, <2>5, <3>1
  <2> QED BY <1>3, <2>1, <2>3, <2>4, <2>5
<1> QED BY <1>2, <1>5, <1>6, SeqEqual

LEMMA ReaderAnswers ==
    ASSUME AnswerInv, ShareInv', ReaderLoop \/ ReaderDies \/ Plug \/ UNCHANGED vars
    PROVE  AnswerInv'
<1>0. TypeOK /\ TypeOK' /\ nextId \in Nat /\ loopq \in Seq(Lines) /\ wireIn \in Seq(Lines)
  BY DEF AnswerInv, ShareInv, Typed, TypeOK
<1>1. UNCHANGED <<wireOut, job, discReq, epoch, nextId, rpc, discover>>
  BY DEF ReaderLoop, ReaderDies, Plug, vars, hostVars, hostIdle, dongleVars, gattVars
<1>2. Stream' = Stream
  <2>1. CASE ReaderLoop
    BY <1>0, <2>1, ReaderMoves DEF ReaderLoop, Stream
  <2>2. CASE UNCHANGED <<loopq, wireIn>>
    BY <2>2 DEF Stream
  <2> QED BY <2>1, <2>2 DEF ReaderDies, Plug, vars, hostVars, hostIdle
<1>3. Carried' = Carried
  BY <1>1, <1>2 DEF Carried
<1>4. /\ Past' /\ Numbered' /\ Matching' /\ OwnAnswer' /\ DiscoverComplete'
      /\ Awaited' \subseteq Awaited
  BY <1>0, <1>1, <1>3, KeptAnswers
<1>5. /\ OneEntry'
      /\ LinesInOrder(Awaited, Stream, discover)'
      /\ JobInOrder(Awaited, Stream, discover, job)'
  BY <1>1, <1>2, <1>4, KeptOrder
<1>6. OnlyItsLines'
  BY <1>1 DEF AnswerInv, OnlyItsLines
<1> QED BY <1>4, <1>5, <1>6 DEF AnswerInv

(* What _handle_rsp does to the handlers: it completes futures that wait   *)
(* for the line's id, with a result that says where it comes from.         *)
LEMMA RspCompletes ==
    ASSUME TypeOK, OneEntry, NEW l \in Lines, HandleRsp(l), NEW r \in Rpcs
    PROVE  \/ rpc'[r] = rpc[r]
           \/ /\ rpc[r].pc = "waiting" /\ rpc[r].id = l.req.id
              /\ rpc'[r].pc = "resolved" /\ rpc'[r].id = rpc[r].id
              /\ rpc'[r].cmd = rpc[r].cmd
              /\ rpc'[r].fut.src = l.req
              /\ rpc'[r].fut.tag = "END" =>
                   /\ l.tag = "END" /\ rpc'[r].fut.total = l.parts
                   /\ [id |-> l.req.id, parts |-> l.parts] \in discover =>
                        rpc'[r].fut.parts = l.parts
<1> DEFINE i == l.req.id
           collected == {d \in discover : d.id = i}
           parts == IF collected = {} THEN 0 ELSE (CHOOSE d \in collected : TRUE).parts
           entry == [id |-> i, parts |-> l.parts]
<1>1. rpc[r] \in [pc : Pcs, cmd : AllCommands \cup {"none"}, id : Nat,
                  tries : Nat, fut : Results]
  BY HandlerFields
<1>2. ASSUME NEW res, Resolve(i, res)
      PROVE  \/ rpc'[r] = rpc[r]
             \/ /\ rpc[r].pc = "waiting" /\ rpc[r].id = i
                /\ rpc'[r].pc = "resolved" /\ rpc'[r].id = rpc[r].id
                /\ rpc'[r].cmd = rpc[r].cmd
                /\ rpc'[r].fut = res
  BY <1>1, <1>2 DEF Resolve, Waits
<1>3. entry \in discover => parts = l.parts
  <2> SUFFICES ASSUME entry \in discover PROVE parts = l.parts
    OBVIOUS
  <2>1. entry \in collected /\ collected # {}
    OBVIOUS
  <2>2. (CHOOSE d \in collected : TRUE) \in collected
    BY <2>1
  <2>3. (CHOOSE d \in collected : TRUE) = entry
    BY <2>1, <2>2 DEF OneEntry
  <2>4. entry.parts = l.parts
    OBVIOUS
  <2> HIDE DEF collected, entry
  <2> QED BY <2>1, <2>3, <2>4
<1> HIDE DEF parts, entry
<1>4. CASE l.tag = "ERR" /\ Resolve(i, Result("ERR", l.req, 0, 0))
  BY <1>2, <1>4 DEF Result
<1>5. CASE l.tag = "BEGIN" /\ UNCHANGED rpc
  BY <1>5
<1>6. CASE l.tag = "END" /\ Resolve(i, Result("END", l.req, parts, l.parts))
  BY <1>2, <1>3, <1>6 DEF Result, entry
<1>7. CASE l.tag \in {"OK", "READ"} /\ Resolve(i, Result(l.tag, l.req, 0, 0))
  BY <1>2, <1>7 DEF Result
<1> QED BY <1>4, <1>5, <1>6, <1>7 DEF HandleRsp, parts

(* What a line does to _discover_state. *)
LEMMA LineCollects ==
    ASSUME TypeOK, OneEntry, NEW l \in Lines, HandleRsp(l) \/ HandleDiscoverParts(l)
    PROVE  /\ OneEntry'
           /\ l.tag = "BEGIN" => [id |-> l.req.id, parts |-> 0] \in discover'
           /\ l.tag = "PART" =>
                \A n \in Int : [id |-> l.req.id, parts |-> n - 1] \in discover
                                 => [id |-> l.req.id, parts |-> n] \in discover'
<1>0. discover \subseteq [id : Nat, parts : Nat]
  BY DEF TypeOK
<1>1. CASE HandleRsp(l)
  <2>1. \/ discover' = discover /\ l.tag \notin {"BEGIN", "PART"}
        \/ discover' = Pop(discover, l.req.id) /\ l.tag \notin {"BEGIN", "PART"}
        \/ /\ discover' = Pop(discover, l.req.id) \cup {[id |-> l.req.id, parts |-> 0]}
           /\ l.tag # "PART"
    BY <1>1 DEF HandleRsp
  <2> QED BY <2>1 DEF OneEntry, Pop
<1>2. CASE HandleDiscoverParts(l)
  <2> DEFINE i == l.req.id
             f(d) == [d EXCEPT !.parts = IF d.id = i THEN @ + 1 ELSE @]
  <2>1. discover' = {f(d) : d \in discover} /\ l.tag = "PART"
    BY <1>2 DEF HandleDiscoverParts, Collect
  <2>2. ASSUME NEW d \in discover PROVE f(d).id = d.id
    BY <1>0
  <2>3. ASSUME NEW n \in Int, [id |-> i, parts |-> n - 1] \in discover
        PROVE  f([id |-> i, parts |-> n - 1]) = [id |-> i, parts |-> n]
    BY <2>3
  <2> HIDE DEF f
  <2>4. OneEntry'
    BY <2>1, <2>2 DEF OneEntry
  <2> QED BY <2>1, <2>3, <2>4
<1> QED BY <1>1, <1>2

LEMMA HandleLineAnswers ==
    ASSUME AnswerInv, ShareInv', HandleLine
    PROVE  AnswerInv'
<1> DEFINE l == Head(loopq)
<1>0. /\ TypeOK /\ OneEntry /\ l \in Lines /\ loopq \in Seq(Lines) /\ wireIn \in Seq(Lines)
      /\ loopq # <<>> /\ loopq' = Tail(loopq) /\ loopq' \in Seq(Lines)
  BY DEF AnswerInv, ShareInv, Typed, TypeOK, HandleLine
<1>1. HandleRsp(l) \/ HandleDiscoverParts(l)
  BY DEF HandleLine
<1>2. UNCHANGED <<nextId, epoch, wireOut, wireIn, job, discReq>>
  BY DEF HandleLine, dongleVars, gattVars
<1>3. /\ Len(Stream) \in Nat \ {0} /\ DOMAIN Stream = 1..Len(Stream)
      /\ Len(Stream') = Len(Stream) - 1 /\ DOMAIN Stream' = 1..Len(Stream')
      /\ Stream[1] = l
      /\ \A k \in 1..Len(Stream') : Stream'[k] = Stream[k + 1]
  <2>1. /\ Len(loopq) \in Nat \ {0} /\ Len(wireIn) \in Nat
        /\ Len(loopq') = Len(loopq) - 1 /\ l = loopq[1]
        /\ \A k \in 1..(Len(loopq) - 1) : loopq'[k] = loopq[k + 1]
    BY <1>0, EmptySeq
  <2>2. /\ Len(Stream) = Len(loopq) + Len(wireIn) /\ DOMAIN Stream = 1..Len(Stream)
        /\ \A k \in 1..(Len(loopq) + Len(wireIn)) :
              Stream[k] = IF k <= Len(loopq) THEN loopq[k] ELSE wireIn[k - Len(loopq)]
    BY <1>0, ConcatProperties, LenProperties DEF Stream
  <2>3. /\ Len(Stream') = Len(loopq') + Len(wireIn) /\ DOMAIN Stream' = 1..Len(Stream')
        /\ \A k \in 1..(Len(loopq') + Len(wireIn)) :
              Stream'[k] = IF k <= Len(loopq') THEN loopq'[k] ELSE wireIn[k - Len(loopq')]
    BY <1>0, <1>2, ConcatProperties, LenProperties DEF Stream
  <2> HIDE DEF l
  <2>4. ASSUME NEW k \in 1..Len(Stream')
        PROVE  Stream'[k] = Stream[k + 1]
    <3>1. k + 1 \in 1..(Len(loopq) + Len(wireIn)) /\ k \in 1..(Len(loopq') + Len(wireIn))
      BY <2>1, <2>2, <2>3
    <3>2. CASE k <= Len(loopq')
      BY <2>1, <2>2, <2>3, <3>1, <3>2
    <3>3. CASE k > Len(loopq')
      <4>1. k - Len(loopq') = (k + 1) - Len(loopq) /\ ~(k <= Len(loopq'))
            /\ ~(k + 1 <= Len(loopq))
        BY <2>1, <3>1, <3>3
      <4>2. Stream'[k] = wireIn[k - Len(loopq')]
        BY <2>3, <3>1, <4>1
      <4>3. Stream[k + 1] = wireIn[(k + 1) - Len(loopq)]
        BY <2>2, <3>1, <4>1
      <4> QED BY <4>1, <4>2, <4>3
    <3> QED BY <2>1, <3>1, <3>2, <3>3
  <2> QED BY <2>1, <2>2, <2>3, <2>4
<1>4. ASSUME NEW r \in Rpcs
      PROVE  \/ rpc'[r] = rpc[r]
             \/ /\ rpc[r].pc = "waiting" /\ rpc[r].id = l.req.id
                /\ rpc'[r].pc = "resolved" /\ rpc'[r].id = rpc[r].id
                /\ rpc'[r].cmd = rpc[r].cmd
                /\ rpc'[r].fut.src = l.req
                /\ rpc'[r].fut.tag = "END" =>
                     /\ l.tag = "END" /\ rpc'[r].fut.total = l.parts
                     /\ [id |-> l.req.id, parts |-> l.parts] \in discover =>
                          rpc'[r].fut.parts = l.parts
  BY <1>0, <1>1, RspCompletes DEF HandleDiscoverParts
<1>5. l.req \in Carried
  BY <1>3 DEF Carried
<1>6. Carried' \subseteq Carried
  <2>1. \A k \in DOMAIN Stream' : k + 1 \in DOMAIN Stream /\ Stream'[k].req = Stream[k + 1].req
    BY <1>3
  <2> QED BY <1>2, <2>1 DEF Carried
<1> HIDE DEF l
<1>7. ASSUME NEW r \in Rpcs
      PROVE  /\ Sought(r)' = Sought(r)
             /\ rpc'[r].id = rpc[r].id
             /\ rpc'[r].pc # "idle" => rpc[r].pc # "idle"
             /\ rpc'[r].pc = "waiting" => rpc[r].pc = "waiting"
  BY <1>2, <1>4 DEF Sought
<1>8. Past' /\ Numbered' /\ Matching'
  BY <1>2, <1>6, <1>7 DEF AnswerInv, Past, Numbered, Matching
<1>9. Awaited' \subseteq Awaited
  BY <1>7 DEF Awaited
<1>10. ASSUME NEW r \in Rpcs, rpc[r].pc = "waiting", rpc[r].id = l.req.id, l.req.epoch = epoch
       PROVE  l.req = Sought(r) /\ l.req \in Awaited
  BY <1>5, <1>10 DEF AnswerInv, Matching, Awaited
<1>11. ASSUME NEW q \in Awaited, l.req = q, InTurn(l)
       PROVE  [id |-> q.id, parts |-> PartsBefore(l)] \in discover
  <2>1. Collected(Stream, discover, q, PartsBefore(l), 0)
    BY <1>3, <1>11 DEF AnswerInv, LinesInOrder
  <2> QED BY <2>1 DEF Collected
<1>12. OwnAnswer'
  <2> SUFFICES ASSUME NEW r \in Rpcs, rpc'[r].pc = "resolved", rpc'[r].fut.tag # "stopped",
                      rpc'[r].fut.src.epoch = epoch
               PROVE  rpc'[r].fut.src = Sought(r)'
    BY <1>2 DEF OwnAnswer, Sought
  <2>1. CASE rpc'[r] = rpc[r]
    BY <1>7, <2>1 DEF AnswerInv, OwnAnswer, Sought
  <2>2. CASE rpc'[r] # rpc[r]
    BY <1>4, <1>7, <1>10, <2>2
  <2> QED BY <2>1, <2>2
<1>13. DiscoverComplete'
  <2> SUFFICES ASSUME NEW r \in Rpcs, rpc'[r].pc = "resolved", rpc'[r].fut.tag = "END",
                      rpc'[r].fut.src.epoch = epoch
               PROVE  rpc'[r].fut.parts = rpc'[r].fut.total
    BY <1>2 DEF DiscoverComplete
  <2>1. CASE rpc'[r] = rpc[r]
    BY <2>1 DEF AnswerInv, DiscoverComplete
  <2>2. CASE rpc'[r] # rpc[r]
    <3>1. l.req \in Awaited /\ l.tag = "END" /\ rpc'[r].fut.total = l.parts
      BY <1>4, <1>10, <2>2
    <3>2. [id |-> l.req.id, parts |-> l.parts] \in discover
      BY <1>11, <3>1 DEF PartsBefore, InTurn
    <3> QED BY <1>4, <2>2, <3>1, <3>2
  <2> QED BY <2>1, <2>2
<1>14. /\ OneEntry'
       /\ l.tag = "BEGIN" => [id |-> l.req.id, parts |-> 0] \in discover'
       /\ l.tag = "PART" =>
            \A n \in Int : [id |-> l.req.id, parts |-> n - 1] \in discover
                             => [id |-> l.req.id, parts |-> n] \in discover'
  BY <1>0, <1>1, LineCollects
<1>15. ASSUME NEW q \in Awaited, NEW n, NEW k \in 1..Len(Stream),
              Collected(Stream, discover, q, n, k)
       PROVE  Collected(Stream', discover', q, n, k - 1)
  <2>1. CASE k = 1
    <3>1. /\ l.req = q
          /\ (l.tag = "BEGIN" /\ n = 0) \/ (l.tag = "PART" /\ l.parts = n /\ n > 0)
      BY <1>3, <1>15, <2>1 DEF Collected
    <3>2. [id |-> q.id, parts |-> n] \in discover'
      <4>1. CASE l.tag = "BEGIN" /\ n = 0
        BY <1>14, <3>1, <4>1
      <4>2. CASE l.tag = "PART" /\ l.parts = n /\ n > 0
        <5>1. n \in Int
          BY <1>0, <4>2 DEF Lines
        <5>2. [id |-> q.id, parts |-> n - 1] \in discover
          BY <1>11, <3>1, <4>2 DEF PartsBefore, InTurn
        <5> QED BY <1>14, <3>1, <4>2, <5>1, <5>2
      <4> QED BY <3>1, <4>1, <4>2
    <3> QED BY <2>1, <3>2 DEF Collected
  <2>2. CASE k # 1
    <3>1. k - 1 \in 1..Len(Stream') /\ Stream'[k - 1] = Stream[k] /\ k # 0 /\ k - 1 # 0
      BY <1>3, <2>2
    <3> QED BY <1>15, <3>1 DEF Collected
  <2> QED BY <2>1, <2>2
<1>16. LinesInOrder(Awaited, Stream, discover)'
  <2> SUFFICES ASSUME NEW q \in Awaited', NEW k \in DOMAIN Stream',
                      Stream'[k].req = q, InTurn(Stream'[k])
               PROVE  Collected(Stream', discover', q, PartsBefore(Stream'[k]), k - 1)
    BY DEF LinesInOrder
  <2>1. k \in 1..Len(Stream) /\ k + 1 \in DOMAIN Stream /\ Stream'[k] = Stream[k + 1]
        /\ (k + 1) - 1 = k
    BY <1>3
  <2>2. q \in Awaited
    BY <1>9
  <2>3. Collected(Stream, discover, q, PartsBefore(Stream[k + 1]), (k + 1) - 1)
    BY <2>1, <2>2 DEF AnswerInv, LinesInOrder
  <2> QED BY <1>15, <2>1, <2>2, <2>3
<1>17. JobInOrder(Awaited, Stream, discover, job)'
  <2> SUFFICES ASSUME NEW q \in Awaited', job # Idle, job.req = q, job.sent >= 0
               PROVE  Collected(Stream', discover', q, job.sent, Len(Stream'))
    BY <1>2 DEF JobInOrder
  <2>1. Collected(Stream, discover, q, job.sent, Len(Stream)) /\ q \in Awaited
    BY <1>9 DEF AnswerInv, JobInOrder
  <2> QED BY <1>3, <1>15, <2>1
<1>18. OnlyItsLines'
  BY <1>2 DEF AnswerInv, OnlyItsLines
<1> QED BY <1>8, <1>12, <1>13, <1>14, <1>16, <1>17, <1>18 DEF AnswerInv

(* A line that the dongle prints about a request it knows goes to the end. *)
LEMMA SaysAppends ==
    ASSUME AnswerInv, NEW lines \in Seq(Lines), NEW q \in Carried,
           \A k \in 1..Len(lines) : lines[k].req = q,
           wireIn' = wireIn \o lines, UNCHANGED <<hostVars, wireOut>>
    PROVE  /\ Stream' \in Seq(Lines) /\ Stream \in Seq(Lines)
           /\ Len(Stream') = Len(Stream) + Len(lines)
           /\ \A k \in 1..Len(Stream) : Stream'[k] = Stream[k]
           /\ \A k \in 1..Len(lines) : Stream'[Len(Stream) + k] = lines[k]
           /\ {Stream'[k].req : k \in DOMAIN Stream'} \subseteq Carried
<1>1. loopq \in Seq(Lines) /\ wireIn \in Seq(Lines) /\ loopq' = loopq
  BY DEF AnswerInv, ShareInv, Typed, TypeOK, hostVars
<1>2. Stream \in Seq(Lines) /\ Stream' = Stream \o lines
  BY <1>1, ConcatProperties, ConcatAssociative DEF Stream
<1>3. /\ Stream' \in Seq(Lines) /\ Len(Stream') = Len(Stream) + Len(lines)
      /\ DOMAIN Stream' = 1..Len(Stream') /\ Len(Stream) \in Nat /\ Len(lines) \in Nat
      /\ DOMAIN Stream = 1..Len(Stream)
      /\ \A k \in 1..(Len(Stream) + Len(lines)) :
            Stream'[k] = IF k <= Len(Stream) THEN Stream[k] ELSE lines[k - Len(Stream)]
  BY <1>2, ConcatProperties, LenProperties
<1>4. ASSUME NEW k \in 1..Len(lines) PROVE Stream'[Len(Stream) + k] = lines[k]
  <2>1. Len(Stream) + k \in 1..(Len(Stream) + Len(lines)) /\ ~(Len(Stream) + k <= Len(Stream))
        /\ (Len(Stream) + k) - Len(Stream) = k
    BY <1>3
  <2> QED BY <1>3, <2>1
<1>5. ASSUME NEW k \in DOMAIN Stream' PROVE Stream'[k].req \in Carried
  <2>1. CASE k <= Len(Stream)
    BY <1>3, <2>1 DEF Carried
  <2>2. CASE k > Len(Stream)
    <3>1. k - Len(Stream) \in 1..Len(lines) /\ Stream'[k] = lines[k - Len(Stream)]
      BY <1>3, <2>2
    <3> QED BY <3>1 DEF Carried
  <2> QED BY <1>3, <2>1, <2>2
<1> QED BY <1>2, <1>3, <1>4, <1>5

(* A step of the dongle, or the loss of it: the handlers see nothing, and  *)
(* the lines in order stay in order.                                       *)
LEMMA DongleKeeps ==
    ASSUME AnswerInv, ShareInv', Carried' \subseteq Carried,
           UNCHANGED <<epoch, nextId, rpc, discover>>,
           LinesInOrder(Awaited, Stream', discover), JobInOrder(Awaited, Stream', discover, job'),
           OnlyItsLines'
    PROVE  AnswerInv'
<1>0. TypeOK' /\ nextId \in Nat
  BY DEF AnswerInv, ShareInv, Typed, TypeOK
<1>1. /\ Past' /\ Numbered' /\ Matching' /\ OwnAnswer' /\ DiscoverComplete'
  BY <1>0, KeptAnswers
<1>2. Awaited' = Awaited /\ discover' = discover
  BY DEF Awaited, Sought
<1>3. OneEntry'
  BY DEF AnswerInv, OneEntry
<1> QED BY <1>1, <1>2, <1>3 DEF AnswerInv

(* Lines that extend S in order. *)
LEMMA OrderExtends ==
    ASSUME NEW A, NEW D, NEW S \in Seq(Lines), NEW T \in Seq(Lines), Len(S) <= Len(T),
           \A k \in 1..Len(S) : T[k] = S[k],
           LinesInOrder(A, S, D),
           \A q \in A, k \in (Len(S) + 1)..Len(T) :
               T[k].req = q /\ InTurn(T[k])
                 => Collected(T, D, q, PartsBefore(T[k]), k - 1)
    PROVE  LinesInOrder(A, T, D)
<1>1. /\ Len(S) \in Nat /\ Len(T) \in Nat /\ DOMAIN S = 1..Len(S) /\ DOMAIN T = 1..Len(T)
  OBVIOUS
<1> SUFFICES ASSUME NEW q \in A, NEW k \in DOMAIN T, T[k].req = q, InTurn(T[k])
             PROVE  Collected(T, D, q, PartsBefore(T[k]), k - 1)
  BY DEF LinesInOrder
<1>2. CASE k > Len(S)
  BY <1>1, <1>2
<1>3. CASE k <= Len(S)
  <2>1. T[k] = S[k] /\ k \in DOMAIN S
    BY <1>1, <1>3
  <2>2. Collected(S, D, q, PartsBefore(S[k]), k - 1)
    BY <2>1 DEF LinesInOrder
  <2>3. k - 1 # 0 => T[k - 1] = S[k - 1]
    BY <1>1, <1>3
  <2> QED BY <2>1, <2>2, <2>3 DEF Collected
<1> QED BY <1>1, <1>2, <1>3

LEMMA CollectedExtends ==
    ASSUME NEW D, NEW q, NEW n, NEW S \in Seq(Lines), NEW T \in Seq(Lines),
           \A k \in 1..Len(S) : T[k] = S[k], Collected(S, D, q, n, Len(S))
    PROVE  Collected(T, D, q, n, Len(S))
<1>1. Len(S) \in Nat
  OBVIOUS
<1> QED BY <1>1 DEF Collected

LEMMA DongleAnswersInv ==
    ASSUME AnswerInv, ShareInv', Dongle
    PROVE  AnswerInv'
<1>0. TypeOK /\ wireOut \in Seq(Requests) /\ Stream \in Seq(Lines) /\ Len(Stream) \in Nat
  BY StreamIsSeq DEF AnswerInv, ShareInv, Typed, TypeOK
<1>1. UNCHANGED <<hostVars, epoch, nextId, rpc, discover>>
  BY DEF Dongle, DongleTakes, DongleOverruns, DongleAnswers, DongleFails, DongleDiscovers,
         DongleStrayLine, DongleStrayEnds, hostVars
<1>2. /\ LinesInOrder(Awaited, Stream, discover) /\ JobInOrder(Awaited, Stream, discover, job)
      /\ OnlyItsLines
  BY DEF AnswerInv
<1>3. CASE DongleTakes \/ DongleOverruns
  <2>1. Stream' = Stream
    BY <1>1, <1>3 DEF DongleTakes, DongleOverruns, Stream, hostVars
  <2>2. wireOut # <<>> /\ wireOut' = Tail(wireOut) /\ (job' = job \/ job'.req = Head(wireOut))
        /\ (job' = job \/ job'.sent = -1) /\ discReq' = discReq
    BY <1>3 DEF DongleTakes, DongleOverruns, Working, gattVars
  <2>3. \A k \in DOMAIN wireOut' : \E m \in DOMAIN wireOut : wireOut'[k] = wireOut[m]
    BY <1>0, <2>2
  <2>4. Head(wireOut) = wireOut[1] /\ 1 \in DOMAIN wireOut
    BY <1>0, <2>2
  <2>5. Carried' \subseteq Carried
    BY <2>1, <2>2, <2>3, <2>4 DEF Carried
  <2>6. JobInOrder(Awaited, Stream, discover, job') /\ OnlyItsLines'
    BY <1>2, <2>2 DEF JobInOrder, OnlyItsLines
  <2> QED BY <1>1, <1>2, <2>1, <2>5, <2>6, DongleKeeps
<1>4. ASSUME NEW lines \in Seq(Lines), job # Idle,
             \A k \in 1..Len(lines) : lines[k].req = job.req /\ lines[k].tag \notin {"PART", "END"},
             wireIn' = wireIn \o lines, job' = Idle, UNCHANGED <<wireOut, discReq>>
      PROVE  AnswerInv'
  <2>1. /\ Stream' \in Seq(Lines)
        /\ Len(Stream') = Len(Stream) + Len(lines) /\ Len(lines) \in Nat
        /\ \A k \in 1..Len(Stream) : Stream'[k] = Stream[k]
        /\ \A k \in 1..Len(lines) : Stream'[Len(Stream) + k] = lines[k]
        /\ {Stream'[k].req : k \in DOMAIN Stream'} \subseteq Carried
    <3>1. UNCHANGED <<hostVars, wireOut>> /\ Len(lines) \in Nat
          /\ (\A k \in 1..Len(lines) : lines[k].req = job.req) /\ job.req \in Carried
      BY <1>1, <1>4 DEF Carried
    <3> QED BY <1>4, <3>1, SaysAppends
  <2>2. ASSUME NEW k \in (Len(Stream) + 1)..Len(Stream')
        PROVE  ~InTurn(Stream'[k])
    <3>1. k - Len(Stream) \in 1..Len(lines) /\ Len(Stream) + (k - Len(Stream)) = k
      BY <1>0, <2>1
    <3> QED BY <1>4, <2>1, <3>1 DEF InTurn
  <2>3. LinesInOrder(Awaited, Stream', discover)
    <3>1. Len(Stream) <= Len(Stream')
      BY <1>0, <2>1
    <3> QED BY <1>0, <1>2, <2>1, <2>2, <3>1, OrderExtends
  <2>4. Carried' \subseteq Carried
    BY <1>4, <2>1 DEF Carried
  <2>5. JobInOrder(Awaited, Stream', discover, job') /\ OnlyItsLines'
    BY <1>4 DEF JobInOrder, OnlyItsLines
  <2> QED BY <1>1, <2>3, <2>4, <2>5, DongleKeeps
<1>5. ASSUME job # Idle
      PROVE  job.req \in Requests /\ job.sent \in Nat \cup {-1}
  BY <1>0, <1>5 DEF TypeOK
<1>6. CASE DongleAnswers
  <2>1. PICK t \in {"READ", "OK"} : wireIn' = wireIn \o <<Line(job.req, t, 0)>>
    BY <1>6 DEF DongleAnswers, Says
  <2>2. PICK l : l = Line(job.req, t, 0)
    OBVIOUS
  <2>3. l \in Lines /\ l.req = job.req /\ l.tag = t
    BY <1>5, <1>6, <2>2 DEF DongleAnswers, Line, Lines, Tags
  <2>4. PICK ls : ls = <<l>>
    OBVIOUS
  <2>5. ls \in Seq(Lines) /\ \A k \in 1..Len(ls) : ls[k] = l
    BY <2>3, <2>4
  <2>6. job # Idle /\ job' = Idle /\ UNCHANGED <<wireOut, discReq>>
    BY <1>6 DEF DongleAnswers
  <2>7. wireIn' = wireIn \o ls
    BY <2>1, <2>2, <2>4
  <2> QED BY <1>4, <2>3, <2>5, <2>6, <2>7
<1>7. CASE DongleFails
  <2>1. PICK l : l = Line(job.req, "ERR", 0)
    OBVIOUS
  <2>2. l \in Lines /\ l.req = job.req /\ l.tag = "ERR"
    BY <1>5, <1>7, <2>1 DEF DongleFails, Line, Lines, Tags
  <2>3. job # Idle /\ job' = Idle /\ UNCHANGED <<wireOut, discReq>>
    BY <1>7 DEF DongleFails
  <2>4. wireIn' = wireIn \o <<l>> \/ wireIn' = wireIn \o <<l, l>>
    BY <1>7, <2>1 DEF DongleFails, Says
  <2>5. PICK ls : (ls = <<l>> \/ ls = <<l, l>>) /\ wireIn' = wireIn \o ls
    BY <2>4
  <2>6. ls \in Seq(Lines) /\ \A k \in 1..Len(ls) : ls[k] = l
    BY <2>2, <2>5
  <2> QED BY <1>4, <2>2, <2>3, <2>5, <2>6
<1>8. CASE DongleDiscovers
  <2>0. /\ job # Idle /\ UNCHANGED wireOut
        /\ job \in [state : {"busy"}, req : Requests, sent : Nat \cup {-1}]
    BY <1>0, <1>8 DEF DongleDiscovers, TypeOK
  <2>1. ASSUME NEW l \in Lines, l.req = job.req, wireIn' = wireIn \o <<l>>,
               job' = Idle \/ job'.req = job.req, discReq' \subseteq discReq \cup {job.req}
        PROVE  /\ Stream' \in Seq(Lines) /\ Len(Stream') = Len(Stream) + 1
               /\ \A k \in 1..Len(Stream) : Stream'[k] = Stream[k]
               /\ Stream'[Len(Stream) + 1] = l
               /\ Carried' \subseteq Carried
    <3>1. PICK ls : ls = <<l>>
      OBVIOUS
    <3>2. ls \in Seq(Lines) /\ Len(ls) = 1 /\ ls[1] = l /\ \A k \in 1..Len(ls) : ls[k] = l
      BY <3>1
    <3>3. /\ Stream' \in Seq(Lines) /\ Len(Stream') = Len(Stream) + Len(ls)
          /\ \A k \in 1..Len(Stream) : Stream'[k] = Stream[k]
          /\ \A k \in 1..Len(ls) : Stream'[Len(Stream) + k] = ls[k]
          /\ {Stream'[k].req : k \in DOMAIN Stream'} \subseteq Carried
      <4>1. job.req \in Carried
        BY <2>0 DEF Carried
      <4>2. wireIn' = wireIn \o ls /\ \A k \in 1..Len(ls) : ls[k].req = job.req
        BY <2>1, <3>1, <3>2
      <4> QED BY <1>1, <2>0, <3>2, <4>1, <4>2, SaysAppends
    <3>4. (job' # Idle => job'.req \in Carried) /\ discReq' \subseteq Carried
      BY <2>0, <2>1 DEF Carried
    <3>5. Carried' \subseteq Carried
      <4>1. ASSUME NEW q \in Carried' PROVE q \in Carried
        <5>1. CASE \E k \in DOMAIN wireOut : q = wireOut[k]
          BY <5>1 DEF Carried
        <5>2. CASE job' # Idle /\ q = job'.req
          BY <3>4, <5>2
        <5>3. CASE \E k \in DOMAIN Stream' : q = Stream'[k].req
          BY <3>3, <5>3
        <5> QED BY <2>0, <3>4, <4>1, <5>1, <5>2, <5>3 DEF Carried
      <4> QED BY <4>1
    <3> QED BY <3>2, <3>3, <3>5
  <2>2. ASSUME NEW l \in Lines, l.req = job.req, wireIn' = wireIn \o <<l>>,
               job' = Idle \/ job'.req = job.req,
               discReq' \subseteq discReq \cup {job.req},
               job' = Idle \/ discReq' = {job'.req},
               \A q \in Awaited : job.req = q /\ InTurn(l)
                 => Collected(Stream, discover, q, PartsBefore(l), Len(Stream)),
               job' = Idle \/ (l.tag = "BEGIN" /\ job'.sent = 0)
                 \/ (l.tag = "PART" /\ job'.sent = l.parts /\ l.parts > 0)
        PROVE  AnswerInv'
    <3>1. /\ Stream' \in Seq(Lines) /\ Len(Stream') = Len(Stream) + 1
          /\ \A k \in 1..Len(Stream) : Stream'[k] = Stream[k]
          /\ Stream'[Len(Stream) + 1] = l
          /\ Carried' \subseteq Carried
      BY <2>1, <2>2
    <3>2. ASSUME NEW q \in Awaited, NEW k \in (Len(Stream) + 1)..Len(Stream'),
                 Stream'[k].req = q, InTurn(Stream'[k])
          PROVE  Collected(Stream', discover, q, PartsBefore(Stream'[k]), k - 1)
      <4>1. k = Len(Stream) + 1 /\ k - 1 = Len(Stream) /\ Stream'[k] = l
        BY <1>0, <3>1
      <4>2. Collected(Stream, discover, q, PartsBefore(l), Len(Stream))
        BY <2>2, <3>2, <4>1
      <4>3. Collected(Stream', discover, q, PartsBefore(l), Len(Stream))
        BY <1>0, <3>1, <4>2, CollectedExtends
      <4> QED BY <4>1, <4>3
    <3>3. LinesInOrder(Awaited, Stream', discover)
      <4>1. Len(Stream) <= Len(Stream')
        BY <1>0, <3>1
      <4> QED BY <1>0, <1>2, <3>1, <3>2, <4>1, OrderExtends
    <3>4. JobInOrder(Awaited, Stream', discover, job')
      <4> SUFFICES ASSUME NEW q \in Awaited, job' # Idle, job'.req = q, job'.sent >= 0
                   PROVE  Collected(Stream', discover, q, job'.sent, Len(Stream'))
        BY DEF JobInOrder
      <4>1. Len(Stream') # 0 /\ Stream'[Len(Stream')] = l /\ l.req = q
        BY <1>0, <2>2, <3>1
      <4> QED BY <2>2, <4>1 DEF Collected
    <3>5. OnlyItsLines'
      BY <2>2 DEF OnlyItsLines
    <3> QED BY <1>1, <3>1, <3>3, <3>4, <3>5, DongleKeeps
  <2>3. ASSUME NEW t \in Tags, NEW n \in Nat
        PROVE  /\ Line(job.req, t, n) \in Lines /\ Line(job.req, t, n).req = job.req
               /\ Line(job.req, t, n).tag = t /\ Line(job.req, t, n).parts = n
    BY <2>0 DEF Line, Lines
  <2>4. CASE /\ job.sent = -1
             /\ Says(<<Line(job.req, "BEGIN", 0)>>)
             /\ job' = [job EXCEPT !.sent = 0]
             /\ discReq' = {job.req}
    <3>1. PICK l : l = Line(job.req, "BEGIN", 0)
      OBVIOUS
    <3>2. l \in Lines /\ l.req = job.req /\ l.tag = "BEGIN" /\ ~InTurn(l)
      BY <2>3, <3>1 DEF Tags, InTurn
    <3>3. job'.req = job.req /\ job'.sent = 0
      BY <2>0, <2>4
    <3>4. wireIn' = wireIn \o <<l>>
      BY <2>4, <3>1 DEF Says
    <3> QED BY <2>2, <2>4, <3>2, <3>3, <3>4
  <2>5. CASE /\ job.sent >= 0
             /\ Says(<<Line(job.req, "PART", job.sent + 1)>>)
             /\ job' = [job EXCEPT !.sent = job.sent + 1]
             /\ discReq' = discReq
    <3>1. PICK l : l = Line(job.req, "PART", job.sent + 1)
      OBVIOUS
    <3>2. job.sent + 1 \in Nat /\ (job.sent + 1) - 1 = job.sent
      BY <2>0, <2>5
    <3>3. l \in Lines /\ l.req = job.req /\ l.tag = "PART" /\ l.parts = job.sent + 1
      BY <2>3, <3>1, <3>2 DEF Tags
    <3>4. /\ job'.req = job.req /\ job'.sent = job.sent + 1 /\ job.sent + 1 > 0
          /\ discReq' = {job'.req}
      BY <1>2, <2>0, <2>5 DEF OnlyItsLines
    <3>5. wireIn' = wireIn \o <<l>>
      BY <2>5, <3>1 DEF Says
    <3>6. PartsBefore(l) = job.sent
      BY <3>2, <3>3 DEF PartsBefore
    <3>7. \A q \in Awaited : job.req = q
             => Collected(Stream, discover, q, PartsBefore(l), Len(Stream))
      BY <1>2, <2>0, <2>5, <3>6 DEF JobInOrder
    <3> QED BY <2>2, <2>5, <3>3, <3>4, <3>5, <3>7
  <2>6. CASE /\ job.sent >= 0
             /\ Says(<<Line(job.req, "END", job.sent)>>)
             /\ job' = Idle
             /\ discReq' = discReq
    <3>1. PICK l : l = Line(job.req, "END", job.sent)
      OBVIOUS
    <3>2. l \in Lines /\ l.req = job.req /\ l.tag = "END" /\ l.parts = job.sent
      BY <2>0, <2>3, <2>6, <3>1 DEF Tags
    <3>3. wireIn' = wireIn \o <<l>>
      BY <2>6, <3>1 DEF Says
    <3>4. PartsBefore(l) = job.sent /\ job.sent >= 0
      BY <2>0, <2>6, <3>2 DEF PartsBefore
    <3>5. \A q \in Awaited : job.req = q
             => Collected(Stream, discover, q, PartsBefore(l), Len(Stream))
      BY <1>2, <2>0, <3>4 DEF JobInOrder
    <3> QED BY <2>2, <2>6, <3>2, <3>3, <3>5
  <2>7. \/ /\ job.sent = -1
           /\ Says(<<Line(job.req, "BEGIN", 0)>>)
           /\ job' = [job EXCEPT !.sent = 0]
           /\ discReq' = {job.req}
        \/ /\ job.sent >= 0
           /\ Says(<<Line(job.req, "PART", job.sent + 1)>>)
           /\ job' = [job EXCEPT !.sent = job.sent + 1]
           /\ discReq' = discReq
        \/ /\ job.sent >= 0
           /\ Says(<<Line(job.req, "END", job.sent)>>)
           /\ job' = Idle
           /\ discReq' = discReq
    BY <1>8, <2>0 DEF DongleDiscovers
  <2> QED BY <2>4, <2>5, <2>6, <2>7
<1>9. CASE DongleStrayLine
  <2>1. PICK q \in discReq : /\ job # Idle => job.req # q
                            /\ wireIn' = wireIn \o <<Line(q, "PART", 0)>>
    BY <1>9 DEF DongleStrayLine, Says
  <2>2. q \in Carried /\ q \in Requests
    BY <1>0 DEF Carried, TypeOK
  <2>3. PICK l : l = Line(q, "PART", 0)
    OBVIOUS
  <2>4. l \in Lines /\ l.req = q /\ ~InTurn(l)
    BY <2>2, <2>3 DEF Line, Lines, Tags, InTurn
  <2>5. PICK ls : ls = <<l>>
    OBVIOUS
  <2>6. ls \in Seq(Lines) /\ Len(ls) = 1 /\ \A k \in 1..Len(ls) : ls[k] = l
    BY <2>4, <2>5
  <2>7. UNCHANGED <<wireOut, job, discReq>>
    BY <1>9 DEF DongleStrayLine
  <2>8. /\ Stream' \in Seq(Lines) /\ Len(Stream') = Len(Stream) + Len(ls)
        /\ \A k \in 1..Len(Stream) : Stream'[k] = Stream[k]
        /\ \A k \in 1..Len(ls) : Stream'[Len(Stream) + k] = ls[k]
        /\ {Stream'[k].req : k \in DOMAIN Stream'} \subseteq Carried
    <3>1. wireIn' = wireIn \o ls /\ \A k \in 1..Len(ls) : ls[k].req = q
      BY <2>1, <2>3, <2>4, <2>5, <2>6
    <3> QED BY <1>1, <2>2, <2>6, <2>7, <3>1, SaysAppends
  <2>9. Carried' \subseteq Carried
    BY <2>7, <2>8 DEF Carried
  <2>10. ASSUME NEW k \in (Len(Stream) + 1)..Len(Stream') PROVE ~InTurn(Stream'[k])
    <3>1. k = Len(Stream) + 1 /\ 1 \in 1..Len(ls)
      BY <1>0, <2>6, <2>8
    <3> QED BY <2>4, <2>6, <2>8, <3>1
  <2>11. LinesInOrder(Awaited, Stream', discover)
    <3>1. Len(Stream) <= Len(Stream')
      BY <1>0, <2>6, <2>8
    <3> QED BY <1>0, <1>2, <2>8, <2>10, <3>1, OrderExtends
  <2>12. ~(job # Idle /\ job.sent >= 0)
    BY <1>2, <2>1 DEF OnlyItsLines
  <2>13. JobInOrder(Awaited, Stream', discover, job') /\ OnlyItsLines'
    BY <2>7, <2>12 DEF JobInOrder, OnlyItsLines
  <2> QED BY <1>1, <2>9, <2>11, <2>13, DongleKeeps
<1>10. CASE DongleStrayEnds
  <2>1. UNCHANGED <<wireOut, wireIn, job, discReq, loopq>>
    BY <1>10 DEF DongleStrayEnds, hostVars
  <2>2. Stream' = Stream
    BY <2>1 DEF Stream
  <2>3. Carried' = Carried
    BY <2>1, <2>2 DEF Carried
  <2>4. JobInOrder(Awaited, Stream', discover, job') /\ OnlyItsLines'
    BY <1>2, <2>1, <2>2 DEF OnlyItsLines
  <2> QED BY <1>1, <1>2, <2>2, <2>3, <2>4, DongleKeeps
<1> QED BY <1>3, <1>6, <1>7, <1>8, <1>9, <1>10 DEF Dongle

LEMMA UnplugAnswers ==
    ASSUME AnswerInv, ShareInv', Unplug
    PROVE  AnswerInv'
<1>0. TypeOK /\ loopq \in Seq(Lines) /\ wireIn \in Seq(Lines)
  BY DEF AnswerInv, ShareInv, Typed, TypeOK
<1>1. /\ wireIn' = <<>> /\ loopq' = loopq /\ wireOut' = <<>> /\ job' = Idle /\ discReq' = {}
      /\ UNCHANGED <<epoch, nextId, rpc, discover>>
  BY DEF Unplug
<1>2. Stream' = loopq
  BY <1>0, <1>1, ConcatEmptySeq DEF Stream
<1>3. /\ Len(loopq) \in Nat /\ Len(loopq) <= Len(Stream) /\ DOMAIN Stream = 1..Len(Stream)
      /\ DOMAIN loopq = 1..Len(loopq) /\ Len(Stream) \in Nat
      /\ \A k \in 1..Len(loopq) : loopq[k] = Stream[k]
  <2>1. Len(Stream) = Len(loopq) + Len(wireIn) /\ Len(wireIn) \in Nat /\ Len(loopq) \in Nat
        /\ DOMAIN Stream = 1..Len(Stream) /\ DOMAIN loopq = 1..Len(loopq)
    BY <1>0, StreamIsSeq
  <2>2. \A k \in 1..(Len(loopq) + Len(wireIn)) :
            Stream[k] = IF k <= Len(loopq) THEN loopq[k] ELSE wireIn[k - Len(loopq)]
    BY <1>0, ConcatProperties DEF Stream
  <2> QED BY <2>1, <2>2
<1>4. Carried' \subseteq Carried
  <2>1. ASSUME NEW q \in Carried' PROVE q \in Carried
    <3>1. PICK k \in DOMAIN loopq : q = loopq[k].req
      BY <1>1, <1>2, <2>1 DEF Carried
    <3>2. k \in DOMAIN Stream /\ q = Stream[k].req
      BY <1>3, <3>1
    <3> QED BY <3>2 DEF Carried
  <2> QED BY <2>1
<1>5. LinesInOrder(Awaited, Stream', discover)
  <2> SUFFICES ASSUME NEW q \in Awaited, NEW k \in DOMAIN loopq,
                      loopq[k].req = q, InTurn(loopq[k])
               PROVE  Collected(loopq, discover, q, PartsBefore(loopq[k]), k - 1)
    BY <1>2 DEF LinesInOrder
  <2>1. loopq[k] = Stream[k] /\ k \in DOMAIN Stream /\ (k - 1 # 0 => loopq[k - 1] = Stream[k - 1])
    BY <1>3
  <2>2. Collected(Stream, discover, q, PartsBefore(loopq[k]), k - 1)
    BY <2>1 DEF AnswerInv, LinesInOrder
  <2> QED BY <2>1, <2>2 DEF Collected
<1>6. JobInOrder(Awaited, Stream', discover, job') /\ OnlyItsLines'
  BY <1>1 DEF JobInOrder, OnlyItsLines
<1> QED BY <1>1, <1>4, <1>5, <1>6, DongleKeeps

(* A new run of the process numbers its requests from 1 again; what the    *)
(* dongle still carries belongs to an earlier one.                         *)
LEMMA RestartAnswers ==
    ASSUME AnswerInv, ShareInv', Restart
    PROVE  AnswerInv'
<1>0. TypeOK /\ epoch \in Nat
  BY DEF AnswerInv, ShareInv, Typed, TypeOK
<1>1. /\ epoch' = epoch + 1 /\ discover' = {} /\ \A r \in Rpcs : rpc'[r].pc = "idle"
  BY DEF Restart, IdleRpc
<1>2. Carried' \subseteq Carried
  BY <1>0, LinesLost DEF Restart, PortClosed, dongleVars, gattVars
<1>3. Past'
  <2> SUFFICES ASSUME NEW q \in Carried' PROVE q.epoch < epoch'
    BY DEF Past
  <2>1. q \in Carried /\ q.epoch \in Nat
    BY <1>0, <1>2, CarriedTyped
  <2>2. q.epoch < epoch \/ q.epoch = epoch
    BY <2>1 DEF AnswerInv, Past
  <2> QED BY <1>0, <1>1, <2>1, <2>2
<1>4. Numbered' /\ Matching' /\ OwnAnswer' /\ DiscoverComplete' /\ OneEntry'
  BY <1>1 DEF Numbered, Matching, OwnAnswer, DiscoverComplete, OneEntry
<1>5. Awaited' = {}
  BY <1>1 DEF Awaited
<1>6. LinesInOrder(Awaited, Stream, discover)' /\ JobInOrder(Awaited, Stream, discover, job)'
  BY <1>5 DEF LinesInOrder, JobInOrder
<1>7. OnlyItsLines'
  BY DEF AnswerInv, OnlyItsLines, Restart, dongleVars, gattVars
<1> QED BY <1>3, <1>4, <1>6, <1>7 DEF AnswerInv

LEMMA AnswerInit == Init => AnswerInv
<1> SUFFICES ASSUME Init PROVE AnswerInv
  OBVIOUS
<1>1. \A r \in Rpcs : rpc[r].pc = "idle"
  BY DEF Init, IdleRpc
<1>2. Stream = <<>> /\ wireOut = <<>> /\ job = Idle /\ discover = {} /\ discReq = {}
  BY DEF Init, Stream
<1>3. Carried = {} /\ Awaited = {}
  BY <1>1, <1>2 DEF Carried, Awaited
<1>4. Past /\ Numbered /\ Matching /\ OwnAnswer /\ DiscoverComplete /\ OneEntry /\ OnlyItsLines
  BY <1>1, <1>2, <1>3 DEF Past, Numbered, Matching, OwnAnswer, DiscoverComplete, OneEntry,
                          OnlyItsLines
<1>5. LinesInOrder(Awaited, Stream, discover) /\ JobInOrder(Awaited, Stream, discover, job)
  BY <1>3 DEF LinesInOrder, JobInOrder
<1> QED BY <1>4, <1>5, ShareInit DEF AnswerInv

LEMMA AnswerStep == AnswerInv /\ [Next]_vars => AnswerInv'
<1> SUFFICES ASSUME AnswerInv, [Next]_vars PROVE AnswerInv'
  OBVIOUS
<1>1. ShareInv'
  BY ShareStep DEF AnswerInv
<1>2. CASE \E r \in Rpcs : Handler(r)
  BY <1>1, <1>2, HandlerAnswers
<1>3. CASE \E s \in Streams : Streaming(s)
  BY <1>1, <1>3, StreamAnswers
<1>4. CASE ReaderLoop \/ ReaderDies \/ Plug \/ UNCHANGED vars
  BY <1>1, <1>4, ReaderAnswers
<1> QED BY <1>1, <1>2, <1>3, <1>4, HandleLineAnswers, DongleAnswersInv, UnplugAnswers,
           RestartAnswers DEF Next

LEMMA AnswerInvariant == Spec => []AnswerInv
BY AnswerInit, AnswerStep, PTL DEF Spec

(* However handlers time out, are cancelled or try again, the answer to a  *)
(* request of this run of the process completes the future of the handler  *)
(* that wrote it and no other (zephyr_serial_backend.py:309-346).          *)
THEOREM AnswersReachTheirCallers == Spec => []OwnAnswer
<1>1. AnswerInv => OwnAnswer
  BY DEF AnswerInv
<1> QED BY <1>1, AnswerInvariant, PTL

(* A discovery that ends OK holds exactly the SVC and CHR lines that the   *)
(* dongle printed under its id between BEGIN and END, whatever other       *)
(* discoveries, time-outs, lost ports and stray lines there are            *)
(* (zephyr_serial_backend.py:331-340, 348-366; main.c:278-299).            *)
THEOREM DiscoveriesAreFaithful == Spec => []DiscoverComplete
<1>1. AnswerInv => DiscoverComplete
  BY DEF AnswerInv
<1> QED BY <1>1, AnswerInvariant, PTL
=============================================================================
