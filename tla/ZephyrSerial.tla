---------------------------- MODULE ZephyrSerial ----------------------------
(***************************************************************************)
(* The Pi access point's serial backend, pi-ap/zephyr_serial_backend.py,   *)
(* as the RPC handlers of pi-ap/grpc_server.py use it.                     *)
(*                                                                         *)
(* Everything the host does runs on one asyncio event loop, so a handler   *)
(* is atomic between two awaits that really suspend it.  acquire() and     *)
(* release() never suspend: their lock bodies contain no await, so the     *)
(* lock is never contended.  A unary handler therefore runs from its start *)
(* to the await of its future in one step (acquire, _start, _request,      *)
(* _write_line), and from the wake-up to the next await, or to its end, in *)
(* another.  The reader thread only moves lines from the serial port to    *)
(* the loop's callback queue.                                              *)
(*                                                                         *)
(* The other end of the line is the firmware, zephyr-firmware/main.c, as   *)
(* far as its lines tell: one command at a time, answers that carry the id *)
(* of the command, and CHR lines that carry the id of the last discovery   *)
(* begun, printed by whatever GATT procedure still runs.  (ZephyrFirmware  *)
(* has its slots, links and semaphores.)  Outside the program: the USB     *)
(* cable (unplug and replug), and the death and restart of the Pi process. *)
(***************************************************************************)
EXTENDS Integers, Sequences, FiniteSets

CONSTANTS
    Rpcs,       \* slots for concurrently running unary RPC handlers
    Streams,    \* the two streaming RPCs, and their successors
    Commands,   \* the unary RPCs that clients call: a subset of AllCommands
    Retries,    \* retries field of a ConnectRequest or DiscoverRequest
    MaxId,      \* bound: no RPC starts once this many requests were written
    MaxParts,   \* bound: SVC and CHR lines under one id (what svcs[] and chrs[] hold)
    MaxLines,   \* bound: answer lines on their way at one time
    MaxEpoch    \* bound: how often the Pi process is started again

AllCommands == {"CONNECT", "DISCOVER", "READ", "WRITE", "DISCONNECT"}

ASSUME RpcsFinite == IsFiniteSet(Rpcs)
ASSUME StreamsFinite == IsFiniteSet(Streams)
ASSUME RpcsAreNotStreams == Rpcs \cap Streams = {}
ASSUME CommandsKnown == Commands \subseteq AllCommands
ASSUME BoundsAssumption ==
    /\ Retries \in Nat
    /\ MaxId \in Nat
    /\ MaxParts \in Nat
    /\ MaxLines \in Nat
    /\ MaxEpoch \in Nat

VARIABLES
    refcount,   \* _refcount
    ser,        \* _ser: "closed" (None), "open", or "broken" (its device is gone)
    reader,     \* _reader_thread: "none", "run" or "dead"
    nextId,     \* _next_id
    pending,    \* _pending: the entries of the map, [id, rpc]
    discover,   \* _discover_state: the entries of the map, [id, parts]
    streams,    \* stream handlers that hold a reference
    rpc,        \* state of every unary handler
    loopq,      \* callbacks queued on the event loop by the reader thread
    plugged,    \* the dongle is attached
    wireOut,    \* lines written to the dongle and not yet executed
    wireIn,     \* lines printed by the dongle and not yet read
    job,        \* the command the dongle is executing, or Idle
    discReq,    \* disc_ctx.req_id: the discovery begun last, if any
    room,       \* how many lines may still be printed under its id
    stray,      \* does a GATT procedure run that no command waits for?
    epoch       \* which run of the Pi process this is

vars == <<refcount, ser, reader, nextId, pending, discover, streams, rpc,
          loopq, plugged, wireOut, wireIn, job, discReq, room, stray, epoch>>

gattVars == <<discReq, room, stray>>
dongleVars == <<plugged, wireOut, job, gattVars>>
hostIdle == <<loopq, streams, epoch>>

-----------------------------------------------------------------------------
(* Messages.  A request line is the command with the id that tags it.  The *)
(* run of the process, the handler and the command are not on the wire of  *)
(* an answer: they record which request the dongle is answering.  parts is *)
(* the number of the SVC or CHR line after its BEGIN (0 for one printed    *)
(* when the discovery is already answered), or how many an END closes.     *)

Request(e, i, r, c) == [epoch |-> e, id |-> i, rpc |-> r, cmd |-> c]

Requests == [epoch : Nat, id : Nat, rpc : Rpcs, cmd : AllCommands]

Tags == {"OK", "READ", "ERR", "BEGIN", "PART", "END"}

Lines == [req : Requests, tag : Tags, parts : Nat]

Line(q, t, n) == [req |-> q, tag |-> t, parts |-> n]

Idle == [state |-> "idle"]

(* sent counts the SVC and CHR lines printed since BEGIN, -1 before it.    *)
Working(q, n) == [state |-> "busy", req |-> q, sent |-> n]

(* A handler's future: what _handle_rsp passes to set_result, or the       *)
(* exception of _stop.  src is the answer's origin.                        *)
NoResult == [tag |-> "none"]

Result(t, q, n, total) ==
    [tag |-> t, src |-> q, parts |-> n, total |-> total]

Stopped == [tag |-> "stopped"]

Results == [tag : Tags, src : Requests, parts : Nat, total : Nat]
             \cup {NoResult, Stopped}

Pcs == {"idle", "waiting", "resolved"}

IdleRpc == [pc |-> "idle", cmd |-> "none", id |-> 0, tries |-> 0,
            fut |-> NoResult]

-----------------------------------------------------------------------------
Init ==
    /\ refcount = 0
    /\ ser = "closed"
    /\ reader = "none"
    /\ nextId = 1
    /\ pending = {}
    /\ discover = {}
    /\ streams = {}
    /\ rpc = [r \in Rpcs |-> IdleRpc]
    /\ loopq = <<>>
    /\ plugged = TRUE
    /\ wireOut = <<>>
    /\ wireIn = <<>>
    /\ job = Idle
    /\ discReq = {}
    /\ room = 0
    /\ stray = FALSE
    /\ epoch = 0

(* Handlers between acquire() and release(). *)
Active == {r \in Rpcs : rpc[r].pc # "idle"}

Users == Active \cup streams

Waits(r, i) == rpc[r].pc = "waiting" /\ rpc[r].id = i

-----------------------------------------------------------------------------
(* acquire, release, _start, _stop *)

(* _start succeeds when the port can be opened; acquire calls it only for  *)
(* the first reference.                                                    *)
CanStart == refcount > 0 \/ plugged

Acquire ==
    /\ CanStart
    /\ IF refcount = 0
       THEN ser' = "open" /\ reader' = "run"
       ELSE UNCHANGED <<ser, reader>>

(* What the lines left in the port's buffers become when it is closed:     *)
(* they are kept for the next open, or discarded.                          *)
PortClosed == wireIn' \in {wireIn, <<>>}

(* A plausible slip in _stop: _pending is not cleared. *)
StopKeepsPending(rs, pend) ==
    /\ ser' = "closed"
    /\ reader' = "none"
    /\ PortClosed
    /\ rpc' = rs
    /\ pending' = pend
    /\ discover' = {}

(* _stop: every future in _pending that is not done gets an exception.     *)
Stop(rs, pend) ==
    /\ ser' = "closed"
    /\ reader' = "none"
    /\ PortClosed
    /\ rpc' = [r \in Rpcs |->
                 IF rs[r].pc = "waiting" /\ [id |-> rs[r].id, rpc |-> r] \in pend
                 THEN [rs[r] EXCEPT !.pc = "resolved", !.fut = Stopped]
                 ELSE rs[r]]
    /\ pending' = {}
    /\ discover' = {}

(* max(0, _refcount - 1), and a slip: any release closes the port.         *)
LeftNone(count) == 0

Left(count) == IF count > 0 THEN count - 1 ELSE 0

(* release(), with the handlers, _pending and _discover_state as the rest  *)
(* of the caller's step leaves them.                                       *)
Release(count, rs, pend, disc) ==
    /\ refcount' = Left(count)
    /\ IF Left(count) = 0
       THEN Stop(rs, pend)
       ELSE /\ rpc' = rs
            /\ pending' = pend
            /\ discover' = disc
            /\ UNCHANGED <<ser, reader, wireIn>>

-----------------------------------------------------------------------------
(* _request: take an id, enter the future in _pending, write the line.     *)

CanWrite == ser = "open"

(* map.pop(i, None) *)
Pop(map, i) == {p \in map : p.id # i}

Attempts(c) == IF c \in {"CONNECT", "DISCOVER"} THEN Retries ELSE 0

(* _next_request_id, and a slip: the counter is not advanced.              *)
NextRequestIdStuck == nextId

NextRequestId == nextId + 1

Send(r, c, tries, pend, disc) ==
    LET q == Request(epoch, nextId, r, c)
    IN  /\ rpc' = [rpc EXCEPT ![r] =
                     [pc |-> "waiting", cmd |-> c, id |-> nextId, tries |-> tries,
                      fut |-> NoResult]]
        /\ pending' = Pop(pend, nextId) \cup {[id |-> nextId, rpc |-> r]}
        /\ discover' = disc
        /\ nextId' = NextRequestId
        /\ wireOut' = Append(wireOut, q)

(* The handler returns, with a result or an error, and its finally block   *)
(* releases.                                                               *)
Ended(r) == [rpc EXCEPT ![r] = IdleRpc]

(* A slip: no release in the finally block. *)
FinishWithoutRelease(r, pend, disc) ==
    /\ rpc' = Ended(r)
    /\ pending' = pend
    /\ discover' = disc
    /\ UNCHANGED <<refcount, ser, reader, wireIn, nextId, wireOut>>

Finish(r, pend, disc) ==
    /\ Release(refcount, Ended(r), pend, disc)
    /\ UNCHANGED <<nextId, wireOut>>

(* for attempt in range(retries + 1), and its off-by-one slip.             *)
OneAttemptTooMany(r) == rpc[r].tries >= 0

MoreAttempts(r) == rpc[r].tries > 0

(* The except branch of an attempt.  Connect and Discover loop; Discover   *)
(* leaves the loop when the gRPC deadline is near.  When the port is not   *)
(* writable every further attempt fails at once, each taking an id.        *)
AttemptFailed(r, pend, disc) ==
    \/ /\ MoreAttempts(r)
       /\ CanWrite
       /\ Send(r, rpc[r].cmd, rpc[r].tries - 1, pend, disc)
       /\ UNCHANGED <<refcount, ser, reader, wireIn>>
    \/ /\ MoreAttempts(r)
       /\ ~CanWrite
       /\ Release(refcount, Ended(r), pend, disc)
       /\ nextId' = nextId + rpc[r].tries
       /\ UNCHANGED wireOut
    \/ /\ rpc[r].tries = 0 \/ rpc[r].cmd = "DISCOVER"
       /\ Finish(r, pend, disc)

-----------------------------------------------------------------------------
(* The unary handlers Connect, Discover, Read, Write and Disconnect.       *)

StartBound == nextId <= MaxId

(* From the first line to the await of the future. *)
Call(r, c) ==
    /\ rpc[r].pc = "idle"
    /\ StartBound
    /\ Acquire
    /\ refcount = 0 \/ CanWrite
    /\ refcount' = refcount + 1
    /\ Send(r, c, Attempts(c), pending, discover)
    /\ UNCHANGED <<plugged, wireIn, job, gattVars, hostIdle>>

(* The port is shared and not writable: every attempt raises.              *)
CallCannotWrite(r, c) ==
    /\ rpc[r].pc = "idle"
    /\ StartBound
    /\ refcount > 0
    /\ ~CanWrite
    /\ nextId' = nextId + Attempts(c) + 1
    /\ Release(refcount + 1, Ended(r), pending, discover)
    /\ UNCHANGED <<hostIdle, dongleVars>>

(* acquire() raises out of the handler before its try block: the reference *)
(* was counted and nobody gives it back.                                   *)
CallRaises(r, c) ==
    /\ rpc[r].pc = "idle"
    /\ StartBound
    /\ ~CanStart
    /\ refcount' = refcount + 1
    /\ rpc' = Ended(r)
    /\ UNCHANGED <<ser, reader, nextId, pending, discover, wireIn,
                   dongleVars, hostIdle>>

(* Discover finds the deadline too close before its first attempt.         *)
DiscoverTooLate(r) ==
    /\ "DISCOVER" \in Commands
    /\ rpc[r].pc = "idle"
    /\ StartBound
    /\ CanStart
    /\ Release(refcount + 1, Ended(r), pending, discover)
    /\ UNCHANGED <<nextId, hostIdle, dongleVars>>

(* The handler wakes up with its future done. *)
Wake(r) ==
    LET fut == rpc[r].fut
        good == /\ fut.tag \notin {"ERR", "stopped"}
                /\ rpc[r].cmd = "READ" => fut.tag = "READ"
    IN  /\ rpc[r].pc = "resolved"
        /\ IF good
           THEN Finish(r, pending, discover)
           ELSE AttemptFailed(r, pending, discover)
        /\ UNCHANGED <<plugged, job, gattVars, hostIdle>>

(* A slip: the future is awaited without wait_for. *)
TimeoutNever(r) == FALSE /\ UNCHANGED vars

(* asyncio.wait_for gives up. *)
Timeout(r) ==
    /\ rpc[r].pc = "waiting"
    /\ AttemptFailed(r, Pop(pending, rpc[r].id), Pop(discover, rpc[r].id))
    /\ UNCHANGED <<plugged, job, gattVars, hostIdle>>

(* The gRPC deadline passes, or the client cancels: CancelledError skips   *)
(* every except clause and only the finally block runs, so the entry stays *)
(* in _pending with its future done.                                       *)
Cancel(r) ==
    /\ rpc[r].pc # "idle"
    /\ Finish(r, pending, discover)
    /\ UNCHANGED <<plugged, job, gattVars, hostIdle>>

-----------------------------------------------------------------------------
(* StreamAdvertisements and StreamConnectionEvents: acquire is inside the  *)
(* try block, so a failing one is released by the finally block.           *)

StreamOpen(s) ==
    /\ s \notin streams
    /\ Acquire
    /\ refcount' = refcount + 1
    /\ streams' = streams \cup {s}
    /\ UNCHANGED <<nextId, pending, discover, rpc, loopq, wireIn, epoch, dongleVars>>

StreamRefused(s) ==
    /\ s \notin streams
    /\ ~CanStart
    /\ Release(refcount + 1, rpc, pending, discover)
    /\ UNCHANGED <<nextId, hostIdle, dongleVars>>

StreamClose(s) ==
    /\ s \in streams
    /\ streams' = streams \ {s}
    /\ Release(refcount, rpc, pending, discover)
    /\ UNCHANGED <<nextId, loopq, epoch, dongleVars>>

-----------------------------------------------------------------------------
(* The reader thread *)

ReaderLoop ==
    /\ reader = "run"
    /\ ser = "open"
    /\ wireIn # <<>>
    /\ loopq' = Append(loopq, Head(wireIn))
    /\ wireIn' = Tail(wireIn)
    /\ UNCHANGED <<refcount, ser, reader, nextId, pending, discover, streams,
                   rpc, epoch, dongleVars>>

(* readline() raises on the lost device: the thread ends and stays ended.  *)
ReaderDies ==
    /\ reader = "run"
    /\ ser = "broken"
    /\ reader' = "dead"
    /\ UNCHANGED <<refcount, ser, nextId, pending, discover, rpc, wireIn,
                   hostIdle, dongleVars>>

-----------------------------------------------------------------------------
(* _handle_line on the event loop *)

(* set_result on the future popped from _pending, unless it is done.       *)
Resolve(i, result) ==
    rpc' = [r \in Rpcs |->
              IF [id |-> i, rpc |-> r] \in pending /\ Waits(r, i)
              THEN [rpc[r] EXCEPT !.pc = "resolved", !.fut = result]
              ELSE rpc[r]]

HandleRsp(l) ==
    LET i == l.req.id
        collected == {d \in discover : d.id = i}
        parts == IF collected = {} THEN 0 ELSE (CHOOSE d \in collected : TRUE).parts
    IN  \/ /\ l.tag = "ERR"
           /\ Resolve(i, Result("ERR", l.req, 0, 0))
           /\ pending' = Pop(pending, i)
           /\ discover' = Pop(discover, i)
        \/ /\ l.tag = "BEGIN"
           /\ discover' = Pop(discover, i) \cup {[id |-> i, parts |-> 0]}
           /\ UNCHANGED <<rpc, pending>>
        \/ /\ l.tag = "END"
           /\ Resolve(i, Result("END", l.req, parts, l.parts))
           /\ pending' = Pop(pending, i)
           /\ discover' = Pop(discover, i)
        \/ /\ l.tag \in {"OK", "READ"}
           /\ Resolve(i, Result(l.tag, l.req, 0, 0))
           /\ pending' = Pop(pending, i)
           /\ UNCHANGED discover

(* append to the lists of the entry, and a slip: the lists are replaced.   *)
CollectReplaces(i) == {[d EXCEPT !.parts = IF d.id = i THEN 1 ELSE @] : d \in discover}

Collect(i) == {[d EXCEPT !.parts = IF d.id = i THEN @ + 1 ELSE @] : d \in discover}

HandleDiscoverParts(l) ==
    /\ l.tag = "PART"
    /\ discover' = Collect(l.req.id)
    /\ UNCHANGED <<rpc, pending>>

HandleLine ==
    /\ loopq # <<>>
    /\ HandleRsp(Head(loopq)) \/ HandleDiscoverParts(Head(loopq))
    /\ loopq' = Tail(loopq)
    /\ UNCHANGED <<refcount, ser, reader, nextId, streams, wireIn, epoch, dongleVars>>

-----------------------------------------------------------------------------
(* The lines of the dongle: uart_cb, handle_command and do_discover *)

hostVars == <<refcount, ser, reader, nextId, pending, discover, streams, rpc, loopq, epoch>>

DongleTakes ==
    /\ job = Idle
    /\ wireOut # <<>>
    /\ job' = Working(Head(wireOut), -1)
    /\ wireOut' = Tail(wireOut)
    /\ UNCHANGED <<hostVars, plugged, wireIn, gattVars>>

(* A line longer than the firmware's buffer is dropped without an answer.  *)
DongleOverruns ==
    /\ job = Idle
    /\ wireOut # <<>>
    /\ Head(wireOut).cmd = "WRITE"
    /\ wireOut' = Tail(wireOut)
    /\ UNCHANGED <<hostVars, plugged, wireIn, job, gattVars>>

Says(lines) ==
    /\ Len(wireIn) + Len(loopq) + Len(lines) <= MaxLines
    /\ wireIn' = wireIn \o lines

(* READ and WRITE answer also when the wait for their procedure timed out  *)
(* or was ended by another procedure: then theirs goes on without them.    *)
DongleAnswers ==
    /\ job # Idle
    /\ job.req.cmd # "DISCOVER"
    /\ Says(<<Line(job.req, IF job.req.cmd = "READ" THEN "READ" ELSE "OK", 0)>>)
    /\ job' = Idle
    /\ stray' \in IF job.req.cmd \in {"READ", "WRITE"} THEN {stray, TRUE} ELSE {stray}
    /\ UNCHANGED <<hostVars, plugged, wireOut, discReq, room>>

(* An error ends the command.  A discovery whose wait timed out says so    *)
(* twice, and its procedure goes on.                                       *)
DongleFails ==
    /\ job # Idle
    /\ LET err == Line(job.req, "ERR", 0)
       IN  \/ Says(<<err>>) /\ UNCHANGED stray
           \/ job.sent >= 0 /\ Says(<<err, err>>) /\ stray' = TRUE
    /\ job' = Idle
    /\ UNCHANGED <<hostVars, plugged, wireOut, discReq, room>>

(* The SVC lines come from do_discover, the CHR lines from the callbacks   *)
(* of its procedures and of stray ones, whose end may also be taken for    *)
(* the end of its own: END closes what was printed so far.                 *)
DongleDiscovers ==
    /\ job # Idle
    /\ job.req.cmd = "DISCOVER"
    /\ \/ /\ job.sent = -1
          /\ Says(<<Line(job.req, "BEGIN", 0)>>)
          /\ job' = [job EXCEPT !.sent = 0]
          /\ discReq' = {job.req}
          /\ room' = MaxParts
       \/ /\ job.sent >= 0 /\ room > 0
          /\ Says(<<Line(job.req, "PART", job.sent + 1)>>)
          /\ job' = [job EXCEPT !.sent = @ + 1]
          /\ room' = room - 1
          /\ UNCHANGED discReq
       \/ /\ job.sent >= 0
          /\ Says(<<Line(job.req, "END", job.sent)>>)
          /\ job' = Idle
          /\ UNCHANGED <<discReq, room>>
    /\ UNCHANGED <<hostVars, plugged, wireOut, stray>>

(* discover_chars_cb of a procedure nobody waits for prints a CHR line     *)
(* under the id of a discovery that is over.                               *)
DongleStrayLine ==
    /\ stray
    /\ room > 0
    /\ room' = room - 1
    /\ \E q \in discReq :
          /\ job # Idle => job.req # q
          /\ Says(<<Line(q, "PART", 0)>>)
    /\ UNCHANGED <<hostVars, plugged, wireOut, job, discReq, stray>>

(* The last of them comes to its end while no command waits. *)
DongleStrayEnds ==
    /\ stray
    /\ stray' = FALSE
    /\ UNCHANGED <<hostVars, plugged, wireOut, wireIn, job, discReq, room>>

Unplug ==
    /\ plugged
    /\ plugged' = FALSE
    /\ wireOut' = <<>>
    /\ wireIn' = <<>>
    /\ job' = Idle
    /\ discReq' = {}
    /\ room' = 0
    /\ stray' = FALSE
    /\ ser' = IF ser = "open" THEN "broken" ELSE ser
    /\ UNCHANGED <<refcount, reader, nextId, pending, discover, streams, rpc, loopq, epoch>>

Plug ==
    /\ ~plugged
    /\ plugged' = TRUE
    /\ UNCHANGED <<hostVars, wireOut, wireIn, job, gattVars>>

-----------------------------------------------------------------------------
(* The Pi process dies and is started again; the dongle keeps running.     *)
Restart ==
    /\ epoch < MaxEpoch
    /\ epoch' = epoch + 1
    /\ refcount' = 0
    /\ ser' = "closed"
    /\ reader' = "none"
    /\ nextId' = 1
    /\ pending' = {}
    /\ discover' = {}
    /\ streams' = {}
    /\ rpc' = [r \in Rpcs |-> IdleRpc]
    /\ loopq' = <<>>
    /\ PortClosed
    /\ UNCHANGED dongleVars

-----------------------------------------------------------------------------
Handler(r) ==
    \/ \E c \in Commands : Call(r, c) \/ CallCannotWrite(r, c) \/ CallRaises(r, c)
    \/ DiscoverTooLate(r)
    \/ Wake(r)
    \/ Timeout(r)
    \/ Cancel(r)

Streaming(s) == StreamOpen(s) \/ StreamRefused(s) \/ StreamClose(s)

Dongle ==
    \/ DongleTakes \/ DongleOverruns \/ DongleAnswers \/ DongleFails \/ DongleDiscovers
    \/ DongleStrayLine \/ DongleStrayEnds

Next ==
    \/ \E r \in Rpcs : Handler(r)
    \/ \E s \in Streams : Streaming(s)
    \/ ReaderLoop
    \/ ReaderDies
    \/ HandleLine
    \/ Dongle
    \/ Unplug
    \/ Plug
    \/ Restart

(* asyncio runs ready callbacks and timers: a handler whose future is done *)
(* is resumed, and wait_for's timer fires.                                 *)
Fairness == \A r \in Rpcs : WF_vars(Wake(r)) /\ WF_vars(Timeout(r))

Spec == Init /\ [][Next]_vars

FairSpec == Spec /\ Fairness
-----------------------------------------------------------------------------
(* PROPERTIES *)

TypeOK ==
    /\ refcount \in Nat
    /\ ser \in {"closed", "open", "broken"}
    /\ reader \in {"none", "run", "dead"}
    /\ nextId \in Nat
    /\ pending \subseteq [id : Nat, rpc : Rpcs]
    /\ discover \subseteq [id : Nat, parts : Nat]
    /\ streams \subseteq Streams
    /\ rpc \in [Rpcs -> [pc : Pcs, cmd : AllCommands \cup {"none"}, id : Nat,
                        tries : Nat, fut : Results]]
    /\ loopq \in Seq(Lines)
    /\ plugged \in BOOLEAN
    /\ wireOut \in Seq(Requests)
    /\ wireIn \in Seq(Lines)
    /\ job \in {Idle} \cup [state : {"busy"}, req : Requests, sent : Nat \cup {-1}]
    /\ discReq \subseteq Requests
    /\ room \in Nat
    /\ stray \in BOOLEAN
    /\ epoch \in Nat

(* A future is only ever completed with the dongle's answer to the command *)
(* its own handler wrote, whatever timed out, was cancelled or restarted   *)
(* before, unless the answer belongs to a command of an earlier run of the *)
(* Pi process (whose ids start at 1 again).                                *)
OwnAnswer ==
    \A r \in Rpcs :
        LET fut == rpc[r].fut
        IN  (rpc[r].pc = "resolved" /\ fut.tag # "stopped" /\ fut.src.epoch = epoch)
              => fut.src = Request(epoch, rpc[r].id, r, rpc[r].cmd)

(* A discovery that ends OK carries exactly the SVC and CHR lines that the *)
(* dongle printed under its id between DISCOVER_BEGIN and DISCOVER_END:    *)
(* none is lost, mixed or counted twice across handlers, time-outs, stops  *)
(* and the late CHR lines of discoveries that are over.  (Whether the      *)
(* dongle printed END too early is OwnCompletion of ZephyrFirmware.)       *)
DiscoverComplete ==
    \A r \in Rpcs :
        LET fut == rpc[r].fut
        IN  (rpc[r].pc = "resolved" /\ fut.tag = "END" /\ fut.src.epoch = epoch)
              => fut.parts = fut.total

(* release() never closes the port under another user: no future is failed *)
(* with "Serial backend stopped".                                          *)
NoUserStopped == \A r \in Rpcs : rpc[r].fut.tag # "stopped"

(* When the last user has left, the port is closed, no reader thread runs  *)
(* and _pending holds nothing, cancelled requests included.                *)
IdleClean ==
    refcount = 0 => /\ ser = "closed"
                    /\ reader = "none"
                    /\ pending = {}
                    /\ Users = {}

(* The count never falls below the number of users, so nobody loses the    *)
(* port, and it exceeds it by at most one: acquire() can fail only on the  *)
(* first reference, and after that it is never tried again.                *)
UsersCounted ==
    /\ Cardinality(Users) <= refcount
    /\ refcount <= Cardinality(Users) + 1

(* The class promises to count its users (zephyr_serial_backend.py:47).    *)
RefcountIsUsers == refcount = Cardinality(Users)

(* Every unary handler returns: a lost answer, a dead reader thread or a   *)
(* dropped command ends in a time-out and a bounded number of retries.     *)
EveryRpcReturns == \A r \in Rpcs : rpc[r].pc # "idle" ~> rpc[r].pc = "idle"
=============================================================================
