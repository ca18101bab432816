------------------------- MODULE AdvertisementPath -------------------------
(***************************************************************************)
(* The way of an advertisement from the dongle's scanner to the gateway's  *)
(* log: scan_cb and usb_adv_thread of the firmware, the reader thread and  *)
(* the event loop of pi-ap/zephyr_serial_backend.py, StreamAdvertisements  *)
(* of pi-ap/grpc_server.py, and the receiving thread and the two workers   *)
(* of gateway/grpc_access_point.py.                                        *)
(*                                                                         *)
(* Every hand-over is a queue of its own and every queue drops what does   *)
(* not fit.  Advertisements are numbered in the order of the scanner's     *)
(* reports.                                                                *)
(*                                                                         *)
(* Faults: the stream breaks, which the gateway does not repair, or the    *)
(* gateway is restarted and opens a new one, perhaps before the Pi has     *)
(* noticed the end of the old one.  Requests that hold the serial port     *)
(* open without a stream only read what _queue_advertisement drops and are *)
(* left out.                                                               *)
(***************************************************************************)
EXTENDS Naturals, Sequences, SequencesExt

CONSTANTS
    Streams,    \* calls of StreamAdvertisements
    NoStream,
    FwCap,      \* adv_msgq: 100
    WireCap,    \* lines the serial driver holds
    BatchSize,  \* advertisements of one flush: 50
    PiCap,      \* adv_queue: 100000
    ChunkSize,  \* advertisements of one AdvertisementBatch: 200
    GwCap,      \* adv_q and mqtt_q: 100000
    MaxAdvs,    \* bound: advertisements reported
    MaxFaults   \* bound: broken streams and gateway restarts

ASSUME PathNames == NoStream \notin Streams
ASSUME PathBounds ==
    {FwCap, WireCap, BatchSize, PiCap, ChunkSize, GwCap} \subseteq Nat \ {0}
    /\ MaxAdvs \in Nat /\ MaxFaults \in Nat

VARIABLES
    next,      \* the number of the next advertisement
    scanning,  \* the dongle scans
    msgq,      \* adv_msgq of the firmware
    wire,      \* lines printed and not yet read
    typed,     \* the address is printed with its type, so not 17 characters
    batch,     \* _pending of _reader_loop
    loop,      \* callbacks handed to the Pi's event loop: lists of advertisements
    serving,   \* StreamAdvertisements calls the Pi still serves
    flag,      \* _streaming
    advQueue,  \* adv_queue of the Pi
    cur,       \* the stream the gateway reads
    net,       \* advertisements in that stream
    advQ,      \* adv_q of the gateway
    mqttQ,     \* mqtt_q
    mqttUp,    \* mqtt_worker runs
    log,       \* ads_log.txt
    faults     \* faults left

fwVars == <<next, scanning, msgq, typed>>
piVars == <<wire, batch, loop, serving, flag, advQueue>>
gwVars == <<cur, net, advQ, mqttQ, mqttUp, log>>
vars == <<fwVars, piVars, gwVars, faults>>

(* The firmware prints the type; older firmware did not.  start_scan opens *)
(* the first stream.                                                       *)
Init ==
    /\ next = 1 /\ scanning = TRUE /\ msgq = <<>> /\ wire = <<>>
    /\ typed \in BOOLEAN
    /\ batch = <<>> /\ loop = <<>> /\ advQueue = <<>>
    /\ cur \in Streams /\ serving = {cur} /\ flag = TRUE
    /\ net = <<>> /\ advQ = <<>> /\ mqttQ = <<>> /\ mqttUp = TRUE /\ log = <<>>
    /\ faults = MaxFaults

(* As much of t as a queue s of size cap takes.  A slip: put() of a queue  *)
(* without a bound.                                                        *)
PutAll(s, t, cap) == s \o t

PutNowait(s, t, cap) ==
    IF Len(s) + Len(t) <= cap THEN s \o t
    ELSE IF Len(s) < cap THEN s \o SubSeq(t, 1, cap - Len(s)) ELSE s

-----------------------------------------------------------------------------
(* The firmware *)

Scan ==
    /\ scanning
    /\ next <= MaxAdvs
    /\ next' = next + 1
    /\ msgq' = PutNowait(msgq, <<next>>, FwCap)
    /\ UNCHANGED <<scanning, typed, piVars, gwVars, faults>>

(* Lines are lost while nobody has opened the serial port.                 *)
UsbAdv ==
    /\ msgq # <<>>
    /\ serving # {} => Len(wire) < WireCap
    /\ msgq' = Tail(msgq)
    /\ wire' = IF serving = {} THEN wire ELSE Append(wire, Head(msgq))
    /\ UNCHANGED <<next, scanning, typed, batch, loop, serving, flag, advQueue, gwVars, faults>>

(* do_connect stops the scanner; do_discover purges the queue too.         *)
StopScan ==
    /\ scanning
    /\ scanning' = FALSE
    /\ msgq' \in {msgq, <<>>}
    /\ UNCHANGED <<next, typed, piVars, gwVars, faults>>

RestartScan ==
    /\ ~scanning
    /\ scanning' = TRUE
    /\ UNCHANGED <<next, msgq, typed, piVars, gwVars, faults>>

-----------------------------------------------------------------------------
(* The Pi: the reader thread *)

(* A typed address is left to _handle_line.  The others are collected and  *)
(* flushed when there are enough of them or 10 ms have passed.  A slip: a  *)
(* flush after 10 ms does not start a new list.                            *)
ReadLineKept ==
    /\ wire # <<>>
    /\ wire' = Tail(wire)
    /\ IF typed
       THEN loop' = Append(loop, <<Head(wire)>>) /\ UNCHANGED batch
       ELSE LET b == Append(batch, Head(wire))
            IN  /\ batch' = IF Len(b) < BatchSize THEN b ELSE <<>>
                /\ loop' = Append(loop, b)
    /\ UNCHANGED <<fwVars, serving, flag, advQueue, gwVars, faults>>

ReadLine ==
    /\ wire # <<>>
    /\ wire' = Tail(wire)
    /\ IF typed
       THEN loop' = Append(loop, <<Head(wire)>>) /\ UNCHANGED batch
       ELSE LET b == Append(batch, Head(wire))
            IN  \/ batch' = <<>> /\ loop' = Append(loop, b)
                \/ Len(b) < BatchSize /\ batch' = b /\ UNCHANGED loop
    /\ UNCHANGED <<fwVars, serving, flag, advQueue, gwVars, faults>>

(* After a time-out of readline, or before a line of another kind.         *)
FlushAdvs ==
    /\ batch # <<>>
    /\ loop' = Append(loop, batch)
    /\ batch' = <<>>
    /\ UNCHANGED <<fwVars, wire, serving, flag, advQueue, gwVars, faults>>

(* _dispatch_adv_batch, or _emit_adv of a single one, and                  *)
(* _queue_advertisement.                                                   *)
Dispatch ==
    /\ loop # <<>>
    /\ loop' = Tail(loop)
    /\ advQueue' = IF flag THEN PutNowait(advQueue, Head(loop), PiCap) ELSE advQueue
    /\ UNCHANGED <<fwVars, wire, batch, serving, flag, gwVars, faults>>

-----------------------------------------------------------------------------
(* The Pi: StreamAdvertisements.  A call whose client is gone goes on      *)
(* until the Pi notices.                                                   *)

Taken == IF Len(advQueue) < ChunkSize THEN Len(advQueue) ELSE ChunkSize

Yield(s) ==
    /\ s \in serving
    /\ advQueue # <<>>
    /\ advQueue' = SubSeq(advQueue, Taken + 1, Len(advQueue))
    /\ net' = IF s = cur THEN net \o SubSeq(advQueue, 1, Taken) ELSE net
    /\ UNCHANGED <<fwVars, wire, batch, loop, serving, flag, cur, advQ, mqttQ, mqttUp, log, faults>>

(* CancelledError, finally: the flag is cleared, whoever else streams, and *)
(* with the last call the serial port is closed.                           *)
Cancelled(s) ==
    /\ s \in serving \ {cur}
    /\ serving' = serving \ {s}
    /\ flag' = FALSE
    /\ IF serving' = {} THEN wire' = <<>> /\ batch' = <<>> ELSE UNCHANGED <<wire, batch>>
    /\ UNCHANGED <<fwVars, loop, advQueue, gwVars, faults>>

-----------------------------------------------------------------------------
(* The gateway *)

Receive ==
    /\ net # <<>>
    /\ net' = Tail(net)
    /\ advQ' = PutNowait(advQ, <<Head(net)>>, GwCap)
    /\ UNCHANGED <<fwVars, piVars, cur, mqttQ, mqttUp, log, faults>>

(* worker: the file first, then MQTT if its queue takes it.  A slip: it    *)
(* waits for room in the queue.                                            *)
WriteLogWaits ==
    /\ advQ # <<>>
    /\ Len(mqttQ) < GwCap
    /\ advQ' = Tail(advQ)
    /\ log' = Append(log, Head(advQ))
    /\ mqttQ' = Append(mqttQ, Head(advQ))
    /\ UNCHANGED <<fwVars, piVars, cur, net, mqttUp, faults>>

WriteLog ==
    /\ advQ # <<>>
    /\ advQ' = Tail(advQ)
    /\ log' = Append(log, Head(advQ))
    /\ mqttQ' = PutNowait(mqttQ, <<Head(advQ)>>, GwCap)
    /\ UNCHANGED <<fwVars, piVars, cur, net, mqttUp, faults>>

(* publish_advertisement finds no device of a typed address, and nothing   *)
(* to publish for a device without an enabled event; with one it raises a  *)
(* TypeError, which ends the thread.                                       *)
Publish ==
    /\ mqttUp
    /\ mqttQ # <<>>
    /\ mqttQ' = Tail(mqttQ)
    /\ \/ UNCHANGED mqttUp
       \/ ~typed /\ mqttUp' = FALSE
    /\ UNCHANGED <<fwVars, piVars, cur, net, advQ, log, faults>>

-----------------------------------------------------------------------------
(* Faults *)

Fault == faults > 0 /\ faults' = faults - 1

(* _stream_advs ends with the error; its workers go on.                    *)
StreamBreaks ==
    /\ Fault
    /\ cur # NoStream
    /\ cur' = NoStream
    /\ net' = <<>>
    /\ UNCHANGED <<fwVars, piVars, advQ, mqttQ, mqttUp, log>>

(* A new process, with empty queues; start_scan opens a stream.            *)
GatewayRestarts(s) ==
    /\ Fault
    /\ s \in Streams \ (serving \cup {cur})
    /\ cur' = s
    /\ serving' = serving \cup {s}
    /\ flag' = TRUE
    /\ net' = <<>> /\ advQ' = <<>> /\ mqttQ' = <<>> /\ mqttUp' = TRUE
    /\ UNCHANGED <<fwVars, wire, batch, loop, advQueue, log>>

-----------------------------------------------------------------------------
Next ==
    \/ Scan \/ UsbAdv \/ StopScan \/ RestartScan
    \/ ReadLine \/ FlushAdvs \/ Dispatch
    \/ \E s \in Streams : Yield(s) \/ Cancelled(s) \/ GatewayRestarts(s)
    \/ Receive \/ WriteLog \/ Publish \/ StreamBreaks

Spec == Init /\ [][Next]_vars

(* Every thread and the event loop run, and a broken stream is noticed.    *)
Fairness ==
    /\ WF_vars(UsbAdv) /\ WF_vars(ReadLine) /\ WF_vars(FlushAdvs) /\ WF_vars(Dispatch)
    /\ \A s \in Streams : WF_vars(Yield(s)) /\ WF_vars(Cancelled(s))
    /\ WF_vars(Receive) /\ WF_vars(WriteLog) /\ WF_vars(Publish)

FairSpec == Spec /\ Fairness

-----------------------------------------------------------------------------
(* PROPERTIES *)

(* All that was reported and is neither logged nor lost.                   *)
InFlight ==
    UNION {Range(q) : q \in {msgq, wire, batch, advQueue, net, advQ} \cup Range(loop)}

TypeOK ==
    /\ next \in 1..MaxAdvs + 1
    /\ Len(msgq) <= FwCap /\ Len(wire) <= WireCap /\ Len(batch) < BatchSize
    /\ Len(advQueue) <= PiCap /\ Len(advQ) <= GwCap /\ Len(mqttQ) <= GwCap
    /\ InFlight \cup Range(mqttQ) \cup Range(log) \subseteq 1..MaxAdvs
    /\ {scanning, typed, flag, mqttUp} \subseteq BOOLEAN
    /\ serving \subseteq Streams
    /\ cur \in serving \cup {NoStream}
    /\ faults \in 0..MaxFaults

(* The log is a lossy queue of what was scanned: through full queues, a    *)
(* purge, two formats of a line, broken streams, streams that overlap and  *)
(* restarts of the gateway, no advertisement is written twice or after a   *)
(* younger one.                                                            *)
Fifo == INSTANCE LossyFifo WITH
            flight <- InFlight,
            last <- IF log = <<>> THEN 0 ELSE Last(log),
            out <- Range(log)

LogIsLossyFifo == Fifo!Spec

(* A line once read is not stuck: it is logged, or dropped because a queue *)
(* was full, and neither a slow nor a dead mqtt_worker holds it up.        *)
(* Without a stream the Pi's queue keeps what it holds.                    *)
NothingStuck ==
    \A n \in 1..MaxAdvs :
        (n \in InFlight) ~> (n \notin InFlight \/ serving = {})
=============================================================================
