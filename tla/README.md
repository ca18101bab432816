# A TLA+ verification of TieDie

TieDie connects applications to Bluetooth Low Energy devices. An application talks
HTTP (NIPC, SCIM) to a *gateway*; the gateway talks gRPC to Raspberry Pis, or drives a
Silicon Labs radio itself; each Pi talks a line protocol over USB to a *dongle*, which
talks to the devices. This directory models the parts of that chain in which requests,
answers, time-outs and failures meet, checks the models with TLC, and proves what
matters most with TLAPS. `PROJECT.json` maps every definition to the lines it models.

## 1. Inventory

| component | state it keeps | operations | module |
|---|---|---|---|
| dongle firmware, `pi-ap/zephyr-firmware/main.c` | `slots[]`, `gatt_sem`, `disc_ctx`, scanner, `adv_msgq` | CONNECT, DISCONNECT, DISCOVER, READ, WRITE, LIST; callbacks of the Bluetooth stack; the advertisement thread | `ZephyrFirmware`, `AdvertisementPath` |
| Pi serial backend, `pi-ap/zephyr_serial_backend.py` | `_refcount`, port, reader thread, `_pending`, `_discover_state`, `_next_id` | acquire, release, `_request`, the line handlers | `ZephyrSerial`, `AdvertisementPath` |
| Pi RPC server, `pi-ap/grpc_server.py` | two bounded queues, two streaming flags | five unary RPCs with retries, two streams | `ZephyrSerial`, `AdvertisementPath` |
| gateway gRPC access point, `gateway/grpc_access_point.py` | `conn_reqs`, stubs, stream threads, `adv_q`, `mqtt_q` | connect, discover, read, write, disconnect; event and advertisement streams | `GatewayConnections`, `AdvertisementPath` |
| gateway control API: connections, `gateway/control.py` | none of its own | connect, update, disconnect; read and write of properties and characteristics | `GatewayConnections` |
| Silicon Labs access point, `gateway/silabs` | `conn_reqs`, `operations`, the event thread | connect, discover, read, write, disconnect; the event loop | `SilabsAccessPoint` |
| SCIM onboarding, `gateway/scim*.py` | rows of devices and extensions; endpoints in Cisco ISE | create, update, delete, bulk; endpoint apps | `Onboarding` |
| NIPC registrations, `gateway/control.py` | SDF models, data apps, broker access list, enabled events | register, update, delete; enable, disable | `Registrations` |
| telemetry, `gateway/data_producer.py` | none | publish advertisement, connection status | inside `AdvertisementPath`, `SilabsAccessPoint` |
| Python SDK and sample application | the clients of the app; what a view has read | start-up; views for devices, models, events | `SampleApp` |
| mock access point, start-up, generated and vendor code, nRF backend, Java SDK | – | – | not modelled, section 7 |

What is hard here, and what makes each component correct:

* **Answers that come late.** Every layer has its own time-out (dongle 10–15 s per
  wait, Pi 90 s, gateway 5–120 s) and the layer below is not told. Correct means: an
  answer completes only the request it belongs to, and work finished after its
  requester left is undone or belongs to somebody.
* **One shared resource, many users.** The serial port is opened by the first user and
  closed by the last; the dongle executes one command at a time and has a fixed number
  of slots and tables; the radio has a few connection handles and reuses them.
* **Copies of the truth.** Whether a device is connected is known by the Bluetooth
  stack, by the dongle's slot, by the `EVENT` lines and by `conn_reqs`; which devices
  exist by four tables and by ISE; which topics an app may read by its registration
  and by the broker's access list. Correct means the copies agree once everything has
  settled.
* **Failure in the middle.** The cable is pulled, a link drops between two steps of a
  discovery, ISE fails between two commits, an answer is lost, a process restarts while
  the other side goes on.
* **Threads without locks** in the gateway; one event loop on the Pi; cooperative
  threads and callbacks on the dongle; green threads in the sample application.

PROJECT.json "hazards" lists each of these at its line, with the properties that watch
it or the reason why none can.

## 2. How the modules fit together

```
ZephyrSerial          Pi backend + unary RPCs + lines of the dongle  ZephyrSerialProofs
ZephyrFirmware        dongle                                         ZephyrFirmwareProofs
GatewayConnections    control API + gRPC access point,               GatewayConnectionsProofs
                      over a Pi reduced to a queue
AdvertisementPath     dongle -> Pi -> gateway                        AdvertisementPathProofs
   implements LossyFifo                                              LossyFifoProofs
SilabsAccessPoint     request threads + event thread + radio         SilabsAccessPointProofs
Onboarding -> Registrations                                          RegistrationsProofs
                    -> SampleApp                                     SampleAppProofs
```

`Registrations` EXTENDS `Onboarding` and composes the two: the requests of the one run
between the steps of the other and read its tables. `SampleApp` EXTENDS `Registrations`:
an action of the application is a conjunction of what a view does and the gateway action
its HTTP request starts; a request the gateway serves in several steps goes on in
`StoreStep`, whether or not its view still waits. `LossyFifo` is the abstract specification of the advertisement
path. `GatewayConnections` uses of the Pi and the dongle what the first two modules say
about them: commands are executed in the order they were written, one at a time, those
of callers that gave up included.

Definitions whose name adds to that of another (`CloseForgotten` beside `Close`) are the
slips a careless edit of that code could introduce. No specification uses them; each is
put in the place of its original to see that a property notices.

## 3. Modules and the code

**ZephyrSerial.** One event loop runs everything, so an action is a handler's code
between two awaits that really suspend. `Call` is a unary handler from its first line
to the await of its future; `CallRaises`, `CallCannotWrite` and `DiscoverTooLate` are
the ways it ends before; `Wake`, `Timeout` and `Cancel` the ways the await ends, each
going on with the retry loop (`AttemptFailed`) or the `finally` block (`Finish`,
`Release`, `Stop`). `StreamOpen`/`StreamRefused`/`StreamClose` are the streaming RPCs as users of the
port; `ReaderLoop`, `ReaderDies` the reader thread, `HandleLine` its callback on the
loop. The other end of the line is `main.c` as far as its lines tell: `DongleTakes` and
`DongleOverruns` are `uart_cb` (a line that is too long is dropped without an answer),
`DongleAnswers` and `DongleFails` the answers of `handle_command`, `DongleDiscovers` is
`do_discover`. A CHR line is printed by a callback, under the id in `disc_ctx`, which is
that of the discovery begun last (`discReq`). A procedure nobody waits for any more
(`stray`) goes on printing such lines (`DongleStrayLine`, `DongleStrayEnds`), and since
it gives the semaphore the running discovery waits for, END may come at any time after
BEGIN. The cable and a restart of the Pi's process, after which ids start at 1 again,
are the environment. A line carries the request it answers, of which the host uses only
the id, and a discovery line its number, which the host does not look at.
`DiscoverComplete` therefore speaks of the lines printed under a discovery's id between
its BEGIN and END; that these are all a device has, the firmware does not promise.

**ZephyrFirmware.** `handle_command` runs to completion for one line; it and the
stack's callbacks interleave only at the four `k_sem_take` calls. `DoConnect` ...
`DoList` run up to the first of them, the `...Wakes` actions from one to the next.
`connected_cb` and `disconnected_cb` are in `StackConnects` and `StackDisconnects`, the
GATT callbacks in `GattAttribute` and `GattCompletes`. A stored service or
characteristic is the peer it was found on. The
handler ignores the result of `k_sem_take` and goes on when a wait times out
(`ConnectTimesOut`, `DisconnectTimesOut`, `GattWaitTimesOut`). `SlowPeers` says whether
the stack's callback may come after the wait for it: a GATT procedure may last 30 s, and
a link is closed only after a supervision time-out that the peer may have negotiated
above the 5 s of DISCONNECT. With it, DISCONNECT may answer OK with the link up and
CONNECT with the link still being made; `TruthfulConnect` says what an answer means all
the same, `TruthfulDisconnect` is about stacks that are prompt.

**GatewayConnections.** Flask serves each request in its own thread without locks. A
request begins with its first call to a Pi (`Connect`, `UpdateConnection`,
`DisconnectFromDevice`, `AccessCharacteristic`, `ReadProperties`, `WriteProperties`)
and goes on with each call's outcome (`Connected`, `Discovered`, `PropertyRead`,
`PropertyWritten`, `Disconnected`). `Deadline` and `Unreachable` are the two ways a stub
raises; after a deadline the command stays with the dongle. `Succeeds` and `Fruitless`
are the Pi and the dongle, with the Pi's retries; `EventArrives` is the event stream,
whose addresses are the ones the firmware prints, with their type (`EventAddress`); that
such a string is never a key of `conn_reqs` is `AddressAssumption`.
`granted`, `strays` and `crossed` are history: what a client may rely on, the links the
code knowingly leaves behind, and the devices for which two requests that connect or
disconnect (CONNECT, DISCONNECT, and a READ or WRITE that met no entry) were served at
the same time.

**SilabsAccessPoint.** A request thread is cut at every BGAPI command, at its waits and
at its writes of `conn_reqs`: `Open`, `Assign` (the handle reaches the operation only
when the command has returned), `Close`, `Store`, `Gatt`, `Waits`, `Woken`, `TimesOut`.
`HandleEvent` shows one event to all operations (`Sets` says which of them it ends),
`PopClosed` drops the entry of a closed connection, and `EventThreadDies` collects the
exceptions nothing catches: publishing a scan report or a connection status for which an
event is enabled (`ScanRaises`, `StatusRaises`), a report of a discovery that meets no
`current_service` (`DiscoveryRaises`), and the loop over `conn_reqs` while a request
stores into it (`LoopRaises`). The radio is external; that it gives a handle to another
connection only when the event of its closing has been read is an assumption about it
(`Reusable`). Clients make one request per device
at a time; two at once lose a handle immediately and are a hazard of the list.

**AdvertisementPath.** Every hand-over is a queue and every queue drops what does not
fit: `Scan`, `UsbAdv` (firmware), `ReadLine`, `FlushAdvs`, `Dispatch` (reader thread
and event loop), `Yield`, `Cancelled` (the stream RPC and its purge), `Receive`,
`WriteLog`, `Publish` (gateway). `typed` distinguishes the two forms of the address in
a line, which the reader treats differently. Streams break, overlap and are replaced by
a restarted gateway. **LossyFifo** is what all this promises: a queue that may lose
anything, at any time, and otherwise delivers in order.

**Onboarding** and **Registrations.** A request for devices is cut wherever it commits
or calls ISE. `dirty` holds the addresses its session has assigned and not committed;
in `/Bulk` the session is shared, so `bulk` matters to what a later commit writes.
`CreateDevice`, `UpdateDevice`, `DeleteDevice` do the checks up to the first of those
points; `IseCreated`, `Committed`, `Refused`, `DeleteBle`, `DeleteInIse`, `NotInIse`,
`DeleteMab`, `DeleteFdo`, `DeleteRow` are the rest. A PUT assigns the id of its body to
the row and looks the extensions up under that id. `IseFails` covers an error and an
answer that is lost after ISE acted; `Crash` forgets the request. One onboarding request
is served at a time. A registration is one transaction and one step, unless it replaces
the access rows of a data app: such a request is cut at its statements
(`UpdateDataApp` reads, `ReplaceTopics` writes the app's row and deletes, a
`RegisterDataApp` does both at once; `CommitDataApp` inserts and commits, or is rolled
back when `Conflicts` says that another one has inserted the same rows), each of which
sees what others have committed (READ COMMITTED).
`crossed` is history: the apps two such requests worked on at the same time, until one
has had the app to itself.

**SampleApp.** The views of `app.py` run in green threads that switch only while a
request to the gateway is out, so a view is cut at every HTTP request. `BeforeRequest`
and the actions up to `InitClients` are the start-up of the clients, which every view
runs when they are not there; `GetDataApp`, `StoreDataAppOf`, `PostEvent` are
`enable_event` with its read-modify-write of the registration; the other views follow.
`StoreStep` is the gateway's thread that works on a registration. The start-up reads the
list of endpoint apps once, and only its first page (`Listings`, `PageSize`), on which
apps of other clients (`OtherEndpoint`) have their places. A request may not arrive
(`Unreachable`), its answer may be lost, and the process may restart. `missed` and
`copies` are history: the events whose registration was refused or overwritten, and what
a request was a copy of.

## 4. Runs

| run | shows | bounds, and why they are enough |
|---|---|---|
| `serial` | each answer reaches its own request; a discovery delivers what was printed under its id; nobody's port is closed; the last user leaves nothing behind; the count stays within one of the users | two handlers and a stream, one retry: an answer can arrive during a retry and during another's request, and stray lines during another's discovery |
| `serial_live` | every handler returns | one handler, all commands, one restart |
| `serial_refcount` | violation, section 5 | as `serial` |
| `firmware` | slots, events and the answers to CONNECT agree with the links | two peers, two slots, tables of one entry against peers with two, so that every limit is met; slow peers: every wait may time out |
| `firmware_prompt` | every command is ended by a callback; no handle of a former peer is used; DISCONNECT answers OK only without a link | three peers for two slots: slots are reused |
| `firmware_gattsem` | violation, section 5 | slow peers |
| `gateway` | a failed connect is undone even when executed after the deadline; a granted connection is not taken down by other requests; a client that asks again gets its connection | two threads on one device, all requests and kinds of fault, two faults in one behaviour; not past the point where requests of the device cross (`Uncrossed`) |
| `gateway_loss` | violation, section 5 | one loss |
| `registry` | rows, ISE and access list agree; a failed request leaves nothing to a later one; a deletion asked for again completes | two devices that compete for one address of each kind, one event, one app whose topics two threads replace, one fault at any point; devices and data apps one at a time (`Apart`) |
| `silabs` | no connection nobody can close; a disconnect is answered truthfully; connect and disconnect return | two devices on two handles, so that a handle moves from one device to the other; one retry; both types of events enabled, so that the event thread may die; the second device's clients only connect and disconnect |
| `adv` | the log implements `LossyFifo`; nothing that was read is stuck | four advertisements, queues of one or two places so that each overflows, three streams, two faults |
| `sample` | an enabled event reaches the data app; the app always comes up again | two browsers, two events, two threads of the gateway, three endpoint apps on pages of two, two lost requests, answers or restarts; start-up and views one at a time (`Apart`) |

Requests may overlap in `gateway`. What is exempt is a device for which two requests
that connect or disconnect crossed: the code then does lose an entry (`conn_reqs.pop`
after a disconnect) or take down the other's link; both are hazards with that note. The
properties say nothing of a crossed device, and the only device of this run is explored
up to that point. The two constraints `Apart` split a product of parts that do not read
each other's tables; with both parts at once `registry` and `sample` are too large.

Deadlock is checked everywhere but in `silabs`, where the system may really stop: when
the event thread has died, or a read waits for an answer that never comes, nothing can
move any more. All bounds are constants named in the modules (`MaxId`, `MaxParts`,
`MaxLines`, `MaxEpoch`, `MaxProcs`, `MaxFaults`, `MaxAdvs`, `MaxBreaks`) or sizes of the
code made small (`MaxConn`, `MaxServices`, `QueueSize`, `Retries`, `FwCap`, ...).

**Fairness.** `ZephyrSerial`: weak fairness of `Wake` and `Timeout` only, which
asyncio's ready queue and the timer of `wait_for` give; nothing is assumed of the
dongle, the reader or the cable. `ZephyrFirmware`: the handler's thread runs once its
semaphore is given, and the stack ends what it has begun; no time-out of a wait is
assumed, so the property says that a callback always comes. `GatewayConnections`:
threads run, the Pi executes what is queued, events are delivered; strong fairness says
that the client keeps asking and that the device, being in range, answers some of
infinitely many attempts. `SilabsAccessPoint`: threads run, the radio ends what it was
asked to close and every GATT procedure; nothing is assumed of connection attempts, so
`ConnectReturns` rests on the time-outs alone. `AdvertisementPath`: threads and the
event loop run, a broken stream is noticed. `Registrations`: a request that was started
runs on, and (strong fairness) a /Bulk request comes to its end and the client that
wants a device deleted asks again. `SampleApp`: browsers ask, requests are answered or
fail, and the gateway's threads run. Faults are finite in
every behaviour.

**Refinement.** `LogIsLossyFifo` is `LossyFifo!Spec` under the mapping that takes the
advertisements in any of the queues (`InFlight`) as what is on its way, and the log as
what was delivered. Every step of the path is a step of `LossyFifo` or leaves it
unchanged: checked by TLC in `adv`, and proved for every bound (`PathIsLossyFifo`).
`LossyFifoProofs` proves of `LossyFifo` what a reader of the log relies on. `SampleApp` is
shown to use the gateway through its API only in the same way (`AppUsesTheApi`), with
the identity as the mapping.

## 5. Findings

* A failed first `acquire()` in a unary RPC leaves `_refcount` one too high for ever,
  and the port is never opened again (`serial_refcount`). `UsersCounted`, proved, says
  it never gets worse than one.
* The shared `gatt_sem` lets an abandoned procedure complete the next command
  (`firmware_gattsem`).
* `conn_reqs` is not cleaned after a link loss: the address in the event has another
  form (`gateway_loss`).

Seen while modelling, part of the models and recorded as hazards: a second CONNECT
takes the first one's link down by its cleanup; an implicit connection of a READ or
WRITE is left open when its discovery fails (`ConnectRecovers` shows that an explicit
connect ends that state); a discovery the stack refuses leaves the scanner off; a
completion that comes before a Silicon Labs discovery waits is lost, and its reads wait
without a time-out; a failed operation of `/Bulk` leaves addresses that the next one
commits; a DELETE cut between ISE and the commit can never be repeated; two browsers
that enable events at once can lose one of them from the registration; DISCONNECT
answers OK after 5 s with the link up, and CONNECT after 15 s with the link still being
made, because the result of `k_sem_take` is ignored; two PUTs of a data app at once can
leave the access rows of both; whether an Ethernet address is in use is checked before
ISE is called, so that two requests at once can both pass; a registered endpoint app
that is not on the first page of the list keeps the sample application from starting.

## 6. Proofs

All proofs are for every value of the constants under the named assumptions, which TLC
evaluates in the runs.

**ZephyrSerialProofs.** `TypeCorrect` from `Typed`, which is `TypeOK` with `HasCommand`
(a handler that is not idle has a command: a retry sends it again). `PortIsShared`
(`NoUserStopped`), `IdleIsClean` (`IdleClean`) and `CountIsBounded` (`UsersCounted`)
from `ShareInv`; the three cannot be proved one by one: that no future is failed by
`_stop` needs the count to be at least the number of users, that the count is never too
low needs that only a user releases, and that it is at most one too high needs that the
port is closed exactly while the count is zero, since only then can `_start` fail.

`AnswersReachTheirCallers` (`OwnAnswer`) and `DiscoveriesAreFaithful`
(`DiscoverComplete`) from `AnswerInv`, which adds to `ShareInv` what is on its way. For
the first: a request that is written, executed or answered has the number of an earlier
run of the process or an id below `nextId` (`Past`), running handlers have different ids
below `nextId` (`Numbered`), and a request of this run with the id of a running handler
is the one it wrote (`Matching`). For the second: seen as one stream from the dongle to
the event loop, each PART or END line of an awaited discovery comes directly after the
line before it, or the entry in `_discover_state` is what that line left
(`LinesInOrder`), the dongle goes on where the stream stops (`JobInOrder`), and while a
discovery runs every CHR line carries its id (`OnlyItsLines`), those of stray procedures
too. Lines are lost when the port is closed, but then `ShareInv` says that nobody waits.
Lines of an earlier run may use the id of an awaited discovery; they end before its
BEGIN, which starts the entry anew.

**ZephyrFirmwareProofs.** `FirmwareTypeCorrect`, `OneSlotForEachLink`
(`OneSlotPerLink`), `EventsAreTruthful` (`EventsTellLinks`), `NoSlotIsLeaked`
(`NoSlotLeaked`) and `ConnectsAreTruthful` (`TruthfulConnect`), for any number of peers
and slots, slow peers and ignored time-outs included. All rest on one invariant, `IInv`
(theorem `SlotsMatchLinks`): an active slot holds one link of the stack, under its own
address, and each link has one slot (`SlotsAreLinks`); the blocked command still has the
slot it began with (`CommandHasSlot`); and the slot's semaphore is not given before the
stack has come to an end (`NoEarlyGive`), which is why an answer that is not that of a
time-out is true when it is printed. `PromptDisconnectsAreTruthful`
(`TruthfulDisconnect`) and `PromptPeersOwnHandles` (`OwnCharacteristics`) hold under
`~SlowPeers`: with callbacks that come after the handler's wait the code does answer
too early and mix up procedures (section 5). The invariant of the latter adds that a
GATT procedure is the one the command waits for (`OwnProcedure`) and that a slot without
a link has no handles (`OwnHandles`).

**GatewayConnectionsProofs.** For any number of overlapping requests:
`CommandsHaveCallers` (a command in the Pi is that of a call which still waits, and no
call has two) and from it `ConnectionsTypeCorrect`; `NoLinkIsLeaked` (`NoLeakedLink`),
`GrantedConnectionsStay` (`GrantedStays`) and `FailedConnectsAreUndone`
(`FailedConnectUndone`), which speak of every device whose connecting and disconnecting
requests did not cross, whatever is served for others and whatever reads, writes and
updates use its connection meanwhile. The exemption is needed (section 4). What makes
these hard is that commands of calls whose deadline has passed stay in the Pi and are
executed under later requests. `SInv` (theorem `LinksAreAccounted`) says that a device
that was not crossed has one such request at a time (`Alone`); that what earlier calls
left is executed before its present call (`InTurn`); that the device is known, left
behind, being connected by a handler, or goes down because a DISCONNECT follows every
CONNECT for it (`Accounted`); that a handler that is undoing a connection has sent that
DISCONNECT (`Unmaking`); and that a granted connection is in `conn_reqs` with nothing
queued or served that would change it (`Untouched`).

**AdvertisementPathProofs.** `PathTypeCorrect`, `PathInOrder` and the refinement
`PathIsLossyFifo`. The invariant: every queue is increasing (`Sorted`), everything in a
queue is older than everything in the queues before it (`Ordered`), and only what was
reported is in them (`Reported`). `Sorted` contains a fact about the two formats of a
line that nobody states in the code: lines with the typed address bypass `batch`, so
order is kept only because one format of line comes in one run of the dongle, and
`batch` is empty with the other.

**RegistrationsProofs.** `TypeCorrect`, `RowsBelongToDevices` (`NoDanglingRow`),
`EndpointsKnown` (`MabInIse`), `AccessListExact` (`AclMatchesApp`) and
`NoLeftoversCommitted` (`OwnRowsOnly`). None is inductive by itself, because a commit
writes what the session, or an earlier statement, has found. For the devices `IInv`
states knowledge of ISE of the tables *as the session sees them* (`SeenInIse`, with
`SeenUnique`, which one request at a time keeps) and adds what the request in progress
has found out and not yet used (`RequestOK`, `PendingOK`), what the session may contain
(`SessionOK`), that an id a PUT replaces has no rows (`GoneOK`) and how far a DELETE has
come (`DeletionOK`). For the data apps, whose requests interleave: a request that is
alone with its app still finds the rows and the events it has read (`StoresOK`), and an
app with two requests is in `crossed`. One lemma per action.

**SilabsAccessPointProofs.** `TypeCorrect`, `NoConnectionOrphaned` (`NoOrphanLink`) and
`DisconnectsTruthful` (`DisconnectTruthful`). Both properties rest on how long a handle
means the same connection. `IInv` says that a device has at most one request
(`OneRequest`), that its connection is under the handle of its entry or of the request
that is making or closing it (`EntryOK`, `ConnectOK`, `DisconnectOK`), that a handle
stays free while the event of its closing is unhandled (`ClosedIsFree`), and where a
request can be (`StageOK`). The steps fall into four kinds with a lemma each: a request
begins, goes on, ends (`BeginKeeps`, `GoKeeps`, `ReturnKeeps`), or the radio changes
one link (`RadioKeeps`).

**SampleAppProofs.** `AppTypeCorrect`, `EnabledEventsAreRegistered`
(`EnabledIsRegistered`) and `AppUsesTheApi`: every behaviour of the application with the
gateway is one of `Registrations`, so the theorems above hold under it. `AInv` adds to
`IInv` of `RegistrationsProofs` how far the start-up of a view has come (`StartedUp`)
and that a view about to enable an event has its registration (`AskedFirst`): what a
view learnt before a request must still be true after it, although other views ran. The
gateway's threads add that a view waits for a thread of its own, which works on its event
(`WaitsOK`), and that a request that finds nothing to write has its events registered
already, or they were overwritten (`StoresKept`).

**LossyFifoProofs.** `FifoInOrder` and `FifoNoOvertaking`, the promise of the abstract
queue.

Every invariant, action property and refinement of a passing run is the statement of a
theorem. Only model-checked: all liveness (`EveryRpcReturns`, `EveryCommandEnds`,
`ConnectRecovers`, `DeleteCompletes`, `ConnectReturns`, `NothingStuck`, `StartsUp`),
which is out of the prover's reach together with ENABLED. What is proved under a
hypothesis is checked by TLC under the same one (`~SlowPeers` in `firmware_prompt`).

## 7. Not modelled

* Of modelled components: the characters of a line in `uart_cb`, and what the tail of an
  overlong one is read as; onboarding requests of two threads at once, for which the
  check of an Ethernet address before ISE is called is a hazard of the list; GETs and pages that only show something, the OAuth pages and web
  sockets of the sample application, tokens and the MQTT receiver of the SDK,
  subscriptions (the gRPC access point always raises, nobody calls those of the Silicon
  Labs one).
* The mock access point: a test double without threads or a radio.
* The nRF backend: this commit's server creates the Zephyr backend only.
* Start-up and configuration, record types, generated gRPC code and vendored BGAPI
  helpers: no control of their own. Of the latter only the event loop is modelled.
* The Java SDK and its sample: a second client of the same HTTP API.
* The contents of values (payloads, UUIDs, timestamps), which no property is about.

## 8. What comes next

Onboarding requests in several threads, with the check of an address and its insertion
apart. For `GatewayConnections`, what can still be said of a device after two of its
requests have crossed, such as that one more CONNECT puts it right. The safety half of
the liveness properties, such as a measure that falls with each retry of a handler.
