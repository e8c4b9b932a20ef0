# TLA+ models of the OpenStuder gateway

The OpenStuder gateway (`src/sigatewayd`) connects WebSocket and Bluetooth
clients to Studer Innotec devices behind drivers, logs property values and
runs protocol extensions. It is one Qt program with a single thread: all its
concurrency comes from the event loop, from calls posted to it and, most of
all, from drivers that dispatch events while they wait for their bus
(`QCoreApplication::processEvents()` inside a read). Any handler of the program
can therefore run in the middle of any driver call. The models are about what
the gateway guarantees under these interleavings.

Paths below are relative to the repository; `src/...` is its source directory.

## 1. Inventory

| Component | State | Operations | What is hard | What makes it correct |
|---|---|---|---|---|
| **Operation queue** `src/sigatewayd/deviceaccess/sisequentialpropertymanager.*`, `operations/siabstractoperation.cpp` | `operationQueue_`, `operationInProgress_`, posted calls, signal connections | `enqueueOperation_`, `executeNext_`, `onAboutToFinish_`, `execute` | executions nest inside a waiting driver; polled objects are connected again at each enqueue, so one finish posts several `executeNext_` | no wakeup lost, pointer never stale, each request executed once, in order, eventually |
| **Device access manager** `sideviceaccessmanager.*` | `propertySubscriptions_`, their subscribers and `pending_`, the retrieval operation | subscribe, unsubscribe, unsubscribe from all, `timerEvent`, execution of subscriptions and retrievals | the timer deletes objects the queue points to; clients and devices go while a subscription is queued or read | queued objects are alive and unique, subscribers exist, subscribed properties are read for ever |
| **Sessions and requests** `websocket/siwebsocketconnection.cpp`, `siwebsocketprotocolv1.cpp`, `bluetooth/sibluetoothmanager.cpp`, `sibluetoothprotocolv1.cpp`, `operations/*` | connections, protocol objects, operation objects, counters of batches | authorize, ask, answer, leave; deletion of operations | the client leaves while its operation is queued, read or half finished; parts of a batch finish in nested order | queued parts are alive, an answer is complete, each request is answered once |
| **Device access and Xcom-485i enumeration** `src/api/deviceaccess/sideviceaccess.cpp`, `src/drivers/deviceaccess/xcom485i/xcom485ideviceaccess.cpp` | children of the device access; snapshot and lists of an enumeration | fast and slow enumeration, adoption and deletion of devices | the bus changes or fails at each request; a nested enumeration changes the children under the snapshot | addresses unique and consecutive, an undisturbed enumeration mirrors the bus |
| **Data log** `src/sigatewayd/datalog/*` | groups: explicit and wildcard ids, timer, outstanding batch | start, stop, time-out, finished, device added and removed; parsing of the configuration | devices go while a batch is out; wildcard and explicit ids share a list | each configured property of a present device is in the next batch, once; timer or batch, never both |
| **Storage** `src/drivers/storage/sqlite/sqlitestorage.cpp` | two tables | store, retrieve, list, clean up | failing queries and ignored commits, rollback, restart, retention window | all or nothing per call; what is committed stays; answers agree with each other |
| **Bluetooth link** `bluetooth/sibluetoothmanager.cpp`, `sibluetoothprotocolframe.cpp` | `receivingFrame_`, `protocol_`, peripheral and service | fragmentation, reassembly, disconnect, advertise again | frames longer than 255 fragments, loss of the link between fragments, posted advertising | a reassembled frame is a sent frame of this connection, none is served before authorization, advertising resumes |
| **WebSocket frames** `siwebsocketprotocolframe.cpp` | none | parse, validate, print | headers required and allowed per command; a second implementation of every command for Bluetooth | both transports give the same answer to the same request, but for differences that are named |
| **User file** `src/api/authorize/sitextfileusermanagement.cpp`, `src/drivers/extension/usermanagement/*`, `src/sigwctl` | the file; a copy per call | add, remove, change, list, authorize | two processes, truncation before writing | without overlap the file is exactly what the accepted changes leave; nobody ever gets a level that was not given to the name |
| **Extensions** `src/sigatewayd/extension`, `src/api/extension`, `src/drivers/extension/{webstorage,wificonfig}` | registry of extensions; storage file of the web storage | `runCommand`, read, write, network configuration | WiFi configuration runs an event loop inside a frame handler | success means configured unless a command of its kind ran inside; handlers return if their processes start; both transports answer a command alike, but for named differences |
| **Start-up, settings, registry, plugins** `sidaemon.cpp`, `sisettings.cpp`, `sideviceaccessregistry.cpp` | set once | `initialize` | order only: managers exist before the first enumeration | initial states of the other modules |
| **Xcom-485i devices** `src/drivers/deviceaccess/xcom485i/*` | the tables of each model, the registers behind them | find the model, read, write | tables of hundreds of rows written by hand; two copies of the settings, words in halves | a write touches one property; how each kind of value reads back is known |
| **sigwctl** `src/sigwctl/*` | the user file | user commands | a second writer of the user file | as the user file |
| **Demo driver** | samples | read | none | not modelled |
| **tinycbor** (vendored) | none | CBOR codec | | not modelled |

How they interact: clients' frames create operations in the queue through the
manager; the queue executes them in the drivers; an operation's `finished`
signal goes to the protocol object that asked, to a data log group or to the
subscribers of a property; `deviceAdded` and `deviceRemoved` go from the device
accesses through the manager to the data log; device messages go from the
retrieval operation to all sessions and to the storage.

The hazards of each component, each at its line, are in `PROJECT.json`.

## 2. Modules

| Module | Models | Kind |
|---|---|---|
| `OperationExecution` | what the queue promises: requests are enqueued, start in that order, finish, and are all finished eventually | abstract specification |
| `OperationQueue` | the queue with posted calls, connections and nested executions | implements `OperationExecution` |
| `OperationQueueProofs` | theorems on the queue | proofs |
| `PropertyPolling` | subscriptions, poll timer, devices that come and go | uses the queue's promise |
| `PropertyPollingMC` | instances | |
| `PropertyPollingProofs` | theorems on the subscriptions | proofs |
| `RequestReply` | what a client is promised: a request is answered once, or its client has left | abstract specification |
| `ClientRequests` | sessions, operations, batches, deletions | implements `RequestReply`; uses the queue's promise |
| `ClientRequestsMC` | an instance | |
| `ClientRequestsProofs` | theorems on requests and batches | proofs |
| `DeviceEnumeration` | a device access and the Xcom-485i enumeration on a changing, failing bus | |
| `DeviceEnumerationMC` | constants of the instances, and the three that disagree | |
| `DevicesProofs` | theorems on enumerations and on sessions | proofs |
| `DataLog` | groups, timers, batches and lists of ids while devices come and go | uses the queue's promise |
| `DataLogMC` | an instance | |
| `DataLogConfiguration` | the parser of the data log configuration | |
| `DataLogProofs` | theorems on the groups and on the parser | proofs |
| `SessionRequests` | what a client can ask for; ids, look-ups, levels, permissions | operators |
| `WebSocketRequests`, `BluetoothRequests` | the handlers of each protocol: from level and frame to the reply and its effects | operators, use `SessionRequests` |
| `Sessions` | clients of both transports over one manager | composes the three above |
| `SessionsMC` | constants of the instance | |
| `DevicesMC` | instances of `DeviceEnumeration` and `Sessions` | |
| `FrameLink` | what one direction of a connection promises: whole frames, once, in order, eventually | abstract specification |
| `BluetoothLink` | the Bluetooth manager: advertising, fragments, authorization, extension calls that run events | implements `FrameLink`, twice |
| `WifiConfig` | the commands of the WiFi extension with the processes they wait for, inside each other | |
| `NestedLoopsMC` | instances of `OperationQueue`, `BluetoothLink` and `WifiConfig` | |
| `NestedLoopsProofs` | theorems on the link and the WiFi commands | proofs |
| `Storage` | the SQLite storage with failing statements, crashes and clean-ups | |
| `WebStorage` | the web storage extension | |
| `UserFile` | the user file and its two writers | |
| `ExtensionCommands` | the commands of the user management and WiFi extensions over both transports | |
| `XcomTables`, `XcomRegisters` | the property tables of the Xcom-485i devices, and the registers a property is read from and written to | |
| `RecordsMC` | instances of the storage, web storage, user file, registers, configuration and commands | |
| `RecordsProofs` | theorems on the storage, the web storage, the user file, the registers and the commands | proofs |
| `SequenceLemmas` | facts on sequences as sets, used by the proofs | proofs |

Composition: `OperationQueue` is checked once with all its detail. The modules
above it (`PropertyPolling`, `ClientRequests`, `DataLog`) use only what that check shows:
operations start in the order of the queue, at any point at which events are
dispatched, and finish innermost first. They do not repeat posted calls and
signal connections. `Sessions` composes the handlers of both protocols with the
manager's subscriptions and the devices; what becomes of an operation that a
handler enqueues is the subject of `ClientRequests`, how a Bluetooth frame gets
to its handler that of `BluetoothLink`.

`DevicesMC`, `NestedLoopsMC` and `RecordsMC` hold instances of components that share no
state. A behaviour of theirs is one of one component, named by `part`; the
others stay in their initial states.

### Common conventions

- `stack` holds the driver calls on the C++ stack, innermost first. A handler
  runs at the top level of the event loop (empty stack) or inside a waiting
  driver (`BusWaits`, `MayDispatch`). `BusWaits = FALSE` is the demo driver.
- A mutant is a definition marked `\* Mutant:` next to the definition it
  changes. It stands for a plausible mistake in that code and shows that a
  property would notice it; it is part of no specification.
- Memory: an object that code can still reach is alive, being deleted by a
  posted call, or deleted. Use of a deleted object never occurs in the modules
  with an invariant that excludes it.

### OperationQueue

The variables are `operationQueue_`, `operationInProgress_`, the executions on
the stack, `posted`, the number of posted calls of `executeNext_`, and
`connections`, how often each object's `aboutToFinish` is connected.
`EnqueueOperation` is `enqueueOperation_` as a whole; `ExecuteNext` and
`ExecuteNextEmpty` are the two outcomes of a dispatched `executeNext_`;
`FinishExecution` is the end of `SIAbstractOperation::execute`, with the signal
and its slot. Requests are numbered so that the same object enqueued twice
makes two requests.

"Sequential" is true of the order in which operations start, not of their
execution: when polled objects have been connected several times, surplus
posted calls start the next operation inside the wait of the current one. The
models keep this behaviour.

### PropertyPolling

`subscriptions`, `subscribers` and `pending` are the manager's subscription
objects and their fields; `present` the devices of the device access.
`TimerEvent` is the whole handler: removal of unused subscriptions (`Kept`), the
retrieval, the subscriptions to poll. `StartOperation` takes the head of the
queue; a subscription whose device is absent returns at once and, as the code
does, leaves `pending_` set.

Reading a property is abstracted to its outcome. A device that is deleted by an
enumeration nested in its read is not touched afterwards
(`xcom485idevice.cpp:84-91` touches only locals after the wait), so the read ends
with either result.

### ClientRequests

Each request has an operation object and parts: one for an enumeration, a read
or a write, one per property for a batch (`completedOperationCount_`).
`FinishPart` is the return of `execute_` with everything it signals: the
counter, the last part's `finished`, and the handler of the protocol object if
that still exists. Refused frames and frames before authorization change no
state but the answer. WebSocket connections go by a posted deletion,
the Bluetooth protocol object directly. Posted deletions may also run in a
nested loop: more behaviours than Qt has, and the invariants hold in them too.

### DeviceEnumeration

A stack frame is one `enumerateDevices`: the snapshot (`existing`), the driver's
copy (`devices`), the category and phase it is in. Every request to the bus is
an action, and between requests (`WaitsForBus`) the bus may change and another
enumeration may begin. The enumerator's lists are not kept: `Listed` derives
them from `devices` and from the address range the constructor recognizes
(`Known`). A bus may have devices beyond it: they become objects when they are counted or
answer a slow enumeration, and are in no list afterwards. `OnBus` is how many devices
an enumerator can know of. A
device is its category, its address, and a serial that tells objects with the
same address apart. `steady` is an auxiliary flag, read by one property only.

Abstractions: addresses start at 1 in each category; the models of an Xtender,
VarioTrack and VarioString are one valid value, so the model check of the battery
manager, which compares, is the only one kept in detail. Where duplicates exist
(nested runs only) an enumerator works on any one of them. A second deletion of a
device by an outer enumeration is undefined in C++; the model lets it pass
without effect, and what is claimed of nested enumerations is the violation below
only.

### DataLog and DataLogConfiguration

A group (`sidataloggroup.cpp`) is `active`, `armed` when its single shot timer runs,
has `propertyIDs` and `batches`, the read operations it has enqueued and which
have not called back. The list is a multiset: the order of its ids decides the
order of the reads only. `OnDeviceAdded` adds an id once for each wildcard that matches
it, as the code does; `OnDeviceRemoved` takes every id of the device,
the explicitly configured ones too, which the code does not bring back.
`OnTimeout` enqueues the batch, or starts the timer again if the list is empty;
`ReadPart` is one finished part, in any order; `OnFinished` stores and starts the
timer. Stop and start are in the model although the daemon never stops a group:
`stopped` says when a property depends on this.

The parser reads line by line and compares each id with all before it
(`Conflicts`). `Covered` is the reference: the properties an id stands for.

### Storage

A call of the storage is one step: the daemon's thread runs it to its end. `disk` is
what a new connection finds, `view` what the daemon's connection sees. They differ
in a transaction a failed `COMMIT` has left open, whose result the code does not look
at (`sqlitestorage.cpp:97`). `Rollback` and `Commit` are the ends of a storing call,
`TimerEvent` the clean-up with its two independent queries (`CleanUp`), `Close` and `Open` a
crash and the start after it, which runs the same clean-up, whose queries may fail there too. A value is the number of its call, so that
"of which call is this row" can be asked. Time is counted in units of
the storage time's resolution; two calls in one unit replace each other's values,
as the unique index makes them do.

### WebStorage, UserFile, ExtensionCommands

`WebStorage` keeps a body per key as the column holds it: keys that spell the
same number are the same row. `UserFile` has the two programs with the stages of a
change: load, truncate, write line by line, close; the daemon's changes and
authorizations are in one thread, sigwctl's is a process of its own and asks for
confirmation between load and change. Names with a `:` break the file's lines.
`ExtensionCommands` has the handlers of nine commands for WebSocket (headers by name)
and Bluetooth (parameters by position) as operators to the reply and the
changed accounts or network; a Bluetooth client sends its parameters up to the first
argument it leaves out. `MayDiffer` names where the two differ in the code:
who may remove or alter oneself, how a level is spelled, what is
refused for its form.

### XcomTables and XcomRegisters

`XcomTables` gives the tables of each device model as sets of ids, types and registers.
A register is computed from the id, as every row of the source has it so; the two
rows of the battery manager that are exchanged are an exception in the model too. The
formula was compared with every row of the source when it was written; the model does not
see a row that is mistyped later.
`XcomRegisters` finds the model from the reading of its register, converts
values to words of reduced width (a number is two "bytes" of 256 values, high word
first), and writes to the setting or to its copy that is not permanent, 6000
registers on. A request or its answer may be lost. Numbers and null come in CBOR only;
whatever a WebSocket client writes is a text, which stands in the model for what Qt
converts it to: a number, a time, or neither. A text that is no number is
sent as 0. Every text may be converted to a time for `canConvert`: one that is none is sent as
-61. All of these are answered with Success.

### BluetoothLink and FrameLink

`Fragments` cuts a frame as `sendFrame_` does, with the count of the remaining
fragments, which saturates at `MaxHeader`; the receiver looks at its zero only. `link`
is the life of the peripheral as the radio and the daemon see it: a lost
connection is noticed by `OnDisconnected`, which deletes the protocol and the
service and posts `StartAdvertise`. `CallReturns` ends an extension call, inside of
which any other handler may have run: `calls` remembers in which connection each
began. Fragments keep their order and are lost with the connection only.

### WifiConfig

`handlers` are the command handlers on the C++ stack, each with the processes it has
yet to wait for. Each waits in an event loop of its own, in which the next command is
handled: only the innermost goes on, whatever has ended outside of it. The
processes end with success or failure, or never start, in which case
`finished` is never emitted and the handler waits for ever.
`supplicant` is wpa_supplicant.conf after its header, `hostapd` the service.

### SessionRequests, WebSocketRequests, BluetoothRequests, Sessions

A handler is an operator from the session's level and user and a frame to
the reply: its status, the status per id of a batch, the ids a description lists, the
operation that goes into the queue, the subscriptions made and ended. A frame is a
command with headers and body (WebSocket) or a sequence of typed parameters (Bluetooth).
`Sessions` keeps the level and name of each client, the devices, the
subscriptions, and, as history, what each client was told to be subscribed to
(`granted`). `Requests` are all that can be put together from `Forms`: each argument of a
command in each of its forms, missing, unreadable, or one more than there should be. A
request is put into a frame of its client's transport (`WebSocketFrame`,
`BluetoothFrame`) and answered by that transport's handler, so that the two can be compared.
The forms stand for what the handlers tell apart: a time is a date or not, a limit is up
to 1000, above, beyond 32 bits or no number, flags are their names or bits. Of a limit
beyond 32 bits Bluetooth takes the low bits, in the model a small number.

`MayDiffer` names where the two transports differ in the code:

| Request | WebSocket | Bluetooth |
|---|---|---|
| flags of a description, `virtual` and `functions` of a search | headers | have no place in the frame |
| a written value | always a text, empty if missing | typed, null if missing |
| unknown write flags | invalid frame | any bits are taken |
| `from` or `to` that is no date | `from` is refused, `to` taken as no date (line 343 tests `from` twice) | taken as 0 |
| a limit beyond 32 bits | refused | cut |
| logged values, no limit or more than 1000 | as asked | 1000 |
| extensions | those allowed | those that also support Bluetooth |
| extension call without a command | invalid frame | reads a parameter that is not there: undefined, and so in the model |

What a description of the whole gateway, an access or a device lists is each transport's own
(Bluetooth lists every property of a device) and not compared.

## 3. Runs

Passing runs:

| Run | Instance | Distinct states | Shows |
|---|---|---|---|
| `polling_safety` | 2 clients, 2 properties on 2 removable devices, 2 retrievals and 2 enumerations outstanding, nesting | 323 thousand | no queued object is deleted or queued twice, no dead subscriber, a subscription is stranded only by an absent device |
| `polling_live` | 2 clients, devices that stay, 1 retrieval and 1 enumeration outstanding, nesting | 7 thousand | a subscribed property is read again and again, an unused subscription is removed |
| `client_requests` | two WebSocket clients and a Bluetooth client, single requests and a batch, departures, nesting | 188 thousand | `QueuedAlive`, `AnswerComplete`, `LeftBehindByLeaversOnly`, the refinement of `RequestReply` |
| `devices` | enumeration: 3 Xtenders, of which 2 are known addresses and 3 are a count that is refused, a VarioString and the battery manager; every request may fail, fast and slow. Sessions: 2 devices, one virtual, a client of each transport, 2 subscriptions, a user and guests | 565 thousand | consecutive addresses, virtual devices follow real ones, an undisturbed enumeration ends with the devices at the known addresses. Updates go to whom they were promised; both protocols answer every request alike but for the differences named; a batch of subscriptions answers as its single requests, a batch of reads takes what these take; over WebSocket the properties described are those that can be read, written and subscribed to, and the extensions announced by either transport run |
| `data_log` | 2 groups, explicit and overlapping wildcard ids, a virtual device, 2 batches per group | 417 thousand | `NeverIdle`, `TimerOrBatch`, `ListsMirrorDevices`; `MatchedIsLogged`, a matched property of a device that stays is logged for ever |
| `nested_loops` | queue: 6 requests on 4 objects, one enqueued three times, nesting. Bluetooth: 2 connections, 3 frames, calls nested twice. WiFi: 3 commands, one process that does not start | 184 thousand | `NoLostWakeup`, `NoStaleInProgress`, `ExecutedOnce`, and the refinement of `OperationExecution` with its fairness: every request is executed eventually. No frame is served before the connection was authorized, advertising resumes, frames arrive as `FrameLink` says in both directions; a command's success means configured unless one of its kind ran inside another, handlers return if processes start |
| `records` | see below | 690 thousand | storage: whole batches, commits that stay, answers that agree; web storage reads the latest write; user file exact when undisturbed, levels always granted; a register write touches one property, and how each kind of value reads back; configured ids overlap only if wildcards cross; commands agree over both transports |

Only 684 states of `devices` are of the sessions, as a state is sessions, devices and
subscriptions; each of the invariants quantifies over all sessions and all requests in
every state.

Runs that find a disagreement between the code and what the repository says:

| Run | Statement | What happens |
|---|---|---|
| `polling_stranded` | `config/gateway.conf:8`: subscribed properties are "periodically read" | `execute_` returns early for an absent device with `pending_` set; after the device is back the property is never read again |
| `enumeration_nested` | `xcom485ideviceaccess.cpp:282`: "Add battery manager if not already present." | an enumeration nested in another one's last wait creates the same device |
| `enumeration_virtual` | `xcom485ideviceaccess.cpp:315`: a virtual VarioString exists with the real ones | line 175 updates the VarioTrack's virtual device instead |
| `enumeration_range` | `xcom485ideviceaccess.cpp:113`: "Delta is positive if VarioTracks were added" | the constructor (line 61) recognizes addresses up to 25, counts up to 16 are taken: with one more device than is recognized each fast enumeration finds one too few and adds it again |
| `sessions_batch_level` | `config/gateway.conf:64`: "Expert: Access to almost all properties.", and so on for the levels below | `READ PROPERTIES` compares no level and asks for no flag: any session reads any property by a batch |

Behaviour that a reader of the code may not expect and which the passing properties state
or exempt by name, rather than hide:

- A time of day loses its minutes when written to a setting, and the minutes that are read
  back are its seconds (`xcom485ideviceaccess.cpp:515`). A text that is no time is accepted
  for a time and reads back as none; a text that is no number is accepted for a number and
  reads back as 0. `WrittenIsRead` says so of each.
- Crossing wildcards log twice (`OverlapsAreCrossed`).
- An explicitly configured id is not logged again after its device was removed
  (`ListsMirrorDevices`).
- Overlapping changes of the user file may undo each other (`UndisturbedIsExact` says when not).
- Two WiFi commands inside each other may both report success with the file holding either
  or both (`SuccessIsConfigured`).
- A search takes no account of the session's level, and a device's description over Bluetooth
  lists all its properties: what these show may be answered with NoProperty.
- The two transports differ as the two definitions of `MayDiffer` say, in `ExtensionCommands`
  and in `Sessions`.

### Bounds and why they are enough

- Queue: one object enqueued three times gives three posted calls for one finish,
  hence two levels of surplus and nested executions; more repetitions add calls
  that find an empty queue or do the same.
- Polling: two properties on different devices, so that one may be absent while
  the other is read; two clients, so that one leaves while another stays on the
  same subscription. `MaxOutstanding` bounds the retrievals and enumerations that
  are queued or executing; two allow one to nest in the other. The code has no
  such bound (see the hazards).
- Requests: each is asked once; the batch has two parts, which can nest in each
  other, in either client's other requests, and around a departure.
- Enumeration: the ranges of the code (9, 5, 15 recognized, counts up to 9, 16, 16)
  are scaled down with their order kept. Two devices in a category are enough
  for gaps and for removal from the wrong end. `MaxNesting` is 1 in the passing
  runs: nesting breaks the device list, which `enumeration_nested` shows. In
  `devices` a bus may have one device more than is known, as long as its count is above the
  limit; `enumeration_range` is the remaining case.
- Data log: the group with wildcards has an explicit id besides, two wildcards
  that match one id, and one that matches ids of a virtual device; the other group has an explicit id
  only. Two batches per group are what stop and start in the middle of a
  batch need; a third repeats that.
- Bluetooth: fragments of 2 bytes and a header that saturates at 1; frames of 1 to 7
  bytes have one fragment, a whole number of fragments, and more than the header can
  name. Two connections for what one could inherit from the other.
- WiFi: three commands nest in each other or follow each other; one process
  does not start.
- Storage: a storage time of 1 and four times, so that rows age past it; three
  calls and two failures: a failed commit, a call into the transaction it left,
  and a crash or clean-up between. The theorems remove these bounds.
- Web storage: two spellings of a number, another key, the empty key, four writes.
  User file: three names, one with a `:`, three changes by either program, one that dies.
  Registers: a model of every table and the multicast devices, one write per behaviour
  of each kind of value (numbers, null, texts that are a number, a time or neither) to each id
  in either copy, as the properties look at all other registers. Configuration: two accesses,
  two devices, wildcards, three intervals with 0 among them, four lines: every pair
  of ids in either order. Commands: two users and a guest, every argument of the right
  form, at the limits of its length or range, and of the wrong form.
- Sessions: properties at two levels, readable, writeable or both; every command with
  every combination of its arguments' forms, and with every id: resolvable, wildcard,
  unknown, no number. Batches of none, one and two ids, of every pair of six.
- `CHECK_DEADLOCK FALSE` only where the instance runs out of requests or the
  system may rest.

### Fairness

- Posted calls are dispatched and driver calls return: a pass of the event loop
  (`sendPostedEvents`) handles the events posted before it and ends, so timers
  fire and a waiting driver tests its reply again; replies finish because the
  Modbus time-out is 1000 ms (`xcom485ideviceaccess.cpp:335`).
- The queue's executions are fair each by itself where the liveness is checked
  with at most one outstanding retrieval; the specification says so at the
  formula.
- The poll timer fires again and again (`startTimer`). Nothing is assumed of
  clients, devices or posted deletions: they may do nothing for ever.
- `ClientRequests` assumes that parts start and finish, which is what
  `nested_loops` shows of the queue.
- Data log: timers fire, the parts of a batch return and its `finished` is delivered
  (from the queue's promise), and the start that `sidaemon.cpp` makes after the first
  enumeration takes place. Nothing of devices, nor of stopping.
- Bluetooth: handlers of events that have occurred run, fragments on their way
  arrive or the connection is lost, extension calls return. Nobody has to connect, send
  or disconnect.
- WiFi: processes that started end, and the loop of the innermost handler notices it.
  `HandlersReturn` is conditional on every process starting, since the code waits without
  a time-out.
- `Storage`, `UserFile`, `Sessions` and the other records state no liveness: their calls
  are finite and run to their end.
- `DeviceEnumeration` states no liveness: its loops are bounded by the counts
  and address ranges and every request returns.

## 4. What is proved

The theorems hold for every value of the constants, under the assumptions
named in the modules; TLC evaluates each of them in a run of that module. They say
what the constants are (sets, functions, numbers), and where a proof needs more, just
that: no user has the name that stands for a torn line (`UserFileAssumption`); a batch is
told from the missing and from the malformed body (`BatchAssumption`); the ids clients ask with
include those of all the properties (`IdAssumption`); every driver
gives each of its devices a function, and the id part that is no number is no property's number
(`SessionRequestAssumption`); numbers written to a register are natural and fit in its
two words, beside the sign (`ValueAssumption`); the families read are the four of the Xcom-485i
(`ReadingAssumption`). The theorems on enumerations have a hypothesis of their own, below.

- **Queue** (`OperationQueueProofs`): `TypeCorrect`, `WakeupNeverLost`,
  `InProgressNeverStale`, `RequestsExecutedOnce`, `ImplementsExecutionSafety`.
  `NoLostWakeup` speaks of the top level of the event loop and is not
  inductive: what happens there depends on what nested executions have left. The
  inductive invariant `WakeupInv` adds `WakeupPosted`, a non-empty queue that no
  execution is in progress for has a posted call, also inside nested executions;
  `Connected`, every queued or executing operation is connected, so that its finish
  does post; and `NoStaleInProgress`, which ties the pointer to the innermost
  execution. The refinement theorem maps initial states and steps.
- **Polling** (`PropertyPollingProofs`): `PollingTypeCorrect`,
  `PolledSubscriptionsAlive`, `SubscriptionsPolledOnce`, `SubscribersStayAlive`,
  `OnlyAbsentDevicesStrand`.
  That a queued object is alive depends on `pending_` being set while it is
  outstanding, and that it is outstanding at most once depends on the timer not
  enqueueing pending ones: neither is inductive alone, `PollInv` joins them with
  the types. The proof needs what the timer appends to the queue: a
  sequence without repetitions of objects that were not pending (`TimerAppends`,
  from `SetToSeqsProperties`). `SubscribersAlive` is proved separately. The action
  property follows a property through queue and stack: the timer enqueues all that it
  marks, a read that returns clears its mark, so only an execution that returns at once
  leaves a mark behind.
- **Requests** (`ClientRequestsProofs`): `RequestsTypeCorrect`, `QueuedPartsAlive`,
  `AnswersComplete`, `OnlyLeaversLeaveBehind`, `ImplementsRequestReplySafety`. They rest
  on the counter of the operation, which
  does not tell which parts have finished, while parts finish in any order. The
  inductive `CountInv` therefore speaks of cardinalities: the parts queued or
  executing (`Remaining`) and the counter make up the operation's parts
  (`Counted`). That a finishing part is one less needs `Distinct`, no part is
  queued or executed twice. `Released` and `AnsweredCounted` say that an
  operation is released or answered at the end of the count only; departures
  of clients, whatever they interrupt, touch none of this (`SessionStep`).
  The refinement of `RequestReply` further needs that an answer went to a
  request that was asked (`Served`, `NotForgotten`) and to none twice (`Once`).
- **Enumeration** (`DevicesProofs`): `AddressesAreConsecutive`, `VirtualDevicesFollow`,
  `UndisturbedEnumerationMirrors`. `EnumInv` says of every
  moment inside an enumeration, between any two requests, what the lists are: each
  category has the addresses 1 to n with one device each (`Numbered`), so that the length
  of a list is the last address; the categories left behind have their virtual device
  (`FollowedSoFar`) and, if nothing disturbed it, exactly the devices at known addresses of
  the bus (`SteadySoFar`). The hypothesis `AloneWithinRange` says that enumerations do not nest,
  and that no count beyond the addresses the constructor recognizes is taken: the bus never has
  it, it is above the limit, or all enumerations are slow. Neither part can be dropped:
  the statements are false with a nested enumeration (`enumeration_nested`) and with six
  VarioTracks (`enumeration_range`). Within it any number of devices may be on the bus.
- **Sessions** (`DevicesProofs`): `SubscribersGetUpdates` from `SessionsInv`, by one lemma
  per handler and transport on what a reply adds or removes: an id is subscribed if
  and only if the answer is Success, and only one the session may read.
  `TransportsAlwaysAgree` goes command by command, through the parsing of each transport's
  frame (headers there, positions here) to the reply of each handler; without any one of the
  differences in `MayDiffer` TLC finds it false. `BatchAnswersAsSingle` is for batches of any length;
  of reads it states one direction only, since the other is false (`sessions_batch_level`).
  `ShowsWhatItAnswers` is about the descriptions of WebSocket, searches without levels, and
  the extensions of both transports. All three hold in every state.
- **Data log** (`DataLogProofs`): `DataLogTypeCorrect`, `GroupsNeverIdle`,
  `TimerOrBatchOnly`, `ListsFollowDevices`. `NeverIdle` needs the types only: every action
  that takes the timer or the last batch away leaves the other; the work is in the
  number of batches under append and removal, since they finish in any order. That there is one batch at
  most is not inductive: it needs that an inactive group has
  neither timer nor batch as long as nothing was stopped. `ListsMirrorDevices` is inductive
  with the types.
- **Configuration** (`DataLogProofs`): `ConfigurationTypeCorrect`,
  `OverlapsOnlyCrossed`. The invariant is that any two accepted ids have been
  compared and do not conflict; the lemma `OverlapCrosses` shows by cases on the
  wildcards' parts that two such ids share a property only if the wildcards cross.
- **Bluetooth link** (`NestedLoopsProofs`): `LinkTypeCorrect`, `AuthorizationNotInherited`,
  `FramesArriveInOrder`, for any fragment size, largest header and length of frames. The
  invariant of one direction (`Transit`) says where in the fragments on their way each
  frame begins (`Layout`: a frame is as many fragments as `FragmentCount` says, from
  where the one before ends) and that what the receiver holds is the beginning of the
  oldest frame not yet delivered. It is stated once and used for both directions.
  `LinkTypeCorrect` takes from it, with the types, that what either side has put together is
  never a mixture of two frames (`BeginsNextFrame`);
  `FramesArriveInOrder` then maps every step to one of `FrameLink` or a stutter.
- **WiFi** (`NestedLoopsProofs`): `SuccessLeavesConfigured`, for any nesting. A command of
  which none of its kind has run inside another is the only one of its kind on the
  stack (`Alone`), so that file and service are what it has done so far
  (`ClientConfigured`, `ServiceConfigured`); the property speaks of its end only.
- **Storage** (`RecordsProofs`): `StorageTypeCorrect`, `StorageStaysSound`,
  `BatchesStayWhole`, `CommittedStays`, `AnswersAlwaysAgree`. View and disk exchange their
  contents at every commit, rollback and crash, so the invariant must say of both what is
  wanted of one. `Sound` says it of a table: every row is of a call (`Origin`), a call
  with one row has all that no later call replaced (`Whole`), a committed
  call's rows are there or have been replaced by newer ones (`Keeps`). `Numbered` tells the calls apart. Lemmas
  show each way a table changes to keep it: the rows of a call, a message, a
  clean-up, a call without trace; `CallSound` then covers all ends of a call. For the
  answers, the unique index makes the rows of an id a sequence by time, of which a limit
  takes the last ones.
- **Web storage** (`RecordsProofs`): `LatestIsRead`: the row of a key's column is the last body
  written to any spelling.
- **User file** (`RecordsProofs`): `OnlyGrantedLevels`, `UndisturbedFileIsExact`. What a
  change has loaded and not yet written is state as well, so both invariants speak of
  lists: each level in the file or in the copy of either program was given to that name
  (`Granted`), also through overlaps and deaths, since lines move whole or torn lines
  fail to load; and, as long as nothing has overlapped, a copy is exactly what the accepted
  changes leave and the file is its beginning (`Exact`, `Undisturbed`).
- **Registers** (`RecordsProofs`): `RegistersTypeCorrect`, `WritesTouchOne`,
  `WrittenIsAlwaysRead`. The tables are
  compared by ranges: the settings of a model are within 600 ids of the first of the
  family (a lemma per family over its sections), so their registers are even, distinct,
  and below the copy 6000 registers on; the two exchanged rows are a case of their own.
  A write's words are put together again by `WordsOfNumber`; every number that is
  sent, of a time of day or of no time too, fits in them with its sign (`NumberFits`).
  `TimeIsAt` says which time a read makes of it.
- **Commands** (`RecordsProofs`): `CommandsAlwaysAgree`, in every state and for any texts,
  since the proof does not look into `Texts`. Headers and parameters are compared by what
  they give: `ParametersAre` shows that the count of the parameters fits exactly if the call
  gives all arguments and no more, and that the parameters then are the arguments in
  their order. Each of the differences in `MayDiffer` is used by a step of the proof.
- `SequenceLemmas` holds the facts on `ToSet` under append, push, head and tail,
  concatenation, and on sequences without repetitions, with positions.

Only model-checked:

- Liveness, which needs fairness and `ENABLED`: `SubscribedIsPolled`, `UnusedIsRemoved`,
  `MatchedIsLogged`, `AdvertisesAgain`, `HandlersReturn`, and the liveness of the
  refinements `ImplementsExecution`, `ImplementsRequestReply` and `FramesArrive`, whose
  safety parts are proved.

## 5. Order of the work and what it leaves

The queue came first, because everything else runs in it; then what polls, who asks,
what the devices are; then what is recorded; then what runs event loops of its own;
then what the requests say. Every invariant the passing runs check has its theorem.
What remains worth doing:

- `DeviceEnumeration` with nesting: what does hold then, for instance that no two
  real devices of an undisturbed category share an address.
- A model of the time of the data log's timers (`msecToNextDue_`,
  `sidataloggroup.cpp:87`), which mixes seconds and milliseconds.

## 6. Limits of the models

- Reads and writes of properties are outcomes in the modules above the driver; values
  appear in `XcomRegisters` only.
- Growth is not bounded by the code in three places: connections of polled
  objects, retrievals enqueued faster than the bus answers, operations whose
  client has left. The models bound or count them; the hazards name them.
- Between the modules above the queue, the queue's promise is used in place of
  the queue. The nesting it allows (at any dispatch) is at least that of the code.

## 7. Not modelled and why

- tinycbor is third-party code copied into the repository; Qt, SQLite and the shell's
  programs are modelled as the code uses them. A frame's CBOR is a sequence of typed
  parameters.
- Start-up, settings and plugin loading: one sequence before the event loop runs, each
  step of which ends the process on failure. It decides the initial states of the
  modules. Nothing interleaves with it. (Extension drivers are used without the test for
  null that the other drivers get, `sidaemon.cpp:147`.)
- The demo driver computes samples without waiting and keeps no state beside them. (One
  row answers with another's id, `demodriver.cpp:250`.)
- The registry's sum of enumerated devices: it adds the results of the accesses
  and so hides one that failed (`sideviceaccessregistry.cpp:34`). With one access, which is
  what `DeviceEnumeration` has, there is nothing to add.
- WiFi: the scan and the parsing of iwlist's output, the installation of the access point
  and the text of hostapd.conf. A configuration file that cannot be opened after the
  service was stopped acts as a failing process does in `WifiConfig`.
- The names, units, descriptions and enumerations' texts of properties, the text of
  frames and JSON, logging, sigwctl's command line and console.
- Extension calls whose result completes after the call has returned: the WiFi extension's
  `scan` does, over either transport (`wificonfigextension.cpp:418-422`). Like the scan itself
  it is left out: in the models a call has its result when it returns.
- The reading of device messages from the bus (`xcom485ideviceaccess.cpp:358`): a loop
  over a counter of the gateway, which enters `PropertyPolling` as the retrieval
  operation and `BluetoothLink` as the message that is sent.
