# A TLA+ model of the Azure IoT Gateway SDK

The gateway is a C library that loads *modules* (shared libraries with the five
functions Create, ParseConfiguration, Start, Receive, Destroy), joins them with
*links* and lets them exchange *messages* through a *broker*.  This directory
models the core (brokers, event system, low-level gateway, messages), the
bindings for Node.js and Java, and the modules of the samples (simulated device,
hello world, identity map, IoT Hub, logger, BLE), checks them with TLC and proves
the central facts about them with TLAPS.

## 1. Inventory

Paths are relative to `src/`.

| component | code | state it keeps | operations | talks to |
|---|---|---|---|---|
| publish/subscribe broker | `core/src/broker.c` | list of `BROKER_MODULEINFO` (socket, socket_lock, thread, quit guid), `modules_lock`, PUB socket, reference count | AddModule, RemoveModule, AddLink, RemoveLink, Publish, IncRef/DecRef; one `module_worker` thread per module | nanomsg; `Module_Receive` of the modules, which may call `Broker_Publish` again |
| broadcast broker | `core/src/broadcast_broker.c` | list of modules, each with queue `mq`, `mq_lock`, `mq_cond`, `quit_worker`, thread | the same interface; links do nothing; one `module_publish_worker` per module | as above, without nanomsg |
| event system | `core/src/internal/event_system.c` | vectors of callbacks per event, `is_errored`, queue of rows, a callback thread that comes and goes, a thread to be joined | AddEventCallback, ReportEvent, Destroy; `callback_thread_main_func` | user callbacks; `Gateway_LL_GetModuleList` for a context |
| gateway, low level | `core/src/gateway_ll.c` | vectors of modules and links, broker, event system | Create, Destroy, AddModule, RemoveModule(ByName), AddLink, RemoveLink, GetModuleList, Start, StartModule | broker, module loader, modules, event system |
| gateway from JSON | `core/src/gateway.c` | none of its own | Gateway_Create | parson, gateway_ll |
| message | `core/src/message.c` | reference count, CONSTMAP, CONSTBUFFER | Create, Clone, Destroy, ToByteArray, CreateFromByteArray | everybody |
| module loader | `core/src/module_loader.c`, `core/adapters` | a library handle | Load, Unload | dlopen |
| identity map | `modules/identitymap` | two sorted tables MAC <-> device | Receive (publishes) | broker |
| IoT Hub | `modules/iothub` | vector of device clients ("personalities") | Receive, message callback (publishes) | IoT Hub client, broker |
| BLE | `modules/ble` | device, instruction sequence, GLib loop thread | Create, Receive, Destroy; asynchronous GATT calls | BlueZ over D-Bus, broker |
| logger | `modules/logger` | an open file | Receive appends to a JSON array | file system |
| hello world, simulated device | `modules/hello_world`, `modules/simulated_device` | a thread, `stopThread`, lock | Start, Destroy; publishing thread | broker |
| functions, RabbitMQ, GPIO | `modules/azure_functions`, ... | a connection | Receive, a thread | one service each |
| Java, Node.js, .NET bindings | `bindings/*` | host managers (singletons, reference counts), module entries with states | the module interface, forwarded | JVM, V8 and libuv, CLR |
| configuration parsers | `*_hl.c` | none | JSON to structures | parson |

### What is hard, and what makes each part correct

*Brokers.*  Threads of two kinds meet on `modules_lock` and on a lock per
module.  Hard: closing a socket under a running `nn_recv`, stopping exactly one
worker through a channel every worker listens to, joining a worker that is
inside the broker, quitting while messages wait, freeing an entry its worker
still uses, each platform call failing by itself.  Correct means: every module
receives serially and in one order that all modules share; nothing runs in a
module that was detached; removal returns; messages that reached a module's
queue are handed over; clones are destroyed once.

*Event system.*  A thread that ends by itself after 200 ms of idleness is raced
by reports, by the joining of its predecessor and by destruction.  Correct
means: callbacks run once and in order whatever threads come and go; each
thread is joined once; nothing is left when the system is freed; the context of
a row outlives its callbacks.

*Gateway.*  Sequential, but every operation is a list of steps any of which may
fail and must be undone, and links from `"*"` share the subscriptions of the
broker with links from modules.  Correct means: what the broker routes is what
the links say; vectors, live modules and references of the broker agree; the
observer's last list is the graph.

*Messages.*  A message and its two parts have a count each, changed one after the
other by owners on different threads; the byte array format is parsed from what
programs behind a binding hand in.  Correct means: nothing is freed early or
leaked; what is written is read back, and nothing else is read.

*Node.js binding.*  The gateway's threads leave callbacks for the one thread that
runs JavaScript, which takes the newest first; a module's state is written by
both sides.  Correct means: an object sees create, start, receive and destroy in
an order that makes sense; starts and removals happen; clones of messages that
wait in callbacks are neither lost nor destroyed twice.

*Java binding.*  The modules share a machine and a manager that counts them;
creation has many ways to fail, and every thread that calls Java must be
attached and detached.  Correct means: the count is right, the machine lives as
long as a module needs it and no longer, destruction returns.

*Sample modules.*  Threads that publish, callbacks of the client of the cloud and workers meet
creation, start, destruction and kills.  Correct means: a reading comes to the cloud under the
name of its device, in order and once; a command comes back under the right
address; threads, clients and the file end with their module; the log stays a
JSON array but for the places where writing broke off.

*BLE.*  Timers, requests and the owner share a sequence of instructions that the
last of them frees, on a loop of its own or of somebody else.  Correct means: the
references count the users; the completion of a destruction comes last; it comes.

`PROJECT.json` has the list of hazards, each at its line.

## 2. Modules

| module | stands for | composed with |
|---|---|---|
| `ModuleDelivery` | what a broker promises to modules: abstract specification | refined by both brokers |
| `Broker` | `broker.c` | `INSTANCE ModuleDelivery` |
| `BroadcastBroker` | `broadcast_broker.c` | `INSTANCE ModuleDelivery` |
| `EventSystem` | `event_system.c` | |
| `Topology` | the graph of a gateway and the routes that follow from it: abstract specification | refined by `Gateway` |
| `Gateway` | `gateway_ll.c` with its broker, loader and event system | `INSTANCE Topology` |
| `MessageBytes` | the byte array format of `message.c`: operators only | |
| `Message` | `message.c`: counts, clones, destruction | extends `MessageBytes` |
| `NodeModules` | `nodejs.cpp`, the modules manager and the idle queue | |
| `JavaHost` | `java_module_host.c` and its manager | |
| `IdentityMap` | `identitymap.c`: operators only | in `CloudUpload` |
| `Devices` | `simulated_device.c`, `hello_world.c` | in `CloudUpload` |
| `IotHub` | `iothub.c` | extends `IdentityMap`, in `CloudUpload` |
| `Logger` | `logger.c` | in `CloudUpload` |
| `CloudUpload` | a gateway of these modules: broker, links, life cycle, kills | extends the four |
| `UploadInvariant` | the inductive invariant of `CloudUpload`, `UInv` | extends it |
| `Ble` | `ble.c`, the instruction sequence, the connection, `gio_async_seq.c` | |
| `BrokerProofs`, `BroadcastProofs`, `EventProofs`, `GatewayProofs`, `MessageProofs`, `NodeProofs`, `JavaProofs` | theorems | extend their module |
| `ModuleProofs` | theorems about `Ble` and `CloudUpload` | extends `Ble` and `UploadInvariant` |
| `MC*` | values for TLC | |

Operators carry the names of the functions and fields they stand for; the map in
`PROJECT.json` gives the lines.  A section of code under a lock that waits for
nothing inside is one action, because nobody can see its intermediate states; a
function that waits in the middle, or whose lock-free middle another thread can
see, is cut there.

**Broker.**  `worker[m]` says where `module_worker` is (before the lock, in
`nn_recv`, in `Module_Receive`, in a `Broker_Publish` made from there, ended),
`client[c]` where a caller is in `stop_module`.  `pipe[m]` is what nanomsg
holds for a SUB socket: at most `RcvCap` entries, the rest is dropped silently,
as nanomsg does on a PUB socket; subscriptions filter on the receiving side.  The quit
signal is an entry like any other, with the guid of its module as topic.
`Broker_RemoveModule` is three actions: the signal, the closing under
`socket_lock`, the join; `modules_lock` stays taken throughout.

**BroadcastBroker.**  `Broker_Publish` is cut per module, since it takes
`mq_lock` of one after the other; `rest` is what its loop still has to visit.
`references` is the reference count of each message.  When `mq_lock` cannot be
taken again after `Module_Receive` the real worker goes on without the lock, which is
undefined behaviour of an external vector and is not modelled.

**EventSystem.**  `thread[t]` says where a callback thread is; `callback_thread`
and `destroyed_thread` are the two handles of the code.  Rows carry the closures
to be called, the release of the module list being the last one.  Reports come
from clients and from callbacks (`Reentrant`).

**Gateway.**  One thread drives the API, so each call is one action with the
whole chain of calls it makes; creation and destruction are taken apart into
entries.  `subs` counts the subscriptions the broker holds, which is what
`Broker_AddLink` and `Broker_RemoveLink` change.  `Unsubscribed` does what a removal the broker
refuses does: nothing, for the gateway ignores the error.  A platform error *inside* a
`Broker_RemoveLink` is left out: it is ignored too and would make the counts
grow without a bound.  A behaviour is that of one gateway of `Setups`
(variable `setup`): how its modules are called and which calls may fail.  `MCGateway` has
two: one whose every call may fail, with two instances of a module under one name, and one
whose broker does what it is asked and whose modules have names of their own.
Exact subscriptions and the routes of the broker are claimed of the second (`BrokerWorks`).

**MessageBytes, Message.**  `Message_ToByteArray` and
`Message_CreateFromByteArray` are operators over sequences of bytes, with the
reader's checks of sizes and terminators in their order.  `Message` has owners:
an owner is a place that keeps a handle (a variable, an entry of a queue), with
the step it is in.  `Message_Clone` counts the message, then its properties,
then its content; `Message_Destroy` gives them back one by one; the owners'
steps interleave.  The owner being cloned from stays (field `by`), since it belongs to the
caller of `Message_Clone`.

**NodeModules.**  `host` is the gateway's thread, `node` the thread of Node.js with its stages
of booting, `m_callbacks` the queue of `nodejs_idle.cpp`, of which
the *last* is run first, `m_call_on_init` the modules that wait for the boot.
`running` is the callback under way: registering a module is cut where its
handle's state is written, because `NODEJS_Create` writes it too.  A JavaScript object is a
`Script`, the functions it exports and what `create` returns; what it gives to
`broker.publish` is a `Post`.  A freed handle that is used sets `crashed`, after
which nothing is claimed and nothing happens.

**JavaHost.**  The gateway's thread goes through `JavaModuleHost_Create`
(`gateway.at`: machine, manager, object), `Start` and `Destroy`, each library
call failing at will (`failing`); each host has a worker in
`JavaModuleHost_Receive`.  `attached` is the set of threads attached to the
machine, `host[h].env` the environment the host keeps for whoever attached last;
`DestroyJavaVM` waits for the attached threads.  The options of the manager are
copied and compared as the code does it: no additional options and an empty
list of them are different things.  A configuration (`Configs`) is what the JSON of a
module gives: a class path, two flags and a list of strings.

**CloudUpload.**  The gateway of `samples/simulated_device_cloud_upload` and of
`hello_world`.  It takes the broker for what `ModuleDelivery` promises: an inbox
per attached module, filled along the links, taken by one worker.  What it keeps of the
broker's locks is the part that modules meet: `Broker_RemoveModule` holds
`modules_lock` until the worker is joined (`gw.at = "joining"`, `WorkerJoined`), and whoever
publishes waits for that lock (`LockIsFree`).  The gateway's thread creates, starts, unlinks and
removes modules in the code's order; `Killed` ends the process at any point and keeps the file.
*Devices*: a handle, a thread and the flag that stops it.  A turn of the simulated device's
loop is cut where the text is being written (`"writes"`), where it is ready (`"copies"`) and
where `Message_Create` has copied it (`"publishes"`, `held`): `msgText` is one for all of them,
has no lock, and is `Torn` when two write at a time.  A message has its name in the histories,
`of = <<device, n>>`, apart from its `content`.
*IdentityMap*: validation of the table, the two directions of the mapping on
sets of properties; addresses are spelt in capitals or not (`Upper`).  Its worker is either
taking a message or waiting to publish what it made of it (`mapper`).
*IotHub*: the vector of personalities, the worker inside
`IotHub_Receive` (creates a client, pushes it, sends or destroys), and the
client's thread, which may call back as soon as the callback is registered.
*Logger*: the file as a sequence of tokens (`"open"`, `"begin"`, `"end"`, `"comma"`,
`"close"`), an object being its last character, `"end"`, after the others, `"begin"`.  `buffer` is
what `fprintf` was given since the last `fseek`; any prefix of it may be in the file when the
process is killed or a call fails, and only a prefix of a text may be in the buffer when
`fprintf` fails.  Where a prefix broke off the file has a *scar*, a ghost: the length it had
then, at which the next object starts by writing over a character that is not `"]"`.  The specification
is `UploadSpec`; its parts are named apart from those of `Ble`, since one module proves about both.

**Ble.**  One thread creates, feeds and destroys a module.  Callbacks run on
the default main context of GLib, one at a time, pumped by the module's event
thread, by the loop of another module (`shared`) or by `BLE_Destroy` as it
waits.  A request (`step[r]`) is at one of the asynchronous calls of its
`GIO_Async_Seq`; `refs` is the count of the instruction sequence; `timers` are its
GLib timers.  `BLEIO_Seq_Run` and `BLEIO_Seq_Destroy` are taken apart per
instruction, since they meet in `state` without a lock: `run` and `exits` are the positions
of the vector that each has still to schedule, `runner` is the thread in `BLEIO_Seq_Run`.
A schedule of `BLEIO_Seq_Run` that fails is two steps, `RunTakesReference` and `RunGivesBack`, as
`BLEIO_Seq_Destroy` may let go of the sequence in between; then `undo` becomes `"dropped"`, for
the bare `DEC_REF` does not look whether it was the last.  Everywhere else the owner or the timer
holds a reference meanwhile, and a failed schedule is one step, `NotScheduled`.
`moved` are the instructions that `VECTOR_push_back` moved under a request or a timer.

## 3. Runs

| run | what it asks | instance |
|---|---|---|
| `broker_failures` | type, order, `WorkerIsAttached` with its inductive invariant, refinement of `ModuleDelivery`, with every platform call but `ThreadAPI_Join` failing at will | 2 modules, one republishing, 2 clients, 2 messages, 2 attachments, sockets for 2 entries: they overflow; 755k states |
| `broker_liveness` | removals return, messages arrive, no close under `nn_recv` | 2 modules, 1 client, 2 messages, 3 attachments: a module is removed and attached again; 277k states |
| `broker_circular_wait` | (violation) nobody waits in a circle | a republishing module is removed |
| `broadcast_failures` | references of messages, the inductive invariant, refinement | as `broker_failures`, 3 messages; 110k states |
| `broadcast_liveness` | no lost wakeup, removals return, queued messages arrive | 2 modules, 1 client, 3 messages |
| `event_system` | all safety and liveness of the event system | a client, callbacks that report and register, 3 reports, 3 threads, every call failing |
| `gateway` | `GatewayInv`, exact subscriptions, the observer is up to date, refinement of `Topology` | 3 modules, 3 links, `"*"` included, both gateways of `MCGateway`; 583k states |
| `nodejs` | the life an object sees, handles, clones, posts; starts and removals happen | 2 modules, 4 scripts, 2 messages, thread creation may fail |
| `message` | the three counts, life of the three objects, the format | 3 owners, 2 messages; 2 values and some 400 foreign byte arrays |
| `cloud_upload` | names, order, contents and address of what is sent, clients, threads and file; destruction ends or is caught in a join, readings arrive | three gateways: the sample with two devices and a message of each, one device with two messages, links in circles and a command, hello world with the logger started twice, with kills; 203k states |
| `java` | the count, the machine, destruction returns | 3 hosts, 4 configurations, 4 creations |
| `ble` | references, completion, the end of a destruction | configured `READ_PERIODIC`, `READ_ONCE`, `WRITE_AT_EXIT`; added `READ_PERIODIC`, `WRITE_ONCE`, `WRITE_AT_EXIT`; 369k states |

No run takes four minutes on two workers.

*Properties in parts.*  `BrokerInv`, `ListInv`, `ThreadInv`, `GatewayInv`, `NodeInv`, `UploadInv`,
`HostInv`, `BleInv` and `BytesAreReadBack` are conjunctions of named invariants,
each with a comment of its own.

*Why the bounds are enough.*  Two modules are needed for one to hear the quit signal of
the other, two clients for a removal to race a publication or another removal, two messages for an order, one
attachment more than modules for a reattachment.  A socket with room for two
overflows with two messages and a quit signal.  The event system needs two
threads for a handover and three to go through it with an ended thread pending,
and three reports to start them.  Two links to one sink, one from
`"*"`, are the interesting case of the gateway, and the third link and module
make the undoing visible for somebody who had no part in it.  Three owners let
a clone and a destruction meet on a message that a third one keeps; the byte
arrays are every change, cut and extension of two that hold every construct.
Two JavaScript modules let the callbacks of one come between those of the
other; only one of them is `Active`, the other is created and destroyed around it.
Three hosts are needed for one to fail while a second leaves and a third stays.
The two devices of the cloud have keys that are each other's names, so that a
mapping by the wrong column shows; they are two because one alone keeps its text, and the third has
the messages that can overtake each other.  The BLE instructions are of every kind but
`WRITE_AT_INIT`, which `schedule_instruction` treats as `WRITE_ONCE`, and both kinds that are
added to memory of their own are among those added;
one read per timer on its way suffices, since the timer skips a tick only for the
model's bound.  Every bound is a
constant and a guard of one action (`MaxPublish`, `MaxAdd`, `MaxSub`,
`MaxReports`, `MaxCallbacks`, `MaxModules`, `MaxLinks`, `MaxPending`,
`MaxStarts`, `Active`, `MaxMessages`, `MaxCommands`, `lives`, `MaxCreations`, `MaxReads`).

`CHECK_DEADLOCK FALSE` stands in a run where the bounds or the failures allowed
let the system stop: a lock that could not be released is never free again;
when reports, messages, lives or creations are used up, nothing is left to do;
a crashed Node.js does nothing.

*Fairness.*  Worker and callback threads are threads of the operating system and are
scheduled (`WF` of their next step); `Module_Receive` and callbacks return, which
is what the SDK asks of modules; a caller that entered a function runs on.
Nobody is obliged to *start* a call, no spurious wakeup is relied upon, and the
200 ms wait of the callback thread ends.  Weak fairness suffices: a step that waits for a
lock becomes enabled for good in the runs that state liveness.
In `NodeModules` the Node.js thread and the gateway's are fair while nothing
crashed; the give-up of `NODEJS_Destroy` after five seconds is not needed for any property.
In `CloudUpload` the devices (`DeviceGoesOn`, `DevicePublishes`), the workers (`MappingPublishes`
among them), the client's callbacks and what the gateway has begun go on (`WorkerJoined` when the
worker it waits for has returned); the cloud, a kill and the next call of the program are free.
Whoever publishes waits for `modules_lock` like everybody else, and none of this makes a wait in a
circle end: `DestructionEnds` has the alternative `Caught`.  In
`JavaHost` the gateway's thread finishes its call and a worker returns from Java.
In `Ble` the device answers or its calls time out, timers fire, and the threads go on.
`Message` and `Gateway` have safety only.

## 4. What does not hold

`broker_circular_wait` is a run that TLC refutes: `Broker_RemoveModule` joins the worker with
`modules_lock` held, and the worker may wait for that lock in
`Broker_Publish`.  `broadcast_broker.c` does the same.  `PROJECT.json` quotes
the requirement.

The following was seen while modelling, in the models or in the code beside them, and is not
kept as runs.  The properties above are stated so that they say what holds all
the same; where a property leaves a case out, the case is in this list.

*Brokers and event system.*
- The quit signal of `broker.c` is dropped when the socket is full, and the removal then
  waits for ever for `socket_lock` (`Broker_liveness.cfg` with `RcvCap = 1`).
- In `broadcast_broker.c` a failing `Lock(mq_lock)` in `stop_module` joins a
  worker that nobody wakes (`MayFail = {"Lock"}` in `Broadcast_liveness.cfg`).
- Rows already queued are called after the event system has failed, against
  SRS_EVENTSYSTEM_26_013.
- A row queued after the callback thread has looked for the last time and before it clears
  `callback_thread` gets no thread (`event_system.c:320` and `395`); if the gateway is
  destroyed next, it is never called.

*Gateway.*
- Undoing a link from `"*"` that `Broker_AddLink` refused unsubscribes modules the failed call had
  not come to, and so takes away what another link needs (`gateway_ll.c:1048`).
- A link from a module after a link from `"*"` to the same sink makes
  `Gateway_LL_GetModuleList` fail, and the event system is silent from then on (`:172`).
- The names in a module list belong to the gateway and are freed with the
  module (`:141`, `:982`).

*Node.js.*
- A receive callback holds the address of a handle that a removal, run before it
  because it is newer, has erased (`nodejs.cpp:969`, `1094`, `nodejs_idle.cpp:81`).
- `NODEJS_Create` sets the state to initializing when the Node.js thread may
  already have set it to initialized (`nodejs.cpp:113`): that module gets no
  start, message or destroy.  `StartIsServed` excepts it as `Overtaken`.

*Java.*
- Receive and Start store the environment of their thread in the handle they
  share (`java_module_host.c:361`, `427`): the other then uses a foreign one.
- Options without additional ones are `NULL` when parsed and an empty vector when
  copied, so a second module with the same options is refused
  (`java_module_host_manager.c:421`).

- A configuration without a class path is given to `strcmp` when the manager exists, and
  crashes the process (`java_module_host_manager.c:364`).

*Sample modules.*
- All simulated devices write their readings into one static text without a lock
  (`simulated_device.c:24`, `87`-`96`): with two in a gateway, as in the sample, a message may carry the
  reading of the other or a mixture.  The address, the name and the order of messages are
  not affected; `EventsAreTheDevices` claims the contents of a device that is alone.
- The worker of the identity map publishes (`identitymap.c:389`) and so may be caught when
  "mapping" is removed, as above.  So may that of the IoT Hub, in a narrower case: it
  destroys a client that did not get into the vector, `IoTHubClient_Destroy` waits for the client's
  callback, and that waits in `Broker_Publish` (`iothub.c:270`, `387`).  `DestructionEnds` excepts
  these two as `Caught`, and shows that there is no third.
- The callback of the cloud may run before its personality has broker and module
  (`iothub.c:343`), and after its strings were deleted (`:164`).
- A logger that is killed, or whose `fprintf`, `fseek` or `fclose` fails, may leave a part of an object, since
  the C library writes out what overflows its buffer; the next object is written over the last
  character of that part (`logger.c:34`-`45`).  A file that is new may stay empty or get an object after a comma
  (`:226`, `:243`).  `LogKeepsShape` says what stays true: nothing is damaged but at these places.

*BLE.*
- `BLEIO_Seq_Run` writes the state again when it has scheduled everything and so
  overwrites a shutdown (`bleio_seq_linux.c:338`): timers go on, `BLE_Destroy` waits.
- With exit writes only, its `result` is returned uninitialised (`:288`).
- A connection on its way holds no reference (`ble_gatt_io_linux_connect.c:413`), and a disconnection is
  started as the GATT object is freed (`ble.c:668`, `ble_gatt_io_linux_disconnect.c:85`).
- An added periodic instruction is freed by its timer while its read is on the
  way (`bleio_seq_linux_schedule_periodic.c:67`).
- `VECTOR_push_back` moves the instructions that pending requests and timers point at when an exit
  write is added (`bleio_seq_linux.c:265`).  `InstructionsAreHeld` excepts those that were moved.
- When a schedule of `BLEIO_Seq_Run` fails and `BLEIO_Seq_Destroy` lets go of the sequence between its
  `INC_REF` and its `DEC_REF` (`bleio_seq_linux_schedule_read.c:104`, `118`, `_write.c:109`, `124`,
  `_periodic.c:108`, `120`), the last reference goes unnoticed: the sequence is never freed, and
  `BLE_Destroy` waits for its five seconds.  `RefsAreRight` excepts it as `"dropped"`.
- `g_main_loop_quit` before `g_main_loop_run` is lost and the join hangs
  (`ble.c:725`); the failing `BLE_Create` frees the handle its thread still reads
  (`:197`, `261`).
- When `BLE_Destroy` gives up after five seconds, `on_destroy_complete` writes
  into the freed handle later (`:711`).

## 5. Proofs

`BrokerProofs` holds for any sets of modules, clients and republishers, any bounds and any
subset of failing calls, but for the assumptions named.

- `TypeCorrect`: `Spec => []TypeOK`.
- `DeliveryInOrder`: `Spec => []InPublicationOrder`, from an invariant
  about what a module received and what waits in its socket together.  No call
  is assumed to work.
- `Invariance`: `Spec => []BrokerInv`, when `ThreadAPI_Join` works.  The property
  wanted, `WorkerIsAttached`, is not inductive: one has to know that the client
  that unlinks a module holds `modules_lock` (`LockHolder`), that the module it
  removes is still in the list and its socket closed (`TargetIsAttached`), that
  only attached modules have sockets (`SocketsOfModules`) and workers
  (`WorkersOfModules`).
- `WorkerSafety` follows: no worker lives in an entry that was freed.
- `CloseExcludesRecv`: when `Lock` and `nn_send` work, no socket is
  closed under a running `nn_recv`.  The invariant behind it ties the position
  of a worker to its `socket_lock`.
- `BrokerDelivers`: `Spec => Delivery!Spec`, when `ThreadAPI_Join` works: every
  step of the broker is a step of `ModuleDelivery` or a stutter; one lemma per
  action.

The assumption on `ThreadAPI_Join` is necessary: the code frees the entry also
when the join reports an error, and `JoinWorker` does so.

`BroadcastProofs` does the same for the other broker.

- `DeliveryInOrder`: `Spec => []InPublicationOrder`, whatever fails.  What a module
  received and what waits in its queue rise together (`Rising`) up to a limit:
  the last published message, or the one before while `Broker_Publish` has yet
  to come to the module (`Limit`).  The list of modules still to come to holds each once and
  is empty unless `modules_lock` is held by a publisher (`LoopIsLocked`).
- `Invariance`: `Spec => []ListInv`, when `ThreadAPI_Join` works.  `WorkersOfModules`
  (a module outside the list has no worker) needs that the removal holds
  `modules_lock` and finds its module still in the list (`LockHolder`), and that
  taking out one item takes out the module (`AttachedOnce`, lemma
  `WithoutDetaches`).  The first two parts are proved without the assumption.
- `WorkerSafety` follows from it.
- `WorkersAreWoken`: `Spec => []NoLostWakeup`, when `Condition_Post` and `Lock`
  work: the code goes on without the signal after either fails.
- `BroadcastDelivers`: `Spec => Delivery!Spec`, when `ThreadAPI_Join` works.  Taking
  `modules_lock` is the publication, to all attached modules; a round of the loop
  that queues the message is a stutter, one that does not is a loss.

- `ReferencesAreExact`: `Spec => []ReferencesAreHeld`, whatever fails, for finitely many
  modules.  The count of a message is the cardinality of the set of places that keep it:
  the publisher in `Broker_Publish`, the queues, and the workers in `Module_Receive`.  An action
  adds or takes a place and changes the count by one.  That a module does not keep a
  message twice follows from the order of what it received and what is queued (`HeldOnce`); that
  nothing is queued for a module that is not attached is part of the invariant (`Custody`).

`EventProofs` holds for any clients, threads, events, callbacks and bounds, and
whatever calls fail.  It assumes that names differ, and that nobody registers
`callback_destroy_modulelist`, which is static in `event_system.c`.

- `ThreadsCorrect`: `Spec => []ThreadInv`.  To show that a handle is joined once one has
  to know that there is no ended thread while a callback thread lives
  (`OneThread`), that only the report that joins it keeps
  `internal_change_lock` (`LockHolder`), that a thread reports only from a callback and
  clients only before the destruction (`Reporters`), and that the two handles
  `EventSystem_Destroy` copied are those of all threads there are (`HandlesSuffice`).
- `ContextsAreLive`: `Spec => []ContextIsLive`.  Only the last callback of a row releases
  a list (`RowsAreShaped`), no two rows or reports have the same list
  (`ListsAreOwn`), and the lists of the rows behind the one called last are in
  memory (`ListsAreKept`).
- `CallsInOrder`: `Spec => CalledInOrder`.  The queue holds the numbers that follow the row called
  last, and a thread between two rows has called all of that one (`QueueInv`); that it is the only
  thread comes from the first theorem.

`MessageProofs` holds for any owners, messages, property maps, contents and
byte arrays, and assumes only that the owners are finitely many.

- `CountsCorrect`: `Spec => []CountsAreRight`.  The inductive invariant `IInv` adds to the
  counts the shape of the heap (`HeapInv`: a cell is free exactly when its count
  is zero) and of the owners (`OwnerInv`).  The part that matters is the last:
  an owner in the middle of a clone has a source that keeps its message until the clone
  is complete.  Without it the message might lose its properties between the
  first and the second count.  Each count changes by one owner joining or
  leaving a set, whose cardinality the lemmas `MessageUp`, `MessageDown`, `MapUp`, ... follow;
  there is one lemma per action.
- `LiveCorrect`: `Spec => []LiveWhileOwned`: a count is zero exactly when the set of owners is empty.
- `TypeCorrect`: `Spec => []TypeOK`: a set of owners is no larger than `Owners`.

`GatewayProofs` holds for any module handles, names, bounds and sets of failing calls.  It
assumes that `"*"` is no module and that every gateway of `Setups` names all handles.  The
inductive invariant `Inv` holds between two operations:

- `Structure`: the vectors hold each module and link once, modules under different
  names, all of them alive, and links only between modules that are there.  It makes "the module
  of this name" and "the module taken out" one thing.
- `Referenced`: one reference for the gateway and one for each module.
- `Exact`: with a broker that works, `subs[t][s]` is `Asked`: one for the link from `s` and one
  for the link from `"*"` when `s` is another module of the gateway.  It has to hold for every pair,
  also of handles that are no modules, or a removal could leave something behind.
- `Observed`: the last of the queued module lists, or the list seen last, is the list of the
  present graph, unless the event system gave up.

The chains of calls of an operation are followed call by call in lemmas on `Without`,
`Subscribed` and `Unsubscribed`: what is undone is what was done.

- `GatewayCorrect`: `Spec => []GatewayInv`; `SubscriptionsExact`: `Spec => []SubscriptionsAreExact`;
  `ObserverCorrect`: `Spec => []ObserverIsUpToDate`.
- `GatewayIsGraph`: `Spec => TopologySpec`.  Each action is a change of the graph (`GraphChange`);
  the routes of `Topology` are the subscriptions when the broker works, which `Exact` and
  `LinksCount` give, and are otherwise those the links ask for (`Wanted`).

`NodeProofs` holds for any modules, messages, scripts, posts and bounds, whether or not
`ThreadAPI_Create` works, and in every interleaving of the gateway's threads with Node.js.  The inductive
invariant is about the queue of callbacks and about what the object has seen:

- `Managed`: an attached module, one in `NODEJS_Create` and one whose callback is running
  has a handle; a module that was never created, or was refused, has none.
- `Loads`, `Removals`: the callback that loads a module, or removes it, is queued once, and not any more
  once it ran.  A module waits for Node.js or has its callback queued, never both, so
  that `OnNodeInitComplete` queues no second one.
- `Begins`: the starts an object has seen, those queued, and the one `Owed`, add up to no more than
  the calls of `NODEJS_Start`.  A start is owed while the handle's `pending` is set *and* the module is
  still to be loaded; without the second part `on_module_start` might make up for a start twice.
- `Accepted`: whatever calls the object (an initialized handle, a queued message, the end of the
  registration) implies that its `create` returned true.
- `Clones`: a message of a module is queued once, and cloned exactly while it is queued, as long as no
  freed handle was used.

From it: `NodeCorrect`: `Spec => []NodeInv`; `LifeCorrect`: `Spec => []JavaScriptLife`;
`PostsAreKept`: `Spec => []PublishKeepsMessage`.  `DestroyIsLast`: `Spec => NothingAfterDestroy`, an
action property stated in `NodeProofs`: after its `destroy` an object is called no more, because its
handle is being removed or gone (`Ended`) and every call looks the handle up.

`JavaProofs` holds for finitely many hosts, any configurations (`ConfigsAssumption`: they have the
fields the parser gives them) and any failures.  `HostsCorrect`: `Spec => []HostInv`.  The
invariant `Inv` says which host the gateway's thread has in its hands and whether the manager
counts it at that point of `JavaModuleHost_Create` or `Destroy` (`Hands`); that a host outside these hands is
complete (`Kept`); that the count is that of the counted hosts and of those lost by a failing
removal (`Counts`); that all hosts have the options of the manager, in its copy (`Same`), which
is what lets one machine serve them; and that while nothing has failed the machine is that
of the manager (`Works`).

`ModuleProofs` is about `Ble` and `CloudUpload`.  For `Ble` it holds for any configured instructions, different from each other, finitely many
that messages add, any failures and any number of reads on their way.

- `SequenceCorrect`: `Spec => []BleInv`.  The references are the owner's (`Owner`), one for
  each request (`Busy`) and one for each timer; that a timer is started once, so that it is counted
  once, needs that `BLEIO_Seq_Run` meets each configured instruction once and no added one
  (`Vector`, `Timers`).  A schedule that is failing holds one more (`undo`), and the sequence is freed
  with the last unless that was dropped.  That a request finds its instruction needs that an added
  instruction in memory of its own is used by one request only, or by its timer and
  its reads (`Users`).  The reads of a timer that is gone are an exception, and so is what an added
  exit write moved, among which there is no exit write (`Moves`; section 4).
- `DestroyIsToldLast`: `Spec => []CompletesLast`.  The completion is called with the last
  reference, which `BLEIO_Seq_Destroy` gives back after the last exit write is scheduled, and nothing
  schedules after it (`Phases`): so there is nothing left under way when it comes.

For `CloudUpload` it holds for any devices and spellings of addresses, any mapping (validated or
refused), any configurations of modules and links, however often the gateway is started, killed
and destroyed, whatever fails.  It assumes of the constants (`MappingAssumption`,
`ModulesAssumption`, `GatewaysAssumption`, `SpellingsAssumption`, `CommandsAssumption`) that the JSON
gives every field or `NULL` (`Absent`); that the names of the modules of a gateway differ, which
`Gateway_LL_AddModule` enforces; that commands use the properties the modules know; and that what
the freed memory of a deleted name holds (`"overwritten"`, see `CallbackReads`) is not by chance the
name of a device.

`UploadInductive`: `UploadSpec => []UInv`.  None of the invariants of the run is inductive, nor
are they together.  The parts of `UInv` that make up for it:

- `InboxPart`: the queues hold four kinds of messages: a reading as its device made it, one that the
  mapping named, a command as the IoT Hub module made it, and one that the mapping addressed.  Links may form
  circles, so every module may find each kind in its queue; each of `IdentityMap_Receive` and
  `IotHub_Receive` takes up one or two kinds, by `"source"`, and what it makes is of the next.
  `TablePart` gives what the mapping looks up, `CallbackPart`, `MapperPart` and `WorkerPart` carry a
  message through the callbacks of the cloud and the waits of the two workers, which are in modules
  the broker still has.
- `Order`: on the way from the queue of the mapping over the mapping, the queue and the worker of the IoT
  Hub to the cloud, the readings of a device rise, each stage is ahead of those before (`InLine`), and
  none is younger than the last one sent.  This is what makes a reading come to the cloud once.
- `TextPart`: a device that is alone in its gateway finds in `msgText` what it wrote, and has it in
  `held` when it publishes.
- `HubPart`: a personality is in the vector, once, or in the hands of the worker, which then is
  making or undoing it; and names are those of different personalities.
- `GatewayPart`, `DevicePart`, `FileIsOpen`: what the gateway's thread has left to start or to
  remove are different modules of the configuration; a device has a thread, and the logger its
  file, only while they are among these.
- `LogPart`: every two tokens of the file that follow each other may do so in an array, or a scar is at
  one of them; what is in the buffer is a part of one object and fits the end of the file that it will be
  written over, whichever prefix of it is written (`PartWrittenOut`).

From it: `UploadInvAlways`: `UploadSpec => []UploadInv`; `EventsAlwaysTheDevices`: `UploadSpec =>
[]EventsAreTheDevices`; `CommandsAlwaysAddressed`: `UploadSpec => []CommandsAreAddressed`;
`LogShapeAlways`: `UploadSpec => []LogKeepsShape`.  With `INVARIANT UInv` added to
`CloudUpload_all.cfg` TLC checks the inductive invariant on the instance of the run; it holds there too.

Only model-checked: liveness throughout, which is out of this prover's reach, and the byte array
format (`BytesAreReadBack`), whose reader and writer are recursive over data.  Every other
invariant of a run has a theorem.

## 6. Reading a mutant

Operators named `<action>_<what>` right before an action are the same action with a
plausible mistake in it.  No specification uses them: each shows that a
property of a run would notice the mistake.

## 7. Not modelled, and why

- Allocation failures that leave no trace (a call fails as a whole): they are the
  stuttering `CallReportsError` and the `PublishFails` actions.
- `Gateway_LL_StartModule`: the calls of `Gateway_LL_Start` for one module.
- `module_loader.c` and the adapters, `gateway.c`, the `*_hl.c` parsers:
  a layer over `dlopen` and conversions of configurations, without state; their
  failures are inputs of the models.
- The bytes BLE reads and writes, `ble_c2d.c` and `ble_instr_utils.c`; the variants for
  Windows and UWP.
- JNI, V8, the CLR, D-Bus, the transports of the IoT Hub client: external.
  `dotnet.cpp` forwards each call to managed code and keeps only pointers.
- Azure Functions, RabbitMQ and GPIO modules: each call is one exchange with a service.
- What a program does after it used freed memory: the step that uses it is
  in the model where it is reached, its consequences are not.

## 8. What could follow

1. `Ble` with two modules on one main context, and an abstract sequence that it refines.
2. `NodeModules` and `JavaHost` over `ModuleDelivery`, as `CloudUpload` is.

## 9. Running

    tlc -config Broker_failures.cfg MCBroker
    tlc -config Broker_liveness.cfg MCBroker
    tlc -config Broker_circular_wait.cfg MCBroker
    tlc -config Broadcast_failures.cfg MCBroadcastBroker
    tlc -config Broadcast_liveness.cfg MCBroadcastBroker
    tlc -config EventSystem_all.cfg MCEventSystem
    tlc -config Gateway_all.cfg MCGateway
    tlc -config NodeModules_all.cfg MCNodeModules
    tlc -config Message_all.cfg MCMessage
    tlc -config CloudUpload_all.cfg MCCloudUpload
    tlc -config JavaHost_all.cfg MCJavaHost
    tlc -config Ble_all.cfg MCBle
    tlapm BrokerProofs.tla
    tlapm BroadcastProofs.tla
    tlapm EventProofs.tla
    tlapm GatewayProofs.tla
    tlapm MessageProofs.tla
    tlapm NodeProofs.tla
    tlapm JavaProofs.tla
    tlapm ModuleProofs.tla
