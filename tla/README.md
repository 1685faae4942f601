# A verification of bacnetz

bacnetz is a BACnet stack and simulator in Java. A server process holds a number of
simulated devices (door terminals TZ320, a watchdog, a four door solution). Each device
owns a UDP socket and answers BACnet requests on it; a REST interface and a websocket
let browsers look at the devices and change them, with a React and an Angular
application; a separate program takes part in an MS/TP (RS 485) segment.

This directory holds TLA+ modules that model the parts of it which carry its logic, the
TLC configurations that check them, and TLAPS proofs. `PROJECT.json` maps each
definition to the lines it stands for.

Abbreviations for paths: `API` = `src/api/src/main/java/de/bacnetz`,
`BZ` = `src/bacnetz/src/main/java/de/bacnetz`,
`MS` = `src/bacnetzmstp/src/main/java/bacnetzmstp`,
`SRV` = `src/server/src/main/java/de/bacnetz/server`,
`REACT` = `src/frontend/react-app/src`, `NG` = `src/frontend/angular-app/src/app`.

## 1. Inventory

| Component | Code | State | Operations |
|---|---|---|---|
| MS/TP receiver | `MS/DefaultStateMachine`, `API/mstp/Header`, `MS/Main` | state, header, payload buffer, data CRC, debug buffer index | `input(octet)`, end of the read loop |
| MS/TP node | `MS/messages/DefaultMessageListener`, `MS/PollForMasterRunnable`, `MS/TestRequestRunnable` | output stream shared by three threads | answer a frame, poll for a master, send a test request |
| MS/TP check sums | `Header`, `MS/DataCRC` | none | header CRC 8, data CRC 16 |
| Door terminal TZ320 | `BZ/devices/TZ320Device`, `BaseDevice`, `TZ320DeviceFactory` | present values of alarm, lock, door, state, command; COV subscriptions; invoke id; device listeners | write a property, run the door logic, notify subscribers, toggle the door |
| Message controller | `BZ/controller/DefaultMessageController` | none of its own | WhoIs, IAm, ReadProperty(Multiple), WriteProperty, SubscribeCOV, AddListElement, Reinitialize |
| BACnet/IP reader | `BZ/threads/MulticastListenerReaderThread` | running flag, socket, buffer | receive, dispatch, answer, stop |
| Device service | `BZ/devices/DefaultDeviceService`, `DefaultDeviceFacade` | list of devices, their ports | create, find, write a property, toggle all |
| REST interface | `SRV/resources/devices/DeviceResource` | none | read devices, write a property, toggle all |
| Websocket | `SRV/websocket/**` | sessions, subscriptions by key, listeners on devices | connect, subscribe, unsubscribe, close, push |
| Codec | `API/stack/APDU`, `NPDU`, `ServiceParameter` | none | encode, decode, length |
| Templates | `BZ/template/**` | pending answers | request and wait |
| React application | `REACT/contexts`, `reducers`, `actions`, `components` | redux store, sockets, the number of the next click | load, select a device, "test" (subscribe), show what comes in |
| Angular application | `NG/app-routing.module.ts`, `device-table`, `device-details` | the component in the router outlet, its request, the history | navigate, ask for all devices or for one |
| Start-up and configuration | `BZ/App`, `SRV/configuration` | configuration maps | set-up |
| Fat client, JSON-RPC tests | `fatclient`, `jsonrpc` | none that lasts | experiments around the stack |

How they interact:

- **Network request.** The reader thread of a device receives a datagram, the controller
  handles it in the same call and the reader sends the answer. A WriteProperty goes to
  `BaseDevice.updatePropertyValue()`, which calls the property's listeners one after the
  other: the parent's logic (`TZ320Device.onValueChanged()`, which writes *other*
  objects, whose listeners run inside that call) and the COV listener (which sends a
  notification to each subscriber). All of it is one call tree on one thread.
- **REST request.** The same tree on a thread of the HTTP server. No lock is taken
  anywhere, so trees of several threads interleave at every read and write of shared state.
- **Websocket.** A subscription puts a listener on the device; the door logic calls it.
- **Browsers.** The React page talks to the websocket side only: a click sends a
  subscription, and whatever comes back is dispatched to its store. The Angular page talks to
  the REST interface only: each component makes one request when it is created.
- **Exceptions** climb through the whole tree. The reader thread catches them and sends no
  answer; the HTTP server turns them into an error. What was written before stays written.
- **MS/TP.** `Main` reads one octet at a time into the state machine, which calls the
  listener in the same call; the listener answers on the stream that two more threads use.

What is hard in this code, and what makes each part correct:

- *MS/TP receiver*: octets may be lost, damaged or inserted anywhere; buffers have limits;
  exceptions end the loop. Correct: the listener is told of exactly the frames on the line.
- *Door terminal*: unlocked concurrency of several trees, listeners that call each other,
  exceptions half way through a tree, values of several Java types in one property, a set
  that changes while it is walked over. Correct: each subscriber learns of each change,
  related objects agree, every request ends.
- *Reader thread*: exceptions, oversized datagrams, a port that is taken. Correct: a device
  that has a port keeps answering on it.
- *Websocket*: sessions close while listeners stay. Correct: a gone client does no harm.
- *Front ends*: reloads, drops of the connection, answers that come after the user went
  elsewhere. Correct: a page shows what its own request or socket brought, and waits for
  nothing that cannot come.
- *MS/TP node*: three writers of one stream. Its `Main` does not get that far:
  `Main.java:120` leaves out the device type that `BaseDeviceFactory.java:51` casts the
  first argument to, and the `ClassCastException` ends it before the listener exists.
- *ReadPropertyMultiple*: two cursors over one list. Correct: the answer holds what was
  asked for, under the object it was asked of.
- *Codec, WhoIs filter*: lengths and bounds. Correct: as many octets as announced; what is
  encoded can be decoded.
- *Device service*: ports derived from ids, set-ups that fail half way. Correct: every
  device is announced and answers under its id.

`PROJECT.json` lists the hazards line by line with the properties that cover them.

## 2. Modules

### MstpFraming and MstpReceiver

`MstpFraming` is what a receiver promises, without its machinery: it keeps the *window* of
octets since a preamble and indicates a frame exactly when the window spells one. While
the window can still become a frame it may not be dropped. The receiver may stop at any
octet (`listening`), and then says no more. The octet of each step is visible in both
modules, so the refinement is about the octets really received.

`MstpReceiver` is the machine in `DefaultStateMachine.input()`. One action is one call of
`input()`, that is, one case of its switch:

| TLA+ | Code |
|---|---|
| `octet` | what `inputStream.read()` returned in this step |
| `state` | `DefaultStateMachine.state` |
| `header` | the octets `Header.input()` has taken; its length is `Header.index` |
| `payload` | the first `payloadDataRead` octets of `payloadBuffer` |
| `dataCRC1` | the first CRC octet, -1 for "none" |
| `headerBufferIndex` | the index of the debug buffer |
| `receiver` | the loop of `Main` around it: running, or which exception (or end of stream) ended it |
| `indicated` | the frame handed to `messageListener` in this step, if any |
| `Idle` ... `DataCrcOctet` | the cases of `input()` |
| `Debug` | `headerBuffer[headerBufferIndex] = data`, with its exception |
| `IndicateMessage` | the call of the listener, which may throw, and `backToIdle()` behind it |
| `BackToIdle`, `Reset` | `backToIdle()`, `reset()` |
| `Read`, `EndOfStream` | the loop of `Main` |

The check sums are parameters, so everything said holds for any. The refinement
mapping takes the octets the machine has kept for the frame in progress as the window.
`MstpReceiverProofs` proves the invariants and the refinement. The model is of the class fed by such a loop; that today's `Main` ends before it (see above) does not
matter to it.

### DoorServer

One TZ320 with a reader thread, HTTP threads, COV subscribers and one web client.

| TLA+ | Code |
|---|---|
| `value` | the present values (`byte[]`, `Integer` or another object JSON yields; arrays compare by identity) |
| `subs` | `covSubscriptions`, a concurrent set, per object |
| `invokeId` | `BaseDevice`'s invoke id as the octet that is sent |
| `thread[t].todo` | what is left of the call tree of the request that thread serves |
| `webClient` | the websocket listener on the device and its session |
| `due`, `told`, `refused`, `failed` | history: who must learn of the last change, who was sent the present value, whose notification of it the network refused, what ended with an exception |

| Action | Code |
|---|---|
| `ProcessWritePresentValue` | WriteProperty in the controller: the value arrives as an `Integer` |
| `RestWriteProperty`, `ToggleAll` | the REST requests |
| `SubscribeCov`, `DeleteCov` | SubscribeCOV; without a lifetime it clears everybody's subscriptions |
| `WebSubscribe`, `WebClose` | websocket subscription, end of the session |
| `ExecuteAction` | `TZ320Device.executeAction()`: read, cast, invert, write |
| `UpdatePropertyValue`, `SetValue` | `updatePropertyValue()`: compare, set, then listeners |
| `ParentLogicListener`, `OnValueChanged` | the door logic, with its arguments as they are passed |
| `CovListener`, `SendCov`, `IsBytes`, `IsInteger`, `Cast`, `PointToPointMessage` | the walk over the subscribers and, for each, the separate reads of the present value. A send that the network refuses is caught and logged, and the walk goes on |
| `SendEvent` | the push to the web client, which throws once its session is closed |

An action is one access to shared state. A step that reads a value and the step
that uses it are separate whenever another thread can come between. The walk over the
concurrent set must see the members that stay throughout and may see the others. The
order of two listeners of a property is that of their keys in the `HashMap`.

Input values: numbers the repository's documentation and factories use, and one value of
a type no cast accepts. `Web` has one thread in the runs: with the reader that makes two
trees at once.

### DeviceHost

The server around the devices: how they are created and get their ports, the reader
threads, and the listener on the default port that answers WHO-IS for all of them.

| TLA+ | Code |
|---|---|
| `main` | the thread that creates the devices and starts the listener: still at it, done, or ended by an exception |
| `todo` | the descriptors still to be handed to `createDevices()`; the first one shrinks as its loop goes on. `startDeviceId` stands for start id and offset together |
| `devices`, `deviceMap` | the list of `DefaultDeviceService` and its map by id |
| `socket[n]` | the port of the `datagramSocket` of the n-th device, 0 for null |
| `reader[p]` | the thread that reads port p |
| `walk` | the devices `processWhoIsMessage()` still has to announce |
| `asked`, `announced`, `unsent` | history: the last WHO-IS, who has announced itself since, whose I-AM the network refused |
| `sent` | the message sent in this step: its kind, the device, for an answer also the id it was asked for, and the port it leaves from |

| Action | Code |
|---|---|
| `CreateDevice` | one round of `createDevices()`: factory, list, port, `bindSocket()` with its outcomes `BindSocket`, `BindException`, `PortOutOfRange` |
| `DeviceExists` | the factory of TZ320 and watchdog refuses the id |
| `StartListener` | the end of `App.main()`, or of `createObjects()` in the Spring server |
| `Run` | the beginning of `run()` |
| `ReceiveTooMuch`, `ReceiveFails` | the check behind `receive()` and its exception; an `IOException` of `receive()` or of the address lookup |
| `ProcessWhoIs`, `SendIam`, `IamFails`, `WhoIsDone` | WHO-IS: the filter, then one device at a time |
| `ProcessReadProperty`, `ProcessConfirmed` | ReadProperty of a device object, answered by a value or an error; the other requests that have an answer |
| `SendAnswer` | the send behind the `try` block: an `IOException` is caught, any other exception (an answer whose octets have not the stated length) ends the thread |
| `Ignore` | the requests without an answer: own messages, no APDU, I-AM, logged services, an unknown device, a WHO-IS at a device's own port |

`reader` and `main` interleave freely, so requests arrive while devices are still being
created. A port may be taken by a program outside the server at any time (`BindException`
is always possible). Bounds of a WHO-IS are the octets sent; `Decoded` is what the
controller makes of them. `processWhoIsMessage()` returns null, so a WHO-IS has no answer behind
the `try` block: its I-AMs are sent within.

### WebSubscriptions

The websocket side of the Spring server: sessions of browsers, what they subscribe to, and
the listeners this leaves at the devices.

| TLA+ | Code |
|---|---|
| `open` | the sessions whose connection is up (the container's knowledge) |
| `at`, `id`, `user` | what the thread of a session does next, with its local variables |
| `sessions`, `userSockets` | the two registries of `DefaultSocketHandler` |
| `connectedUser`, `sockets` | the one entry of `UserSocketManager` (the user name is a constant) and the socket lists; a `ConnectedUser` is named by the session whose thread made it |
| `subscriptions`, `listeners` | the ids of `DefaultSubscriptionManager`, and for each device the id and the session of each listener |
| `push` | the walk of a device over its listeners |
| `writing`, `overlapped` | which unsynchronised collection a thread writes, and whether another one does |
| `lost`, `lostTopic` | history: a write of the socket maps was lost or a lookup there missed an entry; a write of subscriptions or listeners was lost |
| `subscribers` | history: who subscribed to which id |

| Action | Code |
|---|---|
| `Connect`, `PutUserSocket`, `FindUser`, `GetUser`, `PutUser`, `AddSocket` | `afterConnectionEstablished()` with `addSocket()`, whose check, get and put are separate |
| `Message` | the beginning of `handleTextMessage()` |
| `Put`, `FindListener`, `PutListener` | subscribe |
| `Remove` | unsubscribe, which leaves the listener |
| `List`, `Listed` | list |
| `Reply`, `Replied` | the reply behind the `try` block |
| `BrowserLeaves` | the browser closes |
| `Leave`, `FindUserSocket`, `RemoveSocket`, `RemoveUserSocket` | `afterConnectionClosed()` |
| `Push`, `PushNext`, `Pushed`, `PushEnds` | the events of a device and `DefaultSubscriptionListener.event()` |

The container (external) runs a session's callbacks one after the other, refuses a send
to a closed session or while another send to it is under way, and closes a session whose
handler throws. Two writes of one `HashMap` or `ArrayList` at once are undefined: they
may leave any part of what was there. A thread counts as writing from the step before.

### PushService

What a browser may rely on from the websocket side, without registries, lists and threads: a
message on an open session is answered once or the session ends; there is at most one
listener per id at a device; an event goes to a session that has a listener there. Which
listener survives a second subscription, and whether one does, is not promised. Its actions are
`Connect`, `Close`, `Ask`, `Subscribe`, `Skip`, `Reply`, `Tell` and `Told`.

`WebSubscriptions` implements it with `used` the sessions that are not new, `asked` the id while
a thread looks for its listener and "answer" until the reply is sent, `told` the session a
walk over the listeners is at. `ReactClient` is built on it. So what is shown of the page
does not depend on how the server keeps its books, and the server is shown to be such a service.

### ReactClient

Tabs with the React page, each load with its sockets, over `PushService`.

| TLA+ | Code |
|---|---|
| `load` | how often a tab has loaded the page |
| `link` | `readyState` of each socket, as the browser sees it |
| `number` | `this.number` of the device list |
| `store` | the redux store: `DevicesReducer`, `SelectedDeviceReducer` |
| `up`, `sent`, `read` | messages on the way to the server; those the server sent, and how many `onmessage` has had |
| `refused`, `clicks`, `events` | history, and bounds |

| Action | Code |
|---|---|
| `Reload` | `index.js`, `App`, the provider: a fresh store, and a socket per render of the provider |
| `TestFunction` | the "test" button: counts, then `send()`, which throws while the socket connects |
| `Select` | the button of a list item |
| `Handshake`, `Drop`, `Receive`, `Handle`, `Reply`, `Tell`, `Told` | network and server (external): both ends learn of a drop at once, a failed handshake is a drop |
| `OnMessage` | `onmessage` of any socket: everything is dispatched as a device's state |

In React's strict mode (development) the provider is rendered twice and opens two sockets,
the last of which is the one in the context. The page never opens a socket again after a drop.

### AngularClient

One tab with the Angular application: the router, the two components and their requests.

| TLA+ | Code |
|---|---|
| `entries`, `position` | the browser's history; each entry belongs to a load of the page |
| `component` | the component in the outlet: the id in its heading, its details or its table. `first` is the id it was created with |
| `requests` | pending REST requests with the component that subscribed |
| `devices`, `restarts` | the server, which may come back with other devices |

| Action | Code |
|---|---|
| `DeviceLink`, `BackToDeviceTable`, `HistoryGo` | `routerLink`s, back and forward: `Navigate` |
| `Navigate`, `ParamMap`, `Load` | the router: same URL, same route (the component stays and is told the parameters), other route (a new component; the old one's request goes on) |
| `TypeUrl`, `Refresh` | the browser loads the page anew; pending requests are dropped |
| `Answer`, `Fail`, `Restart` | the REST answers, in any order; an error is only logged |

### ReadMultiple

`processReadPropertyMultiple()` and `processDevice()`: the walk over a list of parameters with
two cursors, `at` of the outer loop and `index`, which `processDevice()` keeps, returns and
takes again. `NextParameter`, `ProcessDevice` and `SendAnswer` are the outer loop; `Bracket`,
`Skip`, `ReadProperty`, `Fail` and `Return` the inner one. `answer` is what has been added to the
answer. Of what is asked for only the first octet is taken for the key (`DevicePropertyKey`), and a
key goes out as one octet (`PropertyIdentifier`): 371 is answered as 115, and a request for it is read
as key 1. `Write` is another thread that writes a value the getter of its property can convert or
cannot (`unreadable`); converting such a value is a `ClassCastException` (`Throws`) and loses the
whole answer, as do all properties of an unknown object (`NoneToRead`) and an item without payload. The parser hands over lists that are empty or start with an object
(`RequestsAssumption`). `Result` is the reference: what position `i` of a request adds, said
without cursors, for keys as the device reads and cuts them.

### Instances and proofs

`MC_MstpReceiver`, `MC_DoorServer`, `MC_DeviceHost`, `MC_WebSubscriptions`, `MC_ReactClient`,
`MC_AngularClient` and `MC_ReadMultiple` instantiate the modules for TLC. The theorems are in
`MstpReceiverProofs`, `DeviceHostProofs`, `DoorServerProofs`, `WebSubscriptionsProofs`,
`WebRefinement`, `ReadMultipleProofs`, `ReactClientProofs` and `AngularClientProofs`.
Definitions marked `mutant` are deliberately wrong variants of a definition beside them; no specification
uses them. Each property is known to fail for at least one of them.

## 3. Runs

| Run | Shows |
|---|---|
| `mstp_receiver` | Types, stages, whole frames, exceptions where they belong, and refinement of `MstpFraming`, for every sequence of octets; a frame under reception always ends |
| `door_concurrent` | A network and a REST request at once, subscriptions come and go: if no request fails, every subscriber was sent the value that the object has in the end, or the network refused that very notification; every request ends, whatever changes under it, because each of its steps lowers what it may still cost |
| `door_sequential` | Six requests, values of all types, requests that fail half way: lock and state agree, and a door that has held an Integer never holds an array again |
| `door_command` | *Violated*: the state follows the *previous* command |
| `door_alarm` | *Violated*: subscribers of the alarm are not told of its change |
| `host_network` | Start-ups of all kinds under any order of datagrams: list, map, sockets and threads agree; a WHO-IS finds exactly the devices it asks for if every device has its port; who reads an id is answered by a device that has it, the newest on the default port, also after a take-over, and its own on a device's port; a reader gets through every WHO-IS, also a failed one |
| `host_whois` | *Violated*: with devices 5, 10005 and 7 the first gets the port, the second none, and only the first answers a WHO-IS |
| `web_sessions` | Two browsers come and go, subscribe, unsubscribe and list while an event is pushed: the handler knows the sessions it serves, the socket maps too unless a write to them was lost; a listener tells who subscribed to its id and stays, unless a write to the listeners was lost; a session whose connection is gone is removed, also when its reply collided with an event; and a browser sees of all this no more than `PushService` says |
| `web_users` | *Violated*: a replaced `ConnectedUser` leaves the user unconnected although a session is open |
| `read_multiple` | Every request of the instance: the cursors stay together, the answer is the one `Result` spells out, a request fails only at an unanswerable item or at a value that cannot be converted then, and the walk ends |
| `react_pages` | Two tabs on one server: each shows what the socket of its context brought, every click on an open connection is refused, under way or answered once, events are seen only by who asked since the page was loaded, and a click is answered or the connection ends |
| `angular_navigation` | Any way through links, history, typed URLs, reloads and restarts: outlet and heading follow the URL, details are those of the device the component was created for, and each component waits, shows its answer or has failed |

### Bounds

- Receiver: four octets, the two of the preamble, 0 and 2. They announce the payloads 0
  (no data), 2 (exactly fills the buffer of 2) and larger ones that do not fit; a preamble
  inside a header, a payload or a CRC occurs. The debug buffer has 7 places, one more than
  preamble and header need, so both its use by frames and its overflow by noise occur. The
  number of octets is not bounded: the state space is finite and complete. The check sums
  are two small functions onto these four octets, so right and wrong ones both occur at
  every place.
- Door: `InvokeIds` = 4, so the octet wraps in a behaviour. `MaxRequests` bounds
  requests: 4 at once in the concurrent run (two writes of one object, a subscription and
  its deletion can meet, and a command with a write of what its logic writes), 6 in the sequential run (initialise, fail, repeat, and two more
  commands), 3 in the others. `MaxActive` is 2 or 1 as the run says. Two clients: one that stays
  and one that comes or goes; they are interchangeable, hence the symmetry (not where liveness is checked).
- Host: seven start-ups of two or three devices, with the constants of the code (10000,
  47808, 1024): free ports, two ids for one port, a refused id, an id taken over, the
  default port, no port at all. The WHO-IS are without bounds, with bounds of one octet,
  of one octet that is read as negative, of two octets and of three. Sends and receives may fail at any time. Any number of
  datagrams: the state space is finite and complete.
- Web: two sessions (three for `web_users`), each opened once; one subscription id, as in the web
  application, where all browsers use the same. `MaxMessages` = 2 lets a subscription meet a
  second one, an unsubscription or a list; `MaxPushes` = 1 lets an event collide with
  replies and closes. Ids that name no device (`Target`) only skip the listener.
- Read multiple: every request for one object with up to two items between the brackets, and
  for two objects with up to one each, whatever stands where the last opening bracket should; objects
  known or not, each kind of property key, one of two octets, brackets and empty payloads among
  the items; two values that another thread writes.
  Two objects are where a cursor that drifted would show; the theorems are for any length.
- React: two tabs, one that reloads once and one with strict mode's two sockets; two clicks, one
  event. So a late event of the first load, a click during the handshake and a second
  click behind an unanswered one all occur. All browsers use the one subscription id.
- Angular: two devices and an id that is none, a history of four entries, four components,
  one restart: table, details, other details and back fit in.
- `CHECK_DEADLOCK FALSE` where requests, clicks, loads or components are bounded, where a
  request is answered and done with, where the read loop may end, and for the
  host, which rests when its set-up failed before the first reader, or when all readers ended.

### Fairness

- `WF(Read)` for the receiver: octets keep coming, because on an MS/TP segment the token
  is passed or polled for all the time. `EndOfStream` is not fair: it may or may not happen.
- `WF(Step(t))` for the door: the JVM runs a thread that has work left. No request, no
  subscription and no websocket event is promised.
- `WF(Step(p))` for each port of the host: a thread that is not blocked in `receive()` runs.
  Nothing says that a datagram arrives, and `main` need not go on.
- `WF(Serve(s))` for each session and `WF(Tell(d))` for each device: a callback that has begun
  goes on, and the container reports a closed connection. No browser opens, sends or
  leaves out of duty.
- `WF(Serve(s))` and `WF(OnMessage(s))` for the page: the server handles what has arrived and the
  browser runs its callbacks. Nobody need click, reload or connect.
- `WF(Respond)` for the Angular page: a request ends with an answer or an error, as HTTP
  requests do. Fairness of answering as such is not assumed.
- `WF(Walk)` for a READ_PROPERTY_MULTIPLE: the reader thread goes on, whatever others write.

## 4. Findings

Each is what a *violated* run shows, against a text of the repository.

1. `door_command`: the logic of a door gets old and new value swapped
   (`BZ/devices/BaseDeviceFactory.java:207`, `TZ320Device.java:33`), so commands act one
   write late, and the events a toggle sends to web clients announce the previous state.
2. `door_alarm`: alarm and door share instance number 2, and the door's branch of the logic
   throws for the alarm before the subscribers are told.
3. `host_whois`: two ids can lead to one port (`BZ/devices/DefaultDeviceService.java:64`). The
   device that comes second gets no socket, and its `NullPointerException` also keeps the
   devices behind it from answering a WHO-IS.
4. `web_users`: `addSocket()` replaces the `ConnectedUser` of a session that connects at the same
   time (`SRV/websocket/push/UserSocketManager.java:35`).

Observations that contradict no text, and that properties which hold state as they are:

- The debug write of `IDLE` (`MS/DefaultStateMachine.java:51-52`) overflows after 100 octets
  without a preamble and ends the read loop (`FailureContext`).
- `executeAction()` casts to `byte[]` what REST and network writes store as `Integer`: after
  such a write the door can no longer be toggled (`ToggleLostForGood`).
- A datagram of 1024 octets or more ends the reader thread for good
  (`BZ/threads/MulticastListenerReaderThread.java:90`), though the I-AM announces 1476
  (`ReceiveTooMuch`). So does an answer whose value is written while it is read: its
  length and octets are read by separate calls (`BZ/devices/DefaultDeviceProperty.java:108-110`), and
  what does not fit together throws behind the `try` block (`:145-149`).
- READ_PROPERTY_MULTIPLE knows keys of one octet only
  (`BZ/controller/DefaultMessageController.java:942-944`, `969`, `1071`).
- All browsers subscribe under the same id, and a second subscription keeps the listener of
  the first session, also when that one is closed
  (`SRV/websocket/subscriptions/DefaultSubscriptionManager.java:69`).
- The React list shows the acknowledgement "OK" as the state of all devices
  (`PageShowsItsMessages`), and events change all devices whichever they are about.
- Going back from the details of one device to those of another shows the details of the
  first under the id of the second (`DetailsOfFirstDevice`).

## 5. Proofs

`MstpReceiverProofs`, for every set of octets, any check sums and any sizes of the two
buffers (assumptions `OctetAssumption`, `BufferAssumption`: octets are bytes, the debug buffer holds
more than a header, the payload buffer is not empty):

- `TypeCorrect`: `Spec => []TypeOK`.
- `StageCorrect`: `Spec => []StageInvariant`. `TypeOK /\ StageInvariant` is the inductive
  invariant: how much header and payload has been collected follows from the state.
  Whole frames need it, as the payload's length is compared with the header only on
  the way from `DATA` to `DATA_CRC`; and the receipt of a frame without payload relies on
  the payload of the previous frame having been forgotten.
- `WholeFramesIndicated`: `Spec => []IndicatedFramesAreWhole`. The step that indicates
  is taken in a stage in which the invariant says the frame is whole.
- `FailureExplained`: `Spec => []FailureContext`, from the same invariant.

- `ReceiverImplementsFraming`: `Spec => FramingSpec`. The window of a state is built from
  header, payload and first CRC octet (`WindowIs`). For each case of `input()` a lemma shows
  that the window with the new octet is a frame exactly when the code calls the listener
  (`FrontIsFrame`, `FilledIsFrame`, `UnfinishedPayload`), that a window is dropped only when
  hopeless, and that otherwise the octet was added to it. How long header and payload are
  in each state comes from the stage invariant.

`DeviceHostProofs`, for any start-ups and datagrams, any ports and buffer
(the assumptions of `DeviceHost` give them their types; ports are in 1..65535):

- `TypeCorrect`: `Spec => []TypeOK`; list, sockets, map and readers agree.
- `WhoIsAnswered`: `Spec => WhoIsComplete`. The inductive invariant is
  `TypeOK /\ Registered /\ AnnouncingInv`. `AnnouncingInv` says that only the listener
  announces, that the devices are then fixed because the set-up is over, and that
  announced, refused and remaining devices together are those the filter found.
  Completeness follows when nothing remains, because on plain bounds the controller's decoding
  of the octets is their meaning (`PlainIsMeant`).
- `TheRightDeviceAnswers`: `Spec => RightDeviceAnswers`: the answer to a read comes from a device that
  has the id asked for. `Registered` gives the rest: the map leads to the newest device of each id,
  also when a four door solution takes one over (`NewestMapped`), and no two devices have one
  port (`PortsUnique`).

`DoorServerProofs`, for any clients, HTTP threads, writes and bounds (`ThreadAssumption`,
`InputAssumption`, `BoundAssumption`: the reader is no HTTP thread, what is written and
watched are objects and values, an octet holds at least one invoke id):

- `Typing`: `Spec => []TypeOK`. `Inv` adds that a busy thread serves a request.
- `EveryChangeIsReported`: `Spec => []ChangesReported`. `ReportInv` says why: only subscribers are
  due; a "set" stands first in a todo and is followed by the "cov" of its object
  (`SetShape`); and everyone who is due was told, or refused by the network, or some thread still has an operation that
  will tell him the value of now (`Covers`, `Pending`). All operations but two only replace
  themselves by others that cover at least as much (`HandsOn`, one lemma each). A
  "set" makes all subscribers due and leaves its "cov" behind; a "send" covers who it tells,
  and, when the value has changed since it was read, nobody, because then a later
  "cov" covers him.
- `ToggleIsLost`: `Spec => ToggleLostForGood` for requests that come one at a time
  (`OneAtATime`) and write no array (`NoArrays`; JSON has none). `TurnInv`: at most one
  thread is busy, and an array is only ever written next, while the door still holds the one
  it was computed from. With two threads at once the property does not hold.
- `LockMatches`: `Spec => []StateMatchesLock` for requests that come one at a time and do not
  write state or lock themselves (`CommandsOnly`): any commands, toggles, writes of the door and
  of the alarm with any values, whether they succeed or fail. The property says nothing
  of the time in between, when the state is set and the lock is not yet; the invariant
  `LockInv` does. For the busy thread (`OnTrack`): either nothing left in its todo
  touches the two objects and they agree (`Settled`), or a write of the lock is still to
  come that fits the state that is or is set next (`Coming`). Between state and
  lock stands only what cannot fail (`Harmless`): the notifications of the state, which is an
  Integer throughout, so that `sendCOV()` finds a type it can cast. That is why a
  request that fails cannot leave one written without the other, although
  nothing in the code undoes a write. A write of the state by a client breaks the
  property, and so do two commands at once.
- `RequestsRunOut`: `Spec => WorkRunsOut` for any finite number of clients, the safety part of
  `RequestsFinish`. Each operation has a `Cost` that bounds the steps it can lead to: a command
  writes three objects whose logic does not write, and a walk has five steps for each client
  it has not been at. What an operation puts in its place costs less than it did (one lemma
  each, `Shrinks`), although the values, subscribers and types that decide what this is may
  change between any two steps; and a deletion leaves those a walk has been at alone. A cycle
  among the listeners would have no such cost. That the sum over a todo (`Total`) is what it
  should be is again an induction over sets of lengths (`SumsExist`, `SumsAgree`, `TotalFirst`).

`WebSubscriptionsProofs`, for any sessions, ids, devices, messages and events:

- `Typing`: `Spec => []TypeOK`; `Inv` adds what a thread has found out before each of its
  steps (`WorkInv`).
- `RegistriesAgree`: `Spec => []RegistryAgrees`. `SessionsInv`: the list of sessions, a copy-on-write
  list, always has who is served and nobody who is gone. `FreshInv`: nobody knows a `ConnectedUser`
  before its creator has put it. `PresenceInv`: for each step of a session's thread, in which map and
  socket lists the session is; a session that leaves was found in the `ConnectedUser` of now, or is
  not in it. Of the maps, which are plain hash maps, nothing is claimed once an overlapping write to
  them was lost or a lookup meanwhile missed an entry: then sessions may stay in them for ever.
- `SubscriptionsHeard`: `Spec => []SubscribedIsHeard`. A listener tells a session that subscribed to its
  id itself, whatever is lost. Until a write to the listeners is lost, an id subscribed to has one for
  good: the subscriber's own only if nobody else subscribed to that id, since the first listener
  of an id stays.

`WebRefinement` proves `ImplementsService`: `Spec => ServiceSpec`, under the mapping above (`Used`,
`Asked`, `Told`). Each action of a session's thread is a `Connect`, `Close`, `Ask`, `Skip`, `Subscribe` or
`Reply` of the service or hidden from it, each step of a walk a `Tell`, a `Told` or hidden.

`ReadMultipleProofs`, for requests of any length over any objects, keys and octets, and any values
written meanwhile:

- `Typing`: `Spec => []TypeOK`.
- `CursorsTogether`: `Spec => []IndexAtObject`. `CursorInv`: the inner cursor has passed the outer one
  over nothing but parameters of its object (`InnerAhead`), and when it is done it waits at
  the next object while the outer one catches up (`OuterCatchesUp`).
- `FailsOnlyThere`: `Spec => []FailsOnlyWhereAsked`. `WalkInv` adds that the inner loop knows the object
  and the bracket it is in, and that nothing unanswerable has been passed.
- `AnswersComplete`: `Spec => []AnswerIsComplete`. `AnswerInv`: the answer so far is the concatenation
  of what `Result` says of the positions behind the cursor. The concatenation is the library's
  `FlattenSeq`, a recursive function. That it exists and that one more member is appended
  (`JoinsExist`, `FlattenAppend`) is an induction, which the library's theorems cannot
  express with the installed provers; here it goes over *sets* of lengths (`Induction`), from
  the least element of a set of naturals (`Least`, by well-foundedness of <).

`ReactClientProofs`, for any tabs, loads, renders, clicks, devices and events (`PageAssumption`;
`NobodyAssumption`: the value for "nobody" is no session, no id and not the answer). The
inductive `Inv` is the conjunction of

- `TypeOK`, which says that only sockets of the present load are alive;
- `TouchedInv`: a socket on which anything is under way, sent or subscribed belongs to an
  earlier load, or is the one in the context of a tab whose user clicked when it was ready;
- `SentInv` and `FreshInv`: nothing is left of what was sent to earlier loads, and there is
  nothing on a socket that still connects;
- `CountInv`: while the socket of the context is up or coming up, the clicks of the load are those
  refused and its `Balance`: those on the way, in hand and answered;
- `PageShowsItsMessages`, which needs `TouchedInv`: no other live socket of the tab has
  anything to dispatch.

`Typing`, `PagesShow`, `ClicksAddUp` and `EventsAskedFor` state the four invariants of the run. That a
click is answered once rests on the server being a `PushService`, which `WebRefinement`
proves of it.

`AngularClientProofs`, for any ids and bounds: `Typing`, `OutletFollows`, `DetailsBelong` and
`RequestsAccounted` state the four invariants of the run. The inductive `Inv` adds that the pending
request of the present component asks for what it was created for, and that a component
kept from one device to the next has left an entry of its own page load behind.

Every invariant and every action property that a run checks is also proved. Only model-checked
are the liveness properties (`ReturnsToIdle`, `RequestsFinish`, `ReadersReturn`, `SessionsLeave`,
`ClicksAnswered`, `NoEndlessWait`, `WalkEnds`), which are outside what TLAPS proves. The assumptions
above are on the constants; `OneAtATime`, `NoArrays`, `CommandsOnly` and the finite number of clients
are hypotheses of the theorems that name them. The instance of `door_sequential` satisfies
all of them.

## 6. What is not modelled

- `DoorServer` writes present values of the five objects with logic or COV. Other
  properties are stored and read back only. A JSON `null` and the objects of the device
  and its notification class are left out.
- `DeviceHost` has no objects below a device, and an answer is sent or lost as a whole; which
  writes spoil an answer is left open (`SendAnswer` may always fail).
  `stopBroadCastListener()` and `cleanUp()` are called only from code that nothing runs
  (`App.runMain`), so a reader is never stopped.
- In `WebSubscriptions` a device pushes one event at a time, and a session is not opened again
  (a browser that comes back is a new session). The handlers of binary and pong messages
  only log, and nothing calls `sendUserSocketEventToAllSessions()`.
- `toggleAll` over several devices: `DoorServer` has one device, whose exception ends the
  request; the devices behind it in the one `forEach` are then left as they were.
- Other requests of the controller: REINITIALIZE_DEVICE and ADD_LIST_ELEMENT answer from
  constants; the lookup by MS/TP header needs one that no reader passes.
- MS/TP node: `Main` ends before its threads start (see the inventory). Its check sums are
  pure loops over octets with published test vectors in their unit tests.
- APDU, NPDU and service parameter codec: the layout of octets, without state of its own.
- Client templates: called from commented-out code only (fat client `Main.java:204-207`), and
  `APDU.toBytes()` refuses the segment acknowledgement they would send. The fat client and the
  JSON-RPC tests are experiments around the stack. The watchdog's own logic.
- React: `DeviceList.js`, `DeviceListItem.js`, `messageReceivedActionCreator`, `sendMessage` and `useWebSocket`
  are used by no component that is rendered. Angular: `AppComponent.onClickMe()` belongs to a
  button that is commented out.
- Configuration files are constants.
- Octets of messages and their wording are abstracted except where the models name them.

## 7. Plan

What would add most from here:

1. Proofs: what `PushService` alone promises about events, so that it holds of the server by
   refinement; a measure for the walk of a READ_PROPERTY_MULTIPLE like that of the door.
2. `DoorServer` with several devices, for `toggleAll` that stops half way, and with the order
   in which two notifications leave for one subscriber.
3. `MstpCrc`: both check sums against a bit-by-bit definition; `ApduCodec`: encoding, decoding
   and the announced length.
4. `MstpNode`, composed with `MstpReceiver`, once its `Main` starts.
