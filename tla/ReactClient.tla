---------------------------- MODULE ReactClient ----------------------------
(***************************************************************************)
(* The React application in several browser tabs, on top of PushService.   *)
(*                                                                         *)
(* A tab that loads the page gets a fresh store and, from the provider of  *)
(* the WebSocketContext, a socket per render of the provider; the last one *)
(* is the one in the context.  A click on "test" subscribes on it, and     *)
(* whatever comes back on any socket is dispatched to the store.  A reload *)
(* closes the sockets, which the server learns later or never.             *)
(***************************************************************************)
EXTENDS Integers, Sequences, FiniteSets

CONSTANTS
    Page,           \* the tabs
    MaxLoads,       \* bound on the times each tab loads the page
    Renders,        \* renders of the provider in each tab: 2 in React's strict mode, else 1
    Listed,         \* the ids of the devices in devicesReducer
    SubscriptionId, \* what a click subscribes to
    Device, Target, Nobody,
    MaxClicks,      \* bound on the clicks on "test" in all loads
    MaxEvents       \* bound on the events of each device

ASSUME PageAssumption ==
    /\ MaxLoads \in [Page -> Nat \ {0}] /\ Renders \in [Page -> Nat \ {0}]
    /\ MaxClicks \in Nat /\ MaxEvents \in Nat
    /\ SubscriptionId # "answer" /\ Target \in [{SubscriptionId} -> Device]

Id      == {SubscriptionId}
Session == UNION {{p} \X (1..MaxLoads[p]) \X (1..Renders[p]) : p \in Page}

ASSUME NobodyAssumption == Nobody \notin Session \cup Id \cup {"answer"}

VARIABLES
    open, used, asked, listeners, told,     \* of PushService
    load,           \* how often each tab has loaded the page
    link,           \* readyState of each socket, "none" before it is created
    number,         \* this.number of the device list in each tab
    store,          \* the redux store of each tab
    up,             \* the messages on the way to the server on each socket
    sent,           \* all messages the server sent on each socket
    read,           \* how many of them onmessage has had
    refused,        \* history: the clicks of the present load that send() threw at
    clicks, events

Server == INSTANCE PushService

server  == <<open, used, asked, listeners, told>>
page    == <<load, number, store, refused, clicks>>
vars    == <<server, page, link, up, sent, read, events>>

-----------------------------------------------------------------------------
(* The store                                                               *)

\* Payloads are never looked into, only shown.
DoorClosed == [kind |-> "Door Closed", value |-> 0]
OK         == [kind |-> "OK", value |-> 0]
Event(n)   == [kind |-> "event", value |-> n]

SelectDevice(device)        == [type |-> "DEVICE_SELECTED", payload |-> device]
DeviceStateChanged(payload) == [type |-> "DEVICE_STATE_CHANGED", payload |-> payload]
StoreInit                   == [type |-> "@@redux/INIT"]

AllInState(state) == [d \in Listed |-> [id |-> d, state |-> state]]

DevicesReducerForgetful(devices, action) ==  \* mutant
    IF action.type = "DEVICE_STATE_CHANGED" THEN AllInState(action.payload) ELSE AllInState(DoorClosed)

\* All devices take the payload, whichever of them it is about.
DevicesReducer(devices, action) ==
    CASE action.type = "DEVICE_STATE_CHANGED" -> AllInState(action.payload)
      [] action.type = "DEVICE_SELECTED"      -> devices
      [] OTHER                                -> AllInState(DoorClosed)

\* The device as it was when it was selected
SelectedDeviceReducer(selectedDevice, action) ==
    IF action.type = "DEVICE_SELECTED" THEN action.payload ELSE selectedDevice

Reducer(state, action) ==
    [devices        |-> DevicesReducer(state.devices, action),
     selectedDevice |-> SelectedDeviceReducer(state.selectedDevice, action)]

CreateStore == Reducer([devices |-> Nobody, selectedDevice |-> Nobody], StoreInit)

Dispatch(p, action) == store' = [store EXCEPT ![p] = Reducer(@, action)]

-----------------------------------------------------------------------------
(* A tab loads the page: index.js, App and the WebSocketProvider.          *)

SocketsOf(p, n) == {s \in Session : s[1] = p /\ s[2] = n}

\* The context keeps the socket of the last render.
WebSocketContext(p) == <<p, load[p], Renders[p]>>

Init ==
    /\ Server!Init
    /\ load = [p \in Page |-> 1]
    /\ link = [s \in Session |-> IF s[2] = 1 THEN "connecting" ELSE "none"]
    /\ number = [p \in Page |-> 0] /\ refused = [p \in Page |-> 0]
    /\ store = [p \in Page |-> CreateStore]
    /\ up = [s \in Session |-> 0]
    /\ sent = [s \in Session |-> <<>>] /\ read = [s \in Session |-> 0]
    /\ clicks = 0 /\ events = [d \in Device |-> 0]

\* The sockets of the load before are closed by the browser; what was still to come
\* on them is gone.
NewSockets(p) ==
    /\ link' = [s \in Session |-> IF s \in SocketsOf(p, load[p]) THEN "closed"
                                  ELSE IF s \in SocketsOf(p, load[p] + 1) THEN "connecting"
                                  ELSE link[s]]
    /\ sent' = [s \in Session |-> IF s \in SocketsOf(p, load[p]) THEN <<>> ELSE sent[s]]
    /\ read' = [s \in Session |-> IF s \in SocketsOf(p, load[p]) THEN 0 ELSE read[s]]

FreshPage(p) ==
    /\ load' = [load EXCEPT ![p] = @ + 1]
    /\ number' = [number EXCEPT ![p] = 0] /\ refused' = [refused EXCEPT ![p] = 0]

ReloadKeepingStore(p) ==  \* mutant
    /\ load[p] < MaxLoads[p]
    /\ NewSockets(p) /\ FreshPage(p)
    /\ UNCHANGED <<server, store, up, clicks, events>>

ReloadLeavingSockets(p) ==  \* mutant
    /\ load[p] < MaxLoads[p]
    /\ link' = [s \in Session |-> IF s \in SocketsOf(p, load[p] + 1) THEN "connecting" ELSE link[s]]
    /\ FreshPage(p) /\ store' = [store EXCEPT ![p] = CreateStore]
    /\ UNCHANGED <<server, up, sent, read, clicks, events>>

Reload(p) ==
    /\ load[p] < MaxLoads[p]
    /\ NewSockets(p) /\ FreshPage(p)
    /\ store' = [store EXCEPT ![p] = CreateStore]
    /\ UNCHANGED <<server, up, clicks, events>>

-----------------------------------------------------------------------------
(* The user                                                                *)

TestFunctionLate(p) ==  \* mutant
    LET s == WebSocketContext(p)
    IN  /\ clicks < MaxClicks /\ clicks' = clicks + 1
        /\ number' = IF link[s] = "connecting" THEN number ELSE [number EXCEPT ![p] = @ + 1]
        /\ refused' = IF link[s] = "connecting" THEN [refused EXCEPT ![p] = @ + 1] ELSE refused
        /\ up' = IF link[s] = "open" THEN [up EXCEPT ![s] = @ + 1] ELSE up
        /\ UNCHANGED <<server, load, store, link, sent, read, events>>

\* send() throws while the socket connects, and says nothing once it is closed.
TestFunction(p) ==
    LET s == WebSocketContext(p)
    IN  /\ clicks < MaxClicks /\ clicks' = clicks + 1
        /\ number' = [number EXCEPT ![p] = @ + 1]
        /\ refused' = IF link[s] = "connecting" THEN [refused EXCEPT ![p] = @ + 1] ELSE refused
        /\ up' = IF link[s] = "open" THEN [up EXCEPT ![s] = @ + 1] ELSE up
        /\ UNCHANGED <<server, load, store, link, sent, read, events>>

\* The button of a list item selects the device the item was rendered with.
DeviceListItem(p, d) == store[p].devices[d]

Select(p, d) ==
    /\ Dispatch(p, SelectDevice(DeviceListItem(p, d)))
    /\ UNCHANGED <<server, load, number, refused, clicks, link, up, sent, read, events>>

-----------------------------------------------------------------------------
(* The network and the server                                              *)

\* A connection that cannot be made is one that is dropped at once.
Handshake(s) ==
    /\ link[s] = "connecting" /\ link' = [link EXCEPT ![s] = "open"]
    /\ Server!Connect(s)
    /\ UNCHANGED <<page, up, sent, read, events>>

\* A connection that ends takes along what is on its way.  The page learns of it at
\* once: what it would send in between is lost like what it sends on a closed
\* socket.  The provider has no onclose, and never connects again.
Lost(s) ==
    /\ link' = IF s \notin open' /\ link[s] = "open" THEN [link EXCEPT ![s] = "closed"] ELSE link
    /\ up' = IF s \notin open' THEN [up EXCEPT ![s] = 0] ELSE up

Drop(s) ==
    /\ Server!Close(s) /\ Lost(s)
    /\ UNCHANGED <<page, sent, read, events>>

Receive(s) ==
    /\ up[s] > 0 /\ up' = [up EXCEPT ![s] = @ - 1]
    /\ Server!Ask(s, SubscriptionId)
    /\ UNCHANGED <<page, link, sent, read, events>>

Handle(s) ==
    /\ Server!Subscribe(s) \/ Server!Skip(s)
    /\ UNCHANGED <<page, link, up, sent, read, events>>

\* What the server sends is on its way if both ends still have the connection.
Send(s, message) ==
    sent' = IF link[s] = "open" /\ s \in open' THEN [sent EXCEPT ![s] = Append(@, message)] ELSE sent

ReplyToListeners(s) ==  \* mutant
    /\ \E d \in Device : \E l \in listeners[d] : l.session = s
    /\ Server!Reply(s)
    /\ Send(s, OK) /\ Lost(s)
    /\ UNCHANGED <<page, read, events>>

Reply(s) ==
    /\ Server!Reply(s)
    /\ Send(s, OK) /\ Lost(s)
    /\ UNCHANGED <<page, read, events>>

Tell(d, s) ==
    /\ Server!Tell(d, s)
    /\ events[d] < MaxEvents /\ events' = [events EXCEPT ![d] = @ + 1]
    /\ UNCHANGED <<page, link, up, sent, read>>

Told(d) ==
    /\ Server!Told(d)
    /\ Send(told[d], Event(events[d]))
    /\ UNCHANGED <<page, link, up, read, events>>

\* onmessage, of any socket of the tab: an answer is dispatched as if it were an event.
OnMessage(s) ==
    /\ link[s] = "open" /\ read[s] < Len(sent[s])
    /\ read' = [read EXCEPT ![s] = @ + 1]
    /\ Dispatch(s[1], DeviceStateChanged(sent[s][read[s] + 1]))
    /\ UNCHANGED <<server, load, number, refused, clicks, link, up, sent, events>>

-----------------------------------------------------------------------------
Serve(s) == Receive(s) \/ Handle(s) \/ Reply(s)

Next ==
    \/ \E p \in Page : Reload(p) \/ TestFunction(p) \/ (\E d \in Listed : Select(p, d))
    \/ \E s \in Session : Handshake(s) \/ Drop(s) \/ Serve(s) \/ OnMessage(s)
    \/ \E d \in Device : Told(d) \/ (\E s \in Session : Tell(d, s))

Spec == Init /\ [][Next]_vars

\* The server handles what has arrived and the browser runs its callbacks; nobody
\* need click, reload or open anything.
LiveSpec ==
    /\ Spec
    /\ \A s \in Session : WF_vars(Serve(s)) /\ WF_vars(OnMessage(s))

-----------------------------------------------------------------------------
(* Properties                                                              *)

Payload == [kind : {"Door Closed", "OK", "event"}, value : Nat]
Item    == [id : Listed, state : Payload]

\* Every variable has its type; only sockets of the present load are alive, and
\* what is open here is open at the server.
TypeOK ==
    /\ open \subseteq used /\ used \subseteq Session
    /\ asked \in [Session -> Id \cup {Server!Answer, Nobody}]
    /\ listeners \in [Device -> SUBSET Server!Listener]
    /\ told \in [Device -> Session \cup {Nobody}]
    /\ load \in [Page -> Nat] /\ \A p \in Page : load[p] \in 1..MaxLoads[p]
    /\ link \in [Session -> {"none", "connecting", "open", "closed"}]
    /\ \A s \in Session : /\ link[s] \in {"connecting", "open"} => s[2] = load[s[1]]
                          /\ link[s] = "open" => s \in open
    /\ number \in [Page -> Nat] /\ refused \in [Page -> Nat] /\ clicks \in 0..MaxClicks
    /\ store \in [Page -> [devices : [Listed -> Item], selectedDevice : Item \cup {Nobody}]]
    /\ up \in [Session -> Nat] /\ read \in [Session -> Nat]
    /\ sent \in [Session -> Seq(Payload)] /\ \A s \in Session : read[s] <= Len(sent[s])
    /\ events \in [Device -> 0..MaxEvents]

\* What the list of a tab shows, and what its details show
DeviceList(p)    == {DeviceListItem(p, d) : d \in Listed}
DeviceDetails(p) == store[p].selectedDevice

Seen(s) == {sent[s][i] : i \in 1..read[s]}

LastSeen(s) == IF read[s] = 0 THEN DoorClosed ELSE sent[s][read[s]]

\* All items of a tab show the last message that came in on the socket of its
\* context, whatever was selected, reloaded or sent to other tabs and to other
\* sockets meanwhile; the details show a device of the list in a state that it has
\* had since the page was loaded (reducers/index.js:3-62, WebSocketContext.js:38-73).
PageShowsItsMessages ==
    \A p \in Page :
        LET s == WebSocketContext(p)
        IN  /\ \A item \in DeviceList(p) : item.state = LastSeen(s)
            /\ DeviceDetails(p) # Nobody =>
                 DeviceDetails(p).state \in {DoorClosed} \cup Seen(s)

\* A message that is being handled, and the answers of a socket
Handling(s) == IF asked[s] = Nobody THEN 0 ELSE 1
Answers(s)  == {i \in DOMAIN sent[s] : sent[s][i] = OK}

\* On a connection that is up, each click of the present load was refused, is on its
\* way, is being handled, or was answered: none is lost and none answered twice, and
\* the number it carries counts them (DeviceListRedux.js:32-44,
\* DefaultSocketHandler.java:89-136).
ClicksAccounted ==
    \A p \in Page :
        LET s == WebSocketContext(p)
        IN  link[s] = "open" =>
                number[p] = refused[p] + up[s] + Handling(s) + Cardinality(Answers(s))

\* A tab shows an event only if the user asked for events since the page was loaded,
\* on a socket that was ready: no subscription of another tab, of an earlier load or
\* of the other socket of strict mode reaches it (WebSocketContext.js:46-65,
\* DefaultSubscriptionManager.java:61-75).
EventsWereAskedFor ==
    \A p \in Page :
        (\E item \in DeviceList(p) \cup {DeviceDetails(p)} :
            item # Nobody /\ item.state.kind = "event") => number[p] > refused[p]

Waiting(s) ==
    /\ link[s] = "open"
    /\ up[s] > 0 \/ asked[s] # Nobody \/ read[s] < Len(sent[s])

\* Each click on an open connection is answered and the answer shown, or the
\* connection ends (DefaultSocketHandler.java:132-135, WebSocketContext.js:48-59).
ClicksAnswered ==
    \A p \in Page : Waiting(WebSocketContext(p)) ~> ~Waiting(WebSocketContext(p))
=============================================================================
