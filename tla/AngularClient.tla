--------------------------- MODULE AngularClient ---------------------------
(***************************************************************************)
(* The Angular application in one browser tab: the router, the table of    *)
(* devices and the details of one, and the REST requests each component    *)
(* makes when it is created.                                               *)
(*                                                                         *)
(* A component lives as long as the router stays on its route: from the    *)
(* details of one device to those of another one the same component stays. *)
(* Its request is not made again then, and is not cancelled when it goes.  *)
(* Links push an entry on the history and leave the page in place; a URL   *)
(* typed by the user loads the page anew, which also drops its requests.   *)
(***************************************************************************)
EXTENDS Integers, Sequences, FiniteSets

CONSTANTS
    DeviceId,       \* ids the server may have devices under
    StrangeId,      \* other ids a URL may hold, NaN among them
    None,           \* undefined
    MaxHistory,     \* bound on the entries of the history
    MaxComponents,  \* bound on the components created
    MaxRestarts     \* bound on the restarts of the server

ASSUME IdAssumption    == DeviceId \cap StrangeId = {} /\ {None, "all"} \cap (DeviceId \cup StrangeId) = {}
ASSUME NoneAssumption  == \A D \in SUBSET DeviceId : None # D
ASSUME BoundAssumption == /\ MaxHistory \in Nat \ {0} /\ MaxRestarts \in Nat
                          /\ MaxComponents \in Nat \ {0}

VARIABLES
    entries,        \* the history: for each entry its path and the page load it belongs to
    position,       \* the entry the tab is at
    component,      \* the component in the router outlet
    requests,       \* pending: the component that asks, and the id or "all"
    failed,         \* history: components whose request failed
    devices,        \* the server's devices
    restarts

vars == <<entries, position, component, requests, failed, devices, restarts>>

Id == DeviceId \cup StrangeId

-----------------------------------------------------------------------------
(* Paths and routes                                                        *)

Table      == [page |-> "device-table", id |-> None]
Details(i) == [page |-> "device-details", id |-> i]
Empty      == [page |-> "/", id |-> None]
Unknown    == [page |-> "unknown", id |-> None]
Path       == {Table, Unknown} \cup {Details(i) : i \in Id}

\* The routes in their order: what is left is caught by "**".
Route(path) ==
    CASE path.page = "device-table"   -> "device-table"
      [] path.page = "device-details" -> "device-details/:id"
      [] OTHER                        -> "**"

Redirect(path) == IF path = Empty THEN Table ELSE path

Current == entries[position].path

-----------------------------------------------------------------------------
(* Components.  ngOnInit runs when the component is first shown, in the    *)
(* same turn as its creation.                                              *)

DeviceTableComponent(n, path) ==
    [n |-> n, route |-> Route(path), first |-> None, id |-> None, device |-> None, devices |-> None]

\* The subscription to paramMap is told of the present parameters at once.
DeviceDetailsComponent(n, path) ==
    [n |-> n, route |-> Route(path), first |-> path.id, id |-> path.id, device |-> None, devices |-> None]

Component(n, path) ==
    IF Route(path) = "device-details/:id" THEN DeviceDetailsComponent(n, path)
    ELSE DeviceTableComponent(n, path)

\* What a new component asks the server for
NgOnInit(c) == [component |-> c.n, ask |-> IF c.route = "device-details/:id" THEN c.id ELSE "all"]

ParamMapSnapshot(c, path) == c  \* mutant

\* A component that stays is told of the new parameters.
ParamMap(c, path) == IF c.route = "device-details/:id" THEN [c EXCEPT !.id = path.id] ELSE c

-----------------------------------------------------------------------------
(* Navigation                                                              *)

\* The page is loaded: main.ts starts the application at the path of the entry.
Load(path, pending) ==
    /\ component.n < MaxComponents
    /\ component' = Component(component.n + 1, path)
    /\ requests' = pending \cup {NgOnInit(component')}

NavigateCancelling(path) ==  \* mutant
    IF path = Current THEN UNCHANGED <<component, requests>>
    ELSE IF Route(path) = component.route
    THEN component' = ParamMap(component, path) /\ requests' = {r \in requests : r.component # component.n}
    ELSE Load(path, requests)

\* The router ignores the URL it is at, keeps the component of a route it stays on
\* and else destroys it, whose requests go on.
Navigate(path) ==
    IF path = Current THEN UNCHANGED <<component, requests>>
    ELSE IF Route(path) = component.route
    THEN component' = ParamMap(component, path) /\ requests' = requests
    ELSE Load(path, requests)

PushKeeping(path, load) ==  \* mutant
    /\ position < MaxHistory
    /\ entries' = Append(entries, [path |-> path, load |-> load])
    /\ position' = position + 1

Push(path, load) ==
    /\ position < MaxHistory
    /\ entries' = Append(SubSeq(entries, 1, position), [path |-> path, load |-> load])
    /\ position' = position + 1

Init ==
    \E path \in Path \cup {Empty} :
        /\ entries = <<[path |-> Redirect(path), load |-> 1]>> /\ position = 1
        /\ component = Component(1, Redirect(path))
        /\ requests = {NgOnInit(component)}
        /\ failed = {}
        /\ devices \in SUBSET DeviceId /\ restarts = 0

\* A link of the table: there is one for each device it shows.
DeviceLink(i) ==
    /\ component.devices # None /\ i \in component.devices
    /\ Push(Details(i), entries[position].load) /\ Navigate(Details(i))
    /\ UNCHANGED <<failed, devices, restarts>>

\* The link of the details, which is there whether there is a device to show or not
BackToDeviceTable ==
    /\ component.route = "device-details/:id"
    /\ Push(Table, entries[position].load) /\ Navigate(Table)
    /\ UNCHANGED <<failed, devices, restarts>>

\* Back, forward, or an entry picked from the list: the router navigates to an entry
\* of this page load (popstate), the browser loads the page for others.
HistoryGo(k) ==
    /\ k \in DOMAIN entries \ {position} /\ position' = k
    /\ IF entries[k].load = entries[position].load THEN Navigate(entries[k].path)
       ELSE Load(entries[k].path, {})
    /\ UNCHANGED <<entries, failed, devices, restarts>>

\* A URL typed in gets an entry of its own unless the tab is at it already; a page
\* that is reloaded keeps its entries.
TypeUrl(path) ==
    /\ IF path # Current THEN Push(Redirect(path), component.n + 1)
       ELSE position' = position /\ entries' = [entries EXCEPT ![position].load = component.n + 1]
    /\ Load(Redirect(path), {})
    /\ UNCHANGED <<failed, devices, restarts>>

Refresh ==
    /\ Load(Current, {})
    /\ UNCHANGED <<entries, position, failed, devices, restarts>>

-----------------------------------------------------------------------------
(* The server.  An id it has no device under, or that is no number, makes   *)
(* the request fail.                                                       *)

Answered(c, r) == IF r.ask = "all" THEN [c EXCEPT !.devices = devices]
                  ELSE [c EXCEPT !.device = r.ask]

AnswerAnyone(r) ==  \* mutant
    /\ r \in requests /\ requests' = requests \ {r}
    /\ r.ask \in devices \cup {"all"}
    /\ component' = IF (r.ask = "all") = (component.route # "device-details/:id")
                    THEN Answered(component, r) ELSE component
    /\ UNCHANGED <<entries, position, failed, devices, restarts>>

\* Answers come in any order; one for a component that is gone changes nothing.
Answer(r) ==
    /\ r \in requests /\ requests' = requests \ {r}
    /\ r.ask \in devices \cup {"all"}
    /\ component' = IF r.component = component.n THEN Answered(component, r) ELSE component
    /\ UNCHANGED <<entries, position, failed, devices, restarts>>

FailKnown(r) ==  \* mutant
    /\ r \in requests /\ r.ask \in devices \cup {"all"} /\ requests' = requests \ {r}
    /\ failed' = failed \cup {r.component}
    /\ UNCHANGED <<entries, position, component, devices, restarts>>

\* The server may refuse any request, the network may lose it: the error is logged.
Fail(r) ==
    /\ r \in requests /\ requests' = requests \ {r}
    /\ failed' = failed \cup {r.component}
    /\ UNCHANGED <<entries, position, component, devices, restarts>>

\* With another configuration; the requests under way fail.
Restart ==
    /\ restarts < MaxRestarts /\ restarts' = restarts + 1
    /\ devices' \in SUBSET DeviceId
    /\ failed' = failed \cup {r.component : r \in requests} /\ requests' = {}
    /\ UNCHANGED <<entries, position, component>>

Respond == \E r \in requests : Answer(r) \/ Fail(r)

Next ==
    \/ \E i \in DeviceId : DeviceLink(i)
    \/ \E path \in Path \cup {Empty} : TypeUrl(path)
    \/ \E k \in 1..MaxHistory : HistoryGo(k)
    \/ BackToDeviceTable \/ Refresh \/ Respond \/ Restart

Spec == Init /\ [][Next]_vars

\* Each request ends, with an answer or an error; the user need not do anything.
LiveSpec == Spec /\ WF_vars(Respond)

-----------------------------------------------------------------------------
(* Properties                                                              *)

Asked    == Id \cup {"all"}
Entry    == [path : Path, load : Nat]

ComponentType ==
    [n : Nat, route : {"device-table", "device-details/:id", "**"}, first : Id \cup {None},
     id : Id \cup {None}, device : Id \cup {None}, devices : (SUBSET DeviceId) \cup {None}]

\* Every variable has its type; a component asks at most once, and none is asked for
\* that was not created.
TypeOK ==
    /\ entries \in Seq(Entry) /\ Len(entries) <= MaxHistory /\ position \in DOMAIN entries
    /\ component \in ComponentType /\ component.n <= MaxComponents
    /\ requests \subseteq [component : Nat, ask : Asked]
    /\ \A q, r \in requests : q.component = r.component => q = r
    /\ \A r \in requests : r.component <= component.n /\ r.component \notin failed
    /\ failed \subseteq 1..component.n
    /\ devices \subseteq DeviceId /\ restarts \in 0..MaxRestarts

\* After any clicks, jumps and loads the component in the outlet is the one of the
\* present path, and the id in its heading is the one of the path
\* (app-routing.module.ts:6-11, device-details.component.ts:31-33).
OutletFollowsUrl ==
    /\ component.route = Route(Current)
    /\ component.id = Current.id

\* The details shown are never those of a device the user left for another page
\* before they came, and the only way they can differ from the heading is that the
\* component was kept from one device to the next: then they are those of the device
\* it was created for (device-details.component.ts:31-46).
DetailsOfFirstDevice ==
    component.device # None =>
        /\ component.device = component.first
        /\ component.device # component.id =>
             \E k \in DOMAIN entries \ {position} :
                 entries[k].load = entries[position].load /\ entries[k].path.page = "device-details"

\* What a component shows is all it has asked for: it waits for its one request, has
\* its answer, or the request has failed (device-table.component.ts:20-33).
Waiting == \E r \in requests : r.component = component.n
Shows   == component.device # None \/ component.devices # None

RequestAccounted ==
    /\ Waiting \/ Shows \/ component.n \in failed
    /\ Waiting => ~Shows
    /\ component.n \in failed => ~Shows

\* No component waits for ever: it shows something, its request fails, or the user goes.
NoEndlessWait == Waiting ~> ~Waiting
=============================================================================
