------------------------ MODULE AngularClientProofs ------------------------
(***************************************************************************)
(* What the Angular application shows, proved for any number of devices,   *)
(* entries, components and restarts.                                       *)
(***************************************************************************)
EXTENDS AngularClient, TLAPS

OfDetails(c) == c.route = "device-details/:id"

\* Details are of the device the component was created for, or not there yet; a table
\* has no details.
ComponentInv(c) ==
    /\ c \in ComponentType /\ c.n \in Nat \ {0}
    /\ OfDetails(c)  => c.first \in Id /\ c.device \in {None, c.first} /\ c.devices = None
    /\ ~OfDetails(c) => c.first = None /\ c.device = None

\* What the present component asked for, and what has become of it
RequestInv(R, c, F) ==
    /\ R \subseteq [component : Nat, ask : Asked] /\ F \subseteq 1..c.n
    /\ \A q, r \in R : q.component = r.component => q = r
    /\ \A r \in R : r.component \in 1..c.n /\ r.component \notin F
    /\ \A r \in R : r.component = c.n => r.ask = (IF OfDetails(c) THEN c.first ELSE "all")

Shown(c) == c.device # None \/ c.devices # None

AccountInv(R, c, F) ==
    /\ (\E r \in R : r.component = c.n) \/ Shown(c) \/ c.n \in F
    /\ (\E r \in R : r.component = c.n) => ~Shown(c)
    /\ c.n \in F => ~Shown(c)

\* A component that was kept from one device to the next has left an entry behind.
KeptInv(E, p, c) ==
    OfDetails(c) /\ c.first # c.id =>
        \E k \in DOMAIN E \ {p} : E[k].load = E[p].load /\ E[k].path.page = "device-details"

HistoryInv(E, p, c) ==
    /\ E \in Seq(Entry) /\ Len(E) <= MaxHistory /\ p \in DOMAIN E
    /\ c.route = Route(E[p].path) /\ c.id = E[p].path.id

Inv ==
    /\ ComponentInv(component) /\ component.n <= MaxComponents
    /\ RequestInv(requests, component, failed) /\ AccountInv(requests, component, failed)
    /\ HistoryInv(entries, position, component) /\ KeptInv(entries, position, component)
    /\ devices \subseteq DeviceId /\ restarts \in 0..MaxRestarts

-----------------------------------------------------------------------------
(* Paths and components                                                    *)

\* A path leads to the details exactly if it names one device.
LEMMA Paths ==
    ASSUME NEW path \in Path
    PROVE  /\ Route(path) \in {"device-table", "device-details/:id", "**"}
           /\ Route(path) = "device-details/:id" <=> path.page = "device-details"
           /\ path.id \in Id \cup {None}
           /\ Route(path) = "device-details/:id" => path.id \in Id
           /\ Route(path) # "device-details/:id" => path.id = None
BY DEF Path, Route, Table, Details, Unknown, Empty

\* The empty path is redirected, so no page is shown at it.
LEMMA EmptyIsNoPath == \A path \in Path : path # Empty
<1> SUFFICES ASSUME NEW path \in Path PROVE path.page # "/"
  BY DEF Empty
<1> QED BY DEF Path, Table, Unknown, Details

\* Every path the application is started at leads to one it has a route for.
LEMMA Redirects == \A path \in Path \cup {Empty} : Redirect(path) \in Path
BY DEF Redirect, Path, Table

\* A new component shows nothing yet and is the one of its path.
LEMMA NewComponent ==
    ASSUME NEW path \in Path, NEW n \in Nat \ {0}
    PROVE  LET c == Component(n, path) IN
           /\ ComponentInv(c) /\ c.n = n /\ c.route = Route(path) /\ c.id = path.id
           /\ OfDetails(c) => c.first = path.id /\ NgOnInit(c) = [component |-> n, ask |-> path.id]
           /\ ~OfDetails(c) => NgOnInit(c) = [component |-> n, ask |-> "all"]
           /\ ~Shown(c)
BY Paths DEF Component, DeviceTableComponent, DeviceDetailsComponent, ComponentInv, ComponentType,
    OfDetails, NgOnInit, Shown

\* A page load or a new route: the requests left over are those of earlier components.
LEMMA Loaded ==
    ASSUME NEW path \in Path, NEW c, NEW R, NEW F, NEW pending \in SUBSET R,
           ComponentInv(c), RequestInv(R, c, F)
    PROVE  LET d == Component(c.n + 1, path) IN
           /\ ComponentInv(d) /\ d.n = c.n + 1
           /\ d.route = Route(path) /\ d.id = path.id
           /\ OfDetails(d) => d.first = d.id
           /\ RequestInv(pending \cup {NgOnInit(d)}, d, F)
           /\ AccountInv(pending \cup {NgOnInit(d)}, d, F)
<1> DEFINE d == Component(c.n + 1, path)
           T == pending \cup {NgOnInit(d)}
<1>1. c.n \in Nat /\ c.n + 1 \in Nat \ {0}
  BY DEF ComponentInv
<1>2. /\ ComponentInv(d) /\ d.n = c.n + 1 /\ d.route = Route(path) /\ d.id = path.id
      /\ OfDetails(d) => d.first = path.id /\ NgOnInit(d) = [component |-> c.n + 1, ask |-> path.id]
      /\ ~OfDetails(d) => NgOnInit(d) = [component |-> c.n + 1, ask |-> "all"]
      /\ ~Shown(d)
  BY <1>1, NewComponent
<1>3. /\ NgOnInit(d) \in [component : Nat, ask : Asked]
      /\ NgOnInit(d).component = c.n + 1
      /\ NgOnInit(d).ask = IF OfDetails(d) THEN d.first ELSE "all"
  BY <1>1, <1>2, Paths DEF Asked, OfDetails
<1> HIDE DEF d
<1>4. \A r \in pending : r.component \in 1..c.n /\ r.component \notin F
                         /\ r \in [component : Nat, ask : Asked]
  BY DEF RequestInv
<1>5. F \subseteq 1..d.n /\ d.n \notin F
  BY <1>1, <1>2 DEF RequestInv
<1>6. \A q, r \in T : q.component = r.component => q = r
  BY <1>1, <1>3, <1>4 DEF RequestInv
<1>7. RequestInv(T, d, F)
  BY <1>1, <1>2, <1>3, <1>4, <1>5, <1>6 DEF RequestInv
<1>8. AccountInv(T, d, F)
  BY <1>2, <1>3, <1>5 DEF AccountInv
<1> QED BY <1>2, <1>7, <1>8 DEF d

-----------------------------------------------------------------------------
(* Answers and failures                                                    *)

\* The answer the present component waits for is its own.
LEMMA AnsweredOnce ==
    ASSUME NEW c, NEW R, NEW F, NEW r \in R, r.component = c.n, devices \subseteq DeviceId,
           ComponentInv(c), RequestInv(R, c, F), AccountInv(R, c, F)
    PROVE  LET d == Answered(c, r) IN
           /\ ComponentInv(d) /\ d.n = c.n /\ d.route = c.route /\ d.id = c.id /\ d.first = c.first
           /\ RequestInv(R \ {r}, d, F) /\ AccountInv(R \ {r}, d, F)
<1> DEFINE d == Answered(c, r)
<1>1. /\ ComponentInv(d) /\ d.n = c.n /\ d.route = c.route /\ d.id = c.id /\ d.first = c.first
      /\ Shown(d)
  <2>1. CASE OfDetails(c)
    <3>1. r.ask = c.first /\ c.first \in Id /\ c.first # "all" /\ c.first # None
      BY <2>1, IdAssumption DEF ComponentInv, RequestInv, Id
    <3>2. d = [c EXCEPT !.device = c.first]
      BY <3>1 DEF Answered
    <3> HIDE DEF d
    <3> QED BY <2>1, <3>1, <3>2 DEF ComponentInv, ComponentType, OfDetails, Shown
  <2>2. CASE ~OfDetails(c)
    <3>1. r.ask = "all" /\ devices # None
      BY <2>2, NoneAssumption DEF RequestInv
    <3>2. d = [c EXCEPT !.devices = devices]
      BY <3>1 DEF Answered
    <3> HIDE DEF d
    <3> QED BY <2>2, <3>1, <3>2 DEF ComponentInv, ComponentType, OfDetails, Shown
  <2> QED BY <2>1, <2>2
<1> HIDE DEF d
<1>2. \A q \in R \ {r} : q.component # d.n
  BY <1>1 DEF RequestInv
<1>3. d.n \notin F
  BY <1>1 DEF RequestInv
<1>4. RequestInv(R \ {r}, d, F)
  BY <1>1, <1>2 DEF RequestInv
<1>5. AccountInv(R \ {r}, d, F)
  BY <1>1, <1>2, <1>3 DEF AccountInv
<1> QED BY <1>1, <1>4, <1>5 DEF d

\* An answer for a component that is gone leaves the present one as it was.
LEMMA AnsweredLate ==
    ASSUME NEW c, NEW R, NEW F, NEW r \in R, r.component # c.n,
           RequestInv(R, c, F), AccountInv(R, c, F)
    PROVE  RequestInv(R \ {r}, c, F) /\ AccountInv(R \ {r}, c, F)
BY DEF RequestInv, AccountInv

\* Requests that fail are accounted for as failed.
LEMMA Failed ==
    ASSUME NEW c, NEW R, NEW F, NEW G \in SUBSET R, ComponentInv(c),
           RequestInv(R, c, F), AccountInv(R, c, F)
    PROVE  /\ RequestInv(R \ G, c, F \cup {r.component : r \in G})
           /\ AccountInv(R \ G, c, F \cup {r.component : r \in G})
<1> DEFINE H == F \cup {r.component : r \in G}
<1>1. H \subseteq 1..c.n
  BY DEF RequestInv
<1>2. \A r \in R \ G : r.component \notin H
  BY DEF RequestInv
<1>3. c.n \in H => (\E r \in R : r.component = c.n) \/ c.n \in F
  OBVIOUS
<1>4. (\E r \in R : r.component = c.n) => (\E r \in R \ G : r.component = c.n) \/ c.n \in H
  OBVIOUS
<1>5. c.n \in F => c.n \in H
  OBVIOUS
<1> HIDE DEF H
<1>6. RequestInv(R \ G, c, H)
  BY <1>1, <1>2 DEF RequestInv
<1>7. AccountInv(R \ G, c, H)
  BY <1>3, <1>4, <1>5 DEF AccountInv
<1> QED BY <1>6, <1>7 DEF H

-----------------------------------------------------------------------------
(* Navigation                                                              *)

\* An entry pushed on the history is the one the tab is at.
LEMMA Pushed ==
    ASSUME HistoryInv(entries, position, component), NEW path \in Path, NEW load \in Nat,
           Push(path, load)
    PROVE  /\ entries' \in Seq(Entry) /\ Len(entries') <= MaxHistory
           /\ position' \in DOMAIN entries' /\ entries'[position'].path = path
<1> DEFINE front == SubSeq(entries, 1, position)
           e == [path |-> path, load |-> load]
<1>1. position \in 1..Len(entries) /\ Len(entries) \in Nat /\ position < MaxHistory
  BY DEF HistoryInv, Push
<1>2. e \in Entry /\ e.path = path
  BY DEF Entry
<1>3. front \in Seq(Entry) /\ Len(front) = position
  BY <1>1 DEF HistoryInv
<1>4. entries' = Append(front, e) /\ position' = position + 1
  BY DEF Push
<1> HIDE DEF front, e
<1>5. entries' \in Seq(Entry) /\ Len(entries') = position + 1 /\ entries'[position + 1] = e
  BY <1>1, <1>2, <1>3, <1>4
<1> QED BY <1>1, <1>2, <1>4, <1>5, BoundAssumption

\* A step that loads a page or changes the route, at an entry of the history
LEMMA LoadStep ==
    ASSUME Inv, NEW path \in Path, NEW pending \in SUBSET requests, Load(path, pending),
           entries' \in Seq(Entry), Len(entries') <= MaxHistory, position' \in DOMAIN entries',
           entries'[position'].path = path, UNCHANGED <<failed, devices, restarts>>
    PROVE  Inv'
<1>1. component' = Component(component.n + 1, path) /\ requests' = pending \cup {NgOnInit(component')}
      /\ component.n < MaxComponents
  BY DEF Load
<1>2. /\ ComponentInv(component') /\ component'.n = component.n + 1
      /\ component'.route = Route(path) /\ component'.id = path.id
      /\ OfDetails(component') => component'.first = component'.id
      /\ RequestInv(requests', component', failed')
      /\ AccountInv(requests', component', failed')
  BY <1>1, Loaded DEF Inv
<1>3. component'.n <= MaxComponents
  BY <1>1, <1>2, BoundAssumption DEF Inv, ComponentInv
<1>4. HistoryInv(entries', position', component')
  BY <1>2 DEF HistoryInv
<1>5. KeptInv(entries', position', component')
  BY <1>2 DEF KeptInv
<1> QED BY <1>2, <1>3, <1>4, <1>5 DEF Inv

\* The router stays on its route: the component is told of the new parameters.
LEMMA Stay ==
    ASSUME NEW c, NEW R, NEW F, NEW path \in Path, c.route = Route(path),
           ComponentInv(c), RequestInv(R, c, F), AccountInv(R, c, F), ~OfDetails(c) => c.id = None
    PROVE  LET d == ParamMap(c, path) IN
           /\ ComponentInv(d) /\ d.n = c.n /\ d.route = c.route /\ d.id = path.id
           /\ RequestInv(R, d, F) /\ AccountInv(R, d, F)
<1> DEFINE d == ParamMap(c, path)
<1>1. CASE OfDetails(c)
  <2>1. path.id \in Id
    BY <1>1, Paths DEF OfDetails
  <2>2. d = [c EXCEPT !.id = path.id]
    BY <1>1 DEF ParamMap, OfDetails
  <2> HIDE DEF d
  <2>3. /\ ComponentInv(d) /\ d.n = c.n /\ d.route = c.route /\ d.id = path.id
        /\ d.first = c.first /\ d.device = c.device /\ d.devices = c.devices
    BY <2>1, <2>2 DEF ComponentInv, ComponentType, OfDetails
  <2>4. RequestInv(R, d, F) /\ AccountInv(R, d, F)
    BY <2>3 DEF RequestInv, AccountInv, OfDetails, Shown
  <2> QED BY <2>3, <2>4 DEF d
<1>2. CASE ~OfDetails(c)
  <2>1. path.id = None
    BY <1>2, Paths DEF OfDetails
  <2> QED BY <1>2, <2>1 DEF ParamMap, OfDetails
<1> QED BY <1>1, <1>2

\* A jump to an entry of the same page load
LEMMA HistoryStep ==
    ASSUME Inv, NEW k \in DOMAIN entries \ {position}, position' = k,
           entries[k].load = entries[position].load, Navigate(entries[k].path),
           UNCHANGED <<entries, failed, devices, restarts>>
    PROVE  Inv'
<1>1. /\ entries \in Seq(Entry) /\ Len(entries) <= MaxHistory /\ position \in DOMAIN entries
      /\ component.route = Route(Current) /\ component.id = Current.id
      /\ entries[k].path \in Path /\ Current \in Path /\ k \in DOMAIN entries
  <2>1. HistoryInv(entries, position, component)
    BY DEF Inv
  <2>2. \A j \in DOMAIN entries : entries[j] \in Entry
    BY <2>1 DEF HistoryInv
  <2>3. \A j \in DOMAIN entries : entries[j].path \in Path
    BY <2>2 DEF Entry
  <2> QED BY <2>1, <2>3 DEF HistoryInv, Current
<1> DEFINE path == entries[k].path
<1>2. ASSUME component'.route = component.route
      PROVE  KeptInv(entries', position', component')
  <2>1. OfDetails(component') => entries[position].path.page = "device-details"
    BY <1>1, <1>2, Paths DEF OfDetails, Current
  <2> QED BY <1>1, <2>1 DEF KeptInv
<1>3. CASE path = Current
  <2>1. UNCHANGED <<component, requests>>
    BY <1>3 DEF Navigate
  <2>2. HistoryInv(entries', position', component')
    BY <1>1, <1>3, <2>1 DEF HistoryInv
  <2> QED BY <1>2, <2>1, <2>2 DEF Inv
<1>4. CASE path # Current /\ Route(path) = component.route
  <2>1. component' = ParamMap(component, path) /\ requests' = requests
    BY <1>4 DEF Navigate
  <2>2. ~OfDetails(component) => component.id = None
    BY <1>1, Paths DEF OfDetails
  <2>3. /\ ComponentInv(component') /\ component'.n = component.n
        /\ component'.route = component.route /\ component'.id = path.id
        /\ RequestInv(requests', component', failed')
        /\ AccountInv(requests', component', failed')
    BY <1>1, <1>4, <2>1, <2>2, Stay DEF Inv
  <2>4. HistoryInv(entries', position', component')
    BY <1>1, <1>4, <2>3 DEF HistoryInv
  <2> QED BY <1>2, <2>3, <2>4 DEF Inv
<1>5. CASE path # Current /\ Route(path) # component.route
  <2>1. Load(path, requests)
    BY <1>5 DEF Navigate
  <2> QED BY <1>1, <2>1, LoadStep
<1> QED BY <1>3, <1>4, <1>5

-----------------------------------------------------------------------------
(* The theorems                                                            *)

\* The inductive invariant holds when the application starts.
LEMMA InvInit == Init => Inv
<1> SUFFICES ASSUME Init PROVE Inv
  OBVIOUS
<1>1. PICK path \in Path \cup {Empty} :
        /\ entries = <<[path |-> Redirect(path), load |-> 1]>> /\ position = 1
        /\ component = Component(1, Redirect(path))
        /\ requests = {NgOnInit(component)}
        /\ failed = {} /\ devices \in SUBSET DeviceId /\ restarts = 0
  BY DEF Init
<1>2. Redirect(path) \in Path
  BY Redirects
<1>3. /\ ComponentInv(component) /\ component.n = 1
      /\ component.route = Route(Redirect(path)) /\ component.id = Redirect(path).id
      /\ OfDetails(component) => component.first = component.id
      /\ OfDetails(component) => NgOnInit(component) = [component |-> 1, ask |-> Redirect(path).id]
      /\ ~OfDetails(component) => NgOnInit(component) = [component |-> 1, ask |-> "all"]
      /\ ~Shown(component)
  BY <1>1, <1>2, NewComponent
<1>4. RequestInv(requests, component, failed)
  <2>1. NgOnInit(component) \in [component : Nat, ask : Asked]
    BY <1>2, <1>3, Paths DEF Asked, OfDetails
  <2> QED BY <1>1, <1>3, <2>1 DEF RequestInv
<1>5. AccountInv(requests, component, failed)
  BY <1>1, <1>3 DEF AccountInv
<1>6. HistoryInv(entries, position, component)
  <2>1. [path |-> Redirect(path), load |-> 1] \in Entry
    BY <1>2 DEF Entry
  <2> QED BY <1>1, <1>3, <2>1, BoundAssumption DEF HistoryInv
<1>7. KeptInv(entries, position, component)
  BY <1>3 DEF KeptInv
<1> QED BY <1>1, <1>3, <1>4, <1>5, <1>6, <1>7, BoundAssumption DEF Inv

\* The present entry in terms of the component it is shown by
LEMMA AtCurrent ==
    ASSUME Inv
    PROVE  /\ Current \in Path /\ component.route = Route(Current) /\ component.id = Current.id
           /\ entries \in Seq(Entry) /\ Len(entries) <= MaxHistory /\ position \in DOMAIN entries
           /\ component.n \in Nat \ {0} /\ \A k \in DOMAIN entries : entries[k] \in Entry
<1>1. HistoryInv(entries, position, component) /\ ComponentInv(component)
  BY DEF Inv
<1>2. \A k \in DOMAIN entries : entries[k] \in Entry
  BY <1>1 DEF HistoryInv
<1>3. entries[position] \in Entry
  BY <1>1, <1>2 DEF HistoryInv
<1> QED BY <1>1, <1>2, <1>3 DEF HistoryInv, ComponentInv, Current, Entry

\* Every step keeps the inductive invariant.
LEMMA InvNext == Inv /\ [Next]_vars => Inv'
<1> SUFFICES ASSUME Inv, [Next]_vars PROVE Inv'
  OBVIOUS
<1>0. /\ Current \in Path /\ component.route = Route(Current) /\ component.id = Current.id
      /\ entries \in Seq(Entry) /\ Len(entries) <= MaxHistory /\ position \in DOMAIN entries
      /\ component.n \in Nat \ {0} /\ \A k \in DOMAIN entries : entries[k] \in Entry
      /\ HistoryInv(entries, position, component)
  BY AtCurrent DEF Inv
<1>1. CASE UNCHANGED vars
  BY <1>1 DEF vars, Inv
<1>2. ASSUME NEW path \in Path, NEW pending \in SUBSET requests, NEW load \in Nat,
             Push(path, load), Load(path, pending), UNCHANGED <<failed, devices, restarts>>
      PROVE  Inv'
  BY <1>0, <1>2, Pushed, LoadStep
<1>3. ASSUME NEW i \in DeviceId, DeviceLink(i) PROVE Inv'
  <2>1. Details(i) \in Path /\ Route(Details(i)) = "device-details/:id"
    BY DEF Path, Id, Details, Route
  <2>2. Route(Current) # "device-details/:id"
    BY <1>0, <1>3 DEF DeviceLink, Inv, ComponentInv, OfDetails
  <2>3. Load(Details(i), requests)
    BY <1>0, <1>3, <2>1, <2>2 DEF DeviceLink, Navigate
  <2>4. entries[position] \in Entry /\ entries[position].load \in Nat
    BY <1>0 DEF Entry
  <2> QED BY <1>2, <1>3, <2>1, <2>3, <2>4 DEF DeviceLink
<1>4. CASE BackToDeviceTable
  <2>1. Table \in Path /\ Route(Table) # "device-details/:id"
    BY DEF Path, Table, Route
  <2>2. Load(Table, requests)
    BY <1>0, <1>4, <2>1 DEF BackToDeviceTable, Navigate
  <2>3. entries[position] \in Entry /\ entries[position].load \in Nat
    BY <1>0 DEF Entry
  <2> QED BY <1>2, <1>4, <2>1, <2>2, <2>3 DEF BackToDeviceTable
<1>5. ASSUME NEW path \in Path \cup {Empty}, TypeUrl(path) PROVE Inv'
  <2>1. Redirect(path) \in Path /\ component.n + 1 \in Nat
    BY <1>0, Redirects
  <2>2. Load(Redirect(path), {}) /\ UNCHANGED <<failed, devices, restarts>>
    BY <1>5 DEF TypeUrl
  <2>3. CASE path # Current
    BY <1>2, <1>5, <2>1, <2>2, <2>3 DEF TypeUrl
  <2>4. CASE path = Current
    <3>1. position' = position /\ entries' = [entries EXCEPT ![position].load = component.n + 1]
      BY <1>5, <2>4 DEF TypeUrl
    <3>2. Current # Empty
      BY <1>0, EmptyIsNoPath
    <3>3. Redirect(path) = Current
      BY <2>4, <3>2 DEF Redirect
    <3>4. entries[position] \in Entry
      BY <1>0
    <3>5. [entries[position] EXCEPT !.load = component.n + 1] \in Entry
          /\ [entries[position] EXCEPT !.load = component.n + 1].path = Current
      BY <2>1, <3>4 DEF Entry, Current
    <3>6. entries' = [entries EXCEPT ![position] = [entries[position] EXCEPT !.load = component.n + 1]]
      BY <3>1
    <3> DEFINE e == [entries[position] EXCEPT !.load = component.n + 1]
    <3> HIDE DEF e
    <3>7. /\ entries' \in Seq(Entry) /\ Len(entries') = Len(entries)
          /\ position' \in DOMAIN entries' /\ entries'[position'] = e
      BY <1>0, <3>1, <3>5, <3>6 DEF e
    <3> QED BY <1>0, <2>1, <2>2, <3>3, <3>5, <3>7, LoadStep DEF e
  <2> QED BY <2>3, <2>4
<1>6. ASSUME NEW k \in 1..MaxHistory, HistoryGo(k) PROVE Inv'
  <2>1. k \in DOMAIN entries \ {position} /\ position' = k
        /\ UNCHANGED <<entries, failed, devices, restarts>>
    BY <1>6 DEF HistoryGo
  <2>2. CASE entries[k].load = entries[position].load
    BY <1>6, <2>1, <2>2, HistoryStep DEF HistoryGo
  <2>3. CASE entries[k].load # entries[position].load
    <3>1. Load(entries[k].path, {})
      BY <1>6, <2>3 DEF HistoryGo
    <3>2. entries[k] \in Entry /\ entries[k].path \in Path
      BY <1>0, <2>1 DEF Entry
    <3>3. /\ entries' \in Seq(Entry) /\ Len(entries') <= MaxHistory /\ position' \in DOMAIN entries'
          /\ entries'[position'].path = entries[k].path
      BY <1>0, <2>1
    <3> QED BY <2>1, <3>1, <3>2, <3>3, LoadStep
  <2> QED BY <2>2, <2>3
<1>7. CASE Refresh
  <2>1. Load(Current, {}) /\ UNCHANGED <<entries, position, failed, devices, restarts>>
    BY <1>7 DEF Refresh
  <2> QED BY <1>0, <2>1, LoadStep DEF Current
<1>8. ASSUME NEW r \in requests, Answer(r) PROVE Inv'
  <2>1. requests' = requests \ {r} /\ UNCHANGED <<entries, position, failed, devices, restarts>>
    BY <1>8 DEF Answer
  <2>2. CASE r.component = component.n
    <3>1. component' = Answered(component, r)
      BY <1>8, <2>2 DEF Answer
    <3>2. /\ ComponentInv(component') /\ component'.n = component.n
          /\ component'.route = component.route /\ component'.id = component.id
          /\ component'.first = component.first
          /\ RequestInv(requests', component', failed') /\ AccountInv(requests', component', failed')
      BY <2>1, <2>2, <3>1, AnsweredOnce DEF Inv
    <3>3. HistoryInv(entries', position', component') /\ KeptInv(entries', position', component')
      BY <2>1, <3>2 DEF Inv, HistoryInv, KeptInv, OfDetails
    <3> QED BY <2>1, <3>2, <3>3 DEF Inv
  <2>3. CASE r.component # component.n
    <3>1. component' = component
      BY <1>8, <2>3 DEF Answer
    <3>2. RequestInv(requests', component', failed') /\ AccountInv(requests', component', failed')
      BY <2>1, <2>3, <3>1, AnsweredLate DEF Inv
    <3> QED BY <2>1, <3>1, <3>2 DEF Inv
  <2> QED BY <2>2, <2>3
<1>9. ASSUME NEW G \in SUBSET requests, requests' = requests \ G,
             failed' = failed \cup {r.component : r \in G}, devices' \subseteq DeviceId,
             restarts' \in 0..MaxRestarts, UNCHANGED <<entries, position, component>>
      PROVE  Inv'
  <2>1. RequestInv(requests', component, failed') /\ AccountInv(requests', component, failed')
    BY <1>9, Failed DEF Inv
  <2> QED BY <1>9, <2>1 DEF Inv
<1>10. ASSUME NEW r \in requests, Fail(r) PROVE Inv'
  <2>1. {r} \in SUBSET requests /\ {q.component : q \in {r}} = {r.component}
    OBVIOUS
  <2> QED BY <1>9, <1>10, <2>1 DEF Fail, Inv
<1>11. CASE Restart
  <2>1. requests' = requests \ requests /\ restarts' \in 0..MaxRestarts
    BY <1>11, BoundAssumption DEF Restart, Inv
  <2> QED BY <1>9, <1>11, <2>1 DEF Restart
<1> QED
  BY <1>1, <1>3, <1>4, <1>5, <1>6, <1>7, <1>8, <1>10, <1>11 DEF Next, Respond

\* In every state of every behaviour
LEMMA Invariance == Spec => []Inv
BY InvInit, InvNext, PTL DEF Spec

\* Every variable keeps its type, and no component asks twice.
THEOREM Typing == Spec => []TypeOK
<1>1. Inv => TypeOK
  <2> SUFFICES ASSUME Inv PROVE TypeOK
    OBVIOUS
  <2>1. component.n \in Nat /\ \A r \in requests : r.component <= component.n
    BY DEF Inv, ComponentInv, RequestInv
  <2> QED BY <2>1 DEF Inv, ComponentInv, RequestInv, HistoryInv, TypeOK
<1> QED BY <1>1, Invariance, PTL

\* The outlet shows the component of the present path, under the id of the path, on
\* every way the user came there.
THEOREM OutletFollows == Spec => []OutletFollowsUrl
<1>1. Inv => OutletFollowsUrl
  BY DEF Inv, HistoryInv, OutletFollowsUrl, Current
<1> QED BY <1>1, Invariance, PTL

\* The details shown are those of the device the component was created for, however the
\* answers are ordered.
THEOREM DetailsBelong == Spec => []DetailsOfFirstDevice
<1>1. Inv => DetailsOfFirstDevice
  BY DEF Inv, ComponentInv, KeptInv, OfDetails, DetailsOfFirstDevice
<1> QED BY <1>1, Invariance, PTL

\* What a component waits for, shows or has lost is its one request, always.
THEOREM RequestsAccounted == Spec => []RequestAccounted
<1>1. Inv => RequestAccounted
  BY DEF Inv, AccountInv, Shown, RequestAccounted, Waiting, Shows
<1> QED BY <1>1, Invariance, PTL
=============================================================================
