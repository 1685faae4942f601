------------------------- MODULE ReactClientProofs -------------------------
(***************************************************************************)
(* What the tabs of the React application show and what becomes of their   *)
(* clicks, proved for any tabs, loads, renders, devices and bounds.        *)
(***************************************************************************)
EXTENDS ReactClient, FiniteSetTheorems, TLAPS

\* Something is on its way, being handled, promised or sent on a socket.
Touched(s) ==
    \/ up[s] > 0 \/ asked[s] # Nobody \/ sent[s] # <<>>
    \/ \E d \in Device : told[d] = s \/ (\E l \in listeners[d] : l.session = s)

\* Only the socket of the context is ever touched, and only after a click it took.
TouchedInv ==
    \A s \in Session : Touched(s) =>
        \/ s[2] < load[s[1]]
        \/ s = WebSocketContext(s[1]) /\ refused[s[1]] < number[s[1]]

\* What was sent to earlier loads of a tab is gone.
SentInv == \A s \in Session : sent[s] # <<>> => s[2] = load[s[1]]

\* On a socket that still connects there is nothing.
FreshInv == \A s \in Session : link[s] = "connecting" => ~Touched(s)

\* What a socket holds of the clicks: on the way, being handled, answered
Balance(s) == up[s] + Handling(s) + Cardinality(Answers(s))

\* The clicks of a tab add up as long as its connection is, or may come, up.
CountInv ==
    \A p \in Page :
        LET s == WebSocketContext(p)
        IN  /\ refused[p] <= number[p]
            /\ link[s] \in {"connecting", "open"} =>
                 number[p] = refused[p] + Balance(s)

Inv == TypeOK /\ TouchedInv /\ SentInv /\ FreshInv /\ CountInv /\ PageShowsItsMessages

-----------------------------------------------------------------------------
(* Sessions and the store                                                  *)

\* A session is of a tab, one of its loads and one of its renders.
LEMMA Sessions ==
    /\ \A s \in Session : /\ s[1] \in Page /\ s[2] \in 1..MaxLoads[s[1]]
                          /\ s[3] \in 1..Renders[s[1]] /\ s = <<s[1], s[2], s[3]>>
    /\ \A p \in Page : \A n \in 1..MaxLoads[p] : \A k \in 1..Renders[p] :
         <<p, n, k>> \in Session /\ <<p, n, k>>[1] = p /\ <<p, n, k>>[2] = n
    /\ \A p \in Page : MaxLoads[p] \in Nat \ {0} /\ Renders[p] \in 1..Renders[p]
    /\ \A s \in Session : s[2] \in Nat
<1>1. \A p \in Page : MaxLoads[p] \in Nat \ {0} /\ Renders[p] \in Nat \ {0}
  BY PageAssumption
<1>2. ASSUME NEW s \in Session
      PROVE  /\ s[1] \in Page /\ s[2] \in 1..MaxLoads[s[1]]
             /\ s[3] \in 1..Renders[s[1]] /\ s = <<s[1], s[2], s[3]>>
  BY DEF Session
<1>3. ASSUME NEW p \in Page, NEW n \in 1..MaxLoads[p], NEW k \in 1..Renders[p]
      PROVE  <<p, n, k>> \in Session
  BY DEF Session
<1>4. \A s \in Session : s[2] \in Nat
  BY <1>1, <1>2
<1> QED BY <1>1, <1>2, <1>3, <1>4

\* The socket of the context is one of the present load.
LEMMA Contexts ==
    ASSUME TypeOK, NEW p \in Page
    PROVE  /\ WebSocketContext(p) \in Session /\ WebSocketContext(p)[1] = p
           /\ WebSocketContext(p)[2] = load[p] /\ load[p] \in Nat
BY Sessions DEF TypeOK, WebSocketContext

\* It changes only when the tab loads the page again.
LEMMA SameContext ==
    ASSUME NEW p, load' = load
    PROVE  WebSocketContext(p)' = WebSocketContext(p)
BY DEF WebSocketContext

\* A fresh store: all doors are closed and none is selected.
LEMMA FreshStore ==
    /\ CreateStore \in [devices : [Listed -> Item], selectedDevice : Item \cup {Nobody}]
    /\ CreateStore.selectedDevice = Nobody
    /\ \A d \in Listed : CreateStore.devices[d].state = DoorClosed
<1>1. DoorClosed \in Payload
  BY DEF DoorClosed, Payload
<1>2. AllInState(DoorClosed) \in [Listed -> Item]
  BY <1>1 DEF AllInState, Item
<1>3. CreateStore = [devices |-> AllInState(DoorClosed), selectedDevice |-> Nobody]
  BY DEF CreateStore, Reducer, DevicesReducer, SelectedDeviceReducer, StoreInit
<1> QED BY <1>2, <1>3 DEF AllInState

\* A message changes the state of all devices and leaves the selected one as it was.
LEMMA MessageStore ==
    ASSUME NEW state, NEW payload \in Payload,
           state \in [devices : [Listed -> Item], selectedDevice : Item \cup {Nobody}]
    PROVE  LET next == Reducer(state, DeviceStateChanged(payload)) IN
           /\ next \in [devices : [Listed -> Item], selectedDevice : Item \cup {Nobody}]
           /\ next.selectedDevice = state.selectedDevice
           /\ \A d \in Listed : next.devices[d].state = payload
<1> DEFINE next == Reducer(state, DeviceStateChanged(payload))
<1>1. next = [devices |-> AllInState(payload), selectedDevice |-> state.selectedDevice]
  BY DEF Reducer, DevicesReducer, SelectedDeviceReducer, DeviceStateChanged
<1>2. AllInState(payload) \in [Listed -> Item]
  BY DEF AllInState, Item
<1> QED BY <1>1, <1>2 DEF AllInState

\* A selection changes nothing but the selected device.
LEMMA SelectionStore ==
    ASSUME NEW state, NEW item \in Item,
           state \in [devices : [Listed -> Item], selectedDevice : Item \cup {Nobody}]
    PROVE  LET next == Reducer(state, SelectDevice(item)) IN
           /\ next \in [devices : [Listed -> Item], selectedDevice : Item \cup {Nobody}]
           /\ next.selectedDevice = item
           /\ next.devices = state.devices
<1> DEFINE next == Reducer(state, SelectDevice(item))
<1>1. next = [devices |-> state.devices, selectedDevice |-> item]
  BY DEF Reducer, DevicesReducer, SelectedDeviceReducer, SelectDevice
<1> QED BY <1>1

-----------------------------------------------------------------------------
(* The answers of a socket                                                 *)

\* They are finitely many.
LEMMA AnswersFinite ==
    ASSUME TypeOK, NEW s \in Session
    PROVE  IsFiniteSet(Answers(s)) /\ Cardinality(Answers(s)) \in Nat
<1>1. DOMAIN sent[s] = 1..Len(sent[s]) /\ Len(sent[s]) \in Nat
  BY DEF TypeOK
<1>2. IsFiniteSet(1..Len(sent[s])) /\ Answers(s) \subseteq 1..Len(sent[s])
  BY <1>1, FS_Interval DEF Answers
<1> QED BY <1>2, FS_Subset, FS_CardinalityType

\* A socket on which nothing was sent has none.
LEMMA NoAnswers ==
    ASSUME NEW s, sent[s] = <<>>
    PROVE  Cardinality(Answers(s)) = 0
<1>1. Answers(s) = {}
  BY DEF Answers
<1> QED BY <1>1, FS_EmptySet

\* A message on the way adds one if it is an answer.
LEMMA AnswersSent ==
    ASSUME TypeOK, NEW s \in Session, NEW message \in Payload, sent'[s] = Append(sent[s], message)
    PROVE  Cardinality(Answers(s)') = Cardinality(Answers(s)) + (IF message = OK THEN 1 ELSE 0)
<1> DEFINE n == Len(sent[s])
<1>1. /\ n \in Nat /\ DOMAIN sent[s] = 1..n /\ DOMAIN sent'[s] = 1..n + 1
      /\ \A i \in 1..n : sent'[s][i] = sent[s][i]
      /\ sent'[s][n + 1] = message
  BY DEF TypeOK
<1> HIDE DEF n
<1>2. IsFiniteSet(Answers(s)) /\ n + 1 \notin Answers(s) /\ Cardinality(Answers(s)) \in Nat
  <2>1. n + 1 \notin 1..n
    BY <1>1
  <2>2. IsFiniteSet(Answers(s)) /\ Cardinality(Answers(s)) \in Nat
    BY AnswersFinite
  <2> QED BY <1>1, <2>1, <2>2 DEF Answers
<1>3. CASE message = OK
  <2>1. Answers(s)' = Answers(s) \cup {n + 1}
    BY <1>1, <1>3 DEF Answers
  <2> QED BY <1>2, <1>3, <2>1, FS_AddElement
<1>4. CASE message # OK
  <2>1. Answers(s)' = Answers(s)
    BY <1>1, <1>4 DEF Answers
  <2> QED BY <1>2, <1>4, <2>1
<1> QED BY <1>3, <1>4

-----------------------------------------------------------------------------
(* Types                                                                   *)

ServiceType ==
    /\ open \subseteq used /\ used \subseteq Session
    /\ asked \in [Session -> Id \cup {Server!Answer, Nobody}]
    /\ listeners \in [Device -> SUBSET Server!Listener]
    /\ told \in [Device -> Session \cup {Nobody}]

PageType ==
    /\ load \in [Page -> Nat] /\ \A p \in Page : load[p] \in 1..MaxLoads[p]
    /\ number \in [Page -> Nat] /\ refused \in [Page -> Nat] /\ clicks \in 0..MaxClicks
    /\ store \in [Page -> [devices : [Listed -> Item], selectedDevice : Item \cup {Nobody}]]

LinkType ==
    /\ link \in [Session -> {"none", "connecting", "open", "closed"}]
    /\ \A s \in Session : /\ link[s] \in {"connecting", "open"} => s[2] = load[s[1]]
                          /\ link[s] = "open" => s \in open

ChannelType ==
    /\ up \in [Session -> Nat] /\ read \in [Session -> Nat]
    /\ sent \in [Session -> Seq(Payload)] /\ \A s \in Session : read[s] <= Len(sent[s])
    /\ events \in [Device -> 0..MaxEvents]

\* The parts of the type invariant
LEMMA TypeParts == TypeOK <=> ServiceType /\ PageType /\ LinkType /\ ChannelType
BY DEF TypeOK, ServiceType, PageType, LinkType, ChannelType

\* What the push service does to a session, seen from the page
ServerStep(s) ==
    \/ Server!Connect(s) \/ Server!Close(s) \/ Server!Ask(s, SubscriptionId)
    \/ Server!Subscribe(s) \/ Server!Skip(s) \/ Server!Reply(s)
    \/ \E d \in Device : Server!Tell(d, s)

\* The push service keeps the types of its own variables.
LEMMA ServiceTyped ==
    ASSUME ServiceType, NEW s \in Session,
           ServerStep(s) \/ (\E d \in Device : Server!Told(d)) \/ UNCHANGED server
    PROVE  ServiceType'
<1> USE DEF ServiceType
<1>1. CASE Server!Connect(s)
  BY <1>1 DEF Server!Connect
<1>2. CASE Server!Close(s)
  BY <1>2 DEF Server!Close
<1>3. CASE Server!Ask(s, SubscriptionId)
  BY <1>3 DEF Server!Ask, Id
<1>4. CASE Server!Subscribe(s)
  <2> DEFINE d == Target[asked[s]]
             l == [id |-> asked[s], session |-> s]
  <2>1. /\ asked[s] \in Id /\ d \in Device
        /\ asked' = [asked EXCEPT ![s] = Server!Answer]
        /\ UNCHANGED <<open, used, told>>
    BY <1>4 DEF Server!Subscribe
  <2>2. PICK result \in SUBSET (listeners[d] \cup {l}) :
          listeners' = [listeners EXCEPT ![d] = result]
    BY <1>4 DEF Server!Subscribe
  <2>3. l \in Server!Listener
    BY <2>1 DEF Server!Listener
  <2> HIDE DEF d, l
  <2>4. result \in SUBSET Server!Listener
    BY <2>1, <2>2, <2>3
  <2>5. listeners' \in [Device -> SUBSET Server!Listener]
    BY <2>1, <2>2, <2>4
  <2> QED BY <2>1, <2>5
<1>5. CASE Server!Skip(s)
  BY <1>5 DEF Server!Skip
<1>6. CASE Server!Reply(s)
  BY <1>6 DEF Server!Reply
<1>7. CASE \E d \in Device : Server!Tell(d, s)
  BY <1>7 DEF Server!Tell
<1>8. CASE \E d \in Device : Server!Told(d)
  BY <1>8 DEF Server!Told
<1>9. CASE UNCHANGED server
  BY <1>9 DEF server
<1> QED BY <1>1, <1>2, <1>3, <1>4, <1>5, <1>6, <1>7, <1>8, <1>9 DEF ServerStep

\* A connection ends here when it ends at the server.
LEMMA LostLink ==
    ASSUME LinkType, NEW s \in Session, Lost(s), open \ {s} \subseteq open', load' = load
    PROVE  LinkType'
<1>1. link' = IF s \notin open' /\ link[s] = "open" THEN [link EXCEPT ![s] = "closed"] ELSE link
  BY DEF Lost
<1>2. link' \in [Session -> {"none", "connecting", "open", "closed"}]
  BY <1>1 DEF LinkType
<1>3. ASSUME NEW t \in Session
      PROVE  /\ link'[t] \in {"connecting", "open"} => link'[t] = link[t]
             /\ link'[t] = "open" => t \in open'
  BY <1>1 DEF LinkType
<1> QED BY <1>2, <1>3 DEF LinkType

\* What was on its way is lost, at most.
LEMMA LostUp ==
    ASSUME LinkType, ChannelType, NEW s \in Session, Lost(s)
    PROVE  /\ up' \in [Session -> Nat]
           /\ \A t \in Session : up'[t] = up[t] \/ (t = s /\ up'[t] = 0 /\ s \notin open')
           /\ \A t \in Session : link'[t] = link[t] \/ (t = s /\ link'[t] = "closed")
BY DEF Lost, LinkType, ChannelType

\* What is sent is of the type of a payload.
LEMMA SentType ==
    ASSUME ChannelType, NEW s \in Session, NEW message \in Payload, Send(s, message)
    PROVE  /\ sent' \in [Session -> Seq(Payload)]
           /\ \A t \in Session : t # s => sent'[t] = sent[t]
           /\ sent'[s] = IF link[s] = "open" /\ s \in open' THEN Append(sent[s], message) ELSE sent[s]
           /\ \A t \in Session : /\ Len(sent'[t]) \in Nat /\ Len(sent[t]) <= Len(sent'[t])
                                 /\ \A i \in 1..Len(sent[t]) : sent'[t][i] = sent[t][i]
<1>1. /\ s \in DOMAIN sent
      /\ sent' = IF link[s] = "open" /\ s \in open' THEN [sent EXCEPT ![s] = Append(@, message)] ELSE sent
  BY DEF Send, ChannelType
<1>2. /\ sent' \in [Session -> Seq(Payload)]
      /\ \A t \in Session : t # s => sent'[t] = sent[t]
      /\ sent'[s] = IF link[s] = "open" /\ s \in open' THEN Append(sent[s], message) ELSE sent[s]
  BY <1>1 DEF ChannelType
<1>3. ASSUME NEW t \in Session
      PROVE  /\ Len(sent'[t]) \in Nat /\ Len(sent[t]) <= Len(sent'[t])
             /\ \A i \in 1..Len(sent[t]) : sent'[t][i] = sent[t][i]
  <2>1. sent[t] \in Seq(Payload)
    BY DEF ChannelType
  <2>2. sent'[t] = sent[t] \/ sent'[t] = Append(sent[t], message)
    BY <1>2
  <2> QED BY <2>1, <2>2
<1> QED BY <1>2, <1>3

\* A tab that loads the page again has only connecting sockets.
LEMMA ReloadedLinks ==
    ASSUME TypeOK, NEW p \in Page, NewSockets(p), FreshPage(p), load[p] < MaxLoads[p]
    PROVE  /\ load' \in [Page -> Nat] /\ load'[p] = load[p] + 1
           /\ \A q \in Page : load'[q] \in 1..MaxLoads[q] /\ (q # p => load'[q] = load[q])
           /\ link' \in [Session -> {"none", "connecting", "open", "closed"}]
           /\ \A s \in Session : s[1] # p => link'[s] = link[s] /\ sent'[s] = sent[s] /\ read'[s] = read[s]
           /\ \A s \in Session : s[1] = p =>
                /\ link'[s] \in {"connecting", "open"} => s[2] = load[p] + 1 /\ link'[s] = "connecting"
                /\ s[2] = load[p] => sent'[s] = <<>> /\ read'[s] = 0
                /\ s[2] # load[p] => sent'[s] = sent[s] /\ read'[s] = read[s]
           /\ sent' \in [Session -> Seq(Payload)] /\ read' \in [Session -> Nat]
<1>1. load[p] \in Nat /\ load[p] + 1 \in 1..MaxLoads[p] /\ load[p] # load[p] + 1
  BY Sessions DEF TypeOK
<1>2. /\ load' \in [Page -> Nat] /\ load'[p] = load[p] + 1
      /\ \A q \in Page : load'[q] \in 1..MaxLoads[q] /\ (q # p => load'[q] = load[q])
  BY <1>1 DEF TypeOK, FreshPage
<1>3. /\ link' \in [Session -> {"none", "connecting", "open", "closed"}]
      /\ sent' \in [Session -> Seq(Payload)] /\ read' \in [Session -> Nat]
  BY DEF TypeOK, NewSockets
<1>4. ASSUME NEW s \in Session, s[1] # p
      PROVE  link'[s] = link[s] /\ sent'[s] = sent[s] /\ read'[s] = read[s]
  BY <1>4 DEF NewSockets, SocketsOf
<1>5. ASSUME NEW s \in Session, s[1] = p
      PROVE  /\ link'[s] \in {"connecting", "open"} => s[2] = load[p] + 1 /\ link'[s] = "connecting"
             /\ s[2] = load[p] => sent'[s] = <<>> /\ read'[s] = 0
             /\ s[2] # load[p] => sent'[s] = sent[s] /\ read'[s] = read[s]
  <2>1. link[s] \in {"connecting", "open"} => s[2] = load[p]
    BY <1>5 DEF TypeOK
  <2>2. s \in SocketsOf(p, load[p]) <=> s[2] = load[p]
    BY <1>5 DEF SocketsOf
  <2>3. s \in SocketsOf(p, load[p] + 1) <=> s[2] = load[p] + 1
    BY <1>5 DEF SocketsOf
  <2>4. link'[s] = IF s[2] = load[p] THEN "closed"
                   ELSE IF s[2] = load[p] + 1 THEN "connecting" ELSE link[s]
    BY <2>2, <2>3 DEF NewSockets
  <2>5. /\ sent'[s] = IF s[2] = load[p] THEN <<>> ELSE sent[s]
        /\ read'[s] = IF s[2] = load[p] THEN 0 ELSE read[s]
    BY <2>2 DEF NewSockets
  <2> QED BY <1>1, <2>1, <2>4, <2>5
<1> QED BY <1>2, <1>3, <1>4, <1>5

\* Every variable has its type at first.
LEMMA TypeInit == Init => TypeOK
<1> SUFFICES ASSUME Init PROVE TypeOK
  OBVIOUS
<1>1. ServiceType
  BY DEF Init, Server!Init, ServiceType
<1>2. PageType
  BY Sessions, FreshStore, PageAssumption DEF Init, PageType
<1>3. LinkType
  BY Sessions DEF Init, LinkType
<1>4. ChannelType
  BY PageAssumption DEF Init, ChannelType
<1> QED BY <1>1, <1>2, <1>3, <1>4, TypeParts

\* Every step keeps the types.
LEMMA TypeNext ==
    ASSUME TypeOK, [Next]_vars
    PROVE  TypeOK'
<1>0. ServiceType /\ PageType /\ LinkType /\ ChannelType
  BY TypeParts
<1> SUFFICES ServiceType' /\ PageType' /\ LinkType' /\ ChannelType'
  BY TypeParts DEF TypeOK, ServiceType, PageType, LinkType, ChannelType
<1>1. CASE UNCHANGED vars
  BY <1>0, <1>1 DEF vars, server, page, ServiceType, PageType, LinkType, ChannelType
<1>2. ASSUME NEW p \in Page, Reload(p) PROVE ServiceType' /\ PageType' /\ LinkType' /\ ChannelType'
  <2>1. /\ NewSockets(p) /\ FreshPage(p) /\ load[p] < MaxLoads[p]
        /\ store' = [store EXCEPT ![p] = CreateStore] /\ UNCHANGED <<server, up, clicks, events>>
    BY <1>2 DEF Reload
  <2>2. ServiceType'
    BY <1>0, <2>1 DEF ServiceType, server
  <2>3. PageType'
    BY <1>0, <2>1, ReloadedLinks, FreshStore DEF PageType, FreshPage
  <2>4. LinkType'
    <3>1. ASSUME NEW s \in Session
          PROVE  /\ link'[s] \in {"connecting", "open"} => s[2] = load'[s[1]]
                 /\ link'[s] = "open" => s \in open'
      <4>1. CASE s[1] = p
        BY <2>1, <4>1, ReloadedLinks
      <4>2. CASE s[1] # p
        <5>1. link'[s] = link[s] /\ load'[s[1]] = load[s[1]] /\ open' = open
          BY <2>1, <4>2, ReloadedLinks, Sessions DEF server
        <5> QED BY <1>0, <5>1 DEF LinkType
      <4> QED BY <4>1, <4>2
    <3> QED BY <2>1, <3>1, ReloadedLinks DEF LinkType
  <2>5. ChannelType'
    <3>1. ASSUME NEW s \in Session PROVE read'[s] <= Len(sent'[s])
      <4>1. (read'[s] = 0 /\ sent'[s] = <<>>) \/ (read'[s] = read[s] /\ sent'[s] = sent[s])
        BY <2>1, ReloadedLinks
      <4>2. read[s] <= Len(sent[s]) /\ Len(<<>>) = 0
        BY <1>0 DEF ChannelType
      <4> QED BY <4>1, <4>2
    <3>2. /\ sent' \in [Session -> Seq(Payload)] /\ read' \in [Session -> Nat]
      BY <2>1, ReloadedLinks
    <3>3. up' \in [Session -> Nat] /\ events' \in [Device -> 0..MaxEvents]
      BY <1>0, <2>1 DEF ChannelType
    <3> QED BY <3>1, <3>2, <3>3 DEF ChannelType
  <2> QED BY <2>2, <2>3, <2>4, <2>5
<1>3. ASSUME NEW p \in Page, TestFunction(p) PROVE ServiceType' /\ PageType' /\ LinkType' /\ ChannelType'
  <2>1. ServiceType' /\ LinkType'
    BY <1>0, <1>3 DEF TestFunction, ServiceType, LinkType, server
  <2>2. PageType'
    BY <1>0, <1>3, PageAssumption DEF TestFunction, PageType
  <2>3. up' \in [Session -> Nat] /\ UNCHANGED <<read, sent, events>>
    <3> DEFINE t == WebSocketContext(p)
    <3>1. up' = (IF link[t] = "open" THEN [up EXCEPT ![t] = @ + 1] ELSE up)
          /\ UNCHANGED <<read, sent, events>>
      BY <1>3 DEF TestFunction
    <3>2. t \in Session
      BY Contexts
    <3> HIDE DEF t
    <3>3. up \in [Session -> Nat] /\ up[t] + 1 \in Nat
      BY <1>0, <3>2 DEF ChannelType
    <3>4. CASE link[t] = "open"
      BY <3>1, <3>3, <3>4
    <3>5. CASE link[t] # "open"
      BY <3>1, <3>3, <3>5
    <3> QED BY <3>4, <3>5
  <2>4. ChannelType'
    BY <1>0, <2>3 DEF ChannelType
  <2> QED BY <2>1, <2>2, <2>4
<1>4. ASSUME NEW p \in Page, NEW d \in Listed, Select(p, d)
      PROVE  ServiceType' /\ PageType' /\ LinkType' /\ ChannelType'
  <2>1. /\ store' = [store EXCEPT ![p] = Reducer(store[p], SelectDevice(store[p].devices[d]))]
        /\ UNCHANGED <<server, load, number, refused, clicks, link, up, sent, read, events>>
    BY <1>4 DEF Select, Dispatch, DeviceListItem
  <2>2. store[p] \in [devices : [Listed -> Item], selectedDevice : Item \cup {Nobody}]
        /\ store[p].devices[d] \in Item
    BY <1>0 DEF PageType
  <2>3. Reducer(store[p], SelectDevice(store[p].devices[d]))
          \in [devices : [Listed -> Item], selectedDevice : Item \cup {Nobody}]
    BY <2>2, SelectionStore
  <2>4. PageType'
    BY <1>0, <2>1, <2>3 DEF PageType
  <2> QED BY <1>0, <2>1, <2>4 DEF ServiceType, LinkType, ChannelType, server
<1>5. ASSUME NEW s \in Session, Handshake(s) PROVE ServiceType' /\ PageType' /\ LinkType' /\ ChannelType'
  <2>1. ServiceType'
    BY <1>0, <1>5, ServiceTyped DEF Handshake, ServerStep
  <2>2. LinkType'
    BY <1>0, <1>5 DEF Handshake, LinkType, Server!Connect, page
  <2>3. PageType' /\ ChannelType'
    BY <1>0, <1>5 DEF Handshake, PageType, ChannelType, page
  <2> QED BY <2>1, <2>2, <2>3
<1>6. ASSUME NEW s \in Session, Drop(s) PROVE ServiceType' /\ PageType' /\ LinkType' /\ ChannelType'
  <2>1. ServiceType'
    BY <1>0, <1>6, ServiceTyped DEF Drop, ServerStep
  <2>2. LinkType'
    BY <1>0, <1>6, LostLink DEF Drop, Server!Close, page
  <2>3. PageType'
    BY <1>0, <1>6 DEF Drop, PageType, page
  <2>4. ChannelType'
    BY <1>0, <1>6, LostUp DEF Drop, ChannelType
  <2> QED BY <2>1, <2>2, <2>3, <2>4
<1>7. ASSUME NEW s \in Session, Receive(s) PROVE ServiceType' /\ PageType' /\ LinkType' /\ ChannelType'
  <2>1. ServiceType'
    BY <1>0, <1>7, ServiceTyped DEF Receive, ServerStep
  <2>2. LinkType' /\ PageType'
    BY <1>0, <1>7 DEF Receive, LinkType, PageType, Server!Ask, page
  <2>3. ChannelType'
    BY <1>0, <1>7 DEF Receive, ChannelType
  <2> QED BY <2>1, <2>2, <2>3
<1>8. ASSUME NEW s \in Session, Handle(s) PROVE ServiceType' /\ PageType' /\ LinkType' /\ ChannelType'
  <2>1. ServiceType'
    BY <1>0, <1>8, ServiceTyped DEF Handle, ServerStep
  <2>2. LinkType' /\ PageType' /\ ChannelType'
    BY <1>0, <1>8 DEF Handle, LinkType, PageType, ChannelType, Server!Subscribe, Server!Skip, page
  <2> QED BY <2>1, <2>2
<1>9. ASSUME NEW s \in Session, Reply(s) PROVE ServiceType' /\ PageType' /\ LinkType' /\ ChannelType'
  <2>1. ServiceType'
    BY <1>0, <1>9, ServiceTyped DEF Reply, ServerStep
  <2>2. LinkType'
    BY <1>0, <1>9, LostLink DEF Reply, Server!Reply, page
  <2>3. PageType'
    BY <1>0, <1>9 DEF Reply, PageType, page
  <2>4. OK \in Payload
    BY DEF OK, Payload
  <2>5. ChannelType'
    <3>1. /\ sent' \in [Session -> Seq(Payload)] /\ up' \in [Session -> Nat]
          /\ \A t \in Session : Len(sent'[t]) \in Nat /\ Len(sent[t]) <= Len(sent'[t])
          /\ UNCHANGED <<read, events>>
      BY <1>0, <1>9, <2>4, SentType, LostUp DEF Reply
    <3>2. \A t \in Session : read[t] <= Len(sent'[t])
      BY <1>0, <3>1 DEF ChannelType
    <3> QED BY <1>0, <3>1, <3>2 DEF ChannelType
  <2> QED BY <2>1, <2>2, <2>3, <2>5
<1>10. ASSUME NEW d \in Device, NEW s \in Session, Tell(d, s)
       PROVE  ServiceType' /\ PageType' /\ LinkType' /\ ChannelType'
  <2>1. ServiceType'
    BY <1>0, <1>10, ServiceTyped DEF Tell, ServerStep
  <2>2. LinkType' /\ PageType'
    BY <1>0, <1>10 DEF Tell, LinkType, PageType, Server!Tell, page
  <2>3. ChannelType'
    BY <1>0, <1>10, PageAssumption DEF Tell, ChannelType
  <2> QED BY <2>1, <2>2, <2>3
<1>11. ASSUME NEW d \in Device, Told(d) PROVE ServiceType' /\ PageType' /\ LinkType' /\ ChannelType'
  <2>1. told[d] \in Session
    BY <1>0, <1>11 DEF Told, Server!Told, ServiceType
  <2>2. ServiceType'
    BY <1>0, <1>11, <2>1, ServiceTyped DEF Told
  <2>3. LinkType' /\ PageType'
    BY <1>0, <1>11 DEF Told, LinkType, PageType, Server!Told, page
  <2>4. Event(events[d]) \in Payload
    <3>1. events[d] \in Nat
      BY <1>0, PageAssumption DEF ChannelType
    <3> QED BY <3>1 DEF Event, Payload
  <2>5. ChannelType'
    <3>1. /\ sent' \in [Session -> Seq(Payload)]
          /\ \A t \in Session : Len(sent'[t]) \in Nat /\ Len(sent[t]) <= Len(sent'[t])
          /\ UNCHANGED <<up, read, events>>
      BY <1>0, <1>11, <2>1, <2>4, SentType DEF Told
    <3>2. \A t \in Session : read[t] <= Len(sent'[t])
      BY <1>0, <3>1 DEF ChannelType
    <3> QED BY <1>0, <3>1, <3>2 DEF ChannelType
  <2> QED BY <2>2, <2>3, <2>5
<1>12. ASSUME NEW s \in Session, OnMessage(s) PROVE ServiceType' /\ PageType' /\ LinkType' /\ ChannelType'
  <2> DEFINE m == sent[s][read[s] + 1]
  <2>1. m \in Payload /\ s[1] \in Page
    BY <1>0, <1>12, Sessions DEF OnMessage, ChannelType
  <2>2. /\ read[s] < Len(sent[s]) /\ read' = [read EXCEPT ![s] = @ + 1]
        /\ store' = [store EXCEPT ![s[1]] = Reducer(store[s[1]], DeviceStateChanged(m))]
        /\ UNCHANGED <<server, load, number, refused, clicks, link, up, sent, events>>
    BY <1>12 DEF OnMessage, Dispatch
  <2> HIDE DEF m
  <2>3. store[s[1]] \in [devices : [Listed -> Item], selectedDevice : Item \cup {Nobody}]
    BY <1>0, <2>1 DEF PageType
  <2>4. Reducer(store[s[1]], DeviceStateChanged(m))
          \in [devices : [Listed -> Item], selectedDevice : Item \cup {Nobody}]
    BY <2>1, <2>3, MessageStore
  <2>5. PageType'
    BY <1>0, <2>2, <2>4 DEF PageType
  <2>6. ChannelType'
    BY <1>0, <2>2 DEF ChannelType
  <2> QED BY <1>0, <2>2, <2>5, <2>6 DEF ServiceType, LinkType, server
<1> QED
  BY <1>1, <1>2, <1>3, <1>4, <1>5, <1>6, <1>7, <1>8, <1>9, <1>10, <1>11, <1>12 DEF Next, Serve

-----------------------------------------------------------------------------
(* What is touched                                                         *)

\* Only a page that loads and a click change what is counted for a tab.
LEMMA PageSteps ==
    ASSUME [Next]_vars
    PROVE  \/ \E p \in Page : Reload(p) \/ TestFunction(p)
           \/ UNCHANGED <<load, number, refused>>
<1>1. CASE UNCHANGED vars
  BY <1>1 DEF vars, page
<1>2. CASE \E p \in Page : Reload(p) \/ TestFunction(p) \/ (\E d \in Listed : Select(p, d))
  BY <1>2 DEF Select
<1>3. CASE \E s \in Session : Handshake(s) \/ Drop(s) \/ Serve(s) \/ OnMessage(s)
  BY <1>3 DEF Handshake, Drop, Serve, Receive, Handle, Reply, OnMessage, page
<1>4. CASE \E d \in Device : Told(d) \/ (\E s \in Session : Tell(d, s))
  BY <1>4 DEF Told, Tell, page
<1> QED BY <1>1, <1>2, <1>3, <1>4 DEF Next

\* What the server does concerns sockets that are touched already.
LEMMA ServerTouching ==
    ASSUME TypeOK, NEW t \in Session, NEW s \in Session,
           \/ Handshake(s) \/ Drop(s) \/ Serve(s)
           \/ \E d \in Device : Told(d) \/ Tell(d, s)
    PROVE  Touched(t)' => Touched(t)
<1>0. ServiceType /\ LinkType /\ ChannelType
  BY TypeParts
<1>1. CASE Handshake(s)
  BY <1>1 DEF Handshake, Server!Connect, Touched
<1>2. CASE Drop(s)
  <2>1. up'[t] = up[t] \/ up'[t] = 0
    BY <1>0, <1>2, LostUp DEF Drop
  <2>2. UNCHANGED <<asked, listeners, told, sent>>
    BY <1>2 DEF Drop, Server!Close
  <2> QED BY <2>1, <2>2 DEF Touched
<1>3. CASE Receive(s)
  <2>1. /\ up[s] > 0 /\ up' = [up EXCEPT ![s] = @ - 1]
        /\ asked' = [asked EXCEPT ![s] = SubscriptionId]
        /\ UNCHANGED <<listeners, told, sent>>
    BY <1>3 DEF Receive, Server!Ask
  <2>2. CASE t = s
    BY <2>1, <2>2 DEF Touched
  <2>3. CASE t # s
    BY <1>0, <2>1, <2>3 DEF Touched, ServiceType, ChannelType
  <2> QED BY <2>2, <2>3
<1>4. CASE Server!Subscribe(s) /\ UNCHANGED <<up, sent>>
  <2> DEFINE e == Target[asked[s]]
             l == [id |-> asked[s], session |-> s]
  <2>1. /\ asked[s] \in Id /\ asked' = [asked EXCEPT ![s] = Server!Answer]
        /\ UNCHANGED <<told, up, sent>>
    BY <1>4 DEF Server!Subscribe
  <2>2. PICK result \in SUBSET (listeners[e] \cup {l}) :
          listeners' = [listeners EXCEPT ![e] = result]
    BY <1>4 DEF Server!Subscribe
  <2>3. asked[s] # Nobody
    BY <2>1, NobodyAssumption DEF Id
  <2>4. l.session = s
    OBVIOUS
  <2> HIDE DEF e, l
  <2>5. CASE t = s
    BY <2>3, <2>5 DEF Touched
  <2>6. CASE t # s
    <3>1. asked'[t] = asked[t]
      BY <1>0, <2>1, <2>6 DEF ServiceType
    <3>2. ASSUME NEW d \in Device, NEW k \in listeners'[d], k.session = t
          PROVE  k \in listeners[d]
      BY <1>0, <2>2, <2>4, <2>6, <3>2 DEF ServiceType
    <3> QED BY <2>1, <3>1, <3>2 DEF Touched
  <2> QED BY <2>5, <2>6
<1>5. CASE Server!Skip(s) /\ UNCHANGED <<up, sent>>
  <2>1. asked[s] # Nobody
    BY <1>5, NobodyAssumption DEF Server!Skip, Id
  <2> QED BY <1>0, <1>5, <2>1 DEF Server!Skip, Touched, ServiceType
<1>6. CASE Reply(s)
  <2>1. asked[s] # Nobody
    BY <1>6, NobodyAssumption DEF Reply, Server!Reply, Server!Answer
  <2>2. CASE t = s
    BY <2>1, <2>2 DEF Touched
  <2>3. CASE t # s
    <3>1. /\ asked' = [asked EXCEPT ![s] = Nobody] /\ UNCHANGED <<listeners, told>>
          /\ Lost(s) /\ Send(s, OK)
      BY <1>6 DEF Reply, Server!Reply
    <3>2. up'[t] = up[t]
      BY <1>0, <2>3, <3>1, LostUp
    <3>3. sent'[t] = sent[t] /\ asked'[t] = asked[t]
      BY <1>0, <2>3, <3>1 DEF Send, ServiceType, ChannelType
    <3> QED BY <3>1, <3>2, <3>3 DEF Touched
  <2> QED BY <2>2, <2>3
<1>7. ASSUME NEW d \in Device, Told(d) PROVE Touched(t)' => Touched(t)
  <2>1. /\ told' = [told EXCEPT ![d] = Nobody] /\ UNCHANGED <<asked, listeners, up>>
        /\ Send(told[d], Event(events[d]))
    BY <1>7 DEF Told, Server!Told
  <2>2. CASE t = told[d]
    BY <2>2 DEF Touched
  <2>3. CASE t # told[d]
    <3>1. sent'[t] = sent[t]
      BY <1>0, <2>1, <2>3 DEF Send, ChannelType
    <3>2. t # Nobody
      BY NobodyAssumption
    <3>3. \A e \in Device : told'[e] = told[e] \/ (e = d /\ told'[e] = Nobody)
      BY <1>0, <2>1 DEF ServiceType
    <3> QED BY <2>1, <3>1, <3>2, <3>3 DEF Touched
  <2> QED BY <2>2, <2>3
<1>8. ASSUME NEW d \in Device, Tell(d, s) PROVE Touched(t)' => Touched(t)
  <2>1. /\ told' = [told EXCEPT ![d] = s] /\ \E l \in listeners[d] : l.session = s
        /\ UNCHANGED <<asked, listeners, up, sent>>
    BY <1>8 DEF Tell, Server!Tell
  <2>2. \A e \in Device : told'[e] = t => told[e] = t \/ (e = d /\ t = s)
    BY <1>0, <2>1 DEF ServiceType
  <2> QED BY <2>1, <2>2 DEF Touched
<1> QED BY <1>1, <1>2, <1>3, <1>4, <1>5, <1>6, <1>7, <1>8 DEF Serve, Handle

\* A page that loads touches nothing.
LEMMA ReloadTouching ==
    ASSUME NEW p, Reload(p), NEW t \in Session, Touched(t)'
    PROVE  Touched(t)
<1>1. sent'[t] = <<>> \/ sent'[t] = sent[t]
  BY DEF Reload, NewSockets
<1> QED BY <1>1 DEF Reload, Touched, server

\* A click touches the socket of the context, when it is open.
LEMMA ClickTouching ==
    ASSUME ChannelType, NEW p, TestFunction(p), NEW t \in Session, Touched(t)'
    PROVE  Touched(t) \/ (t = WebSocketContext(p) /\ link[t] = "open")
<1> DEFINE s == WebSocketContext(p)
<1>1. /\ up' = IF link[s] = "open" THEN [up EXCEPT ![s] = @ + 1] ELSE up
      /\ UNCHANGED <<server, sent>>
  BY DEF TestFunction
<1> HIDE DEF s
<1>2. CASE t = s /\ link[s] = "open"
  BY <1>2 DEF s
<1>3. CASE ~(t = s /\ link[s] = "open")
  <2>1. up'[t] = up[t]
    BY <1>1, <1>3 DEF ChannelType
  <2> QED BY <1>1, <2>1 DEF Touched, server
<1> QED BY <1>2, <1>3

\* Nothing else touches a socket that was not touched.
LEMMA Touching ==
    ASSUME TypeOK, [Next]_vars, NEW t \in Session, Touched(t)'
    PROVE  \/ Touched(t)
           \/ \E p \in Page : TestFunction(p) /\ t = WebSocketContext(p) /\ link[t] = "open"
<1>1. CASE UNCHANGED vars
  BY <1>1 DEF vars, server, Touched
<1>2. CASE \E p \in Page : Reload(p)
  BY <1>2, ReloadTouching
<1>3. CASE \E p \in Page : TestFunction(p)
  BY <1>3, ClickTouching, TypeParts
<1>4. CASE \E p \in Page, d \in Listed : Select(p, d)
  BY <1>4 DEF Select, Touched, server
<1>5. CASE \E s \in Session : OnMessage(s)
  BY <1>5 DEF OnMessage, Touched, server
<1>6. CASE \E s \in Session : Handshake(s) \/ Drop(s) \/ Serve(s)
  BY <1>6, ServerTouching
<1>7. CASE \E d \in Device : Told(d) \/ (\E s \in Session : Tell(d, s))
  BY <1>7, ServerTouching
<1> QED BY <1>1, <1>2, <1>3, <1>4, <1>5, <1>6, <1>7 DEF Next

\* Only sockets of contexts are touched, after a click that they took.
LEMMA TouchedNext ==
    ASSUME TypeOK, TouchedInv, CountInv, [Next]_vars
    PROVE  TouchedInv'
<1> SUFFICES ASSUME NEW t \in Session, Touched(t)'
             PROVE  \/ t[2] < load'[t[1]]
                    \/ t = WebSocketContext(t[1])' /\ refused'[t[1]] < number'[t[1]]
  BY DEF TouchedInv
<1> DEFINE q == t[1]
<1>0. PageType /\ ChannelType /\ q \in Page /\ t[2] \in Nat /\ load[q] \in Nat
  BY TypeParts, Sessions DEF PageType
<1>1. Touched(t) => t[2] < load[q] \/ (t = WebSocketContext(q) /\ refused[q] < number[q])
  BY DEF TouchedInv
<1>2. WebSocketContext(q)[2] = load[q]
  BY <1>0, Contexts
<1> HIDE DEF q
<1>3. ASSUME NEW p \in Page, Reload(p)
      PROVE  t[2] < load'[q] \/ (t = WebSocketContext(q)' /\ refused'[q] < number'[q])
  <2>1. Touched(t)
    BY <1>3, ReloadTouching
  <2>2. /\ load' = [load EXCEPT ![p] = @ + 1]
        /\ number' = [number EXCEPT ![p] = 0] /\ refused' = [refused EXCEPT ![p] = 0]
    BY <1>3 DEF Reload, FreshPage
  <2>3. CASE q = p
    <3>1. load'[q] = load[q] + 1 /\ t[2] <= load[q]
      BY <1>0, <1>1, <1>2, <2>1, <2>2, <2>3 DEF PageType
    <3> QED BY <1>0, <3>1
  <2>4. CASE q # p
    <3>1. load'[q] = load[q] /\ number'[q] = number[q] /\ refused'[q] = refused[q]
      BY <1>0, <2>2, <2>4 DEF PageType
    <3> QED BY <1>1, <2>1, <3>1 DEF WebSocketContext
  <2> QED BY <2>3, <2>4
<1>4. ASSUME NEW p \in Page, TestFunction(p)
      PROVE  t[2] < load'[q] \/ (t = WebSocketContext(q)' /\ refused'[q] < number'[q])
  <2> DEFINE s == WebSocketContext(p)
  <2>1. /\ number' = [number EXCEPT ![p] = @ + 1] /\ load' = load
        /\ refused' = IF link[s] = "connecting" THEN [refused EXCEPT ![p] = @ + 1] ELSE refused
    BY <1>4 DEF TestFunction
  <2>2. WebSocketContext(q)' = WebSocketContext(q) /\ s[1] = p
    BY <2>1, SameContext, Contexts
  <2>3. refused[p] <= number[p] /\ refused[p] \in Nat /\ number[p] \in Nat
    BY <1>0 DEF CountInv, PageType
  <2>4. Touched(t) \/ (t = s /\ link[s] = "open")
    BY <1>0, <1>4, ClickTouching
  <2> HIDE DEF s
  <2>5. CASE q # p
    <3>1. number'[q] = number[q] /\ refused'[q] = refused[q]
      BY <1>0, <2>1, <2>5 DEF PageType
    <3>2. t # s
      BY <2>2, <2>5 DEF q
    <3> QED BY <1>1, <2>1, <2>2, <2>4, <3>1, <3>2
  <2>6. CASE q = p /\ Touched(t)
    <3>1. number'[p] = number[p] + 1 /\ refused'[p] \in {refused[p], refused[p] + 1}
      BY <1>0, <2>1 DEF PageType
    <3>2. refused[p] < number[p] => refused'[p] < number'[p]
      BY <2>3, <3>1
    <3> QED BY <1>1, <2>1, <2>2, <2>6, <3>2
  <2>7. CASE q = p /\ t = s /\ link[s] = "open"
    <3>1. number'[p] = number[p] + 1 /\ refused'[p] = refused[p]
      BY <1>0, <2>1, <2>7 DEF PageType
    <3>2. refused'[p] < number'[p]
      BY <2>3, <3>1
    <3> QED BY <2>2, <2>7, <3>2 DEF s
  <2> QED BY <2>4, <2>5, <2>6, <2>7
<1>5. CASE UNCHANGED <<load, number, refused>>
  <2>1. Touched(t) \/ (\E p \in Page : TestFunction(p))
    BY Touching
  <2>2. WebSocketContext(q)' = WebSocketContext(q)
    BY <1>5, SameContext
  <2> QED BY <1>1, <1>4, <1>5, <2>1, <2>2 DEF q
<1> QED BY <1>3, <1>4, <1>5, PageSteps DEF q

\* What was sent to earlier loads stays gone.
LEMMA SentNext ==
    ASSUME TypeOK, SentInv, [Next]_vars
    PROVE  SentInv'
<1> SUFFICES ASSUME NEW t \in Session, sent'[t] # <<>>
             PROVE  t[2] = load'[t[1]]
  BY DEF SentInv
<1>0. ServiceType /\ PageType /\ LinkType /\ ChannelType /\ t[1] \in Page
  BY TypeParts, Sessions
<1>1. link[t] = "open" \/ sent[t] # <<>> => t[2] = load[t[1]]
  BY <1>0 DEF SentInv, LinkType
<1>2. ASSUME NEW p \in Page, Reload(p) PROVE t[2] = load'[t[1]]
  <2>1. NewSockets(p) /\ FreshPage(p) /\ load[p] < MaxLoads[p]
    BY <1>2 DEF Reload
  <2>2. t[1] # p
    BY <1>1, <2>1, ReloadedLinks
  <2> QED BY <1>0, <1>1, <2>1, <2>2, ReloadedLinks
<1>3. ASSUME load' = load, sent'[t] = sent[t] \/ link[t] = "open" PROVE t[2] = load'[t[1]]
  BY <1>1, <1>3
<1>4. CASE UNCHANGED <<load, sent>>
  BY <1>3, <1>4
<1>5. ASSUME NEW s \in Session, Reply(s) PROVE load' = load /\ (sent'[t] = sent[t] \/ link[t] = "open")
  BY <1>0, <1>5 DEF Reply, Send, ChannelType, page
<1>6. ASSUME NEW d \in Device, Told(d) PROVE load' = load /\ (sent'[t] = sent[t] \/ link[t] = "open")
  BY <1>0, <1>6 DEF Told, Send, ChannelType, page
<1>7. \/ \E p \in Page : Reload(p)
      \/ \E s \in Session : Reply(s)
      \/ \E d \in Device : Told(d)
      \/ UNCHANGED <<load, sent>>
  BY DEF Next, vars, page, TestFunction, Select, Handshake, Drop, Serve, Receive, Handle, OnMessage, Tell
<1> QED BY <1>2, <1>3, <1>4, <1>5, <1>6, <1>7

\* A socket that connects was never touched.
LEMMA FreshNext ==
    ASSUME TypeOK, TouchedInv, FreshInv, [Next]_vars
    PROVE  FreshInv'
<1> SUFFICES ASSUME NEW t \in Session, link'[t] = "connecting", Touched(t)' PROVE FALSE
  BY DEF FreshInv
<1>0. ServiceType /\ PageType /\ LinkType /\ ChannelType /\ t[1] \in Page
  BY TypeParts, Sessions
<1>1. ASSUME NEW p \in Page, Reload(p), link[t] # "connecting" PROVE FALSE
  <2>1. NewSockets(p) /\ FreshPage(p) /\ load[p] < MaxLoads[p]
    BY <1>1 DEF Reload
  <2>2. t[1] = p /\ t[2] = load[p] + 1 /\ load[p] \in Nat
    BY <1>0, <1>1, <2>1, ReloadedLinks DEF PageType
  <2>3. Touched(t) /\ (t[2] < load[p] \/ t = WebSocketContext(p))
    BY <1>1, <2>2, ReloadTouching DEF TouchedInv
  <2>4. WebSocketContext(p)[2] = load[p]
    BY Contexts
  <2> QED BY <2>2, <2>3, <2>4
<1>2. ASSUME NEW s \in Session, Lost(s) PROVE link[t] = "connecting"
  BY <1>0, <1>2 DEF Lost, LinkType
<1>3. ASSUME NEW s \in Session, Handshake(s) PROVE link[t] = "connecting"
  BY <1>0, <1>3 DEF Handshake, LinkType
<1>4. \/ \E p \in Page : Reload(p)
      \/ \E s \in Session : Lost(s) \/ Handshake(s)
      \/ link' = link
  BY DEF Next, vars, page, TestFunction, Select, Drop, Serve, Receive, Handle, Reply, OnMessage, Told, Tell
<1>5. link[t] = "connecting"
  BY <1>1, <1>2, <1>3, <1>4
<1>6. ~Touched(t)
  BY <1>5 DEF FreshInv
<1> QED BY <1>5, <1>6, Touching

-----------------------------------------------------------------------------
(* The clicks of a tab                                                     *)

\* The balance of a socket is a number, and 0 as long as nothing has touched it.
LEMMA Balances ==
    ASSUME TypeOK, NEW s \in Session
    PROVE  /\ up[s] \in Nat /\ Handling(s) \in {0, 1} /\ Cardinality(Answers(s)) \in Nat
           /\ Balance(s) \in Nat
           /\ ~Touched(s) => Balance(s) = 0 /\ up[s] = 0 /\ read[s] = 0 /\ sent[s] = <<>>
<1>1. up[s] \in Nat /\ Handling(s) \in {0, 1} /\ Cardinality(Answers(s)) \in Nat
  BY AnswersFinite DEF TypeOK, Handling
<1>2. Balance(s) \in Nat
  <2> DEFINE h == Handling(s)
             c == Cardinality(Answers(s))
  <2>1. Balance(s) = up[s] + h + c /\ h \in Nat /\ c \in Nat
    BY <1>1 DEF Balance
  <2> HIDE DEF h, c
  <2> QED BY <1>1, <2>1
<1>3. ASSUME ~Touched(s)
      PROVE  Balance(s) = 0 /\ up[s] = 0 /\ read[s] = 0 /\ sent[s] = <<>>
  <2>1. up[s] = 0 /\ asked[s] = Nobody /\ sent[s] = <<>>
    BY <1>1, <1>3 DEF Touched
  <2>2. Handling(s) = 0 /\ Cardinality(Answers(s)) = 0
    BY <2>1, NoAnswers DEF Handling
  <2>3. Len(<<>>) = 0 /\ read[s] \in Nat /\ read[s] <= Len(sent[s])
    BY DEF TypeOK
  <2> QED BY <2>1, <2>2, <2>3 DEF Balance
<1> QED BY <1>1, <1>2, <1>3

\* A socket on which nothing changes holds what it held.
LEMMA SameBalance ==
    ASSUME NEW s, up'[s] = up[s], asked'[s] = asked[s], sent'[s] = sent[s]
    PROVE  Balance(s)' = Balance(s)
<1>1. Handling(s)' = Handling(s) /\ Answers(s)' = Answers(s)
  BY DEF Handling, Answers
<1> QED BY <1>1 DEF Balance

\* What the server and the network do, and what the page shows, keeps the balance of
\* each socket that is, or may come, up.
LEMMA BalanceKept ==
    ASSUME TypeOK, FreshInv, NEW t \in Session, link'[t] \in {"connecting", "open"},
           NEW s \in Session,
           \/ Handshake(s) \/ Drop(s) \/ Serve(s) \/ OnMessage(s)
           \/ \E d \in Device : Told(d) \/ Tell(d, s)
    PROVE  link[t] \in {"connecting", "open"} /\ Balance(t)' = Balance(t)
<1>0. ServiceType /\ LinkType /\ ChannelType
  BY TypeParts
<1>1. CASE UNCHANGED <<link, up, asked, sent>>
  BY <1>1, SameBalance
<1>2. CASE Handshake(s)
  <2>1. UNCHANGED <<up, asked, sent>>
    BY <1>2 DEF Handshake, Server!Connect
  <2>2. link[t] \in {"connecting", "open"}
    BY <1>0, <1>2 DEF Handshake, LinkType
  <2> QED BY <2>1, <2>2, SameBalance
<1>3. CASE Drop(s)
  <2>1. Lost(s) /\ s \notin open' /\ UNCHANGED <<asked, sent>>
    BY <1>3 DEF Drop, Server!Close
  <2>2. CASE t # s
    BY <1>0, <2>1, <2>2, LostUp, SameBalance
  <2>3. CASE t = s
    <3>1. link[t] = "connecting" /\ link' = link /\ up'[t] = 0
      BY <1>0, <2>1, <2>3 DEF Lost, LinkType, ChannelType
    <3>2. up[t] = 0
      BY <3>1, Balances DEF FreshInv
    <3> QED BY <2>1, <3>1, <3>2, SameBalance
  <2> QED BY <2>2, <2>3
<1>4. CASE Receive(s)
  <2>1. /\ up[s] > 0 /\ up' = [up EXCEPT ![s] = @ - 1] /\ UNCHANGED <<link, sent>>
        /\ asked[s] = Nobody /\ asked' = [asked EXCEPT ![s] = SubscriptionId]
    BY <1>4 DEF Receive, Server!Ask
  <2>2. CASE t # s
    <3>1. up'[t] = up[t] /\ asked'[t] = asked[t]
      BY <1>0, <2>1, <2>2 DEF ServiceType, ChannelType
    <3> QED BY <2>1, <3>1, SameBalance
  <2>3. CASE t = s
    <3> DEFINE c == Cardinality(Answers(t))
    <3>1. up'[t] = up[t] - 1
      BY <1>0, <2>1, <2>3 DEF ChannelType
    <3>2. Handling(t) = 0 /\ Handling(t)' = 1
      BY <1>0, <2>1, <2>3, NobodyAssumption DEF Handling, ServiceType, Id
    <3>3. Answers(t)' = Answers(t)
      BY <2>1 DEF Answers
    <3>4. up[t] \in Nat /\ c \in Nat
      BY Balances
    <3>5. Balance(t) = up[t] + 0 + c /\ Balance(t)' = (up[t] - 1) + 1 + c
      BY <3>1, <3>2, <3>3 DEF Balance
    <3> HIDE DEF c
    <3>6. Balance(t)' = Balance(t)
      BY <3>4, <3>5
    <3> QED BY <2>1, <3>6
  <2> QED BY <2>2, <2>3
<1>5. CASE Handle(s)
  <2>1. /\ asked[s] \in Id /\ asked' = [asked EXCEPT ![s] = "answer"]
        /\ UNCHANGED <<link, up, sent>>
    BY <1>5 DEF Handle, Server!Subscribe, Server!Skip, Server!Answer
  <2>2. Handling(t)' = Handling(t) /\ Answers(t)' = Answers(t)
    BY <1>0, <2>1, NobodyAssumption DEF Handling, Answers, ServiceType
  <2> QED BY <2>1, <2>2 DEF Balance
<1>6. CASE Reply(s)
  <2>1. /\ asked[s] = "answer" /\ asked' = [asked EXCEPT ![s] = Nobody]
        /\ Lost(s) /\ Send(s, OK)
    BY <1>6 DEF Reply, Server!Reply, Server!Answer
  <2>2. CASE t # s
    <3>1. asked'[t] = asked[t] /\ sent'[t] = sent[t]
      BY <1>0, <2>1, <2>2 DEF Send, ServiceType, ChannelType
    <3>2. up'[t] = up[t] /\ link'[t] = link[t]
      BY <1>0, <2>1, <2>2, LostUp
    <3> QED BY <3>1, <3>2, SameBalance
  <2>3. CASE t = s
    <3> DEFINE c == Cardinality(Answers(t))
    <3>1. asked[t] # Nobody /\ asked'[t] = Nobody
      BY <1>0, <2>1, <2>3, NobodyAssumption DEF ServiceType
    <3>2. link[t] = "open" /\ t \in open' /\ up'[t] = up[t]
      BY <1>0, <2>1, <2>3, <3>1 DEF Lost, LinkType, FreshInv, Touched
    <3>3. OK \in Payload /\ sent'[t] = Append(sent[t], OK)
      BY <1>0, <2>1, <2>3, <3>2 DEF Send, ChannelType, OK, Payload
    <3>4. Cardinality(Answers(t)') = c + 1
      BY <3>3, AnswersSent
    <3>5. Handling(t) = 1 /\ Handling(t)' = 0
      BY <3>1 DEF Handling
    <3>6. up[t] \in Nat /\ c \in Nat
      BY Balances
    <3>7. Balance(t) = up[t] + 1 + c /\ Balance(t)' = up[t] + 0 + (c + 1)
      BY <3>2, <3>4, <3>5 DEF Balance
    <3> HIDE DEF c
    <3>8. Balance(t)' = Balance(t)
      BY <3>6, <3>7
    <3> QED BY <3>2, <3>8
  <2> QED BY <2>2, <2>3
<1>7. ASSUME NEW d \in Device, Told(d)
      PROVE  link[t] \in {"connecting", "open"} /\ Balance(t)' = Balance(t)
  <2>1. Send(told[d], Event(events[d])) /\ UNCHANGED <<link, up, asked>>
    BY <1>7 DEF Told, Server!Told
  <2>2. CASE sent'[t] = sent[t]
    BY <2>1, <2>2, SameBalance
  <2>3. CASE sent'[t] # sent[t]
    <3>1. sent'[t] = Append(sent[t], Event(events[d]))
      BY <1>0, <2>1, <2>3 DEF Send, ChannelType
    <3>2. events[d] \in Nat
      BY <1>0, PageAssumption DEF ChannelType
    <3>3. Event(events[d]) \in Payload /\ Event(events[d]) # OK
      BY <3>2 DEF Event, Payload, OK
    <3>4. Cardinality(Answers(t)') = Cardinality(Answers(t)) + 0
      BY <3>1, <3>3, AnswersSent
    <3>5. Cardinality(Answers(t)') = Cardinality(Answers(t))
      BY <3>4, Balances
    <3>6. Handling(t)' = Handling(t)
      BY <2>1 DEF Handling
    <3> QED BY <2>1, <3>5, <3>6 DEF Balance
  <2> QED BY <2>2, <2>3
<1>8. CASE OnMessage(s) \/ (\E d \in Device : Tell(d, s))
  BY <1>1, <1>8 DEF OnMessage, Tell, Server!Tell, server
<1> QED BY <1>2, <1>3, <1>4, <1>5, <1>6, <1>7, <1>8 DEF Serve

\* The sockets of a tab that loads the page hold nothing.
LEMMA ReloadedContext ==
    ASSUME TypeOK, TouchedInv, NEW p \in Page, Reload(p)
    PROVE  LET t == WebSocketContext(p)'
           IN  /\ t = <<p, load[p] + 1, Renders[p]>> /\ t \in Session
               /\ ~Touched(t) /\ UNCHANGED <<up, asked>> /\ sent'[t] = sent[t] /\ read'[t] = read[t]
<1> DEFINE t == <<p, load[p] + 1, Renders[p]>>
<1>1. /\ NewSockets(p) /\ FreshPage(p) /\ load[p] < MaxLoads[p]
      /\ UNCHANGED <<up, asked>>
  BY DEF Reload, server
<1>2. load'[p] = load[p] + 1 /\ load[p] \in Nat /\ load'[p] \in 1..MaxLoads[p]
  BY <1>1, ReloadedLinks DEF TypeOK
<1>3. WebSocketContext(p)' = t /\ t \in Session /\ t[1] = p /\ t[2] = load[p] + 1
  BY <1>2, Sessions DEF WebSocketContext
<1>4. WebSocketContext(p)[2] = load[p]
  BY Contexts
<1> HIDE DEF t
<1>5. ~Touched(t)
  BY <1>2, <1>3, <1>4 DEF TouchedInv
<1>6. sent'[t] = sent[t] /\ read'[t] = read[t]
  BY <1>1, <1>2, <1>3, ReloadedLinks
<1> QED BY <1>1, <1>3, <1>5, <1>6 DEF t

\* The clicks of a tab keep adding up.
LEMMA CountNext ==
    ASSUME TypeOK, TouchedInv, FreshInv, CountInv, [Next]_vars
    PROVE  CountInv'
<1> DEFINE Count(p) ==
      LET s == WebSocketContext(p)
      IN  /\ refused[p] <= number[p]
          /\ link[s] \in {"connecting", "open"} => number[p] = refused[p] + Balance(s)
<1> SUFFICES ASSUME NEW p \in Page PROVE Count(p)'
  BY DEF CountInv
<1>p. PICK t \in Session : t = WebSocketContext(p)
  BY Contexts
<1>0. ServiceType /\ PageType /\ LinkType /\ ChannelType
  BY TypeParts
<1>1. t \in Session /\ t[1] = p /\ t[2] = load[p]
  BY <1>p, Contexts
<1>2. Count(p) /\ number[p] \in Nat /\ refused[p] \in Nat /\ Balance(t) \in Nat
  BY <1>0, <1>1, <1>p, Balances DEF CountInv, PageType
<1>3. ASSUME UNCHANGED <<load, number, refused>>,
             link'[t] \in {"connecting", "open"} =>
               link[t] \in {"connecting", "open"} /\ Balance(t)' = Balance(t)
      PROVE  Count(p)'
  <2>1. WebSocketContext(p)' = t
    BY <1>3, <1>p, SameContext
  <2> QED BY <1>2, <1>3, <1>p, <2>1
<1>4. CASE UNCHANGED vars
  <2>1. Balance(t)' = Balance(t)
    BY <1>4, SameBalance DEF vars, server
  <2> QED BY <1>3, <1>4, <2>1 DEF vars, page
<1>5. ASSUME NEW q \in Page, Reload(q) PROVE Count(p)'
  <2>1. NewSockets(q) /\ FreshPage(q) /\ load[q] < MaxLoads[q] /\ UNCHANGED <<up, asked>>
    BY <1>5 DEF Reload, server
  <2>2. CASE q = p
    <3>1. number'[p] = 0 /\ refused'[p] = 0
      BY <1>0, <2>1, <2>2 DEF FreshPage, PageType
    <3>2. PICK w \in Session : /\ w = WebSocketContext(p)' /\ ~Touched(w)
                               /\ UNCHANGED <<up, asked>> /\ sent'[w] = sent[w]
      BY <1>5, <2>2, ReloadedContext
    <3>3. Balance(w)' = 0
      BY <3>2, Balances, SameBalance
    <3> QED BY <3>1, <3>2, <3>3
  <2>3. CASE q # p
    <3>1. link'[t] = link[t] /\ sent'[t] = sent[t] /\ load'[p] = load[p]
      BY <1>1, <2>1, <2>3, ReloadedLinks
    <3>2. number'[p] = number[p] /\ refused'[p] = refused[p]
      BY <1>0, <2>1, <2>3 DEF FreshPage, PageType
    <3>3. Balance(t)' = Balance(t)
      BY <2>1, <3>1, SameBalance
    <3>4. WebSocketContext(p)' = t
      BY <1>p, <3>1 DEF WebSocketContext
    <3> QED BY <1>2, <1>p, <3>1, <3>2, <3>3, <3>4
  <2> QED BY <2>2, <2>3
<1>6. ASSUME NEW q \in Page, TestFunction(q) PROVE Count(p)'
  <2>u. PICK u \in Session : u = WebSocketContext(q)
    BY Contexts
  <2>1. /\ number' = [number EXCEPT ![q] = @ + 1] /\ UNCHANGED <<load, link, sent, asked>>
        /\ refused' = IF link[u] = "connecting" THEN [refused EXCEPT ![q] = @ + 1] ELSE refused
        /\ up' = IF link[u] = "open" THEN [up EXCEPT ![u] = @ + 1] ELSE up
    BY <1>6, <2>u DEF TestFunction, server
  <2>2. WebSocketContext(p)' = t /\ u[1] = q /\ (q = p => u = t)
    BY <1>p, <2>1, <2>u, SameContext, Contexts
  <2>3. CASE q # p
    <3>1. number'[p] = number[p] /\ refused'[p] = refused[p]
      BY <1>0, <2>1, <2>3 DEF PageType
    <3>2. t # u
      BY <1>1, <2>2, <2>3
    <3>3. up'[t] = up[t]
      BY <1>0, <1>1, <2>1, <3>2 DEF ChannelType
    <3>4. Balance(t)' = Balance(t)
      BY <2>1, <3>3, SameBalance
    <3> QED BY <1>2, <1>p, <2>1, <2>2, <3>1, <3>4
  <2>4. CASE q = p
    <3>1. number'[p] = number[p] + 1
      BY <1>0, <2>1, <2>4 DEF PageType
    <3>2. CASE link[t] = "connecting"
      <4>1. refused'[p] = refused[p] + 1 /\ up' = up
        BY <1>0, <2>1, <2>2, <2>4, <3>2 DEF PageType
      <4>2. Balance(t)' = Balance(t)
        BY <2>1, <4>1, SameBalance
      <4>3. number[p] = refused[p] + Balance(t) /\ refused[p] <= number[p]
        BY <1>2, <1>p, <3>2
      <4>4. refused'[p] <= number'[p] /\ number'[p] = refused'[p] + Balance(t)
        BY <1>2, <3>1, <4>1, <4>3
      <4> QED BY <2>2, <4>2, <4>4
    <3>3. CASE link[t] = "open"
      <4>1. refused'[p] = refused[p] /\ up'[t] = up[t] + 1
        BY <1>0, <1>1, <2>1, <2>2, <2>4, <3>3 DEF PageType, ChannelType
      <4>2. number[p] = refused[p] + Balance(t) /\ refused[p] <= number[p]
        BY <1>2, <1>p, <3>3
      <4>3. Balance(t)' = Balance(t) + 1
        <5> DEFINE h == Handling(t)
                   c == Cardinality(Answers(t))
        <5>1. Handling(t)' = h /\ Cardinality(Answers(t)') = c
          BY <2>1 DEF Handling, Answers
        <5>2. Balance(t) = up[t] + h + c /\ Balance(t)' = (up[t] + 1) + h + c
          BY <4>1, <5>1 DEF Balance
        <5>3. up[t] \in Nat /\ h \in Nat /\ c \in Nat
          BY <1>1, Balances
        <5> HIDE DEF h, c
        <5> QED BY <5>2, <5>3
      <4>4. refused'[p] <= number'[p] /\ number'[p] = refused'[p] + (Balance(t) + 1)
        BY <1>2, <3>1, <4>1, <4>2
      <4> QED BY <2>2, <4>3, <4>4
    <3>4. CASE link[t] \notin {"connecting", "open"}
      <4>1. refused'[p] = refused[p] /\ link' = link
        BY <2>1, <2>2, <2>4, <3>4
      <4>2. refused'[p] <= number'[p]
        BY <1>2, <3>1, <4>1
      <4> QED BY <2>2, <3>4, <4>1, <4>2
    <3> QED BY <3>2, <3>3, <3>4
  <2> QED BY <2>3, <2>4
<1>7. ASSUME NEW q \in Page, NEW d \in Listed, Select(q, d) PROVE Count(p)'
  <2>1. UNCHANGED <<load, number, refused, link, up, asked, sent>>
    BY <1>7 DEF Select, server
  <2> QED BY <1>3, <2>1, SameBalance
<1>8. CASE UNCHANGED <<load, number, refused>> /\ (\E s \in Session :
             \/ Handshake(s) \/ Drop(s) \/ Serve(s) \/ OnMessage(s)
             \/ \E d \in Device : Told(d) \/ Tell(d, s))
  <2>1. ASSUME link'[t] \in {"connecting", "open"}
        PROVE  link[t] \in {"connecting", "open"} /\ Balance(t)' = Balance(t)
    BY <1>1, <1>8, <2>1, BalanceKept
  <2> HIDE DEF Count
  <2> QED BY <1>3, <1>8, <2>1
<1>9. ASSUME NEW s \in Session, Handshake(s) \/ Drop(s) \/ Serve(s) \/ OnMessage(s) PROVE Count(p)'
  <2>1. UNCHANGED <<load, number, refused>>
    BY <1>9 DEF Handshake, Drop, Serve, Receive, Handle, Reply, OnMessage, page
  <2> HIDE DEF Count
  <2> QED BY <1>8, <1>9, <2>1
<1>10. ASSUME NEW d \in Device, Told(d) \/ (\E s \in Session : Tell(d, s)) PROVE Count(p)'
  <2>1. UNCHANGED <<load, number, refused>>
    BY <1>10 DEF Told, Tell, page
  <2> HIDE DEF Count
  <2> QED BY <1>1, <1>8, <1>10, <2>1
<1> HIDE DEF Count
<1> QED BY <1>4, <1>5, <1>6, <1>7, <1>9, <1>10 DEF Next

-----------------------------------------------------------------------------
(* What a tab shows                                                        *)

Shows(p) ==
    LET s == WebSocketContext(p)
    IN  /\ \A item \in DeviceList(p) : item.state = LastSeen(s)
        /\ DeviceDetails(p) # Nobody =>
             DeviceDetails(p).state \in {DoorClosed} \cup Seen(s)

\* What was seen of a socket stays as it was when more is sent on it.
LEMMA SameSeen ==
    ASSUME TypeOK, NEW t \in Session, read'[t] = read[t],
           \A i \in 1..Len(sent[t]) : sent'[t][i] = sent[t][i]
    PROVE  LastSeen(t)' = LastSeen(t) /\ Seen(t)' = Seen(t)
<1>1. read[t] \in Nat /\ Len(sent[t]) \in Nat /\ read[t] <= Len(sent[t])
  BY DEF TypeOK
<1>2. \A i \in 1..read[t] : sent'[t][i] = sent[t][i]
  BY <1>1
<1>3. LastSeen(t)' = LastSeen(t)
  <2>1. read[t] = 0 \/ read[t] \in 1..read[t]
    BY <1>1
  <2> QED BY <1>2, <2>1 DEF LastSeen
<1>4. Seen(t)' = Seen(t)
  BY <1>2 DEF Seen
<1> QED BY <1>3, <1>4

\* A step that changes neither the store nor what was seen keeps what is shown.
LEMMA ShownKept ==
    ASSUME TypeOK, NEW p \in Page, NEW t \in Session, t = WebSocketContext(p), Shows(p),
           load'[p] = load[p], store'[p] = store[p], read'[t] = read[t],
           \A i \in 1..Len(sent[t]) : sent'[t][i] = sent[t][i]
    PROVE  Shows(p)'
<1>1. LastSeen(t)' = LastSeen(t) /\ Seen(t)' = Seen(t)
  BY SameSeen
<1>2. WebSocketContext(p)' = t
  BY DEF WebSocketContext
<1>3. DeviceList(p)' = DeviceList(p) /\ DeviceDetails(p)' = DeviceDetails(p)
  BY DEF DeviceList, DeviceDetails, DeviceListItem
<1> QED BY <1>1, <1>2, <1>3 DEF Shows

\* A tab keeps showing the messages of its own socket.
LEMMA ShowsNext ==
    ASSUME TypeOK, TouchedInv, SentInv, PageShowsItsMessages, [Next]_vars
    PROVE  PageShowsItsMessages'
<1> SUFFICES ASSUME NEW p \in Page PROVE Shows(p)'
  BY DEF PageShowsItsMessages, Shows
<1>0. ServiceType /\ PageType /\ LinkType /\ ChannelType
  BY TypeParts
<1>1. PICK t \in Session : t = WebSocketContext(p) /\ t[1] = p /\ t[2] = load[p]
  BY Contexts
<1>2. Shows(p) /\ store[p] \in [devices : [Listed -> Item], selectedDevice : Item \cup {Nobody}]
  BY <1>0 DEF PageShowsItsMessages, Shows, PageType
<1>3. ASSUME UNCHANGED <<load, store, read>>,
             \A i \in 1..Len(sent[t]) : sent'[t][i] = sent[t][i]
      PROVE  Shows(p)'
  BY <1>1, <1>2, <1>3, ShownKept
<1>4. CASE UNCHANGED <<load, store, read, sent>>
  BY <1>3, <1>4
<1>5. ASSUME NEW q \in Page, Reload(q) PROVE Shows(p)'
  <2>1. /\ NewSockets(q) /\ FreshPage(q) /\ load[q] < MaxLoads[q]
        /\ store' = [store EXCEPT ![q] = CreateStore]
    BY <1>5 DEF Reload
  <2>2. CASE q = p
    <3>1. PICK w \in Session : /\ w = WebSocketContext(p)' /\ ~Touched(w) /\ read'[w] = read[w]
      BY <1>5, <2>2, ReloadedContext
    <3>2. read'[w] = 0
      BY <3>1, Balances
    <3>3. store'[p] = CreateStore
      BY <1>0, <2>1, <2>2 DEF PageType
    <3>4. LastSeen(w)' = DoorClosed
      BY <3>2 DEF LastSeen
    <3>5. \A item \in DeviceList(p)' : item.state = DoorClosed
      BY <3>3, FreshStore DEF DeviceList, DeviceListItem
    <3>6. DeviceDetails(p)' = Nobody
      BY <3>3, FreshStore DEF DeviceDetails
    <3> QED BY <3>1, <3>4, <3>5, <3>6 DEF Shows
  <2>3. CASE q # p
    <3>1. sent'[t] = sent[t] /\ read'[t] = read[t] /\ load'[p] = load[p]
      BY <1>1, <2>1, <2>3, ReloadedLinks
    <3>2. store'[p] = store[p]
      BY <1>0, <2>1, <2>3 DEF PageType
    <3> QED BY <1>1, <1>2, <3>1, <3>2, ShownKept
  <2> QED BY <2>2, <2>3
<1>6. CASE \E q \in Page : TestFunction(q)
  BY <1>4, <1>6 DEF TestFunction
<1>7. ASSUME NEW q \in Page, NEW d \in Listed, Select(q, d) PROVE Shows(p)'
  <2>1. /\ store' = [store EXCEPT ![q] = Reducer(store[q], SelectDevice(store[q].devices[d]))]
        /\ UNCHANGED <<load, sent, read>>
    BY <1>7 DEF Select, Dispatch, DeviceListItem
  <2>2. CASE q # p
    <3>1. store'[p] = store[p]
      BY <1>0, <2>1, <2>2 DEF PageType
    <3> QED BY <1>1, <1>2, <2>1, <3>1, ShownKept
  <2>3. CASE q = p
    <3>1. store'[p] = Reducer(store[p], SelectDevice(store[p].devices[d]))
      BY <1>0, <2>1, <2>3 DEF PageType
    <3>2. /\ store'[p].selectedDevice = store[p].devices[d]
          /\ store'[p].devices = store[p].devices
      BY <1>2, <3>1, SelectionStore
    <3>3. DeviceDetails(p)' = DeviceListItem(p, d) /\ DeviceList(p)' = DeviceList(p)
      BY <3>2 DEF DeviceDetails, DeviceList, DeviceListItem
    <3>4. DeviceListItem(p, d).state = LastSeen(t)
      BY <1>1, <1>2 DEF Shows, DeviceList
    <3>5. LastSeen(t) \in {DoorClosed} \cup Seen(t)
      <4>1. read[t] \in Nat
        BY <1>0 DEF ChannelType
      <4>2. read[t] = 0 \/ read[t] \in 1..read[t]
        BY <4>1
      <4> QED BY <4>2 DEF LastSeen, Seen
    <3>6. LastSeen(t)' = LastSeen(t) /\ Seen(t)' = Seen(t)
      BY <2>1, SameSeen
    <3>7. WebSocketContext(p)' = t
      BY <1>1, <2>1, SameContext
    <3> QED BY <1>1, <1>2, <3>3, <3>4, <3>5, <3>6, <3>7 DEF Shows
  <2> QED BY <2>2, <2>3
<1>8. ASSUME NEW s \in Session, OnMessage(s) PROVE Shows(p)'
  <2> DEFINE m == sent[s][read[s] + 1]
  <2>1. /\ link[s] = "open" /\ read[s] < Len(sent[s]) /\ read' = [read EXCEPT ![s] = @ + 1]
        /\ store' = [store EXCEPT ![s[1]] = Reducer(store[s[1]], DeviceStateChanged(m))]
        /\ UNCHANGED <<load, sent>>
    BY <1>8 DEF OnMessage, Dispatch
  <2>2. CASE s[1] # p
    <3>1. store'[p] = store[p] /\ read'[t] = read[t]
      BY <1>0, <1>1, <2>1, <2>2 DEF PageType, ChannelType
    <3> QED BY <1>1, <1>2, <2>1, <3>1, ShownKept
  <2>3. CASE s[1] = p
    <3>0. read[s] \in Nat /\ sent[s] \in Seq(Payload) /\ Len(sent[s]) \in Nat
      BY <1>0 DEF ChannelType
    <3>1. s = t
      <4>1. sent[s] # <<>>
        BY <2>1, <3>0
      <4>2. s[2] = load[p] /\ load[p] \in Nat
        BY <1>0, <2>1, <2>3 DEF LinkType, PageType
      <4> QED BY <1>1, <2>3, <4>1, <4>2 DEF TouchedInv, Touched
    <3>2. read'[t] = read[t] + 1 /\ m \in Payload /\ sent'[t] = sent[t]
      BY <1>0, <2>1, <3>0, <3>1 DEF ChannelType
    <3>3. LastSeen(t)' = m /\ m \in Seen(t)' /\ Seen(t) \subseteq Seen(t)'
      <4>1. read[t] + 1 # 0 /\ read[t] + 1 \in 1..read[t] + 1 /\ 1..read[t] \subseteq 1..read[t] + 1
        BY <3>0, <3>1
      <4> QED BY <3>1, <3>2, <4>1 DEF LastSeen, Seen
    <3> HIDE DEF m
    <3>4. store'[p] = Reducer(store[p], DeviceStateChanged(m))
      BY <1>0, <2>1, <2>3 DEF PageType
    <3>5. /\ store'[p].selectedDevice = store[p].selectedDevice
          /\ \A d \in Listed : store'[p].devices[d].state = m
      BY <1>2, <3>2, <3>4, MessageStore
    <3>6. \A item \in DeviceList(p)' : item.state = m
      BY <3>5 DEF DeviceList, DeviceListItem
    <3>7. DeviceDetails(p)' = DeviceDetails(p)
      BY <3>5 DEF DeviceDetails
    <3>8. WebSocketContext(p)' = t
      BY <1>1, <2>1, SameContext
    <3> QED BY <1>1, <1>2, <3>3, <3>6, <3>7, <3>8 DEF Shows
  <2> QED BY <2>2, <2>3
<1>9. ASSUME NEW s \in Session, NEW message \in Payload, Send(s, message)
      PROVE  \A i \in 1..Len(sent[t]) : sent'[t][i] = sent[t][i]
  BY <1>0, <1>9, SentType
<1>10. CASE \E s \in Session : Reply(s)
  <2>1. OK \in Payload
    BY DEF OK, Payload
  <2> QED BY <1>3, <1>9, <1>10, <2>1 DEF Reply, page
<1>11. ASSUME NEW d \in Device, Told(d) PROVE Shows(p)'
  <2>1. events[d] \in Nat /\ told[d] \in Session
    BY <1>0, <1>11, PageAssumption DEF ChannelType, ServiceType, Told, Server!Told
  <2>2. Event(events[d]) \in Payload
    BY <2>1 DEF Event, Payload
  <2> QED BY <1>3, <1>9, <1>11, <2>1, <2>2 DEF Told, page
<1>12. CASE \E s \in Session : Handshake(s) \/ Drop(s) \/ Receive(s) \/ Handle(s)
  BY <1>4, <1>12 DEF Handshake, Drop, Receive, Handle, page
<1>13. CASE \E d \in Device, s \in Session : Tell(d, s)
  BY <1>4, <1>13 DEF Tell, page
<1>14. CASE UNCHANGED vars
  BY <1>4, <1>14 DEF vars, page
<1> QED
  BY <1>5, <1>6, <1>7, <1>8, <1>10, <1>11, <1>12, <1>13, <1>14 DEF Next, Serve

-----------------------------------------------------------------------------
(* The theorems                                                            *)

\* Nothing is touched, counted or shown at first.
LEMMA Initially == Init => Inv
<1> SUFFICES ASSUME Init PROVE Inv
  OBVIOUS
<1>1. TypeOK
  BY TypeInit
<1>2. ASSUME NEW s \in Session
      PROVE  ~Touched(s) /\ sent[s] = <<>> /\ read[s] = 0 /\ LastSeen(s) = DoorClosed
  <2>1. \A d \in Device : told[d] = Nobody /\ listeners[d] = {}
    BY DEF Init, Server!Init
  <2>2. up[s] = 0 /\ asked[s] = Nobody /\ sent[s] = <<>> /\ read[s] = 0
    BY DEF Init, Server!Init
  <2> QED BY <2>1, <2>2, NobodyAssumption DEF Touched, LastSeen
<1>3. TouchedInv /\ SentInv /\ FreshInv
  BY <1>2 DEF TouchedInv, SentInv, FreshInv
<1>4. CountInv
  <2>1. ASSUME NEW p \in Page
        PROVE  refused[p] = 0 /\ number[p] = 0 /\ Balance(WebSocketContext(p)) = 0
    BY <1>1, <1>2, Contexts, Balances DEF Init
  <2> QED BY <2>1 DEF CountInv
<1>5. PageShowsItsMessages
  <2>1. ASSUME NEW p \in Page PROVE Shows(p)
    <3>1. store[p] = CreateStore /\ LastSeen(WebSocketContext(p)) = DoorClosed
      BY <1>1, <1>2, Contexts DEF Init
    <3> QED BY <3>1, FreshStore DEF Shows, DeviceList, DeviceListItem, DeviceDetails
  <2> QED BY <2>1 DEF PageShowsItsMessages, Shows
<1> QED BY <1>1, <1>3, <1>4, <1>5 DEF Inv

\* The invariant holds in all reachable states.
LEMMA Invariance == Spec => []Inv
<1>1. Init => Inv
  BY Initially
<1>2. Inv /\ [Next]_vars => Inv'
  BY TypeNext, TouchedNext, SentNext, FreshNext, CountNext, ShowsNext DEF Inv
<1> QED BY <1>1, <1>2, PTL DEF Spec

\* Every variable has its type; only sockets of the present load of a tab are alive,
\* and what is open in the tab is open at the server (WebSocketContext.js:38-73).
THEOREM Typing == Spec => []TypeOK
<1>1. Inv => TypeOK
  BY DEF Inv
<1> QED BY <1>1, Invariance, PTL

\* A tab shows the last message of its own socket, through reloads, selections, lost
\* connections and whatever reaches other tabs (reducers/index.js:3-62).
THEOREM PagesShow == Spec => []PageShowsItsMessages
<1>1. Inv => PageShowsItsMessages
  BY DEF Inv
<1> QED BY <1>1, Invariance, PTL

\* Each click of the present load was refused, is on its way, is being handled or was
\* answered, once, as long as the connection is up (DeviceListRedux.js:32-44).
THEOREM ClicksAddUp == Spec => []ClicksAccounted
<1>1. ASSUME Inv, NEW p \in Page, link[WebSocketContext(p)] = "open"
      PROVE  LET s == WebSocketContext(p)
             IN  number[p] = refused[p] + up[s] + Handling(s) + Cardinality(Answers(s))
  <2> DEFINE s == WebSocketContext(p)
             h == Handling(s)
             c == Cardinality(Answers(s))
  <2>1. TypeOK /\ number[p] = refused[p] + Balance(s) /\ s \in Session
    BY <1>1, Contexts DEF Inv, CountInv
  <2>2. Balance(s) = up[s] + h + c
    BY DEF Balance
  <2>3. up[s] \in Nat /\ h \in Nat /\ c \in Nat /\ refused[p] \in Nat
    <3>1. up[s] \in Nat /\ h \in {0, 1} /\ c \in Nat
      BY <2>1, Balances
    <3> QED BY <2>1, <3>1 DEF TypeOK
  <2> HIDE DEF s, h, c
  <2>4. number[p] = refused[p] + up[s] + h + c
    BY <2>1, <2>2, <2>3
  <2> QED BY <2>4 DEF s, h, c
<1>2. Inv => ClicksAccounted
  BY <1>1 DEF ClicksAccounted
<1> QED BY <1>2, Invariance, PTL

\* A tab shows an event only after a click that its present socket took
\* (WebSocketContext.js:46-65).
THEOREM EventsAskedFor == Spec => []EventsWereAskedFor
<1>1. ASSUME Inv, NEW p \in Page, NEW item \in DeviceList(p) \cup {DeviceDetails(p)},
             item # Nobody, item.state.kind = "event"
      PROVE  number[p] > refused[p]
  <2>0. TypeOK /\ TouchedInv /\ SentInv /\ Shows(p)
    BY <1>1 DEF Inv, PageShowsItsMessages, Shows
  <2>1. PICK t \in Session : t = WebSocketContext(p) /\ t[1] = p /\ t[2] = load[p] /\ load[p] \in Nat
    BY <2>0, Contexts
  <2>2. item.state \in {LastSeen(t), DoorClosed} \cup Seen(t)
    BY <1>1, <2>0, <2>1 DEF Shows
  <2>3. item.state # DoorClosed
    <3>1. DoorClosed.kind # "event"
      BY DEF DoorClosed
    <3> QED BY <1>1, <3>1
  <2>4. read[t] # 0
    <3>1. ASSUME read[t] = 0 PROVE LastSeen(t) = DoorClosed /\ Seen(t) = {}
      BY <3>1 DEF LastSeen, Seen
    <3> QED BY <2>2, <2>3, <3>1
  <2>5. sent[t] # <<>>
    <3>1. read[t] \in Nat /\ read[t] <= Len(sent[t]) /\ Len(<<>>) = 0
      BY <2>0 DEF TypeOK
    <3> QED BY <2>4, <3>1
  <2>6. refused[p] < number[p] /\ refused[p] \in Nat /\ number[p] \in Nat
    BY <2>0, <2>1, <2>5 DEF TouchedInv, Touched, TypeOK
  <2> QED BY <2>6
<1>2. Inv => EventsWereAskedFor
  BY <1>1 DEF EventsWereAskedFor
<1> QED BY <1>2, Invariance, PTL
=============================================================================
