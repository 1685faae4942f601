-------------------------- MODULE DeviceHostProofs ---------------------------
(***************************************************************************)
(* Proofs about DeviceHost, for any set-up, any datagrams and any ports.   *)
(***************************************************************************)
EXTENDS DeviceHost, TLAPS

\* The map leads to the newest device under an id, and no two devices have one port.
NewestMapped ==
  \A n \in Places : n <= deviceMap[IdAt(n)]
PortsUnique ==
  \A m, n \in Places : socket[m] = socket[n] /\ socket[n] # NoSocket => m = n

\* While a WHO-IS is being answered the devices it found are fixed, and each of
\* them is announced, was refused by the network, or is still to come.
AnnouncingInv ==
  \A p \in DOMAIN reader : reader[p] = "announcing" =>
    /\ p = BacnetPort /\ main = "done"
    /\ walk \cup announced \cup unsent = {n \in Places : InRange(n, asked)}

Registered == NewestMapped /\ PortsUnique

IInv == TypeOK /\ Registered /\ AnnouncingInv

-----------------------------------------------------------------------------
\* What may be sent.
LEMMA MessageTypes ==
  /\ NoMessage \in Message
  /\ \A n \in Nat, id \in Nat, port \in Port \cup {NoSocket} :
       /\ Send("I_AM", n, id, port) \in Message
       /\ Send("ANSWER", n, id, port) \in Message
       /\ Send("ACK", n, id, port) \in Message
<1>1. ASSUME NEW kind \in {"none", "I_AM", "ANSWER", "ACK"}, NEW n \in Nat, NEW id \in Nat,
             NEW port \in Port \cup {0}
      PROVE  Send(kind, n, id, port) \in Message
  BY DEF Send, Message
<1>2. 0 \in Nat /\ NoSocket = 0
  BY DEF NoSocket
<1> QED
  BY <1>1, <1>2 DEF NoMessage

\* The empty server.
LEMMA InitIInv == Init => IInv
<1> SUFFICES ASSUME Init PROVE IInv
  OBVIOUS
<1>1. TypeOK
  BY SetupAssumption DEF Init, TypeOK, Places, IsBounds, NoMessage, Send, Message, ReaderStates, IdAt
<1>2. Registered /\ AnnouncingInv
  BY DEF Init, Registered, NewestMapped, PortsUnique, AnnouncingInv, Places
<1> QED
  BY <1>1, <1>2 DEF IInv
-----------------------------------------------------------------------------
(***************************************************************************)
(* Setting up.                                                             *)
(***************************************************************************)
\* A round of the loop leaves descriptors behind.
LEMMA RestOfType ==
  ASSUME NEW d \in Descriptor
  PROVE  RestOf(d) \in Seq(Descriptor)
<1>1. CASE d.amountOfDevices = 1
  BY <1>1 DEF RestOf
<1>2. CASE d.amountOfDevices # 1
  BY <1>2 DEF RestOf, Descriptor
<1> QED
  BY <1>1, <1>2

LEMMA RestType ==
  ASSUME TypeOK, Creating
  PROVE  /\ NextDevice \in Device
         /\ RestOf(Head(todo)) \o Tail(todo) \in Seq(Descriptor)
<1>1. Head(todo) \in Descriptor /\ Tail(todo) \in Seq(Descriptor)
  BY DEF TypeOK, Creating
<1>2. RestOf(Head(todo)) \in Seq(Descriptor)
  BY <1>1, RestOfType
<1> QED
  BY <1>1, <1>2 DEF NextDevice, Device, Descriptor

\* No device is added while a WHO-IS is being answered.
LEMMA NotAnnouncing ==
  ASSUME TypeOK, AnnouncingInv, main = "creating"
  PROVE  \A p \in DOMAIN reader : reader[p] # "announcing"
BY DEF AnnouncingInv

\* A new device comes behind the others.
LEMMA DeviceAppended ==
  ASSUME TypeOK, NEW device \in Device, Register(device)
  PROVE  /\ devices' \in Seq(Device) /\ Len(devices') = Len(devices) + 1
         /\ Places' = Places \cup {Len(devices) + 1} /\ Len(devices) + 1 \notin Places
         /\ \A n \in Places : devices'[n] = devices[n]
         /\ devices'[Len(devices) + 1] = device
<1>1. devices \in Seq(Device) /\ devices' = Append(devices, device)
  BY DEF TypeOK, Register
<1>2. /\ devices' \in Seq(Device) /\ Len(devices') = Len(devices) + 1
      /\ \A n \in 1..Len(devices) : devices'[n] = devices[n]
      /\ devices'[Len(devices) + 1] = device
  BY <1>1
<1>3. Places = 1..Len(devices) /\ Places' = 1..(Len(devices) + 1) /\ Len(devices) \in Nat
  BY <1>1, <1>2 DEF Places
<1> QED
  BY <1>2, <1>3

\* Map and list agree about a new device too, and the map leads to the newest.
LEMMA RegisterKeeps ==
  ASSUME TypeOK, NewestMapped, NEW device \in Device, Register(device)
  PROVE  /\ DOMAIN deviceMap' = {devices'[n].id : n \in Places'}
         /\ \A id \in DOMAIN deviceMap' : deviceMap'[id] \in Places' /\ devices'[deviceMap'[id]].id = id
         /\ NewestMapped'
<1> DEFINE new == Len(devices) + 1
<1>1. /\ Places' = Places \cup {new} /\ new \notin Places
      /\ \A n \in Places : devices'[n] = devices[n]
      /\ devices'[new] = device
  BY DeviceAppended
<1>2. /\ DOMAIN deviceMap = {devices[n].id : n \in Places}
      /\ \A id \in DOMAIN deviceMap : deviceMap[id] \in Places /\ devices[deviceMap[id]].id = id
      /\ Places \subseteq Nat /\ \A n \in Places : n <= new
      /\ new \in Nat /\ new <= new
  BY DEF TypeOK, Places, IdAt
<1>3. /\ DOMAIN deviceMap' = DOMAIN deviceMap \cup {device.id}
      /\ \A id \in DOMAIN deviceMap' : deviceMap'[id] = IF id = device.id THEN new ELSE deviceMap[id]
  BY DEF Register
<1> HIDE DEF new
<1>4. DOMAIN deviceMap' = {devices'[n].id : n \in Places'}
  <2>1. {devices'[n].id : n \in Places'} = {devices[n].id : n \in Places} \cup {device.id}
    BY <1>1
  <2> QED
    BY <1>2, <1>3, <2>1
<1>5. ASSUME NEW id \in DOMAIN deviceMap'
      PROVE  deviceMap'[id] \in Places' /\ devices'[deviceMap'[id]].id = id
  <2>1. CASE id = device.id
    BY <2>1, <1>1, <1>3
  <2>2. CASE id # device.id
    BY <2>2, <1>1, <1>2, <1>3
  <2> QED
    BY <2>1, <2>2
<1>6. ASSUME NEW n \in Places'
      PROVE  n <= deviceMap'[devices'[n].id]
  <2>1. CASE devices'[n].id = device.id
    BY <1>1, <1>2, <1>3, <2>1
  <2>2. CASE devices'[n].id # device.id
    <3>1. n \in Places /\ devices'[n] = devices[n]
      BY <1>1, <2>2
    <3> QED
      BY <1>2, <1>3, <2>2, <3>1 DEF NewestMapped, IdAt
  <2> QED
    BY <2>1, <2>2
<1> QED
  BY <1>4, <1>5, <1>6 DEF NewestMapped, IdAt

LEMMA CreateDeviceStep ==
  ASSUME IInv, CreateDevice
  PROVE  IInv'
<1> DEFINE device == NextDevice
           port == PortOf(device.id)
<1> USE DEF IInv
<1>1. /\ device \in Device /\ Register(device)
      /\ BindSocket(port) \/ BindException(port) \/ PortOutOfRange(port)
      /\ todo' \in Seq(Descriptor)
      /\ main = "creating" /\ UNCHANGED whoIs /\ sent' = NoMessage
  BY RestType DEF CreateDevice, Creating
<1> HIDE DEF device, port
<1>2. /\ devices' \in Seq(Device) /\ Len(devices') = Len(devices) + 1
      /\ Places' = Places \cup {Len(devices) + 1} /\ Len(devices) + 1 \notin Places
      /\ \A n \in Places : devices'[n] = devices[n]
  BY <1>1, DeviceAppended
<1>3. /\ DOMAIN deviceMap' = {devices'[n].id : n \in Places'}
      /\ \A id \in DOMAIN deviceMap' : deviceMap'[id] \in Places' /\ devices'[deviceMap'[id]].id = id
      /\ NewestMapped'
  BY <1>1, RegisterKeeps DEF Registered
<1>4. \A p \in DOMAIN reader : reader[p] # "announcing"
  BY <1>1, NotAnnouncing
<1>5. /\ main' \in {"creating", "failed"}
      /\ socket' \in Seq(Port \cup {NoSocket}) /\ Len(socket') = Len(devices')
      /\ DOMAIN reader' \subseteq Port /\ reader' \in [DOMAIN reader' -> ReaderStates]
      /\ \A n \in Places' : socket'[n] # NoSocket => socket'[n] \in DOMAIN reader'
      /\ \A p \in DOMAIN reader' : reader'[p] # "announcing"
      /\ PortsUnique'
  <2>1. /\ socket \in Seq(Port \cup {NoSocket}) /\ Len(socket) = Len(devices)
        /\ DOMAIN reader \subseteq Port /\ reader \in [DOMAIN reader -> ReaderStates]
        /\ Places = 1..Len(socket) /\ Len(socket) \in Nat
        /\ \A n \in Places : socket[n] # NoSocket => socket[n] \in DOMAIN reader
        /\ \A m, n \in Places : socket[m] = socket[n] /\ socket[n] # NoSocket => m = n
    BY DEF TypeOK, Places, Registered, PortsUnique
  <2>2. ASSUME NEW s \in Port \cup {NoSocket}, socket' = Append(socket, s)
        PROVE  /\ socket' \in Seq(Port \cup {NoSocket}) /\ Len(socket') = Len(devices')
               /\ \A n \in Places : socket'[n] = socket[n]
               /\ socket'[Len(devices) + 1] = s
    BY <1>2, <2>1, <2>2
  <2>3. CASE BindSocket(port)
    <3>1. /\ port \in Port /\ port \notin DOMAIN reader /\ socket' = Append(socket, port) /\ main' = main
          /\ DOMAIN reader' = DOMAIN reader \cup {port}
          /\ \A p \in DOMAIN reader' : reader'[p] = IF p = port THEN "started" ELSE reader[p]
          /\ reader' \in [DOMAIN reader' -> ReaderStates]
      BY <2>1, <2>3 DEF BindSocket, StartReader, ReaderStates
    <3>2. /\ socket' \in Seq(Port \cup {NoSocket}) /\ Len(socket') = Len(devices')
          /\ \A n \in Places : socket'[n] = socket[n]
          /\ socket'[Len(devices) + 1] = port
      BY <2>2, <3>1
    <3>3. PortsUnique'
      BY <1>2, <2>1, <3>1, <3>2 DEF PortsUnique
    <3> QED
      BY <1>1, <1>2, <1>4, <2>1, <3>1, <3>2, <3>3
  <2>4. CASE BindException(port) \/ PortOutOfRange(port)
    <3>1. /\ socket' = Append(socket, NoSocket) /\ main' \in {main, "failed"} /\ reader' = reader
      BY <2>4 DEF BindException, PortOutOfRange
    <3>2. /\ socket' \in Seq(Port \cup {NoSocket}) /\ Len(socket') = Len(devices')
          /\ \A n \in Places : socket'[n] = socket[n]
          /\ socket'[Len(devices) + 1] = NoSocket
      BY <2>2, <3>1
    <3>3. PortsUnique'
      BY <1>2, <2>1, <3>1, <3>2 DEF PortsUnique
    <3> QED
      BY <1>1, <1>2, <1>4, <2>1, <3>1, <3>2, <3>3
  <2> QED
    BY <1>1, <2>3, <2>4
<1>6. /\ walk' \subseteq Places' /\ announced' \subseteq Places' /\ unsent' \subseteq Places'
      /\ IsBounds(asked') /\ sent' \in Message
  BY <1>1, <1>2, MessageTypes DEF TypeOK, whoIs
<1>7. TypeOK'
  BY <1>1, <1>2, <1>3, <1>5, <1>6 DEF TypeOK, IdAt, IsBounds, IsPayload
<1>8. AnnouncingInv'
  BY <1>5 DEF AnnouncingInv
<1> QED
  BY <1>3, <1>5, <1>7, <1>8 DEF Registered

\* A step that creates no device and ends no thread keeps types and ids.
LEMMA DevicesKept ==
  ASSUME TypeOK, Registered,
         UNCHANGED <<todo, devices, deviceMap, socket>>, main' \in {"creating", "done", "failed"},
         DOMAIN reader \subseteq DOMAIN reader', DOMAIN reader' \subseteq Port,
         reader' \in [DOMAIN reader' -> ReaderStates],
         walk' \subseteq Places, announced' \subseteq Places, unsent' \subseteq Places,
         IsBounds(asked'), sent' \in Message
  PROVE  TypeOK' /\ Registered'
<1>1. Places' = Places
  BY DEF Places
<1>2. Registered'
  BY <1>1 DEF Registered, NewestMapped, PortsUnique, IdAt
<1>3. /\ DOMAIN deviceMap' = {devices'[n].id : n \in Places'}
      /\ \A id \in DOMAIN deviceMap' : deviceMap'[id] \in Places' /\ devices'[deviceMap'[id]].id = id
  BY <1>1 DEF TypeOK, IdAt
<1>4. \A n \in Places' : socket'[n] # NoSocket => socket'[n] \in DOMAIN reader'
  BY <1>1 DEF TypeOK
<1>5. /\ todo' \in Seq(Descriptor) /\ devices' \in Seq(Device)
      /\ socket' \in Seq(Port \cup {NoSocket}) /\ Len(socket') = Len(devices')
  BY DEF TypeOK
<1>6. TypeOK'
  BY <1>1, <1>3, <1>4, <1>5 DEF TypeOK, IdAt, IsBounds, IsPayload
<1> QED
  BY <1>2, <1>6

LEMMA SetupStep ==
  ASSUME IInv, DeviceExists \/ CreateDevice \/ StartListener
  PROVE  IInv'
<1> USE DEF IInv
<1>1. CASE DeviceExists \/ StartListener
  <2>1. /\ UNCHANGED <<todo, devices, deviceMap, socket, walk, asked, announced, unsent>>
        /\ sent' = NoMessage
        /\ main = "creating" /\ main' \in {"creating", "done", "failed"}
        /\ StartReader(BacnetPort) \/ reader' = reader
    BY <1>1 DEF DeviceExists, StartListener, Creating, whoIs
  <2>2. \A p \in DOMAIN reader : reader[p] # "announcing"
    BY <2>1, NotAnnouncing
  <2>3. /\ DOMAIN reader \subseteq DOMAIN reader' /\ DOMAIN reader' \subseteq Port
        /\ reader' \in [DOMAIN reader' -> ReaderStates]
        /\ \A p \in DOMAIN reader' : reader'[p] # "announcing"
    <3>1. /\ DOMAIN reader \subseteq Port /\ reader \in [DOMAIN reader -> ReaderStates]
      BY DEF TypeOK
    <3>2. CASE reader' = reader
      BY <2>2, <3>1, <3>2
    <3>3. CASE StartReader(BacnetPort)
      BY <2>2, <3>1, <3>3, PortAssumption DEF StartReader, ReaderStates
    <3> QED
      BY <2>1, <3>2, <3>3
  <2>4. /\ walk' \subseteq Places /\ announced' \subseteq Places /\ unsent' \subseteq Places
        /\ IsBounds(asked')
    BY <2>1 DEF TypeOK, IsBounds, IsPayload
  <2>5. TypeOK' /\ Registered'
    BY <2>1, <2>3, <2>4, DevicesKept, MessageTypes
  <2> QED
    BY <2>3, <2>5 DEF AnnouncingInv
<1>2. CASE CreateDevice
  BY <1>2, CreateDeviceStep
<1> QED
  BY <1>1, <1>2
-----------------------------------------------------------------------------
(***************************************************************************)
(* The reader threads.                                                     *)
(***************************************************************************)
\* A thread that changes its state ends none and starts none.
LEMMA BecomeType ==
  ASSUME TypeOK, NEW p \in DOMAIN reader, NEW s \in ReaderStates, Become(p, s)
  PROVE  /\ DOMAIN reader' = DOMAIN reader /\ DOMAIN reader' \subseteq Port
         /\ reader' \in [DOMAIN reader' -> ReaderStates]
         /\ reader'[p] = s /\ \A q \in DOMAIN reader : q # p => reader'[q] = reader[q]
BY DEF TypeOK, Become

\* Steps that leave the answering of a WHO-IS alone.
LEMMA QuietStep ==
  ASSUME IInv, UNCHANGED <<setup, whoIs>>, sent' \in Message, NEW p \in DOMAIN reader,
         reader' = reader \/ \E s \in {"waiting", "ended"} : Become(p, s)
  PROVE  IInv'
<1> USE DEF IInv
<1>1. UNCHANGED <<main, todo, devices, deviceMap, socket, walk, asked, announced, unsent>>
  BY DEF setup, whoIs
<1>2. /\ DOMAIN reader' = DOMAIN reader /\ DOMAIN reader' \subseteq Port
      /\ reader' \in [DOMAIN reader' -> ReaderStates]
      /\ \A q \in DOMAIN reader' : reader'[q] = "announcing" => reader[q] = "announcing"
  <2>1. CASE reader' = reader
    BY <2>1 DEF TypeOK
  <2>2. CASE \E s \in {"waiting", "ended"} : Become(p, s)
    <3>1. PICK s \in {"waiting", "ended"} : Become(p, s)
      BY <2>2
    <3>2. s \in ReaderStates
      BY DEF ReaderStates
    <3> QED
      BY <3>1, <3>2, BecomeType
  <2> QED
    BY <2>1, <2>2
<1>3. TypeOK' /\ Registered'
  <2>1. /\ main' \in {"creating", "done", "failed"} /\ IsBounds(asked')
        /\ walk' \subseteq Places /\ announced' \subseteq Places /\ unsent' \subseteq Places
    BY <1>1 DEF TypeOK, IsBounds, IsPayload
  <2> QED
    BY <1>1, <1>2, <2>1, DevicesKept
<1>4. AnnouncingInv'
  BY <1>1, <1>2 DEF AnnouncingInv, Places, InRange, Decoded
<1> QED
  BY <1>3, <1>4

\* The steps of answering a WHO-IS.
LEMMA WhoIsStep ==
  ASSUME IInv, NEW p \in DOMAIN reader,
         \/ \E d \in Datagrams : ProcessWhoIs(p, d)
         \/ \E n \in Places : SendIam(p, n) \/ IamFails(p, n)
  PROVE  IInv'
<1> USE DEF IInv
<1>1. Places \subseteq Nat /\ UNCHANGED setup
  BY DEF TypeOK, Places, ProcessWhoIs, SendIam, IamFails
<1>2. UNCHANGED <<main, todo, devices, deviceMap, socket, Places>>
  BY <1>1 DEF setup, Places
<1>3. main' \in {"creating", "done", "failed"} /\ DOMAIN reader \subseteq Port
      /\ reader \in [DOMAIN reader -> ReaderStates]
  BY <1>2 DEF TypeOK
<1>4. ASSUME NEW d \in Datagrams, ProcessWhoIs(p, d)
      PROVE  IInv'
  <2>1. /\ p = BacnetPort /\ main = "done" /\ Become(p, "announcing")
        /\ walk' = {n \in Places : InRange(n, d.bounds)}
        /\ asked' = d.bounds /\ announced' = {} /\ unsent' = {} /\ sent' = NoMessage
        /\ reader[p] = "waiting"
    BY <1>4 DEF ProcessWhoIs, IsListener, Receive
  <2>2. IsBounds(asked')
    BY <2>1, DatagramAssumption DEF IsDatagram
  <2>3. /\ DOMAIN reader' = DOMAIN reader /\ reader' \in [DOMAIN reader' -> ReaderStates]
        /\ \A q \in DOMAIN reader : q # p => reader'[q] = reader[q]
    BY <2>1, BecomeType DEF ReaderStates
  <2>4. TypeOK' /\ Registered'
    BY <1>2, <1>3, <2>1, <2>2, <2>3, DevicesKept, MessageTypes
  <2>5. \A q \in DOMAIN reader' : reader'[q] = "announcing" => q = p
    BY <2>1, <2>3 DEF AnnouncingInv
  <2>6. {n \in Places : InRange(n, d.bounds)} = {n \in Places' : InRange(n, asked)'}
    BY <1>2, <2>1 DEF InRange, Decoded
  <2> QED
    BY <1>2, <2>1, <2>4, <2>5, <2>6 DEF AnnouncingInv
<1>5. ASSUME NEW n \in Places, SendIam(p, n)
      PROVE  IInv'
  <2>1. /\ reader' = reader /\ asked' = asked /\ n \in walk /\ walk' = walk \ {n}
        /\ \/ announced' = announced \cup {n} /\ unsent' = unsent
           \/ unsent' = unsent \cup {n} /\ announced' = announced
        /\ sent' \in {Send("I_AM", n, 0, socket[n]), NoMessage}
    BY <1>5 DEF SendIam, setup
  <2>2. sent' \in Message
    <3>1. n \in Nat /\ 0 \in Nat /\ socket[n] \in Port \cup {NoSocket}
      BY <1>1 DEF TypeOK, Places
    <3> QED
      BY <2>1, <3>1, MessageTypes
  <2>3. /\ IsBounds(asked') /\ sent' \in Message
        /\ walk' \subseteq Places /\ announced' \subseteq Places /\ unsent' \subseteq Places
    BY <1>1, <2>1, <2>2 DEF TypeOK
  <2>4. TypeOK' /\ Registered'
    BY <1>2, <1>3, <2>1, <2>3, DevicesKept
  <2>5. walk' \cup announced' \cup unsent' = walk \cup announced \cup unsent
    BY <2>1
  <2>6. {m \in Places : InRange(m, asked)} = {m \in Places' : InRange(m, asked)'}
    BY <1>2, <2>1 DEF InRange, Decoded
  <2> QED
    BY <1>2, <2>1, <2>4, <2>5, <2>6 DEF AnnouncingInv
<1>6. ASSUME NEW n \in Places, IamFails(p, n)
      PROVE  IInv'
  <2>1. /\ Become(p, "waiting") /\ reader[p] = "announcing"
        /\ walk' = {} /\ UNCHANGED <<asked, announced, unsent>> /\ sent' = NoMessage
    BY <1>6 DEF IamFails
  <2>2. /\ DOMAIN reader' = DOMAIN reader /\ reader' \in [DOMAIN reader' -> ReaderStates]
        /\ reader'[p] = "waiting" /\ \A q \in DOMAIN reader : q # p => reader'[q] = reader[q]
    BY <2>1, BecomeType DEF ReaderStates
  <2>3. announced' \subseteq Places /\ unsent' \subseteq Places /\ IsBounds(asked')
    BY <2>1 DEF TypeOK
  <2>4. TypeOK' /\ Registered'
    BY <1>2, <1>3, <2>1, <2>2, <2>3, DevicesKept, MessageTypes
  <2>5. \A q \in DOMAIN reader' : reader'[q] # "announcing"
    BY <2>1, <2>2 DEF AnnouncingInv
  <2> QED
    BY <2>4, <2>5 DEF AnnouncingInv
<1> QED
  BY <1>4, <1>5, <1>6

\* A device that a reader's controller finds is one of the list.
LEMMA FoundIsDevice ==
  ASSUME TypeOK, NEW p, NEW id
  PROVE  Found(p, id) \subseteq Places /\ Places \subseteq Nat
BY DEF TypeOK, Found, Places

LEMMA ReaderStep ==
  ASSUME IInv, NEW p \in DOMAIN reader, Step(p) \/ Arrive(p)
  PROVE  IInv'
<1> USE DEF IInv
<1>1. CASE Run(p) \/ WhoIsDone(p)
  <2>1. UNCHANGED <<setup, whoIs>> /\ sent' = NoMessage /\ Become(p, "waiting")
    BY <1>1 DEF Run, WhoIsDone
  <2> QED
    BY <2>1, QuietStep, MessageTypes
<1>2. CASE ReceiveFails(p) \/ \E d \in Datagrams : ReceiveTooMuch(p, d)
  <2>1. UNCHANGED <<setup, whoIs>> /\ sent' = NoMessage /\ Become(p, "ended")
    BY <1>2 DEF ReceiveTooMuch, ReceiveFails
  <2> QED
    BY <2>1, QuietStep, MessageTypes
<1>3. ASSUME NEW d \in Datagrams, Ignore(p, d)
      PROVE  IInv'
  <2>1. UNCHANGED <<setup, whoIs>> /\ sent' = NoMessage /\ reader' = reader
    BY <1>3 DEF Ignore
  <2> QED
    BY <2>1, QuietStep, MessageTypes
<1>4. ASSUME NEW message \in Message, SendAnswer(p, message), UNCHANGED <<setup, whoIs>>
      PROVE  IInv'
  <2>1. sent' \in Message /\ (reader' = reader \/ Become(p, "ended"))
    BY <1>4, MessageTypes DEF SendAnswer
  <2> QED
    BY <1>4, <2>1, QuietStep
<1>5. ASSUME NEW d \in Datagrams, ProcessConfirmed(p, d)
      PROVE  IInv'
  <2>1. Send("ACK", 0, 0, p) \in Message
    BY MessageTypes DEF TypeOK
  <2> QED
    BY <1>4, <1>5, <2>1 DEF ProcessConfirmed
<1>6. ASSUME NEW d \in Datagrams, ProcessReadProperty(p, d)
      PROVE  IInv'
  <2>1. PICK n \in Found(p, Target(d.device)) : SendAnswer(p, Send("ANSWER", n, d.device, p))
    BY <1>6 DEF ProcessReadProperty
  <2>2. n \in Nat /\ d.device \in Nat /\ p \in Port
    BY FoundIsDevice, DatagramAssumption DEF TypeOK, IsDatagram
  <2>3. Send("ANSWER", n, d.device, p) \in Message
    BY <2>2, MessageTypes
  <2> QED
    BY <1>4, <1>6, <2>1, <2>3 DEF ProcessReadProperty
<1> QED
  BY <1>1, <1>2, <1>3, <1>5, <1>6, WhoIsStep DEF Step, Arrive
-----------------------------------------------------------------------------
(***************************************************************************)
(* The theorems.                                                           *)
(***************************************************************************)
LEMMA StepIInv == IInv /\ [Next]_vars => IInv'
<1> SUFFICES ASSUME IInv, [Next]_vars PROVE IInv'
  OBVIOUS
<1>1. CASE Next
  BY <1>1, SetupStep, ReaderStep DEF Next
<1>2. CASE UNCHANGED vars
  <2>1. UNCHANGED <<main, todo, devices, deviceMap, socket, reader, walk, asked, announced, unsent, sent>>
    BY <1>2 DEF vars, setup, whoIs
  <2>2. main' \in {"creating", "done", "failed"} /\ DOMAIN reader' \subseteq Port
        /\ reader' \in [DOMAIN reader' -> ReaderStates]
        /\ walk' \subseteq Places /\ announced' \subseteq Places /\ unsent' \subseteq Places
        /\ IsBounds(asked') /\ sent' \in Message
    BY <2>1 DEF IInv, TypeOK
  <2>3. TypeOK' /\ Registered'
    BY <2>1, <2>2, DevicesKept DEF IInv
  <2> QED
    BY <2>1, <2>3 DEF IInv, AnnouncingInv, Places, InRange, Decoded
<1> QED
  BY <1>1, <1>2

LEMMA Invariance == Spec => []IInv
BY InitIInv, StepIInv, PTL DEF Spec

\* The list of devices, their sockets, the map by id and the reader threads agree
\* throughout, whatever start-up and whatever arrives (createDevices, bindSocket).
THEOREM TypeCorrect == Spec => []TypeOK
<1>1. IInv => TypeOK
  BY DEF IInv
<1> QED
  BY <1>1, Invariance, PTL

\* On plain bounds the controller's decoding is the meaning of the octets.
LEMMA PlainIsMeant ==
  ASSUME NEW b, IsPayload(b), Plain(b)
  PROVE  Decoded(b) = Meant(b)
BY DEF IsPayload, Plain, Decoded, Meant

LEMMA AskedIsFound ==
  ASSUME IsBounds(asked), PlainBounds(asked)
  PROVE  {n \in Places : InRange(n, asked)} = AskedFor(asked)
<1>1. CASE asked = <<>>
  BY <1>1 DEF InRange, AskedFor
<1>2. CASE asked # <<>>
  <2>1. /\ Decoded(asked[1]) = Meant(asked[1]) /\ Decoded(asked[2]) = Meant(asked[2])
    BY <1>2, PlainIsMeant DEF IsBounds, PlainBounds
  <2> QED
    BY <1>2, <2>1 DEF InRange, AskedFor, IdAt
<1> QED
  BY <1>1, <1>2

\* Whatever the devices, the other traffic and the order of the threads: with a
\* port for every device, a WHO-IS with plain bounds is answered by exactly the
\* devices it asks for (processWhoIsMessage).
THEOREM WhoIsAnswered == Spec => WhoIsComplete
<1> DEFINE AllBound == NoSocket \notin {socket[n] : n \in Places}
           Complete == WhoIsEnds /\ AllBound /\ PlainBounds(asked) => announced \cup unsent = AskedFor(asked)
<1>1. IInv /\ [Next]_vars => [Complete]_vars
  <2> SUFFICES ASSUME IInv, Next, WhoIsEnds, AllBound, PlainBounds(asked)
               PROVE  announced \cup unsent = AskedFor(asked)
    OBVIOUS
  <2>1. /\ BacnetPort \in DOMAIN reader /\ reader[BacnetPort] = "announcing"
        /\ reader'[BacnetPort] # "announcing" /\ main = "done"
        /\ walk \cup announced \cup unsent = {n \in Places : InRange(n, asked)}
    BY DEF WhoIsEnds, IInv, AnnouncingInv
  <2>2. ~(DeviceExists \/ CreateDevice \/ StartListener)
    BY <2>1 DEF DeviceExists, CreateDevice, StartListener, Creating
  <2>3. PICK p \in DOMAIN reader : Step(p) \/ Arrive(p)
    BY <2>2 DEF Next
  <2>4. reader[p] = "announcing"
    <3>1. p = BacnetPort \/ reader'[BacnetPort] = reader[BacnetPort]
      BY <2>1, <2>3
         DEF Step, Arrive, Run, WhoIsDone, SendIam, IamFails, ReceiveFails, ReceiveTooMuch,
             ProcessWhoIs, ProcessReadProperty, ProcessConfirmed, SendAnswer, Ignore, Become
    <3> QED
      BY <2>1, <3>1
  <2>5. \A n \in Places : ~SendIam(p, n)
    BY <2>1 DEF SendIam
  <2>6. \A n \in Places : ~IamFails(p, n)
    BY DEF IamFails
  <2>7. WhoIsDone(p)
    BY <2>3, <2>4, <2>5, <2>6
       DEF Step, Arrive, Run, ReceiveFails, ReceiveTooMuch, ProcessWhoIs, ProcessReadProperty,
           ProcessConfirmed, Ignore, Receive
  <2>8. IsBounds(asked)
    BY DEF IInv, TypeOK
  <2> QED
    BY <2>1, <2>7, <2>8, AskedIsFound DEF WhoIsDone
<1> QED
  BY <1>1, Invariance, PTL DEF Spec, WhoIsComplete

\* Under an id the listener knows the newest device that has it, a device's own
\* controller that device alone.
LEMMA FoundAnswers ==
  ASSUME TypeOK, Registered, NEW p \in Port, NEW id, NEW n \in Found(p, Target(id))
  PROVE  AnsweredBy(p, id, n)
<1> DEFINE target == Target(id)
<1> HIDE DEF target
<1>1. CASE IsListener(p)
  <2>1. target \in DOMAIN deviceMap /\ n = deviceMap[target]
    BY <1>1 DEF Found, target
  <2>2. n \in Places /\ IdAt(n) = target
    BY <2>1 DEF TypeOK
  <2>3. \A m \in Places : IdAt(m) = IdAt(n) => m <= n
    BY <2>1, <2>2 DEF Registered, NewestMapped
  <2> QED
    BY <1>1, <2>2, <2>3 DEF AnsweredBy, target
<1>2. CASE ~IsListener(p)
  <2>1. n \in Places /\ socket[n] = p /\ IdAt(n) = target
    BY <1>2 DEF Found, IdAt, target
  <2>2. p # NoSocket
    BY DEF Port, NoSocket
  <2>3. \A m \in Places : socket[m] = p => m = n
    BY <2>1, <2>2 DEF Registered, PortsUnique
  <2> QED
    BY <1>2, <2>1, <2>3 DEF AnsweredBy, target
<1> QED
  BY <1>1, <1>2

\* Whoever is asked for an id and answers has it: on the default port it is the newest
\* device under that id, on its own port the one device that reads it (createDevice of
\* the device factories, bindSocket, processReadProperty).
THEOREM TheRightDeviceAnswers == Spec => RightDeviceAnswers
<1> DEFINE Right == sent'.kind = "ANSWER" => AnsweredBy(sent'.port, sent'.id, sent'.device)
<1>1. IInv /\ [Next]_vars => [Right]_vars
  <2> SUFFICES ASSUME IInv, Next, sent'.kind = "ANSWER"
               PROVE  AnsweredBy(sent'.port, sent'.id, sent'.device)
    OBVIOUS
  <2>1. sent' # NoMessage /\ \A n, port : sent' # Send("I_AM", n, 0, port) /\ sent' # Send("ACK", 0, 0, port)
    BY DEF NoMessage, Send
  <2>2. ~(DeviceExists \/ CreateDevice \/ StartListener)
    BY <2>1 DEF DeviceExists, CreateDevice, StartListener
  <2>3. PICK p \in DOMAIN reader : Step(p) \/ Arrive(p)
    BY <2>2 DEF Next
  <2>4. ~Step(p) /\ ~ReceiveFails(p)
    BY <2>1 DEF Step, Run, WhoIsDone, SendIam, IamFails, ReceiveFails
  <2>5. \A d \in Datagrams : ~(ReceiveTooMuch(p, d) \/ ProcessWhoIs(p, d) \/ Ignore(p, d)
                                \/ ProcessConfirmed(p, d))
    BY <2>1 DEF ReceiveTooMuch, ProcessWhoIs, Ignore, ProcessConfirmed, SendAnswer
  <2>6. PICK d \in Datagrams : ProcessReadProperty(p, d)
    BY <2>3, <2>4, <2>5 DEF Arrive
  <2>7. PICK n \in Found(p, Target(d.device)) : sent' = Send("ANSWER", n, d.device, p)
    BY <2>1, <2>6 DEF ProcessReadProperty, SendAnswer
  <2>8. sent'.port = p /\ sent'.id = d.device /\ sent'.device = n
    BY <2>7 DEF Send
  <2>9. AnsweredBy(p, d.device, n)
    BY FoundAnswers DEF IInv, TypeOK
  <2> QED
    BY <2>8, <2>9
<1> QED
  BY <1>1, Invariance, PTL DEF Spec, RightDeviceAnswers
===============================================================================
