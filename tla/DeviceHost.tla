------------------------------ MODULE DeviceHost ------------------------------
(***************************************************************************)
(* The BACnet/IP side of the server: the devices, the UDP port of each,    *)
(* the thread that reads each port, and the listener on the default port,  *)
(* which answers WHO-IS for all of them.                                   *)
(*                                                                         *)
(* The main thread creates the devices one after the other.  A device asks *)
(* for a port derived from its id; when it gets it, a reader thread serves *)
(* it.  When all devices are there, the main thread opens the default port *)
(* and starts the listener, which is a reader like the others except that  *)
(* its controller knows the list of all devices.                           *)
(***************************************************************************)
EXTENDS Integers, Sequences

CONSTANTS
  Setups,      \* what the server may be told to create: sequences of descriptors
  Datagrams,   \* what may arrive at a port
  MinPort,     \* MIN_PORT of DefaultDeviceService
  BacnetPort,  \* BACNET_PORT_DEFAULT_VALUE
  BufferSize   \* octets a reader's buffer holds

DeviceTypes == {"TZ320", "WATCHDOG", "FOUR_DOOR_SOLUTION"}
Device      == [type : DeviceTypes, id : Nat]
Descriptor  == [type : DeviceTypes, startDeviceId : Nat, amountOfDevices : Nat \ {0},
                deviceIdIncrement : Nat]
MaxPort     == 65535
NoSocket    == 0
Port        == 1..MaxPort
WILDCARD_DEVICE_ID == 4194303

\* A number in a request: the one to three octets it is sent as.
IsPayload(p) == p \in Seq(0..255) /\ Len(p) \in 1..3
IsBounds(b)  == b = <<>> \/ (Len(b) = 2 /\ IsPayload(b[1]) /\ IsPayload(b[2]))

\* A datagram that comes from this host itself ("own"), one that has no answer
\* ("other": no APDU, an APDU that cannot be parsed, an I-AM or another service
\* that is only logged), or a request: a WHO-IS, which may have no bounds, a
\* READ_PROPERTY, or one of the other confirmed services that are answered
\* (READ_PROPERTY_MULTIPLE, WRITE_PROPERTY, SUBSCRIBE_COV, ...: "confirmed").
IsDatagram(d) ==
  /\ DOMAIN d = {"service", "bounds", "device", "length"}
  /\ d.service \in {"own", "other", "WHO_IS", "READ_PROPERTY", "confirmed"}
  /\ IsBounds(d.bounds) /\ d.device \in Nat /\ d.length \in Nat

ASSUME SetupAssumption    == Setups \subseteq Seq(Descriptor)
ASSUME DatagramAssumption == \A d \in Datagrams : IsDatagram(d)
ASSUME PortAssumption     == MinPort \in Port /\ BacnetPort \in Port
ASSUME SizeAssumption     == BufferSize \in Nat

VARIABLES
  main,        \* the thread that sets the server up
  todo,        \* the descriptors it has not finished
  devices,     \* DefaultDeviceService.devices
  deviceMap,   \* DefaultDeviceService.deviceMap: from an id to a place in devices
  socket,      \* the port of each device's datagramSocket, NoSocket for null
  reader,      \* the reader threads, by the port they read
  walk,        \* the devices the listener still has to announce
  asked,       \* history: the bounds of the last WHO-IS
  announced,   \* history: the devices whose I-AM it has sent in answer
  unsent,      \* history: the devices whose I-AM the network refused
  sent         \* the message sent in this step, if any

setup == <<main, todo, devices, deviceMap, socket>>
whoIs == <<walk, asked, announced, unsent>>
vars  == <<setup, reader, whoIs, sent>>

Places    == DOMAIN devices

\* A message with its sender: for the answer to a READ_PROPERTY also the id it
\* was asked for and the port that read the request, 0 where they do not matter.
Send(kind, n, id, port) == [kind |-> kind, device |-> n, id |-> id, port |-> port]
NoMessage == Send("none", 0, 0, 0)
Message   == [kind : {"none", "I_AM", "ANSWER", "ACK"}, device : Nat, id : Nat,
              port : Port \cup {0}]
-----------------------------------------------------------------------------
Init ==
  /\ main = "creating" /\ todo \in Setups
  /\ devices = <<>> /\ deviceMap = <<>> /\ socket = <<>> /\ reader = <<>>
  /\ walk = {} /\ asked = <<>> /\ announced = {} /\ unsent = {}
  /\ sent = NoMessage
-----------------------------------------------------------------------------
(***************************************************************************)
(* Setting up.  One step of createDevices() is one round of its loop.      *)
(***************************************************************************)
NextDevice == [type |-> Head(todo).type, id |-> Head(todo).startDeviceId]

RestOf(d) ==
  IF d.amountOfDevices = 1 THEN <<>>
  ELSE <<[type |-> d.type, startDeviceId |-> d.startDeviceId + d.deviceIdIncrement,
          amountOfDevices |-> d.amountOfDevices - 1, deviceIdIncrement |-> d.deviceIdIncrement]>>

Creating == main = "creating" /\ todo # <<>>

\* The factories of TZ320 and watchdog refuse an id that is taken; the four
\* door solution takes it over.
Refused(device) == device.type # "FOUR_DOOR_SOLUTION" /\ device.id \in DOMAIN deviceMap

\* "Device already exists!": the exception ends the set-up, the listener never starts.
DeviceExists ==
  /\ Creating /\ Refused(NextDevice)
  /\ main' = "failed"
  /\ UNCHANGED <<todo, devices, deviceMap, socket, reader, whoIs>> /\ sent' = NoMessage

RegisterUnmapped(device) ==   \* mutant
  devices' = Append(devices, device) /\ UNCHANGED deviceMap

RegisterIfAbsent(device) ==   \* mutant
  /\ devices' = Append(devices, device)
  /\ deviceMap' = [id \in DOMAIN deviceMap \cup {device.id} |->
                     IF id \in DOMAIN deviceMap THEN deviceMap[id] ELSE Len(devices) + 1]

Register(device) ==
  /\ devices' = Append(devices, device)
  /\ deviceMap' = [id \in DOMAIN deviceMap \cup {device.id} |->
                     IF id = device.id THEN Len(devices) + 1 ELSE deviceMap[id]]

PortOf(id) == IF id < MinPort THEN MinPort + id ELSE id

StartReader(port) == reader' = [p \in DOMAIN reader \cup {port} |->
                                  IF p = port THEN "started" ELSE reader[p]]

\* The port may be taken by a device of this server, or by any other program.
BindSocket(port) ==
  /\ port \in Port \ DOMAIN reader
  /\ socket' = Append(socket, port)
  /\ StartReader(port)
  /\ main' = main

BindException(port) ==
  /\ port \in Port
  /\ socket' = Append(socket, NoSocket)
  /\ UNCHANGED <<main, reader>>

\* No port at all: the exception is not one that createDevices() catches.
PortOutOfRange(port) ==
  /\ port \notin Port
  /\ socket' = Append(socket, NoSocket)
  /\ main' = "failed"
  /\ UNCHANGED reader

CreateDevice ==
  /\ Creating /\ ~Refused(NextDevice)
  /\ Register(NextDevice)
  /\ LET port == PortOf(NextDevice.id)
     IN  BindSocket(port) \/ BindException(port) \/ PortOutOfRange(port)
  /\ todo' = RestOf(Head(todo)) \o Tail(todo)
  /\ UNCHANGED whoIs /\ sent' = NoMessage

StartListener ==
  /\ main = "creating" /\ todo = <<>>
  /\ \/ BacnetPort \notin DOMAIN reader /\ StartReader(BacnetPort) /\ main' = "done"
     \/ main' = "failed" /\ UNCHANGED reader
  /\ UNCHANGED <<todo, devices, deviceMap, socket, whoIs>> /\ sent' = NoMessage
-----------------------------------------------------------------------------
(***************************************************************************)
(* A reader thread.                                                        *)
(***************************************************************************)
Become(p, state) == reader' = [reader EXCEPT ![p] = state]

Run(p) ==
  /\ reader[p] = "started"
  /\ Become(p, "waiting")
  /\ UNCHANGED <<setup, whoIs>> /\ sent' = NoMessage

IsListener(p) == p = BacnetPort /\ main = "done"

TooLong(d) == d.length >= BufferSize

\* The exception is thrown before the try block: it ends the thread.
ReceiveTooMuch(p, d) ==
  /\ reader[p] = "waiting" /\ TooLong(d)
  /\ Become(p, "ended")
  /\ UNCHANGED <<setup, whoIs>> /\ sent' = NoMessage

\* So does an IOException of receive(), or of looking up the local address.
ReceiveFails(p) ==
  /\ reader[p] = "waiting"
  /\ Become(p, "ended")
  /\ UNCHANGED <<setup, whoIs>> /\ sent' = NoMessage

Receive(p, d) == reader[p] = "waiting" /\ ~TooLong(d)

\* The numbers the controller makes of the octets of a bound: one octet is a
\* signed byte, of more octets it takes the first two.
Decoded(payload) ==
  IF Len(payload) = 1
  THEN IF payload[1] < 128 THEN payload[1] ELSE payload[1] - 256
  ELSE 256 * payload[1] + payload[2]

InRangeStrictly(n, bounds) ==   \* mutant
  bounds = <<>> \/ (Decoded(bounds[1]) <= devices[n].id /\ devices[n].id < Decoded(bounds[2]))

InRange(n, bounds) ==
  bounds = <<>> \/ (Decoded(bounds[1]) <= devices[n].id /\ devices[n].id <= Decoded(bounds[2]))

\* Only the listener's controller has a list of devices.
ProcessWhoIs(p, d) ==
  /\ Receive(p, d) /\ d.service = "WHO_IS"
  /\ IsListener(p)
  /\ Become(p, "announcing")
  /\ walk' = {n \in Places : InRange(n, d.bounds)}
  /\ asked' = d.bounds /\ announced' = {} /\ unsent' = {}
  /\ UNCHANGED setup /\ sent' = NoMessage

\* The next device is announced from its own socket.  An IOException is caught
\* for that device alone.  (broadcastMessage() would also throw if the message's
\* length were not the one it states, but an I-AM states what it is made of.)
SendIam(p, n) ==
  /\ reader[p] = "announcing"
  /\ n \in walk /\ \A m \in walk : n <= m
  /\ socket[n] # NoSocket
  /\ walk' = walk \ {n}
  /\ \/ announced' = announced \cup {n} /\ sent' = Send("I_AM", n, 0, socket[n]) /\ unsent' = unsent
     \/ unsent' = unsent \cup {n} /\ sent' = NoMessage /\ announced' = announced
  /\ UNCHANGED <<setup, reader, asked>>

IamFailsForGood(p, n) ==   \* mutant
  /\ reader[p] = "announcing"
  /\ n \in walk /\ socket[n] = NoSocket
  /\ walk' = {}
  /\ Become(p, "ended")
  /\ UNCHANGED <<setup, asked, announced, unsent>> /\ sent' = NoMessage

\* Without a socket the NullPointerException gives up the devices that follow;
\* the reader catches it.
IamFails(p, n) ==
  /\ reader[p] = "announcing"
  /\ n \in walk /\ \A m \in walk : n <= m
  /\ socket[n] = NoSocket
  /\ walk' = {}
  /\ Become(p, "waiting")
  /\ UNCHANGED <<setup, asked, announced, unsent>> /\ sent' = NoMessage

\* processWhoIsMessage() returns null: the I-AMs are all there is to send, and the
\* reader goes back to receiving.
WhoIsDone(p) ==
  /\ reader[p] = "announcing" /\ walk = {}
  /\ Become(p, "waiting")
  /\ UNCHANGED <<setup, whoIs>> /\ sent' = NoMessage

Target(id) == IF id = WILDCARD_DEVICE_ID THEN 2 ELSE id

\* The device that a reader's controller has under an id: a device's own
\* controller knows that device, the listener's knows them all.
Found(p, id) ==
  IF IsListener(p) THEN {deviceMap[i] : i \in DOMAIN deviceMap \cap {id}}
  ELSE {n \in Places : socket[n] = p /\ devices[n].id = id}

\* The answer goes out behind the try block, where only an IOException is caught.
\* An answer that cannot be put into octets ends the thread: pointToPointMessage()
\* throws when the octets do not fit or have not the stated length, as when a
\* property was written while it was read.
SendAnswer(p, message) ==
  \/ sent' \in {message, NoMessage} /\ reader' = reader
  \/ sent' = NoMessage /\ Become(p, "ended")

\* The answer of the device, if the controller does not throw.
ProcessReadProperty(p, d) ==
  /\ Receive(p, d) /\ d.service = "READ_PROPERTY"
  /\ \E n \in Found(p, Target(d.device)) : SendAnswer(p, Send("ANSWER", n, d.device, p))
  /\ UNCHANGED <<setup, whoIs>>

\* The other requests that are answered, likewise.
ProcessConfirmed(p, d) ==
  /\ Receive(p, d) /\ d.service = "confirmed"
  /\ SendAnswer(p, Send("ACK", 0, 0, p))
  /\ UNCHANGED <<setup, whoIs>>

\* Everything that gets no answer, requests this reader cannot serve included.
Ignore(p, d) ==
  /\ Receive(p, d)
  /\ \/ d.service \in {"own", "other"}
     \/ d.service = "WHO_IS" /\ ~IsListener(p)
     \/ d.service = "READ_PROPERTY" /\ Found(p, Target(d.device)) = {}
  /\ UNCHANGED <<setup, reader, whoIs>> /\ sent' = NoMessage
-----------------------------------------------------------------------------
Step(p) ==
  \/ Run(p) \/ WhoIsDone(p)
  \/ \E n \in Places : SendIam(p, n) \/ IamFails(p, n)

Arrive(p) ==
  \/ ReceiveFails(p)
  \/ \E d \in Datagrams : \/ ReceiveTooMuch(p, d) \/ ProcessWhoIs(p, d) \/ Ignore(p, d)
                          \/ ProcessReadProperty(p, d) \/ ProcessConfirmed(p, d)

Next ==
  \/ DeviceExists \/ CreateDevice \/ StartListener
  \/ \E p \in DOMAIN reader : Step(p) \/ Arrive(p)

Spec == Init /\ [][Next]_vars

IdsOf(d)    == {d.startDeviceId + k * d.deviceIdIncrement : k \in 0..(d.amountOfDevices - 1)}
ServerPorts == {BacnetPort} \cup
               {PortOf(id) : id \in UNION {UNION {IdsOf(s[k]) : k \in DOMAIN s} : s \in Setups}}

\* A thread that is not blocked in receive() goes on.
FairSpec == Spec /\ \A p \in ServerPorts : WF_vars(p \in DOMAIN reader /\ Step(p))
-----------------------------------------------------------------------------
(***************************************************************************)
(* Properties.                                                             *)
(***************************************************************************)
ReaderStates == {"started", "waiting", "announcing", "ended"}
IdAt(n)      == devices[n].id

\* Types.  The list of devices, their sockets and the map by id agree: a place for
\* every id, an id for every place, and a reader thread on every port in use.
TypeOK ==
  /\ main \in {"creating", "done", "failed"} /\ todo \in Seq(Descriptor)
  /\ devices \in Seq(Device)
  /\ socket \in Seq(Port \cup {NoSocket}) /\ Len(socket) = Len(devices)
  /\ DOMAIN deviceMap = {IdAt(n) : n \in Places}
  /\ \A id \in DOMAIN deviceMap : deviceMap[id] \in Places /\ IdAt(deviceMap[id]) = id
  /\ DOMAIN reader \subseteq Port /\ reader \in [DOMAIN reader -> ReaderStates]
  /\ \A n \in Places : socket[n] # NoSocket => socket[n] \in DOMAIN reader
  /\ walk \subseteq Places /\ announced \subseteq Places /\ unsent \subseteq Places
  /\ IsBounds(asked)
  /\ sent \in Message

\* The number a bound's octets stand for, the highest octet first.
Meant(payload) ==
  CASE Len(payload) = 1 -> payload[1]
    [] Len(payload) = 2 -> 256 * payload[1] + payload[2]
    [] Len(payload) = 3 -> 65536 * payload[1] + 256 * payload[2] + payload[3]

\* The devices a WHO-IS with these bounds asks for.
AskedFor(bounds) ==
  {n \in Places : bounds = <<>> \/ (Meant(bounds[1]) <= IdAt(n) /\ IdAt(n) <= Meant(bounds[2]))}

\* Bounds the controller reads as they are meant.
Plain(payload)   == (Len(payload) = 1 /\ payload[1] < 128) \/ Len(payload) = 2
PlainBounds(bounds) == bounds = <<>> \/ (Plain(bounds[1]) /\ Plain(bounds[2]))

WhoIsEnds ==
  /\ BacnetPort \in DOMAIN reader
  /\ reader[BacnetPort] = "announcing" /\ reader'[BacnetPort] # "announcing"

\* If every device got its port and the bounds are plain, a WHO-IS is answered by
\* exactly the devices it asks for (save those whose I-AM the network refused),
\* whatever else arrives meanwhile (processWhoIsMessage, filterDevices).
WhoIsComplete ==
  [][WhoIsEnds /\ NoSocket \notin {socket[n] : n \in Places} /\ PlainBounds(asked)
       => announced \cup unsent = AskedFor(asked)]_vars

\* Who reads an id is answered by a device that has it: on the default port by the
\* newest one (a four door solution takes over an id that is taken), on a device's
\* own port, where its I-AMs come from, by that device and no other, also after its
\* id was taken over and the newer device got no port (createDevice of the device
\* factories, bindSocket, processReadProperty).
AnsweredBy(p, id, n) ==
  /\ n \in Places /\ IdAt(n) = Target(id)
  /\ IsListener(p) => \A m \in Places : IdAt(m) = IdAt(n) => m <= n
  /\ ~IsListener(p) => {m \in Places : socket[m] = p} = {n}
RightDeviceAnswers ==
  [][sent'.kind = "ANSWER" => AnsweredBy(sent'.port, sent'.id, sent'.device)]_vars

\* Every reader gets to receiving and comes back to it after every WHO-IS, also when
\* an I-AM throws, an IOException or a NullPointerException: what the controller does
\* is inside the try block of runBroadCastListener, and ends no reader.
ReadersReturn ==
  \A p \in ServerPorts :
    (p \in DOMAIN reader /\ reader[p] \in {"started", "announcing"})
      ~> (p \in DOMAIN reader /\ reader[p] = "waiting")

\* src/README.md: the server "waits for BACnet WHO-IS messages to which all
\* simulated devices will answer with their respective I-AM response", given that
\* no other program has the port of a device: one without a socket asked for a port
\* that an earlier device had.  Violated by the ports createDevices picks, for PortOf
\* is not injective.
OnlyOwnPorts ==
  \A n \in Places : socket[n] = NoSocket => \E m \in Places : m < n /\ socket[m] = PortOf(IdAt(n))
AllDevicesAnswer ==
  [][WhoIsEnds /\ asked = <<>> /\ OnlyOwnPorts /\ unsent = {} => announced = Places]_vars
===============================================================================
