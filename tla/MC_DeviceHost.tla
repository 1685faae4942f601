---------------------------- MODULE MC_DeviceHost ----------------------------
(***************************************************************************)
(* Instances of DeviceHost for TLC: start-ups and datagrams.               *)
(***************************************************************************)
EXTENDS DeviceHost

Create(type, start, amount) ==
  [type |-> type, startDeviceId |-> start, amountOfDevices |-> amount, deviceIdIncrement |-> 1]

PlainSetups ==
  { <<Create("TZ320", 4, 2), Create("WATCHDOG", 300, 1)>>,
    <<Create("WATCHDOG", 200, 1), Create("FOUR_DOOR_SOLUTION", 2, 1)>> }

OnePortSetups ==
  { <<Create("TZ320", 5, 1), Create("WATCHDOG", 10005, 1), Create("TZ320", 7, 1)>> }

OddSetups ==
  { <<Create("TZ320", 5, 1), Create("WATCHDOG", 5, 1)>>,                             \* one id
    <<Create("FOUR_DOOR_SOLUTION", 36, 2), Create("FOUR_DOOR_SOLUTION", 36, 1)>>,    \* an id taken over
    <<Create("TZ320", 47808, 1)>>,                                                   \* the default port
    <<Create("TZ320", 5, 1), Create("TZ320", 70000, 1)>> }                           \* no port at all

AllSetups == PlainSetups \cup OnePortSetups \cup OddSetups

Request(service, bounds, device) ==
  [service |-> service, bounds |-> bounds, device |-> device, length |-> 17]
WhoIs(bounds) == Request("WHO_IS", bounds, 0)
Read(id)      == Request("READ_PROPERTY", <<>>, id)

Requests ==
  { WhoIs(<<>>), WhoIs(<<<<4>>, <<5>>>>), WhoIs(<<<<0>>, <<200>>>>),
    WhoIs(<<<<0, 5>>, <<1, 44>>>>), WhoIs(<<<<5>>, <<1, 17, 112>>>>),
    Read(5), Read(36), Read(WILDCARD_DEVICE_ID),
    Request("own", <<>>, 0), Request("other", <<>>, 0), Request("confirmed", <<>>, 0) }

AnyDatagram == Requests \cup {[Request("other", <<>>, 0) EXCEPT !.length = BufferSize]}
=============================================================================
