---------------------------- MODULE MC_DoorServer ----------------------------
(***************************************************************************)
(* Instances of DoorServer for TLC.  Each run picks the writes its clients *)
(* make and the objects they watch.                                        *)
(***************************************************************************)
EXTENDS DoorServer, TLC

CONSTANTS c1, c2, w1

Clients == {c1, c2}
Symmetry == Permutations(Clients)

NoWrites    == {}
Commands    == {<<"command", 2>>, <<"command", 3>>, <<"command", 4>>}
AlarmWrite  == {<<"alarm", 2>>}
DoorRequest == {<<"door", Int32(1)>>}   \* the example of DeviceResource.java

StateAndDoor     == {<<"state", 4>>, <<"door", 0>>}
CommandsAndAlarm == Commands \cup AlarmWrite

RestRequests      == {<<"state", Int32(6)>>, <<"command", Int32(2)>>, <<"command", Int32(3)>>}
UntypedRequests   == DoorRequest \cup {<<"command", Other(3)>>}

Nothing   == {}
OnlyState == {"state"}
OnlyAlarm == {"alarm"}
DoorState == {"door", "state"}
=============================================================================
