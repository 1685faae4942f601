---------------------------- MODULE ReadMultiple ----------------------------
(***************************************************************************)
(* How a device answers READ_PROPERTY_MULTIPLE: it walks over the list of  *)
(* service parameters with two cursors.  The outer loop looks at every     *)
(* parameter and starts the inner one, processDevice, at each object; the  *)
(* inner loop has an index of its own, which it hands on to the next call. *)
(* Nothing else ties the two together.  Of what is asked for only the      *)
(* first octet is looked at, and meanwhile other threads write over the    *)
(* values that are read.                                                   *)
(***************************************************************************)
EXTENDS Integers, Sequences, SequencesExt

CONSTANTS
    Object, Key,    \* object identifiers and the keys of properties
    Payload,        \* what stands in a request where a property is named, first octet first
    Properties,     \* for each object the device knows, its properties in the map's order
    Written,        \* the objects and keys whose values other threads write over
    Requests        \* the lists of parameters the parser produces

Octet   == 0..255
All     == 8        \* the key that stands for all properties
Restart == 203      \* TIME_OF_DEVICE_RESTART

Known == DOMAIN Properties

ObjectParameter(o)   == [kind |-> "object", object |-> o]
KeyParameter(octets) == [kind |-> "key", payload |-> octets]
Opening              == [kind |-> "opening"]  \* of any tag number
Closing              == [kind |-> "closing"]  \* of any tag number
NoPayload            == [kind |-> "empty"]

IsObject(p) == p.kind = "object"

\* Of an identifier or an index the first octet is taken for the key, whatever follows.
DevicePropertyKey(p) == p.payload[1]

Parameter == {ObjectParameter(o) : o \in Object} \cup {KeyParameter(b) : b \in Payload}
             \cup {Opening, Closing, NoPayload}

ASSUME ObjectAssumption == Object # {}
ASSUME KeyAssumption == Key \subseteq Nat
ASSUME PayloadAssumption == \A b \in Payload : b \in Seq(Octet) /\ Len(b) > 0
ASSUME PropertiesAssumption ==
    /\ Known \subseteq Object
    /\ \A o \in Known : Properties[o] \in Seq(Key)
ASSUME WrittenAssumption == Written \subseteq Known \X Key

\* What the parser hands over is empty or starts with an object.
ASSUME RequestsAssumption ==
    \A r \in Requests : r \in Seq(Parameter) /\ (Len(r) > 0 => IsObject(r[1]))

VARIABLES
    request,        \* the service parameters, numbered from 1
    at,             \* the parameter the outer loop has reached
    pc,             \* "outer", "inner", "answered", or "failed" by an exception
    target,         \* the object processDevice was called for
    index,          \* its index, from 0, as processDevice keeps and returns it
    within,         \* withinRequestedProperties
    answer,         \* the service parameters of the answer
    unreadable      \* the properties whose values cannot be converted as they are now

walk == <<request, at, pc, target, index, within, answer>>
vars == <<request, at, pc, target, index, within, answer, unreadable>>

-----------------------------------------------------------------------------
(* The parts of the answer                                                 *)

Open(n)     == [kind |-> "opening", tag |-> n]
Close(n)    == [kind |-> "closing", tag |-> n]
Value(o, k) == [kind |-> "value", object |-> o, key |-> k]
RestartDate == [kind |-> "date"]
RestartTime == [kind |-> "time"]
UnknownProperty == [kind |-> "error"]  \* class and code

Header(o) == <<ObjectParameter(o), Open(1)>>
Trailer   == <<Close(1)>>

\* A key goes out as one octet, and comes back as another key if it needs two.
PropertyIdentifier(k) == KeyParameter(<<k % 256>>)

AddPropertyValue(o, k) == <<PropertyIdentifier(k), Open(4), Value(o, k), Close(4)>>

RestartTimestamp ==
    <<PropertyIdentifier(Restart), Open(4), Open(2), RestartDate, RestartTime, Close(2), Close(4)>>

PropertyError(k) == <<PropertyIdentifier(k), Open(5), UnknownProperty, Close(5)>>

AllProperties(o) ==
    FlattenSeq([i \in DOMAIN Properties[o] |-> AddPropertyValue(o, Properties[o][i])])

Has(o, k) == \E i \in DOMAIN Properties[o] : Properties[o][i] = k

\* A restart time the object does not have is passed over, any other such property
\* is reported.
Read(o, k) ==
    IF k = All THEN AllProperties(o)
    ELSE IF k = Restart THEN IF Has(o, k) THEN RestartTimestamp ELSE <<>>
    ELSE IF Has(o, k) THEN AddPropertyValue(o, k) ELSE PropertyError(k)

\* The properties whose values are converted for that: the restart time of its own is not.
Converted(o, k) ==
    IF k = All THEN {<<o, Properties[o][i]>> : i \in DOMAIN Properties[o]}
    ELSE IF k # Restart /\ Has(o, k) THEN {<<o, k>>} ELSE {}

\* All properties of no object are a NullPointerException, a value of a Java type that
\* its message type does not expect is a ClassCastException.
NoneToRead(o, k) == o \notin Known /\ k = All
Throws(o, k)     == o \in Known /\ Converted(o, k) \cap unreadable # {}

-----------------------------------------------------------------------------
(* processReadPropertyMultiple: the outer loop                             *)

Init ==
    /\ request \in Requests
    /\ at = 1 /\ pc = "outer" /\ index = 0
    /\ target = (CHOOSE o \in Object : TRUE) /\ within = FALSE /\ answer = <<>>
    /\ unreadable \in SUBSET Written

\* A parameter that is no object: processDevice has seen to it.
NextParameter ==
    /\ pc = "outer" /\ at \in DOMAIN request /\ ~IsObject(request[at])
    /\ at' = at + 1
    /\ UNCHANGED <<request, pc, target, index, within, answer, unreadable>>

ProcessDeviceInPlace ==  \* mutant
    /\ pc = "outer" /\ at \in DOMAIN request /\ IsObject(request[at])
    /\ pc' = "inner" /\ target' = request[at].object
    /\ index' = index /\ within' = FALSE
    /\ answer' = IF target' \in Known THEN answer \o Header(target') ELSE answer
    /\ UNCHANGED <<request, at, unreadable>>

\* processDevice is called with the index the last call returned.
ProcessDevice ==
    /\ pc = "outer" /\ at \in DOMAIN request /\ IsObject(request[at])
    /\ pc' = "inner" /\ target' = request[at].object
    /\ index' = index + 1 /\ within' = FALSE
    /\ answer' = IF target' \in Known THEN answer \o Header(target') ELSE answer
    /\ UNCHANGED <<request, at, unreadable>>

SendAnswer ==
    /\ pc = "outer" /\ at > Len(request)
    /\ pc' = "answered"
    /\ UNCHANGED <<request, at, target, index, within, answer, unreadable>>

-----------------------------------------------------------------------------
(* processDevice: the inner loop                                           *)

ParameterIs(kinds) ==
    pc = "inner" /\ index < Len(request) /\ request[index + 1].kind \in kinds

BracketForgotten ==  \* mutant
    /\ ParameterIs({"opening", "closing"})
    /\ within' = TRUE /\ index' = index + 1
    /\ UNCHANGED <<request, at, pc, target, answer, unreadable>>

Bracket ==
    /\ ParameterIs({"opening", "closing"})
    /\ within' = (request[index + 1].kind = "opening") /\ index' = index + 1
    /\ UNCHANGED <<request, at, pc, target, answer, unreadable>>

SkipInPlace ==  \* mutant
    /\ ParameterIs({"key", "empty"}) /\ ~within
    /\ UNCHANGED vars

\* Nothing is read outside of brackets.
Skip ==
    /\ ParameterIs({"key", "empty"}) /\ ~within
    /\ index' = index + 1
    /\ UNCHANGED <<request, at, pc, target, within, answer, unreadable>>

ReadProperty ==
    /\ ParameterIs({"key"}) /\ within
    /\ LET k == DevicePropertyKey(request[index + 1]) IN
         /\ ~NoneToRead(target, k) /\ ~Throws(target, k)
         /\ answer' = IF target \in Known THEN answer \o Read(target, k) ELSE answer
    /\ index' = index + 1
    /\ UNCHANGED <<request, at, pc, target, within, unreadable>>

FailOnUnknown ==  \* mutant
    /\ ParameterIs({"key", "empty"}) /\ within
    /\ \/ request[index + 1].kind = "empty"
       \/ target \notin Known
    /\ pc' = "failed" /\ index' = index + 1
    /\ UNCHANGED <<request, at, target, within, answer, unreadable>>

\* The first octet of no payload, the properties of no object, or a value that cannot be
\* converted: the exception ends the walk, and the reader drops the request.
Fail ==
    /\ ParameterIs({"key", "empty"}) /\ within
    /\ \/ request[index + 1].kind = "empty"
       \/ LET k == DevicePropertyKey(request[index + 1]) IN
            ParameterIs({"key"}) /\ (NoneToRead(target, k) \/ Throws(target, k))
    /\ pc' = "failed" /\ index' = index + 1
    /\ UNCHANGED <<request, at, target, within, answer, unreadable>>

ReturnPast ==  \* mutant
    /\ pc = "inner" /\ (index < Len(request) => ParameterIs({"object"}))
    /\ pc' = "outer" /\ at' = at + 1 /\ index' = index + 1
    /\ answer' = IF target \in Known THEN answer \o Trailer ELSE answer
    /\ UNCHANGED <<request, target, within, unreadable>>

\* At the next object or the end of the list, back to the outer loop
Return ==
    /\ pc = "inner" /\ (index < Len(request) => ParameterIs({"object"}))
    /\ pc' = "outer" /\ at' = at + 1
    /\ answer' = IF target \in Known THEN answer \o Trailer ELSE answer
    /\ UNCHANGED <<request, target, index, within, unreadable>>

Walk ==
    \/ NextParameter \/ ProcessDevice \/ SendAnswer
    \/ Bracket \/ Skip \/ ReadProperty \/ Fail \/ Return

\* Another thread writes a property's value: it can be converted or not, and a write
\* between the two looks that one conversion takes at the value spoils that one only.
\* What is written once the walk is over is left out.
Write ==
    /\ pc \in {"outer", "inner"}
    /\ \E w \in Written : unreadable' \in {unreadable \cup {w}, unreadable \ {w}}
    /\ UNCHANGED walk

Next == Walk \/ Write

Spec == Init /\ [][Next]_vars

\* The reader thread goes on until the request is answered or dropped.
LiveSpec == Spec /\ WF_vars(Walk)

-----------------------------------------------------------------------------
(* Properties                                                              *)

CutKey == {KeyParameter(<<b>>) : b \in Octet}

Token ==
    Parameter \cup {RestartDate, RestartTime, UnknownProperty}
    \cup {Open(n) : n \in {1, 2, 4, 5}} \cup {Close(n) : n \in {1, 2, 4, 5}}
    \cup {Value(o, k) : o \in Object, k \in Key} \cup CutKey

\* Every variable has its type, and neither cursor leaves the list by more than one.
TypeOK ==
    /\ request \in Seq(Parameter)
    /\ at \in 1..Len(request) + 1 /\ index \in 0..Len(request)
    /\ pc \in {"outer", "inner", "answered", "failed"}
    /\ target \in Object /\ within \in BOOLEAN /\ answer \in Seq(Token)
    /\ unreadable \subseteq Written

\* No parameter from the first position up to the last is an object.
NoObject(first, last) ==
    \A i \in first..last : i \in DOMAIN request => ~IsObject(request[i])

\* The two cursors never drift apart: whenever the outer loop stands at an object, the
\* index that is handed on is that object's, and until processDevice is done nothing
\* between its object and its index belongs to another one
\* (DefaultMessageController.java:807-815, 911-921).
IndexAtObject ==
    /\ pc = "outer" /\ at \in DOMAIN request /\ IsObject(request[at]) => index = at - 1
    /\ pc = "inner" => IsObject(request[at]) /\ NoObject(at + 1, index)

\* What a request asks of position i: it belongs to the last object before it, and is
\* read if the last bracket since that object is an opening one.
LastOf(r, kinds, i) ==
    LET P == {j \in 1..i : r[j].kind \in kinds} IN
    IF P = {} THEN 0 ELSE CHOOSE j \in P : \A k \in P : k <= j

Owner(r, i)  == r[LastOf(r, {"object"}, i)].object
Opened(r, i) == LET b == LastOf(r, {"object", "opening", "closing"}, i) IN
                b > 0 /\ r[b].kind = "opening"
Asked(r, i)  == r[i].kind \in {"key", "empty"} /\ Opened(r, i)

Result(r, i) ==
    IF Owner(r, i) \notin Known THEN <<>>
    ELSE (IF IsObject(r[i]) THEN Header(Owner(r, i))
          ELSE IF Asked(r, i) THEN Read(Owner(r, i), DevicePropertyKey(r[i])) ELSE <<>>)
         \o (IF i = Len(r) \/ IsObject(r[i + 1]) THEN Trailer ELSE <<>>)

\* An answer holds, for every object asked for that the device knows and in the order of
\* the request, the result for each first octet within brackets taken as a key, each
\* object's results in one pair of brackets, and nothing else; for objects the device
\* does not know there is no trace in it (DefaultMessageController.java:864-1160).  It
\* is complete for the keys as the device reads them and cuts them: a client that asks
\* for key 371 gets the result for key 1, and is told of 371 under key 115.
AnswerIsComplete ==
    pc = "answered" => answer = FlattenSeq([i \in DOMAIN request |-> Result(request, i)])

\* What no state of the device has an answer to
Unanswerable(r, i) ==
    /\ Asked(r, i)
    /\ r[i].kind = "empty" \/ NoneToRead(Owner(r, i), DevicePropertyKey(r[i]))

\* The answer to a whole request is lost only where it asks for something that cannot be
\* answered: for a property without a key or for all properties of an object the device
\* does not know, and that at the first such place, or for a value that cannot be
\* converted at that time (DefaultMessageController.java:942-952, 1148).
FailsOnlyWhereAsked ==
    pc = "failed" =>
        /\ \/ Unanswerable(request, index)
           \/ /\ Asked(request, index) /\ request[index].kind = "key"
              /\ Throws(Owner(request, index), DevicePropertyKey(request[index]))
        /\ \A i \in 1..index - 1 : ~Unanswerable(request, i)

\* Every request comes to its end, whatever is written meanwhile, so the reader takes
\* the next datagram
\* (DefaultMessageController.java:913-921).
WalkEnds == <>(pc \in {"answered", "failed"})
=============================================================================
