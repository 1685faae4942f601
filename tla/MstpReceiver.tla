---------------------------- MODULE MstpReceiver ----------------------------
(***************************************************************************)
(* The MS/TP receive state machine, DefaultStateMachine.input(), with the  *)
(* header it fills (Header.java) and the read loop of Main that feeds it   *)
(* one octet at a time.                                                    *)
(*                                                                         *)
(* Every action is one call of input(): one case of its switch.  A Java    *)
(* exception that leaves input() ends the loop in Main, so receiver says   *)
(* whether the loop still runs and, if not, what ended it.                 *)
(***************************************************************************)
EXTENDS Integers, Sequences

CONSTANTS
    Octet,             \* the octets that can arrive on the line
    HeaderCRC(_),      \* the octet that protects the five header octets
    DataCRC(_),        \* the pair of octets that protects a payload
    HeaderBufferLen,   \* size of the debug buffer headerBuffer: 100
    PAYLOAD_BUFFER_LENGTH  \* size of payloadBuffer: 1024 * 5

PREAMBLE_1 == 85    \* 0x55
PREAMBLE_2 == 255   \* 0xFF
HeaderLen  == 5     \* octets of a header without its CRC

ASSUME OctetAssumption  == Octet \subseteq 0..255
ASSUME BufferAssumption == /\ HeaderBufferLen \in Nat /\ HeaderBufferLen > HeaderLen
                           /\ PAYLOAD_BUFFER_LENGTH \in Nat \ {0}

VARIABLES
    octet,              \* the octet read in this step, -1 at the end of the stream
    state,              \* the state of the machine
    header,             \* the octets Header.input() has taken so far
    payload,            \* the first payloadDataRead octets of payloadBuffer
    dataCRC1,           \* the first data CRC octet, -1 when none was read
    headerBufferIndex,  \* the next free place of the debug buffer
    receiver,           \* "running", or why the loop in Main has ended
    indicated           \* <<f>> in the step that calls messageListener.message(f)

vars == <<octet, state, header, payload, dataCRC1, headerBufferIndex, receiver, indicated>>

State    == {"IDLE", "PREAMBLE", "HEADER", "HEADER_CRC", "DATA", "DATA_CRC"}
Receiver == {"running", "endOfStream", "debugOverflow", "payloadOverflow", "listenerFailed"}

PayloadLen(h) == 256 * h[4] + h[5]

Frame == [header : Seq(Octet), payload : Seq(Octet)]

TypeOK ==
    /\ octet \in Octet \cup {-1}
    /\ state \in State
    /\ header \in Seq(Octet)
    /\ payload \in Seq(Octet)
    /\ dataCRC1 \in Octet \cup {-1}
    /\ headerBufferIndex \in 0..HeaderBufferLen
    /\ receiver \in Receiver
    /\ indicated \in Seq(Frame)

Init ==
    /\ octet = -1
    /\ state = "IDLE"
    /\ header = <<>> /\ payload = <<>> /\ dataCRC1 = -1
    /\ headerBufferIndex = 0
    /\ receiver = "running"
    /\ indicated = <<>>

(***************************************************************************)
(* reset() forgets the frame under reception; backToIdle() also hunts for  *)
(* the next preamble.                                                      *)
(***************************************************************************)
Reset(index) ==
    /\ header' = <<>> /\ payload' = <<>> /\ dataCRC1' = -1
    /\ headerBufferIndex' = index

BackToIdleKeeping == state' = "IDLE" /\ UNCHANGED <<header, payload, dataCRC1, headerBufferIndex>>  \* mutant

BackToIdle == state' = "IDLE" /\ Reset(0)

DropFrameStaying ==  \* mutant
    /\ indicated' = <<>>
    /\ UNCHANGED <<state, header, payload, dataCRC1, headerBufferIndex, receiver>>

DropFrame == BackToIdle /\ indicated' = <<>> /\ UNCHANGED receiver

(***************************************************************************)
(* The write "DEBUG headerBuffer[headerBufferIndex] = data" of the cases   *)
(* IDLE and HEADER.  It comes last, so when it throws, the rest of the     *)
(* case has already happened.                                              *)
(***************************************************************************)
DebugUnchecked == headerBufferIndex' = headerBufferIndex + 1 /\ UNCHANGED receiver  \* mutant

Debug ==
    \/ /\ headerBufferIndex < HeaderBufferLen
       /\ headerBufferIndex' = headerBufferIndex + 1
       /\ UNCHANGED receiver
    \/ /\ headerBufferIndex = HeaderBufferLen
       /\ receiver' = "debugOverflow"
       /\ UNCHANGED headerBufferIndex

Idle(data) ==
    /\ state = "IDLE"
    /\ state' = IF data = PREAMBLE_1 THEN "PREAMBLE" ELSE "IDLE"
    /\ Debug
    /\ indicated' = <<>>
    /\ UNCHANGED <<header, payload, dataCRC1>>

(***************************************************************************)
(* Only the second preamble octet resets the debug index: noise that       *)
(* starts like a preamble does not.                                        *)
(***************************************************************************)
Preamble(data) ==
    /\ state = "PREAMBLE"
    /\ \/ data = PREAMBLE_1 /\ UNCHANGED <<state, header, payload, dataCRC1, headerBufferIndex>>
       \/ data = PREAMBLE_2 /\ state' = "HEADER" /\ Reset(1)
       \/ /\ data \notin {PREAMBLE_1, PREAMBLE_2}
          /\ state' = "IDLE"
          /\ UNCHANGED <<header, payload, dataCRC1, headerBufferIndex>>
    /\ indicated' = <<>>
    /\ UNCHANGED receiver

(***************************************************************************)
(* Header.input() takes the octet; Header.done() after the fifth.          *)
(***************************************************************************)
HeaderOctet(data) ==
    /\ state = "HEADER"
    /\ header' = Append(header, data)
    /\ state' = IF Len(header) + 1 = HeaderLen THEN "HEADER_CRC" ELSE "HEADER"
    /\ Debug
    /\ indicated' = <<>>
    /\ UNCHANGED <<payload, dataCRC1>>

(***************************************************************************)
(* messageListener.message(header, payloadBuffer, payloadDataRead).  When  *)
(* it returns, the machine goes back to IDLE; when it throws, the call of  *)
(* backToIdle() behind it is skipped and the loop in Main ends.            *)
(***************************************************************************)
IndicateMessageFinally ==  \* mutant
    /\ indicated' = <<[header |-> header, payload |-> payload]>>
    /\ receiver' \in {"running", "listenerFailed"} /\ BackToIdle

IndicateMessage ==
    /\ indicated' = <<[header |-> header, payload |-> payload]>>
    /\ \/ BackToIdle /\ UNCHANGED receiver
       \/ /\ receiver' = "listenerFailed"
          /\ UNCHANGED <<state, header, payload, dataCRC1, headerBufferIndex>>

HeaderUnchecked(crc) == TRUE  \* mutant

CheckCRC(crc) == crc = HeaderCRC(header)

HeaderCrcOctet(data) ==
    /\ state = "HEADER_CRC"
    /\ \/ ~CheckCRC(data) /\ DropFrame
       \/ CheckCRC(data) /\ PayloadLen(header) = 0 /\ IndicateMessage
       \/ /\ CheckCRC(data) /\ PayloadLen(header) # 0
          /\ state' = "DATA"
          /\ indicated' = <<>>
          /\ UNCHANGED <<header, payload, dataCRC1, headerBufferIndex, receiver>>

PayloadDoneEarly == Len(payload) + 1 = PayloadLen(header)  \* mutant

PayloadDone == Len(payload) = PayloadLen(header)

DataOctet(data) ==
    /\ state = "DATA"
    /\ indicated' = <<>>
    /\ \/ /\ PayloadDone
          /\ dataCRC1' = data /\ state' = "DATA_CRC"
          /\ UNCHANGED <<payload, receiver>>
       \/ /\ ~PayloadDone /\ Len(payload) = PAYLOAD_BUFFER_LENGTH
          /\ receiver' = "payloadOverflow"
          /\ UNCHANGED <<state, payload, dataCRC1>>
       \/ /\ ~PayloadDone /\ Len(payload) # PAYLOAD_BUFFER_LENGTH
          /\ payload' = Append(payload, data)
          /\ UNCHANGED <<state, dataCRC1, receiver>>
    /\ UNCHANGED <<header, headerBufferIndex>>

CheckDataCRC(dataCRC2) ==
    dataCRC1 = DataCRC(payload)[1] /\ dataCRC2 = DataCRC(payload)[2]

DataCrcOctet(data) ==
    /\ state = "DATA_CRC"
    /\ \/ ~CheckDataCRC(data) /\ DropFrame
       \/ CheckDataCRC(data) /\ IndicateMessage

Input(data) ==
    \/ Idle(data)       \/ Preamble(data)       \/ HeaderOctet(data)
    \/ HeaderCrcOctet(data) \/ DataOctet(data)  \/ DataCrcOctet(data)

(***************************************************************************)
(* One turn of the loop in Main: an octet is read and handed to input(),   *)
(* or the stream has ended.                                                *)
(***************************************************************************)
Read == /\ receiver = "running"
        /\ \E data \in Octet : octet' = data /\ Input(data)

EndOfStream ==
    /\ receiver = "running"
    /\ receiver' = "endOfStream"
    /\ octet' = -1
    /\ indicated' = <<>>
    /\ UNCHANGED <<state, header, payload, dataCRC1, headerBufferIndex>>

Next == Read \/ EndOfStream

Spec == Init /\ [][Next]_vars

(***************************************************************************)
(* Fairness: traffic on an MS/TP segment never ceases (the token is passed *)
(* or polled for all the time), and the loop calls input() for each octet. *)
(***************************************************************************)
LiveSpec == Spec /\ WF_vars(Read)

----------------------------------------------------------------------------
(***************************************************************************)
(* The listener only ever sees whole frames: a header of five octets and   *)
(* exactly as many payload octets as that header announces, whatever was   *)
(* lost, damaged or inserted on the line before (input(), 105-112,         *)
(* 121-137, 163).                                                          *)
(***************************************************************************)
IndicatedFramesAreWhole ==
    \A i \in 1..Len(indicated) :
        /\ Len(indicated[i].header) = HeaderLen
        /\ Len(indicated[i].payload) = PayloadLen(indicated[i].header)

(***************************************************************************)
(* The state and what has been collected agree: Header.input() is never    *)
(* called on a header that is done (it would throw), payload octets are    *)
(* only collected under a complete header that announced some, never more  *)
(* than announced and never more than the buffer holds, and the first data *)
(* CRC octet is the one of the frame under reception.                      *)
(***************************************************************************)
HeaderStage ==
    /\ state \in {"IDLE", "PREAMBLE"} => header = <<>>
    /\ state = "HEADER" => Len(header) < HeaderLen
    /\ state \in {"HEADER_CRC", "DATA", "DATA_CRC"} => Len(header) = HeaderLen

PayloadStage ==
    /\ state \notin {"DATA", "DATA_CRC"} => payload = <<>>
    /\ Len(payload) <= PAYLOAD_BUFFER_LENGTH
    /\ state = "DATA" => /\ Len(payload) <= PayloadLen(header)
                         /\ PayloadLen(header) > 0
    /\ state = "DATA_CRC" => /\ Len(payload) = PayloadLen(header)
                             /\ PayloadLen(header) > 0
    /\ state # "DATA_CRC" <=> dataCRC1 = -1

(***************************************************************************)
(* From the second preamble octet on, the debug buffer holds that octet    *)
(* and the header octets, so a frame can never overflow it: only noise     *)
(* between frames can.                                                     *)
(***************************************************************************)
DebugStage ==
    state \notin {"IDLE", "PREAMBLE"} => headerBufferIndex = 1 + Len(header)

StageInvariant == HeaderStage /\ PayloadStage /\ DebugStage

(***************************************************************************)
(* The loop is only ever ended by the debug buffer while the machine hunts *)
(* for a frame, by the payload buffer while it collects data, and by the   *)
(* listener with the frame it was told of.                                 *)
(***************************************************************************)
FailureContext ==
    /\ receiver = "debugOverflow" => state \in {"IDLE", "PREAMBLE"}
    /\ receiver = "payloadOverflow" =>
          state = "DATA" /\ PayloadLen(header) > PAYLOAD_BUFFER_LENGTH
    /\ receiver = "listenerFailed" =>
          indicated = <<[header |-> header, payload |-> payload]>>

(***************************************************************************)
(* A frame under reception is always ended, by a message, a wrong CRC or   *)
(* the end of the loop: the receiver cannot hang in the middle of a frame  *)
(* as long as octets arrive.                                               *)
(***************************************************************************)
ReturnsToIdle ==
    state \notin {"IDLE", "PREAMBLE"} ~> (state = "IDLE" \/ receiver # "running")

----------------------------------------------------------------------------
(***************************************************************************)
(* The receiver implements MstpFraming: the octets that the machine has    *)
(* taken for the frame under reception are the window.                     *)
(***************************************************************************)
Preambled == <<PREAMBLE_1, PREAMBLE_2>> \o header

Window ==
    CASE receiver # "running" \/ state = "IDLE" -> <<>>
      [] receiver = "running" /\ state = "PREAMBLE" -> <<PREAMBLE_1>>
      [] receiver = "running" /\ state \in {"HEADER", "HEADER_CRC"} -> Preambled
      [] receiver = "running" /\ state = "DATA" ->
            Preambled \o <<HeaderCRC(header)>> \o payload
      [] receiver = "running" /\ state = "DATA_CRC" ->
            Preambled \o <<HeaderCRC(header)>> \o payload \o <<dataCRC1>>

Framing == INSTANCE MstpFraming WITH
    window <- Window, listening <- (receiver = "running")

FramingSpec == Framing!Spec
=============================================================================
