---------------------------- MODULE MstpFraming ----------------------------
(***************************************************************************)
(* What an MS/TP receiver promises about the serial line, with none of its *)
(* buffers and states: the listener is told of a frame exactly when the    *)
(* octets received since some preamble spell that frame out.               *)
(*                                                                         *)
(* window holds those octets.  While it is the beginning of a frame it may *)
(* not be dropped; once it is hopeless the receiver may give it up at any  *)
(* octet, and it may open a new window at a first preamble octet.  It may  *)
(* stop at any octet and then says no more.                                *)
(***************************************************************************)
EXTENDS Integers, Sequences

CONSTANTS
    Octet,          \* the octets that can arrive on the line
    HeaderCRC(_),   \* the octet that protects the five header octets
    DataCRC(_)      \* the pair of octets that protects a payload

PREAMBLE_1 == 85    \* 0x55
PREAMBLE_2 == 255   \* 0xFF
HeaderLen  == 5

VARIABLES
    octet,          \* the octet received in this step, -1 when none was
    listening,      \* the receiver has not stopped
    window,         \* the octets of the frame being received, preamble first
    indicated       \* <<f>> in the step that tells the listener of f

framingVars == <<octet, listening, window, indicated>>

(***************************************************************************)
(* The payload length is sent with the high octet first.                   *)
(***************************************************************************)
PayloadLen(header) == 256 * header[4] + header[5]

Encode(f) ==
    <<PREAMBLE_1, PREAMBLE_2>> \o f.header \o <<HeaderCRC(f.header)>>
        \o IF f.payload = <<>> THEN <<>>
           ELSE f.payload \o <<DataCRC(f.payload)[1], DataCRC(f.payload)[2]>>

HeaderOf(w)  == SubSeq(w, 3, 7)
PayloadOf(w) == SubSeq(w, 9, 8 + PayloadLen(HeaderOf(w)))
FrameIn(w)   == [header |-> HeaderOf(w), payload |-> PayloadOf(w)]

(***************************************************************************)
(* w is a whole frame: long enough to hold a header, as long as that       *)
(* header says, and the encoding of what it holds.                         *)
(***************************************************************************)
IsFrame(w) ==
    /\ Len(w) >= 8
    /\ LET n == PayloadLen(HeaderOf(w))
       IN  Len(w) = IF n = 0 THEN 8 ELSE 8 + n + 2
    /\ w = Encode(FrameIn(w))

(***************************************************************************)
(* w can still become a frame: everything received so far is right.        *)
(***************************************************************************)
OnTrack(w) ==
    /\ Len(w) >= 1 => w[1] = PREAMBLE_1
    /\ Len(w) >= 2 => w[2] = PREAMBLE_2
    /\ Len(w) >= 8 =>
          LET n == PayloadLen(HeaderOf(w))
          IN  /\ w[8] = HeaderCRC(HeaderOf(w))
              /\ n > 0
              /\ Len(w) <= 8 + n + 1
              /\ Len(w) = 8 + n + 1 => w[8 + n + 1] = DataCRC(PayloadOf(w))[1]

Init ==
    /\ octet = -1 /\ listening = TRUE
    /\ window = <<>> /\ indicated = <<>>

Complete(w) ==
    /\ IsFrame(w)
    /\ indicated' = <<FrameIn(w)>>
    /\ window' = <<>>
    /\ listening' \in BOOLEAN

Continue(w) ==
    /\ ~IsFrame(w) /\ OnTrack(w)
    /\ indicated' = <<>>
    /\ window' = w
    /\ UNCHANGED listening

GiveUp(w, b) ==
    /\ ~IsFrame(w) /\ ~OnTrack(w)
    /\ indicated' = <<>>
    /\ \/ window' \in {w, <<>>}
       \/ b = PREAMBLE_1 /\ window' = <<b>>
    /\ UNCHANGED listening

Receive(b) ==
    LET w == Append(window, b)
    IN  /\ listening
        /\ octet' = b
        /\ Complete(w) \/ Continue(w) \/ GiveUp(w, b)

Stop ==
    /\ listening /\ listening' = FALSE
    /\ octet' \in Octet \cup {-1}
    /\ window' = <<>> /\ indicated' = <<>>

Next == (\E b \in Octet : Receive(b)) \/ Stop

Spec == Init /\ [][Next]_framingVars
=============================================================================
