------------------------- MODULE MstpReceiverProofs -------------------------
(***************************************************************************)
(* Proofs about MstpReceiver for every set of octets, every pair of check  *)
(* sums and every size of the two buffers: its invariants, and that it     *)
(* implements MstpFraming.                                                 *)
(***************************************************************************)
EXTENDS MstpReceiver, SequenceTheorems, TLAPS

USE DEF PREAMBLE_1, PREAMBLE_2, HeaderLen

(***************************************************************************)
(* A header that is done announces a length that is a natural number.      *)
(***************************************************************************)
LEMMA PayloadLenNat ==
    ASSUME NEW h \in Seq(Octet), Len(h) = HeaderLen
    PROVE  PayloadLen(h) \in Nat
<1>1. 4 \in 1..Len(h) /\ 5 \in 1..Len(h)
  OBVIOUS
<1>2. h[4] \in Octet /\ h[5] \in Octet
  BY <1>1, ElementOfSeq
<1>3. \A o \in Octet : o \in Nat
  BY OctetAssumption
<1>4. QED
  BY <1>2, <1>3 DEF PayloadLen

(***************************************************************************)
(* The state the receiver keeps is of its type, whatever arrives: neither  *)
(* of the two array indices ever leaves its buffer.                        *)
(***************************************************************************)
THEOREM TypeCorrect == Spec => []TypeOK
<1>1. Init => TypeOK
  BY BufferAssumption DEF Init, TypeOK, State, Receiver
<1>2. TypeOK /\ [Next]_vars => TypeOK'
  <2> SUFFICES ASSUME TypeOK, [Next]_vars PROVE TypeOK'
    OBVIOUS
  <2> USE DEF TypeOK, State, Receiver
  <2>R. ASSUME NEW i \in {0, 1}, Reset(i)
        PROVE  /\ header' \in Seq(Octet) /\ payload' \in Seq(Octet)
               /\ dataCRC1' \in Octet \cup {-1}
               /\ headerBufferIndex' \in 0..HeaderBufferLen
    BY <2>R, BufferAssumption, EmptySeq DEF Reset
  <2>E. <<[header |-> header, payload |-> payload]>> \in Seq(Frame) /\ <<>> \in Seq(Frame)
    BY EmptySeq DEF Frame
  <2>1. ASSUME NEW data \in Octet, octet' = data, Idle(data) PROVE TypeOK'
    BY <2>1, BufferAssumption DEF Idle, Debug
  <2>2. ASSUME NEW data \in Octet, octet' = data, Preamble(data) PROVE TypeOK'
    <3>1. CASE Reset(1) /\ state' = "HEADER"
      BY <3>1, <2>2, <2>R, <2>E DEF Preamble, Reset
    <3>2. CASE UNCHANGED <<header, payload, dataCRC1, headerBufferIndex>>
      BY <3>2, <2>2 DEF Preamble
    <3>3. QED
      BY <2>2, <3>1, <3>2 DEF Preamble
  <2>3. ASSUME NEW data \in Octet, octet' = data, HeaderOctet(data) PROVE TypeOK'
    BY <2>3, BufferAssumption DEF HeaderOctet, Debug
  <2>4. ASSUME NEW data \in Octet, octet' = data, HeaderCrcOctet(data) PROVE TypeOK'
    <3>1. CASE DropFrame
      BY <3>1, <2>4, <2>R, <2>E DEF DropFrame, BackToIdle
    <3>2. CASE IndicateMessage
      BY <3>2, <2>4, <2>R, <2>E DEF IndicateMessage, BackToIdle
    <3>3. QED
      BY <2>4, <2>E, <3>1, <3>2 DEF HeaderCrcOctet
  <2>5. ASSUME NEW data \in Octet, octet' = data, DataOctet(data) PROVE TypeOK'
    <3>1. Append(payload, data) \in Seq(Octet)
      BY AppendProperties
    <3>2. payload' \in Seq(Octet) /\ dataCRC1' \in Octet \cup {-1}
      BY <2>5, <3>1 DEF DataOctet
    <3>3. /\ state' \in State /\ receiver' \in Receiver /\ indicated' = <<>>
          /\ UNCHANGED <<header, headerBufferIndex>>
      BY <2>5 DEF DataOctet
    <3>4. QED
      BY <2>5, <3>2, <3>3, <2>E
  <2>6. ASSUME NEW data \in Octet, octet' = data, DataCrcOctet(data) PROVE TypeOK'
    <3>1. CASE DropFrame
      BY <3>1, <2>6, <2>R, <2>E DEF DropFrame, BackToIdle
    <3>2. CASE IndicateMessage
      BY <3>2, <2>6, <2>R, <2>E DEF IndicateMessage, BackToIdle
    <3>3. QED
      BY <2>6, <3>1, <3>2 DEF DataCrcOctet
  <2>7. CASE EndOfStream
    BY <2>7 DEF EndOfStream
  <2>8. CASE UNCHANGED vars
    BY <2>8 DEF vars
  <2>9. QED
    BY <2>1, <2>2, <2>3, <2>4, <2>5, <2>6, <2>7, <2>8 DEF Next, Read, Input
<1>3. QED
  BY <1>1, <1>2, PTL DEF Spec

(***************************************************************************)
(* The inductive invariant: what has been collected matches the state.     *)
(***************************************************************************)
LEMMA StageInduction ==
    ASSUME TypeOK, StageInvariant, [Next]_vars
    PROVE  StageInvariant'
<1> USE DEF TypeOK, StageInvariant, HeaderStage, PayloadStage, DebugStage
<1>0. Len(header) \in Nat /\ Len(payload) \in Nat /\ PAYLOAD_BUFFER_LENGTH \in Nat \ {0}
  BY BufferAssumption
<1>1. ASSUME NEW data \in Octet, Idle(data) PROVE StageInvariant'
  BY <1>0, <1>1 DEF Idle, Debug
<1>2. ASSUME NEW data \in Octet, Preamble(data) PROVE StageInvariant'
  BY <1>0, <1>2 DEF Preamble, Reset
<1>3. ASSUME NEW data \in Octet, HeaderOctet(data) PROVE StageInvariant'
  BY <1>0, <1>3, BufferAssumption DEF HeaderOctet, Debug
<1>4. ASSUME NEW data \in Octet, HeaderCrcOctet(data) PROVE StageInvariant'
  <2>1. PayloadLen(header) \in Nat
    BY <1>4, PayloadLenNat DEF HeaderCrcOctet
  <2>2. QED
    BY <1>0, <1>4, <2>1
       DEF HeaderCrcOctet, DropFrame, IndicateMessage, BackToIdle, Reset
<1>5. ASSUME NEW data \in Octet, DataOctet(data) PROVE StageInvariant'
  <2>1. PayloadLen(header) \in Nat
    BY <1>5, PayloadLenNat DEF DataOctet
  <2>2. data # -1
    BY OctetAssumption
  <2>3. QED
    BY <1>0, <1>5, <2>1, <2>2 DEF DataOctet, PayloadDone
<1>6. ASSUME NEW data \in Octet, DataCrcOctet(data) PROVE StageInvariant'
  BY <1>0, <1>6 DEF DataCrcOctet, DropFrame, IndicateMessage, BackToIdle, Reset
<1>7. CASE EndOfStream
  BY <1>7 DEF EndOfStream
<1>8. CASE UNCHANGED vars
  BY <1>8 DEF vars
<1>9. QED
  BY <1>1, <1>2, <1>3, <1>4, <1>5, <1>6, <1>7, <1>8 DEF Next, Read, Input

(***************************************************************************)
(* Header.input() is never called on a header that is done, no octet is    *)
(* stored beyond the announced payload or beyond the payload buffer, and   *)
(* no frame overflows the debug buffer.                                    *)
(***************************************************************************)
THEOREM StageCorrect == Spec => []StageInvariant
<1>1. Init => StageInvariant
  BY BufferAssumption DEF Init, StageInvariant, HeaderStage, PayloadStage, DebugStage
<1>2. TypeOK /\ StageInvariant /\ [Next]_vars => StageInvariant'
  BY StageInduction
<1>3. QED
  BY <1>1, <1>2, TypeCorrect, PTL DEF Spec

(***************************************************************************)
(* The listener only ever sees whole frames.  A step that indicates one    *)
(* takes the last octet of a frame whose stage StageInvariant knows.       *)
(***************************************************************************)
THEOREM WholeFramesIndicated == Spec => []IndicatedFramesAreWhole
<1>1. Init => IndicatedFramesAreWhole
  BY DEF Init, IndicatedFramesAreWhole
<1>2. TypeOK /\ StageInvariant /\ IndicatedFramesAreWhole /\ [Next]_vars
        => IndicatedFramesAreWhole'
  <2> SUFFICES ASSUME TypeOK, StageInvariant, IndicatedFramesAreWhole, [Next]_vars
               PROVE  IndicatedFramesAreWhole'
    OBVIOUS
  <2>1. CASE indicated' = <<>>
    BY <2>1 DEF IndicatedFramesAreWhole
  <2>2. ASSUME NEW data \in Octet, HeaderCrcOctet(data), IndicateMessage,
               PayloadLen(header) = 0
        PROVE  IndicatedFramesAreWhole'
    <3>1. Len(header) = HeaderLen /\ payload = <<>>
      BY <2>2 DEF StageInvariant, HeaderStage, PayloadStage, HeaderCrcOctet
    <3>2. QED
      BY <2>2, <3>1 DEF IndicateMessage, IndicatedFramesAreWhole
  <2>3. ASSUME NEW data \in Octet, DataCrcOctet(data), IndicateMessage
        PROVE  IndicatedFramesAreWhole'
    <3>1. Len(header) = HeaderLen /\ Len(payload) = PayloadLen(header)
      BY <2>3 DEF StageInvariant, HeaderStage, PayloadStage, DataCrcOctet
    <3>2. QED
      BY <2>3, <3>1 DEF IndicateMessage, IndicatedFramesAreWhole
  <2>4. CASE UNCHANGED vars
    BY <2>4 DEF vars, IndicatedFramesAreWhole
  <2>5. ASSUME NEW data \in Octet, Input(data), indicated' # <<>>
        PROVE  \/ HeaderCrcOctet(data) /\ IndicateMessage /\ PayloadLen(header) = 0
               \/ DataCrcOctet(data) /\ IndicateMessage
    BY <2>5 DEF Input, Idle, Preamble, HeaderOctet, HeaderCrcOctet, DataOctet,
                DataCrcOctet, DropFrame
  <2>6. QED
    BY <2>1, <2>2, <2>3, <2>4, <2>5 DEF Next, Read, EndOfStream
<1>3. QED
  BY <1>1, <1>2, TypeCorrect, StageCorrect, PTL DEF Spec

(***************************************************************************)
(* The debug buffer ends the loop only between frames, the payload buffer  *)
(* only under a header that announces more than it holds, the listener     *)
(* only with the frame it was told of.  StageInvariant gives the second:   *)
(* the payload is never longer than announced.                             *)
(***************************************************************************)
THEOREM FailureExplained == Spec => []FailureContext
<1>1. Init => FailureContext
  BY DEF Init, FailureContext
<1>2. TypeOK /\ StageInvariant /\ FailureContext /\ [Next]_vars => FailureContext'
  <2> SUFFICES ASSUME TypeOK, StageInvariant, FailureContext, [Next]_vars
               PROVE  FailureContext'
    OBVIOUS
  <2>1. ASSUME NEW data \in Octet, receiver = "running",
               Idle(data) \/ Preamble(data) \/ HeaderOctet(data)
        PROVE  FailureContext'
    <3>1. CASE Idle(data)
      BY <2>1, <3>1 DEF Idle, Debug, FailureContext
    <3>2. CASE Preamble(data)
      BY <2>1, <3>2 DEF Preamble, FailureContext
    <3>3. CASE HeaderOctet(data)
      <4>1. headerBufferIndex # HeaderBufferLen
        BY <3>3, BufferAssumption
           DEF HeaderOctet, TypeOK, StageInvariant, HeaderStage, DebugStage, HeaderLen
      <4>2. QED
        BY <2>1, <3>3, <4>1 DEF HeaderOctet, Debug, FailureContext
    <3>4. QED
      BY <2>1, <3>1, <3>2, <3>3
  <2>2. ASSUME receiver = "running", DropFrame \/ IndicateMessage
        PROVE  FailureContext'
    BY <2>2 DEF DropFrame, IndicateMessage, BackToIdle, Reset, FailureContext
  <2>3. ASSUME NEW data \in Octet, receiver = "running", DataOctet(data)
        PROVE  FailureContext'
    <3>1. PayloadLen(header) \in Nat
      BY <2>3, PayloadLenNat DEF DataOctet, TypeOK, StageInvariant, HeaderStage
    <3>2. Len(payload) \in Nat /\ PAYLOAD_BUFFER_LENGTH \in Nat
      BY BufferAssumption DEF TypeOK
    <3>3. Len(payload) <= PayloadLen(header)
      BY <2>3 DEF DataOctet, StageInvariant, PayloadStage
    <3>4. ~PayloadDone /\ Len(payload) = PAYLOAD_BUFFER_LENGTH
             => PayloadLen(header) > PAYLOAD_BUFFER_LENGTH
      BY <3>1, <3>2, <3>3 DEF PayloadDone
    <3>5. (PayloadLen(header))' = PayloadLen(header)
      BY <2>3 DEF DataOctet, PayloadLen
    <3>6. QED
      BY <2>3, <3>4, <3>5 DEF DataOctet, FailureContext
  <2>4. ASSUME NEW data \in Octet, receiver = "running", HeaderCrcOctet(data)
        PROVE  FailureContext'
    <3>1. CASE DropFrame \/ IndicateMessage
      BY <2>2, <2>4, <3>1
    <3>2. CASE receiver' = receiver
      BY <2>4, <3>2 DEF FailureContext
    <3>3. QED
      BY <2>4, <3>1, <3>2 DEF HeaderCrcOctet
  <2>5. CASE EndOfStream
    BY <2>5 DEF EndOfStream, FailureContext
  <2>6. CASE UNCHANGED vars
    BY <2>6 DEF vars, FailureContext, PayloadLen
  <2>7. QED
    BY <2>1, <2>2, <2>3, <2>4, <2>5, <2>6 DEF Next, Read, Input, DataCrcOctet
<1>3. QED
  BY <1>1, <1>2, TypeCorrect, StageCorrect, PTL DEF Spec

-----------------------------------------------------------------------------
(***************************************************************************)
(* MstpReceiver implements MstpFraming.                                    *)
(*                                                                         *)
(* The sequences of this proof are kept behind names (Long, Front, local   *)
(* definitions that are hidden once their elements are known), which the   *)
(* provers need to instantiate the facts about concatenation.              *)
(***************************************************************************)

HIDE DEF PREAMBLE_1, PREAMBLE_2, HeaderLen

Long(s, n) == Len(s) = n

(***************************************************************************)
(* The elements of a concatenation, part by part.                          *)
(***************************************************************************)
LEMMA ConcatParts ==
    ASSUME NEW S, NEW s \in Seq(S), NEW t \in Seq(S)
    PROVE  /\ s \o t \in Seq(S) /\ Len(s \o t) = Len(s) + Len(t)
           /\ \A i \in 1..Len(s) : (s \o t)[i] = s[i]
           /\ \A i \in 1..Len(t) : (s \o t)[Len(s) + i] = t[i]
<1>1. /\ s \o t \in Seq(S) /\ Len(s \o t) = Len(s) + Len(t)
      /\ \A i \in 1..Len(s) + Len(t) :
            (s \o t)[i] = IF i <= Len(s) THEN s[i] ELSE t[i - Len(s)]
  BY ConcatProperties
<1>2. Len(s) \in Nat /\ Len(t) \in Nat
  OBVIOUS
<1>3. \A i \in 1..Len(s) : (s \o t)[i] = s[i]
  BY <1>1, <1>2
<1>4. ASSUME NEW i \in 1..Len(t) PROVE (s \o t)[Len(s) + i] = t[i]
  <2>1. /\ Len(s) + i \in 1..Len(s) + Len(t)
        /\ ~(Len(s) + i <= Len(s)) /\ (Len(s) + i) - Len(s) = i
    BY <1>2
  <2>2. (s \o t)[Len(s) + i] = t[(Len(s) + i) - Len(s)]
    BY <1>1, <2>1
  <2>3. QED
    BY <2>1, <2>2
<1>5. QED
  BY <1>1, <1>3, <1>4

(***************************************************************************)
(* Facts about the sequences over S are put behind names that mention S,   *)
(* from which the provers find S when the fact is cited.                   *)
(***************************************************************************)
Associates(S, s, t, u) == (s \o t) \o u = s \o (t \o u)

LEMMA ConcatAssociates ==
    ASSUME NEW S, NEW s \in Seq(S), NEW t \in Seq(S), NEW u \in Seq(S)
    PROVE  Associates(S, s, t, u)
BY ConcatAssociative DEF Associates

LEMMA SeqOfLarger ==
    ASSUME NEW S, NEW T, S \subseteq T, NEW s \in Seq(S)
    PROVE  s \in Seq(T)
OBVIOUS

(***************************************************************************)
(* The eight octets of a preamble, a header and its check sum.             *)
(***************************************************************************)
Front(h, c) == <<PREAMBLE_1, PREAMBLE_2>> \o h \o <<c>>

LEMMA FrontOctets ==
    ASSUME NEW S, PREAMBLE_1 \in S, PREAMBLE_2 \in S,
           NEW h \in Seq(S), Long(h, 5), NEW c \in S
    PROVE  /\ Front(h, c) \in Seq(S) /\ Long(Front(h, c), 8)
           /\ Front(h, c)[1] = PREAMBLE_1 /\ Front(h, c)[2] = PREAMBLE_2
           /\ \A i \in 1..5 : Front(h, c)[2 + i] = h[i]
           /\ Front(h, c)[8] = c
<1> DEFINE p == <<PREAMBLE_1, PREAMBLE_2>>
           q == <<c>>
           v == p \o h
           w == v \o q
<1>1. p \in Seq(S) /\ Long(p, 2) /\ p[1] = PREAMBLE_1 /\ p[2] = PREAMBLE_2
  BY DEF Long
<1>2. q \in Seq(S) /\ Long(q, 1) /\ q[1] = c
  BY DEF Long
<1>3. Front(h, c) = w
  BY DEF Front
<1> HIDE DEF p, q
<1>4. /\ v \in Seq(S) /\ Long(v, 7)
      /\ \A i \in 1..2 : v[i] = p[i]
      /\ \A i \in 1..5 : v[2 + i] = h[i]
  <2>1. /\ v \in Seq(S) /\ Len(v) = Len(p) + Len(h)
        /\ \A i \in 1..Len(p) : v[i] = p[i]
        /\ \A i \in 1..Len(h) : v[Len(p) + i] = h[i]
    BY <1>1, ConcatParts
  <2> HIDE DEF v
  <2>2. QED
    BY <1>1, <2>1 DEF Long
<1> HIDE DEF v
<1>5. /\ w \in Seq(S) /\ Long(w, 8)
      /\ \A i \in 1..7 : w[i] = v[i]
      /\ w[8] = c
  <2>1. /\ w \in Seq(S) /\ Len(w) = Len(v) + Len(q)
        /\ \A i \in 1..Len(v) : w[i] = v[i]
        /\ \A i \in 1..Len(q) : w[Len(v) + i] = q[i]
    BY <1>2, <1>4, ConcatParts
  <2> HIDE DEF w
  <2>2. QED
    BY <1>2, <1>4, <2>1 DEF Long
<1> HIDE DEF w
<1>6. w[1] = PREAMBLE_1 /\ w[2] = PREAMBLE_2
  <2>1. w[1] = v[1] /\ w[2] = v[2]
    BY <1>5
  <2>2. v[1] = p[1] /\ v[2] = p[2]
    BY <1>4
  <2>3. QED
    BY <1>1, <2>1, <2>2
<1>7. ASSUME NEW i \in 1..5 PROVE w[2 + i] = h[i]
  <2>1. 2 + i \in 1..7
    OBVIOUS
  <2>2. w[2 + i] = v[2 + i]
    BY <1>5, <2>1
  <2>3. v[2 + i] = h[i]
    BY <1>4
  <2>4. QED
    BY <2>2, <2>3
<1>8. QED
  BY <1>3, <1>5, <1>6, <1>7

(***************************************************************************)
(* A window that begins with such a front holds that header.               *)
(***************************************************************************)
FrontFacts(S, h, c, r, w) ==
    /\ w \in Seq(S)
    /\ Len(w) = 8 + Len(r)
    /\ w[1] = PREAMBLE_1 /\ w[2] = PREAMBLE_2
    /\ Framing!HeaderOf(w) = h
    /\ w[8] = c
    /\ \A i \in 1..Len(r) : w[8 + i] = r[i]

LEMMA FrontWindow ==
    ASSUME NEW S, PREAMBLE_1 \in S, PREAMBLE_2 \in S,
           NEW h \in Seq(S), Long(h, 5), NEW c \in S, NEW r \in Seq(S)
    PROVE  FrontFacts(S, h, c, r, Front(h, c) \o r)
<1> DEFINE v == Front(h, c)
           w == v \o r
<1>1. /\ v \in Seq(S) /\ Long(v, 8)
      /\ v[1] = PREAMBLE_1 /\ v[2] = PREAMBLE_2 /\ v[8] = c
      /\ \A i \in 1..5 : v[2 + i] = h[i]
  BY FrontOctets
<1> HIDE DEF v
<1>2. /\ w \in Seq(S) /\ Len(w) = 8 + Len(r)
      /\ \A i \in 1..8 : w[i] = v[i]
      /\ \A i \in 1..Len(r) : w[8 + i] = r[i]
  <2>1. /\ w \in Seq(S) /\ Len(w) = Len(v) + Len(r)
        /\ \A i \in 1..Len(v) : w[i] = v[i]
        /\ \A i \in 1..Len(r) : w[Len(v) + i] = r[i]
    BY <1>1, ConcatParts
  <2> HIDE DEF w
  <2>2. QED
    BY <1>1, <2>1 DEF Long
<1> HIDE DEF w
<1>3. /\ w[1] = PREAMBLE_1 /\ w[2] = PREAMBLE_2 /\ w[8] = c
      /\ \A i \in 1..5 : w[2 + i] = h[i]
  BY <1>1, <1>2
<1>4. Framing!HeaderOf(w) = h
  <2> DEFINE u == SubSeq(w, 3, 7)
  <2>1. \A i \in 3..7 : w[i] \in S
    <3>1. Len(r) \in Nat
      OBVIOUS
    <3>2. QED
      BY <1>2, <3>1, ElementOfSeq
  <2>2. u \in Seq(S) /\ Len(u) = 5 /\ \A i \in 1..5 : u[i] = w[3 + i - 1]
    BY <2>1, SubSeqProperties
  <2>3. Framing!HeaderOf(w) = u
    BY DEF Framing!HeaderOf
  <2> HIDE DEF u
  <2>4. \A i \in 1..5 : u[i] = h[i]
    BY <1>3, <2>2
  <2>5. Len(u) = Len(h) /\ \A i \in 1..Len(u) : u[i] = h[i]
    BY <2>2, <2>4 DEF Long
  <2>6. QED
    BY <2>2, <2>3, <2>5, SeqEqual
<1>5. QED
  BY <1>2, <1>3, <1>4 DEF w, v, FrontFacts

(***************************************************************************)
(* The values that can stand in the window of a frame with that header and *)
(* payload.                                                                *)
(***************************************************************************)
Values(h, p) ==
    Octet \cup {PREAMBLE_1, PREAMBLE_2, HeaderCRC(h), DataCRC(p)[1], DataCRC(p)[2]}

LEMMA EncodeFront ==
    ASSUME NEW h, NEW p
    PROVE  Framing!Encode([header |-> h, payload |-> p]) =
              Front(h, HeaderCRC(h)) \o
                 IF p = <<>> THEN <<>> ELSE p \o <<DataCRC(p)[1], DataCRC(p)[2]>>
BY DEF Framing!Encode, Front, PREAMBLE_1, PREAMBLE_2,
       Framing!PREAMBLE_1, Framing!PREAMBLE_2

LEMMA SamePayloadLen ==
    ASSUME NEW h
    PROVE  Framing!PayloadLen(h) = PayloadLen(h)
BY DEF Framing!PayloadLen, PayloadLen

(***************************************************************************)
(* A front alone is a frame when its header announces no payload and its   *)
(* check sum is right; with a wrong one it is hopeless.                    *)
(***************************************************************************)
LEMMA FrontIsFrame ==
    ASSUME NEW h \in Seq(Octet), Long(h, 5), NEW b \in Octet
    PROVE  LET w == Front(h, b) \o <<>>
           IN  /\ PayloadLen(h) = 0 /\ b = HeaderCRC(h) =>
                     /\ Framing!IsFrame(w)
                     /\ Framing!FrameIn(w) = [header |-> h, payload |-> <<>>]
               /\ PayloadLen(h) # 0 => ~Framing!IsFrame(w)
               /\ b # HeaderCRC(h) => ~Framing!IsFrame(w) /\ ~Framing!OnTrack(w)
<1> DEFINE S == Values(h, <<>>)
           e == <<>>
           w == Front(h, b) \o e
           x == Front(h, HeaderCRC(h)) \o e
<1>1. /\ h \in Seq(S) /\ b \in S /\ HeaderCRC(h) \in S /\ e \in Seq(S) /\ Long(e, 0)
      /\ PREAMBLE_1 \in S /\ PREAMBLE_2 \in S
  <2>1. h \in Seq(S)
    BY SeqOfLarger DEF Values
  <2>2. QED
    BY <2>1, EmptySeq DEF Values, Long
<1> HIDE DEF S, e
<1>2. FrontFacts(S, h, b, e, w)
  BY <1>1, FrontWindow
<1>4. FrontFacts(S, h, HeaderCRC(h), e, x)
  BY <1>1, FrontWindow
<1> HIDE DEF w
<1>3. Len(w) = 8 /\ w[8] = b /\ Framing!HeaderOf(w) = h
  BY <1>1, <1>2 DEF Long, FrontFacts
<1>5. PayloadLen(h) \in Nat
  BY PayloadLenNat DEF Long, HeaderLen
<1>6. ASSUME PayloadLen(h) = 0
      PROVE  Framing!FrameIn(w) = [header |-> h, payload |-> e]
  <2>1. Framing!PayloadOf(w) = SubSeq(w, 9, 8)
    BY <1>3, <1>6, SamePayloadLen DEF Framing!PayloadOf
  <2>2. SubSeq(w, 9, 8) = e
    BY SubSeqEmpty DEF e
  <2>3. QED
    BY <1>3, <2>1, <2>2 DEF Framing!FrameIn
<1>7. Framing!Encode([header |-> h, payload |-> e]) = x
  BY EncodeFront DEF e
<1> HIDE DEF x
<1>8. PayloadLen(h) # 0 => ~Framing!IsFrame(w)
  BY <1>3, <1>5, SamePayloadLen DEF Framing!IsFrame
<1>9. ASSUME PayloadLen(h) = 0, b = HeaderCRC(h)
      PROVE  Framing!IsFrame(w)
  <2>1. w = x
    BY <1>9 DEF x, w
  <2>2. QED
    BY <1>3, <1>6, <1>7, <1>9, <2>1, SamePayloadLen DEF Framing!IsFrame
<1>10. ASSUME b # HeaderCRC(h)
       PROVE  ~Framing!IsFrame(w) /\ ~Framing!OnTrack(w)
  <2>1. ~Framing!OnTrack(w)
    BY <1>3, <1>10 DEF Framing!OnTrack
  <2>2. PayloadLen(h) = 0 => w # Framing!Encode(Framing!FrameIn(w))
    BY <1>3, <1>4, <1>6, <1>7, <1>10 DEF FrontFacts
  <2>3. QED
    BY <1>8, <2>1, <2>2 DEF Framing!IsFrame
<1>11. QED
  BY <1>6, <1>8, <1>9, <1>10 DEF e, w

(***************************************************************************)
(* Before the second data check sum octet a window with a payload is no    *)
(* frame.                                                                  *)
(***************************************************************************)
LEMMA UnfinishedPayload ==
    ASSUME NEW h \in Seq(Octet), Long(h, 5), NEW r \in Seq(Octet),
           PayloadLen(h) > 0, Len(r) <= PayloadLen(h) + 1
    PROVE  ~Framing!IsFrame(Front(h, HeaderCRC(h)) \o r)
<1> DEFINE S == Values(h, <<>>)
           w == Front(h, HeaderCRC(h)) \o r
<1>1. /\ h \in Seq(S) /\ r \in Seq(S) /\ HeaderCRC(h) \in S
      /\ PREAMBLE_1 \in S /\ PREAMBLE_2 \in S
  BY SeqOfLarger DEF Values
<1> HIDE DEF S
<1>2. FrontFacts(S, h, HeaderCRC(h), r, w)
  BY <1>1, FrontWindow
<1>3. PayloadLen(h) \in Nat /\ Len(r) \in Nat
  BY PayloadLenNat DEF Long, HeaderLen
<1> HIDE DEF w
<1>4. ~Framing!IsFrame(w)
  BY <1>2, <1>3, SamePayloadLen DEF Framing!IsFrame, FrontFacts
<1>5. QED
  BY <1>4 DEF w

(***************************************************************************)
(* A window with the whole payload p and two more octets.                  *)
(***************************************************************************)
Filled(h, p, x, y) == Front(h, HeaderCRC(h)) \o (p \o <<x, y>>)

LEMMA FilledWindow ==
    ASSUME NEW h \in Seq(Octet), Long(h, 5), NEW p \in Seq(Octet),
           NEW x \in Values(h, p), NEW y \in Values(h, p)
    PROVE  /\ Len(Filled(h, p, x, y)) = 8 + Len(p) + 2
           /\ Framing!HeaderOf(Filled(h, p, x, y)) = h
           /\ \A i \in 1..Len(p) : Filled(h, p, x, y)[8 + i] = p[i]
           /\ Filled(h, p, x, y)[8 + Len(p) + 1] = x
           /\ Filled(h, p, x, y)[8 + Len(p) + 2] = y
<1> DEFINE S == Values(h, p)
           q == <<x, y>>
           r == p \o q
           w == Front(h, HeaderCRC(h)) \o r
<1>1. /\ h \in Seq(S) /\ p \in Seq(S) /\ HeaderCRC(h) \in S
      /\ PREAMBLE_1 \in S /\ PREAMBLE_2 \in S
  <2>1. Octet \subseteq S
    BY DEF Values
  <2> HIDE DEF S
  <2>2. h \in Seq(S) /\ p \in Seq(S)
    BY <2>1, SeqOfLarger
  <2>3. QED
    BY <2>2 DEF S, Values
<1>2. q \in Seq(S) /\ Long(q, 2) /\ q[1] = x /\ q[2] = y
  BY DEF Long
<1>3. Len(p) \in Nat
  OBVIOUS
<1>4. Filled(h, p, x, y) = w
  BY DEF Filled
<1> HIDE DEF S, q
<1>5. /\ r \in Seq(S) /\ Len(r) = Len(p) + 2
      /\ \A i \in 1..Len(p) : r[i] = p[i]
      /\ r[Len(p) + 1] = x /\ r[Len(p) + 2] = y
  <2>1. /\ r \in Seq(S) /\ Len(r) = Len(p) + Len(q)
        /\ \A i \in 1..Len(p) : r[i] = p[i]
        /\ \A i \in 1..Len(q) : r[Len(p) + i] = q[i]
    BY <1>1, <1>2, ConcatParts
  <2> HIDE DEF r
  <2>2. QED
    BY <1>2, <1>3, <2>1 DEF Long
<1>6. FrontFacts(S, h, HeaderCRC(h), r, w)
  <2>1. r \in Seq(S)
    BY <1>5
  <2> HIDE DEF r
  <2>2. QED
    BY <1>1, <2>1, FrontWindow
<1> HIDE DEF r
<1> HIDE DEF w
<1>7. \A i \in 1..Len(p) : w[8 + i] = p[i]
  BY <1>3, <1>5, <1>6 DEF FrontFacts
<1>8. w[8 + (Len(p) + 1)] = x /\ w[8 + (Len(p) + 2)] = y
  <2>1. Len(p) + 1 \in 1..Len(r) /\ Len(p) + 2 \in 1..Len(r)
    BY <1>3, <1>5
  <2>2. /\ w[8 + (Len(p) + 1)] = r[Len(p) + 1]
        /\ w[8 + (Len(p) + 2)] = r[Len(p) + 2]
    BY <1>6, <2>1 DEF FrontFacts
  <2>3. QED
    BY <1>5, <2>2
<1>9. 8 + (Len(p) + 1) = 8 + Len(p) + 1 /\ 8 + (Len(p) + 2) = 8 + Len(p) + 2
  BY <1>3
<1>10. QED
  BY <1>3, <1>4, <1>5, <1>6, <1>7, <1>8, <1>9 DEF FrontFacts

(***************************************************************************)
(* It is a frame exactly when these two are the payload's check sum, and   *)
(* it cannot become one.                                                   *)
(***************************************************************************)
LEMMA FilledIsFrame ==
    ASSUME NEW h \in Seq(Octet), Long(h, 5), NEW p \in Seq(Octet),
           PayloadLen(h) > 0, Long(p, PayloadLen(h)),
           NEW x \in Octet, NEW y \in Octet
    PROVE  LET w == Filled(h, p, x, y)
           IN  /\ Framing!FrameIn(w) = [header |-> h, payload |-> p]
               /\ Framing!IsFrame(w) <=> x = DataCRC(p)[1] /\ y = DataCRC(p)[2]
               /\ ~Framing!OnTrack(w)
<1> DEFINE w == Filled(h, p, x, y)
           z == Filled(h, p, DataCRC(p)[1], DataCRC(p)[2])
           n == PayloadLen(h)
<1>1. n \in Nat /\ n > 0 /\ Len(p) = n
  BY PayloadLenNat DEF Long, HeaderLen
<1>2. /\ Len(w) = 8 + Len(p) + 2 /\ Framing!HeaderOf(w) = h
      /\ \A i \in 1..Len(p) : w[8 + i] = p[i]
      /\ w[8 + Len(p) + 1] = x /\ w[8 + Len(p) + 2] = y
  <2>1. x \in Values(h, p) /\ y \in Values(h, p)
    BY DEF Values
  <2>2. QED
    BY <2>1, FilledWindow
<1>3. /\ z[8 + Len(p) + 1] = DataCRC(p)[1] /\ z[8 + Len(p) + 2] = DataCRC(p)[2]
  <2>1. DataCRC(p)[1] \in Values(h, p) /\ DataCRC(p)[2] \in Values(h, p)
    BY DEF Values
  <2>2. QED
    BY <2>1, FilledWindow
<1>4. Framing!PayloadOf(w) = p
  <2> HIDE DEF w, n
  <2>1. Framing!PayloadOf(w) = SubSeq(w, 9, 8 + n)
    BY <1>2, SamePayloadLen DEF Framing!PayloadOf, n
  <2> DEFINE u == SubSeq(w, 9, 8 + n)
  <2>2. \A i \in 9..8 + n : w[i] \in Octet
    <3>1. SUFFICES ASSUME NEW i \in 9..8 + n PROVE w[i] \in Octet
      OBVIOUS
    <3>2. i - 8 \in 1..Len(p) /\ 8 + (i - 8) = i
      BY <1>1
    <3>3. w[8 + (i - 8)] = p[i - 8]
      BY <1>2, <3>2
    <3>4. QED
      BY <3>2, <3>3, ElementOfSeq
  <2>3. /\ u \in Seq(Octet) /\ Len(u) = n
        /\ \A i \in 1..n : u[i] = w[9 + i - 1]
    <3>1. /\ u \in Seq(Octet)
          /\ Len(u) = IF 9 <= 8 + n THEN (8 + n) - 9 + 1 ELSE 0
          /\ \A i \in 1..(8 + n) - 9 + 1 : u[i] = w[9 + i - 1]
      BY <1>1, <2>2, SubSeqProperties
    <3> HIDE DEF u
    <3>2. 9 <= 8 + n /\ (8 + n) - 9 + 1 = n
      BY <1>1
    <3>3. QED
      BY <3>1, <3>2
  <2> HIDE DEF u
  <2>4. \A i \in 1..Len(u) : u[i] = p[i]
    <3>1. SUFFICES ASSUME NEW i \in 1..Len(u) PROVE u[i] = p[i]
      OBVIOUS
    <3>2. i \in 1..n /\ 9 + i - 1 = 8 + i
      BY <1>1, <2>3
    <3>3. QED
      BY <1>1, <1>2, <2>3, <3>2
  <2>5. u = p
    BY <1>1, <2>3, <2>4, SeqEqual
  <2>6. QED
    BY <2>1, <2>5 DEF u
<1>5. Framing!FrameIn(w) = [header |-> h, payload |-> p]
  BY <1>2, <1>4 DEF Framing!FrameIn
<1>6. Framing!Encode([header |-> h, payload |-> p]) = z
  <2>1. p # <<>>
    BY <1>1, EmptySeq
  <2>2. QED
    BY <2>1, EncodeFront DEF Filled
<1>7. x = DataCRC(p)[1] /\ y = DataCRC(p)[2] => w = z
  OBVIOUS
<1> HIDE DEF w, z, n
<1>8. w = z => x = DataCRC(p)[1] /\ y = DataCRC(p)[2]
  BY <1>2, <1>3
<1>9. Framing!PayloadLen(Framing!HeaderOf(w)) = n
  BY <1>2, SamePayloadLen DEF n
<1>10. Framing!IsFrame(w) <=> w = z
  BY <1>1, <1>2, <1>5, <1>6, <1>9 DEF Framing!IsFrame
<1>11. ~Framing!OnTrack(w)
  BY <1>1, <1>2, <1>9 DEF Framing!OnTrack
<1>12. QED
  BY <1>5, <1>7, <1>8, <1>10, <1>11 DEF w

----------------------------------------------------------------------------
(***************************************************************************)
(* Appending to a concatenation.                                           *)
(***************************************************************************)
LEMMA AppendToOne ==
    ASSUME NEW x, NEW y
    PROVE  Append(<<x>>, y) = <<x, y>>
<1> DEFINE S == {x, y}
           q == <<x>>
           r == <<x, y>>
           v == Append(q, y)
<1>1. q \in Seq(S) /\ r \in Seq(S) /\ y \in S
  OBVIOUS
<1>2. Len(q) = 1 /\ q[1] = x /\ Len(r) = 2 /\ r[1] = x /\ r[2] = y
  OBVIOUS
<1> HIDE DEF q, r, S
<1>3. /\ v \in Seq(S) /\ Len(v) = Len(q) + 1
      /\ \A i \in 1..Len(q) : v[i] = q[i]
      /\ v[Len(q) + 1] = y
  BY <1>1, AppendProperties
<1> HIDE DEF v
<1>4. Len(v) = Len(r) /\ \A i \in 1..Len(v) : v[i] = r[i]
  BY <1>2, <1>3
<1>5. v = r
  BY <1>1, <1>3, <1>4, SeqEqual
<1>6. QED
  BY <1>5 DEF v, q, r

AppendedTwo(S, s, p, x, y) ==
    Append((s \o p) \o <<x>>, y) = s \o (p \o <<x, y>>)

LEMMA AppendTwo ==
    ASSUME NEW S, NEW s \in Seq(S), NEW p \in Seq(S), NEW x \in S, NEW y \in S
    PROVE  AppendedTwo(S, s, p, x, y)
<1> DEFINE q == <<x>>
           r == <<x, y>>
           u == s \o p
<1>1. q \in Seq(S) /\ r \in Seq(S)
  OBVIOUS
<1>2. Append(q, y) = r
  BY AppendToOne
<1>3. u \in Seq(S)
  BY ConcatProperties
<1>4. u \o r = s \o (p \o r)
  <2> HIDE DEF r
  <2>1. Associates(S, s, p, r)
    BY <1>1, ConcatAssociates
  <2>2. QED
    BY <2>1 DEF Associates
<1> HIDE DEF q, r, u
<1>5. Append(u \o q, y) = u \o Append(q, y)
  <2> DEFINE e == <<y>>
  <2>1. e \in Seq(S) /\ u \o q \in Seq(S)
    BY <1>1, <1>3, ConcatProperties
  <2>2. Append(u \o q, y) = (u \o q) \o e /\ Append(q, y) = q \o e
    BY <1>1, <2>1, AppendIsConcat
  <2> HIDE DEF e
  <2>3. Associates(S, u, q, e)
    BY <1>1, <1>3, <2>1, ConcatAssociates
  <2>4. QED
    BY <2>2, <2>3 DEF Associates
<1>6. Append(u \o q, y) = s \o (p \o r)
  BY <1>2, <1>4, <1>5
<1>7. QED
  BY <1>6 DEF q, r, u, AppendedTwo

(***************************************************************************)
(* What the window is in each state.                                       *)
(***************************************************************************)
LEMMA WindowIs ==
    /\ receiver # "running" => Window = <<>>
    /\ state = "IDLE" => Window = <<>>
    /\ receiver = "running" =>
          /\ state = "PREAMBLE" => Window = <<PREAMBLE_1>>
          /\ state \in {"HEADER", "HEADER_CRC"} => Window = <<PREAMBLE_1, PREAMBLE_2>> \o header
          /\ state = "DATA" => Window = Front(header, HeaderCRC(header)) \o payload
          /\ state = "DATA_CRC" =>
                Window = Front(header, HeaderCRC(header)) \o payload \o <<dataCRC1>>
BY DEF Window, Preambled, Front

(***************************************************************************)
(* Steps that end the loop without a message, and steps that keep the      *)
(* octet in the window, are steps of MstpFraming.                          *)
(***************************************************************************)
LEMMA Stopping ==
    ASSUME receiver = "running", receiver' # "running", indicated' = <<>>,
           octet' \in Octet \cup {-1}
    PROVE  Framing!Stop
<1>1. Window' = <<>>
  <2>1. WindowIs!1'
    BY WindowIs, PTL
  <2>2. QED
    BY <2>1
<1>2. QED
  BY <1>1 DEF Framing!Stop

LEMMA Keeping ==
    ASSUME receiver = "running", receiver' = "running", indicated' = <<>>,
           NEW data \in Octet, octet' = data,
           Window' = Append(Window, data), ~Framing!IsFrame(Append(Window, data))
    PROVE  Framing!Receive(data)
BY DEF Framing!Receive, Framing!Continue, Framing!GiveUp

LEMMA Dropping ==
    ASSUME receiver = "running", receiver' = "running", indicated' = <<>>,
           NEW data \in Octet, octet' = data, NEW w, w = Append(Window, data),
           \/ Window' = <<>>
           \/ data = PREAMBLE_1 /\ Window' = <<PREAMBLE_1>>,
           ~Framing!IsFrame(w), ~Framing!OnTrack(w)
    PROVE  Framing!Receive(data)
BY DEF Framing!Receive, Framing!GiveUp, PREAMBLE_1, Framing!PREAMBLE_1

LEMMA Completing ==
    ASSUME receiver = "running", IndicateMessage, BackToIdle \/ receiver' = "listenerFailed",
           NEW data \in Octet, octet' = data, NEW w, w = Append(Window, data),
           Framing!IsFrame(w), Framing!FrameIn(w) = [header |-> header, payload |-> payload]
    PROVE  Framing!Receive(data)
<1>1. Window' = <<>>
  <2>1. state' = "IDLE" \/ receiver' # "running"
    BY DEF BackToIdle
  <2>2. WindowIs!1' /\ WindowIs!2'
    BY WindowIs, PTL
  <2>3. QED
    BY <2>1, <2>2
<1>2. indicated' = <<Framing!FrameIn(w)>>
  BY DEF IndicateMessage
<1>3. (receiver = "running")' \in BOOLEAN
  OBVIOUS
<1>4. Framing!Complete(w)
  BY <1>1, <1>2, <1>3 DEF Framing!Complete
<1>5. QED
  BY <1>4 DEF Framing!Receive

(***************************************************************************)
(* The octets between two frames and the preamble.                         *)
(***************************************************************************)
LEMMA ShortWindow ==
    ASSUME NEW a, NEW b
    PROVE  /\ ~Framing!IsFrame(<<a>>) /\ ~Framing!IsFrame(<<a, b>>)
           /\ a # PREAMBLE_1 => ~Framing!OnTrack(<<a>>)
           /\ b # PREAMBLE_2 => ~Framing!OnTrack(<<a, b>>)
<1>1. Len(<<a>>) = 1 /\ (<<a>>)[1] = a
  OBVIOUS
<1>2. Len(<<a, b>>) = 2 /\ (<<a, b>>)[2] = b
  OBVIOUS
<1>3. QED
  BY <1>1, <1>2 DEF Framing!IsFrame, Framing!OnTrack, PREAMBLE_1, PREAMBLE_2,
                    Framing!PREAMBLE_1, Framing!PREAMBLE_2

LEMMA IdleStep ==
    ASSUME receiver = "running", NEW data \in Octet, octet' = data, Idle(data)
    PROVE  Framing!Receive(data) \/ Framing!Stop
<1> DEFINE w == Append(Window, data)
<1>1. w = <<data>>
  BY WindowIs DEF Idle
<1>2. CASE receiver' # "running"
  BY <1>2, Stopping DEF Idle
<1>3. CASE receiver' = "running" /\ data = PREAMBLE_1
  <2>1. WindowIs!3'
    BY WindowIs, PTL
  <2>2. Window' = <<PREAMBLE_1>>
    BY <1>3, <2>1 DEF Idle
  <2>3. Window' = w /\ ~Framing!IsFrame(w)
    BY <1>1, <1>3, <2>2, ShortWindow
  <2>4. QED
    BY <1>3, <2>3, Keeping DEF Idle
<1>4. CASE receiver' = "running" /\ data # PREAMBLE_1
  <2>1. WindowIs!2'
    BY WindowIs, PTL
  <2>2. Window' = <<>>
    BY <1>4, <2>1 DEF Idle
  <2>3. ~Framing!IsFrame(w) /\ ~Framing!OnTrack(w)
    BY <1>1, <1>4, ShortWindow
  <2>4. QED
    BY <1>4, <2>2, <2>3, Dropping DEF Idle
<1>5. QED
  BY <1>2, <1>3, <1>4

LEMMA PreambleStep ==
    ASSUME receiver = "running", NEW data \in Octet, octet' = data, Preamble(data),
           header = <<>>
    PROVE  Framing!Receive(data)
<1> DEFINE w == Append(Window, data)
<1>1. w = <<PREAMBLE_1, data>>
  <2>1. Window = <<PREAMBLE_1>>
    BY WindowIs DEF Preamble
  <2>2. QED
    BY <2>1, AppendToOne
<1>2. receiver' = "running" /\ indicated' = <<>> /\ ~Framing!IsFrame(w)
  BY <1>1, ShortWindow DEF Preamble
<1>3. WindowIs!2' /\ WindowIs!3'
  BY WindowIs, PTL
<1>4. CASE data = PREAMBLE_1
  <2>1. Window' = <<PREAMBLE_1>> /\ data # PREAMBLE_2
    BY <1>2, <1>3, <1>4 DEF Preamble, PREAMBLE_1, PREAMBLE_2
  <2>2. ~Framing!OnTrack(w)
    BY <1>1, <2>1, ShortWindow
  <2>3. QED
    BY <1>2, <1>4, <2>1, <2>2, Dropping
<1>5. CASE data = PREAMBLE_2
  <2>1. state' = "HEADER" /\ header' = <<>>
    BY <1>5 DEF Preamble, Reset, PREAMBLE_1, PREAMBLE_2
  <2>2. Window' = <<PREAMBLE_1, PREAMBLE_2>> \o header'
    BY <1>2, <1>3, <2>1
  <2>3. Window' = w
    BY <1>1, <1>5, <2>1, <2>2
  <2>4. QED
    BY <1>2, <2>3, Keeping
<1>6. CASE data \notin {PREAMBLE_1, PREAMBLE_2}
  <2>1. Window' = <<>>
    BY <1>3, <1>6 DEF Preamble
  <2>2. ~Framing!OnTrack(w)
    BY <1>1, <1>6, ShortWindow
  <2>3. QED
    BY <1>2, <2>1, <2>2, Dropping
<1>7. QED
  BY <1>4, <1>5, <1>6

(***************************************************************************)
(* The octets of a frame.  StageInvariant says how many there are.         *)
(***************************************************************************)
LEMMA Preambled2 ==
    ASSUME NEW S, PREAMBLE_1 \in S, PREAMBLE_2 \in S, NEW h \in Seq(S), NEW b \in S
    PROVE  LET w == Append(<<PREAMBLE_1, PREAMBLE_2>> \o h, b)
           IN  /\ w = <<PREAMBLE_1, PREAMBLE_2>> \o Append(h, b)
               /\ w = Front(h, b)
               /\ Len(w) = 3 + Len(h)
<1> DEFINE p == <<PREAMBLE_1, PREAMBLE_2>>
           v == p \o h
           w == Append(v, b)
<1>1. p \in Seq(S) /\ Long(p, 2)
  BY DEF Long
<1> HIDE DEF p
<1>2. v \in Seq(S) /\ Len(v) = Len(p) + Len(h)
  BY <1>1, ConcatProperties
<1>3. w = p \o Append(h, b)
  <2> DEFINE q == <<b>>
  <2>1. q \in Seq(S) /\ w = v \o q /\ Append(h, b) = h \o q
    BY <1>2, AppendIsConcat
  <2> HIDE DEF q
  <2>2. Associates(S, p, h, q)
    BY <1>1, <2>1, ConcatAssociates
  <2>3. QED
    BY <2>1, <2>2 DEF Associates
<1> HIDE DEF v
<1>4. Len(w) = Len(v) + 1 /\ w = v \o <<b>>
  BY <1>2, AppendProperties, AppendIsConcat
<1> HIDE DEF w
<1>5. Len(w) = 3 + Len(h)
  <2>1. Len(h) \in Nat
    OBVIOUS
  <2>2. QED
    BY <1>1, <1>2, <1>4, <2>1 DEF Long
<1>6. QED
  BY <1>3, <1>4, <1>5 DEF Front, w, v, p

LEMMA HeaderStep ==
    ASSUME TypeOK, StageInvariant, receiver = "running",
           NEW data \in Octet, octet' = data, HeaderOctet(data)
    PROVE  Framing!Receive(data)
<1> DEFINE S == Octet \cup {PREAMBLE_1, PREAMBLE_2}
           v == <<PREAMBLE_1, PREAMBLE_2>> \o header
           w == Append(v, data)
<1>1. /\ header \in Seq(S) /\ data \in S
      /\ PREAMBLE_1 \in S /\ PREAMBLE_2 \in S
  BY SeqOfLarger DEF TypeOK
<1> HIDE DEF S
<1>2. w = <<PREAMBLE_1, PREAMBLE_2>> \o Append(header, data) /\ Len(w) = 3 + Len(header)
  BY <1>1, Preambled2
<1>3. Window = v
  BY WindowIs DEF HeaderOctet
<1>4. headerBufferIndex # HeaderBufferLen /\ Len(header) < 5 /\ Len(header) \in Nat
  BY BufferAssumption
     DEF HeaderOctet, TypeOK, StageInvariant, HeaderStage, DebugStage, HeaderLen
<1>5. /\ receiver' = "running" /\ indicated' = <<>>
      /\ state' \in {"HEADER", "HEADER_CRC"} /\ header' = Append(header, data)
  BY <1>4 DEF HeaderOctet, Debug
<1>6. WindowIs!3'
  BY WindowIs, PTL
<1>7. Window' = <<PREAMBLE_1, PREAMBLE_2>> \o header'
  BY <1>5, <1>6
<1> HIDE DEF w, v
<1>8. Window' = w
  BY <1>2, <1>5, <1>7
<1>9. ~Framing!IsFrame(w)
  BY <1>2, <1>4 DEF Framing!IsFrame
<1>10. w = Append(Window, data)
  BY <1>3 DEF w
<1>11. QED
  BY <1>5, <1>8, <1>9, <1>10, Keeping

LEMMA HeaderCrcStep ==
    ASSUME TypeOK, StageInvariant, receiver = "running",
           NEW data \in Octet, octet' = data, HeaderCrcOctet(data)
    PROVE  Framing!Receive(data)
<1> DEFINE S == Octet \cup {PREAMBLE_1, PREAMBLE_2}
           w == Append(Window, data)
           e == <<>>
<1>1. /\ header \in Seq(S) /\ data \in S
      /\ PREAMBLE_1 \in S /\ PREAMBLE_2 \in S
  BY SeqOfLarger DEF TypeOK
<1>2. header \in Seq(Octet) /\ Long(header, 5) /\ payload = <<>>
  BY DEF HeaderCrcOctet, TypeOK, StageInvariant, HeaderStage, PayloadStage, HeaderLen, Long
<1>3. w = Front(header, data)
  <2>1. Window = <<PREAMBLE_1, PREAMBLE_2>> \o header
    BY WindowIs DEF HeaderCrcOctet
  <2> HIDE DEF S
  <2>2. QED
    BY <1>1, <2>1, Preambled2
<1>4. w = Front(header, data) \o <<>>
  <2> HIDE DEF S
  <2>1. Front(header, data) \in Seq(S)
    BY <1>1, <1>2, FrontOctets
  <2>2. QED
    BY <1>3, <2>1, ConcatEmptySeq
<1> HIDE DEF w
<1>5. /\ PayloadLen(header) = 0 /\ data = HeaderCRC(header) =>
            /\ Framing!IsFrame(w)
            /\ Framing!FrameIn(w) = [header |-> header, payload |-> <<>>]
      /\ PayloadLen(header) # 0 => ~Framing!IsFrame(w)
      /\ data # HeaderCRC(header) => ~Framing!IsFrame(w) /\ ~Framing!OnTrack(w)
  BY <1>2, <1>4, FrontIsFrame
<1>6. CASE ~CheckCRC(data) /\ DropFrame
  <2>1. WindowIs!2'
    BY WindowIs, PTL
  <2>2. receiver' = "running" /\ indicated' = <<>> /\ Window' = <<>>
    BY <1>6, <2>1 DEF DropFrame, BackToIdle
  <2>3. ~Framing!IsFrame(w) /\ ~Framing!OnTrack(w)
    BY <1>5, <1>6 DEF CheckCRC
  <2>4. QED
    BY <2>2, <2>3, Dropping DEF w
<1>7. CASE CheckCRC(data) /\ PayloadLen(header) = 0 /\ IndicateMessage
  <2>1. /\ Framing!IsFrame(w)
        /\ Framing!FrameIn(w) = [header |-> header, payload |-> payload]
    BY <1>2, <1>5, <1>7 DEF CheckCRC
  <2>2. BackToIdle \/ receiver' = "listenerFailed"
    BY <1>7 DEF IndicateMessage
  <2>3. QED
    BY <1>7, <2>1, <2>2, Completing DEF w
<1>8. CASE /\ CheckCRC(data) /\ PayloadLen(header) # 0
           /\ state' = "DATA" /\ indicated' = <<>>
           /\ UNCHANGED <<header, payload, dataCRC1, headerBufferIndex, receiver>>
  <2>1. WindowIs!3'
    BY WindowIs, PTL
  <2>2. Window' = Front(header, HeaderCRC(header)) \o <<>>
    BY <1>2, <1>8, <2>1
  <2>3. Window' = w
    BY <1>4, <1>8, <2>2 DEF CheckCRC
  <2>4. ~Framing!IsFrame(w)
    BY <1>5, <1>8
  <2>5. QED
    BY <1>8, <2>3, <2>4, Keeping DEF w
<1>9. QED
  BY <1>6, <1>7, <1>8 DEF HeaderCrcOctet

LEMMA DataStep ==
    ASSUME TypeOK, StageInvariant, receiver = "running",
           NEW data \in Octet, octet' = data, DataOctet(data)
    PROVE  Framing!Receive(data) \/ Framing!Stop
<1> DEFINE S == Values(header, payload)
           c == HeaderCRC(header)
           g == Front(header, c)
           r == Append(payload, data)
           w == Append(Window, data)
<1>1. /\ header \in Seq(Octet) /\ payload \in Seq(Octet) /\ Long(header, 5)
      /\ PayloadLen(header) > 0 /\ Len(payload) <= PayloadLen(header)
  BY DEF DataOctet, TypeOK, StageInvariant, HeaderStage, PayloadStage, HeaderLen, Long
<1>2. r \in Seq(Octet) /\ Len(r) = Len(payload) + 1
  BY <1>1, AppendProperties
<1>3. Window = g \o payload
  BY WindowIs DEF DataOctet
<1>4. w = g \o r /\ w = (g \o payload) \o <<data>>
  <2>1. Octet \subseteq S /\ PREAMBLE_1 \in S /\ PREAMBLE_2 \in S /\ c \in S
    BY DEF Values
  <2> HIDE DEF S, c
  <2>2. header \in Seq(S) /\ payload \in Seq(S) /\ data \in S
    BY <1>1, <2>1, SeqOfLarger
  <2>3. g \in Seq(S)
    BY <1>1, <2>1, <2>2, FrontOctets
  <2> HIDE DEF g
  <2> DEFINE q == <<data>>
             u == g \o payload
  <2>4. q \in Seq(S)
    BY <2>2
  <2>5. u \in Seq(S)
    BY <2>2, <2>3, ConcatProperties
  <2>6. Append(u, data) = u \o q /\ r = payload \o q
    BY <2>2, <2>5, AppendIsConcat
  <2> HIDE DEF q, r
  <2>7. Associates(S, g, payload, q)
    BY <2>2, <2>3, <2>4, ConcatAssociates
  <2>8. w = u \o q
    BY <1>3, <2>6
  <2>9. QED
    BY <2>6, <2>7, <2>8 DEF q, Associates
<1>5. ~Framing!IsFrame(w)
  <2>1. Len(r) <= PayloadLen(header) + 1
    <3>1. PayloadLen(header) \in Nat /\ Len(payload) \in Nat
      BY <1>1, PayloadLenNat DEF Long, HeaderLen
    <3>2. QED
      BY <1>1, <1>2, <3>1
  <2> HIDE DEF w, r
  <2>2. ~Framing!IsFrame(Front(header, HeaderCRC(header)) \o r)
    BY <1>1, <1>2, <2>1, UnfinishedPayload
  <2>3. QED
    BY <1>4, <2>2
<1>6. indicated' = <<>> /\ UNCHANGED header
  BY DEF DataOctet
<1>7. WindowIs!3'
  BY WindowIs, PTL
<1> HIDE DEF r, g, c
<1>8. CASE receiver' # "running"
  BY <1>6, <1>8, Stopping
<1>9. CASE receiver' = "running" /\ PayloadDone
  <2>1. state' = "DATA_CRC" /\ dataCRC1' = data /\ payload' = payload
    BY <1>9 DEF DataOctet
  <2>2. Window' = Front(header', HeaderCRC(header')) \o payload' \o <<dataCRC1'>>
    BY <1>7, <1>9, <2>1
  <2>3. Window' = (g \o payload) \o <<data>>
    BY <1>6, <2>1, <2>2 DEF g, c
  <2>4. QED
    BY <1>4, <1>5, <1>6, <1>9, <2>3, Keeping
<1>10. CASE receiver' = "running" /\ ~PayloadDone
  <2>1. state' = "DATA" /\ payload' = r
    BY <1>10 DEF DataOctet, r
  <2>2. Window' = Front(header', HeaderCRC(header')) \o payload'
    BY <1>7, <1>10, <2>1
  <2>3. Window' = g \o r
    BY <1>6, <2>1, <2>2 DEF g, c
  <2>4. QED
    BY <1>4, <1>5, <1>6, <1>10, <2>3, Keeping
<1>11. QED
  BY <1>8, <1>9, <1>10

LEMMA DataCrcStep ==
    ASSUME TypeOK, StageInvariant, receiver = "running",
           NEW data \in Octet, octet' = data, DataCrcOctet(data)
    PROVE  Framing!Receive(data)
<1> DEFINE S == Values(header, payload)
           c == HeaderCRC(header)
           g == Front(header, c)
           w == Append(Window, data)
<1>1. /\ header \in Seq(Octet) /\ payload \in Seq(Octet) /\ Long(header, 5)
      /\ PayloadLen(header) > 0 /\ Long(payload, PayloadLen(header))
      /\ dataCRC1 \in Octet
  BY DEF DataCrcOctet, TypeOK, StageInvariant, HeaderStage, PayloadStage, HeaderLen, Long
<1>2. w = Filled(header, payload, dataCRC1, data)
  <2>1. Window = (g \o payload) \o <<dataCRC1>>
    BY WindowIs DEF DataCrcOctet
  <2>2. Octet \subseteq S /\ PREAMBLE_1 \in S /\ PREAMBLE_2 \in S /\ c \in S
    BY DEF Values
  <2> HIDE DEF S, c
  <2>3. header \in Seq(S) /\ payload \in Seq(S) /\ data \in S /\ dataCRC1 \in S
    BY <1>1, <2>2, SeqOfLarger
  <2>4. g \in Seq(S)
    BY <1>1, <2>2, <2>3, FrontOctets
  <2> HIDE DEF g
  <2>5. AppendedTwo(S, g, payload, dataCRC1, data)
    BY <2>3, <2>4, AppendTwo
  <2>6. QED
    BY <2>1, <2>5 DEF AppendedTwo, Filled, g, c
<1> HIDE DEF w
<1>3. /\ Framing!FrameIn(w) = [header |-> header, payload |-> payload]
      /\ Framing!IsFrame(w) <=> CheckDataCRC(data)
      /\ ~Framing!OnTrack(w)
  BY <1>1, <1>2, FilledIsFrame DEF CheckDataCRC
<1>4. CASE ~CheckDataCRC(data) /\ DropFrame
  <2>1. WindowIs!2'
    BY WindowIs, PTL
  <2>2. receiver' = "running" /\ indicated' = <<>> /\ Window' = <<>>
    BY <1>4, <2>1 DEF DropFrame, BackToIdle
  <2>3. QED
    BY <1>3, <1>4, <2>2, Dropping DEF w
<1>5. CASE CheckDataCRC(data) /\ IndicateMessage
  <2>1. BackToIdle \/ receiver' = "listenerFailed"
    BY <1>5 DEF IndicateMessage
  <2>2. QED
    BY <1>3, <1>5, <2>1, Completing DEF w
<1>6. QED
  BY <1>4, <1>5 DEF DataCrcOctet

(***************************************************************************)
(* The receiver implements MstpFraming: the listener is told of a frame    *)
(* exactly when the octets received since some preamble spell it out, and  *)
(* a frame that is on its way is never given up for another one.           *)
(***************************************************************************)
THEOREM ReceiverImplementsFraming == Spec => FramingSpec
<1>1. Init => Framing!Init
  <2>1. Init => Window = <<>>
    BY WindowIs DEF Init
  <2>2. QED
    BY <2>1 DEF Init, Framing!Init
<1>2. TypeOK /\ StageInvariant /\ [Next]_vars => [Framing!Next]_(Framing!framingVars)
  <2> SUFFICES ASSUME TypeOK, StageInvariant, [Next]_vars
               PROVE  Framing!Next \/ UNCHANGED Framing!framingVars
    OBVIOUS
  <2>1. ASSUME receiver = "running", NEW data \in Octet, octet' = data, Input(data)
        PROVE  Framing!Receive(data) \/ Framing!Stop
    <3>1. state = "PREAMBLE" => header = <<>>
      BY DEF StageInvariant, HeaderStage
    <3>2. Preamble(data) => header = <<>>
      BY <3>1 DEF Preamble
    <3>3. QED
      BY <2>1, <3>2, IdleStep, PreambleStep, HeaderStep, HeaderCrcStep, DataStep,
         DataCrcStep DEF Input
  <2>2. CASE EndOfStream
    BY <2>2, Stopping DEF EndOfStream, Framing!Next
  <2>3. CASE UNCHANGED vars
    BY <2>3 DEF vars, Window, Preambled, Framing!framingVars
  <2>4. QED
    BY <2>1, <2>2, <2>3 DEF Next, Read, Framing!Next
<1>3. QED
  BY <1>1, <1>2, TypeCorrect, StageCorrect, PTL DEF Spec, FramingSpec, Framing!Spec
=============================================================================
