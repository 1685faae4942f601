-------------------------- MODULE DoorServerProofs --------------------------
(***************************************************************************)
(* The door and its subscribers, proved for any number of threads, clients *)
(* and requests, whatever values they write.                               *)
(***************************************************************************)
EXTENDS DoorServer, TLAPS, FiniteSetTheorems, WellFoundedInduction

ThreadType == [Thread -> [request : Kind \cup {"none"}, todo : Seq(Op)]]

-----------------------------------------------------------------------------
(* What is left of a request                                               *)

LEMMA OpFields ==
    ASSUME NEW e \in Op
    PROVE  /\ e.op \in {"executeAction", "write", "set", "parent", "cov", "notify", "isBytes",
                        "isInteger", "cast", "send", "event"}
           /\ e.op \notin {"executeAction", "event"} => e.obj \in Object
           /\ e.op \in {"write", "set", "parent"} => e.new \in Value
           /\ e.op = "parent" => e.old \in Value
           /\ e.op \in {"isBytes", "isInteger", "cast", "send"} => e.client \in Client
           /\ e.op = "cast" => e.kind \in {"bytes", "int"}
           /\ e.op = "send" => e.val \in Value
           /\ e.op = "notify" =>
                /\ e = [op |-> "notify", obj |-> e.obj, may |-> e.may, must |-> e.must,
                        done |-> e.done]
                /\ e.may \subseteq Client /\ e.must \subseteq Client /\ e.done \subseteq Client
BY DEF Op

LEMMA Front ==
    ASSUME NEW t \in Thread, thread \in ThreadType, Busy(t)
    PROVE  /\ Head(thread[t].todo) \in Op /\ Tail(thread[t].todo) \in Seq(Op)
           /\ thread[t].request \in Kind \cup {"none"}
BY DEF ThreadType, Busy

LEMMA DoType ==
    ASSUME NEW t \in Thread, thread \in ThreadType, Busy(t), NEW ops \in Seq(Op), Do(t, ops)
    PROVE  /\ thread' \in ThreadType
           /\ thread'[t].todo = ops \o Tail(thread[t].todo)
           /\ \A u \in Thread \ {t} : thread'[u] = thread[u]
<1> DEFINE rest == ops \o Tail(thread[t].todo)
<1>1. rest \in Seq(Op)
  BY Front
<1>2. thread' = [thread EXCEPT ![t] =
         IF rest = <<>> THEN Idle ELSE [thread[t] EXCEPT !.todo = rest]]
  BY DEF Do
<1>3. Idle \in [request : Kind \cup {"none"}, todo : Seq(Op)] /\ Idle.todo = <<>>
  BY DEF Idle
<1> HIDE DEF rest
<1>4. [thread[t] EXCEPT !.todo = rest] \in [request : Kind \cup {"none"}, todo : Seq(Op)]
      /\ [thread[t] EXCEPT !.todo = rest].todo = rest
  BY <1>1 DEF ThreadType
<1>5. /\ thread' \in ThreadType /\ thread'[t].todo = rest
      /\ \A u \in Thread \ {t} : thread'[u] = thread[u]
  BY <1>1, <1>2, <1>3, <1>4 DEF ThreadType
<1>6. QED
  BY <1>5 DEF rest

LEMMA FailType ==
    ASSUME NEW t \in Thread, thread \in ThreadType, Fail(t)
    PROVE  /\ thread' \in ThreadType /\ thread'[t].todo = <<>>
           /\ \A u \in Thread \ {t} : thread'[u] = thread[u]
           /\ failed' # {}
<1>1. Idle \in [request : Kind \cup {"none"}, todo : Seq(Op)] /\ Idle.todo = <<>>
  BY DEF Idle
<1>2. thread' = [thread EXCEPT ![t] = Idle] /\ thread[t].request \in failed'
  BY DEF Fail
<1>3. QED
  BY <1>1, <1>2 DEF ThreadType

-----------------------------------------------------------------------------
(* Types                                                                   *)

\* A thread that has something to do serves a request.
Inv == TypeOK /\ \A t \in Thread : Busy(t) => thread[t].request \in Kind

LEMMA InitInv == Init => Inv
<1> SUFFICES ASSUME Init PROVE Inv
  OBVIOUS
<1>1. value \in [Object -> Value]
  BY DEF Init, Object, Value, Int32, Bytes
<1>2. thread \in [Thread -> [request : Kind \cup {"none"}, todo : Seq(Op)]]
  BY DEF Init, Idle
<1>3. \A t \in Thread : ~Busy(t)
  BY DEF Init, Idle, Busy
<1>4. invokeId \in 0..(InvokeIds - 1) /\ requests \in 0..MaxRequests
  BY BoundAssumption DEF Init
<1>5. QED
  BY <1>1, <1>2, <1>3, <1>4 DEF Init, Inv, TypeOK

\* A thread that goes on leaves nothing undone but what it takes upon itself.
LEMMA DoInv ==
    ASSUME NEW t \in Thread, Inv, Busy(t), NEW ops \in Seq(Op), Do(t, ops)
    PROVE  /\ thread' \in ThreadType
           /\ \A u \in Thread : Busy(u)' => thread'[u].request \in Kind
<1>1. thread \in ThreadType
  BY DEF Inv, TypeOK, ThreadType
<1>2. thread' \in ThreadType /\ \A u \in Thread \ {t} : thread'[u] = thread[u]
  BY <1>1, DoType
<1>3. thread'[t].todo # <<>> => thread'[t].request = thread[t].request
  BY <1>1 DEF Do, ThreadType, Idle
<1>4. QED
  BY <1>2, <1>3 DEF Inv, Busy

LEMMA GotoInv ==
    ASSUME NEW t \in Thread, Inv, Busy(t), NEW ops \in Seq(Op), Goto(t, ops)
    PROVE  Inv'
BY DoInv DEF Goto, Inv, TypeOK, ThreadType

LEMMA FailedCastInv ==
    ASSUME NEW t \in Thread, Inv, Busy(t), FailedCast(t) PROVE Inv'
<1>1. thread \in ThreadType /\ Fail(t)
  BY DEF Inv, TypeOK, ThreadType, FailedCast
<1>2. /\ thread' \in ThreadType /\ thread'[t].todo = <<>>
      /\ \A u \in Thread \ {t} : thread'[u] = thread[u]
  BY <1>1, FailType
<1>3. failed' \subseteq Kind
  BY <1>1 DEF Fail, Inv, TypeOK
<1>4. QED
  BY <1>2, <1>3 DEF FailedCast, Inv, TypeOK, ThreadType, Busy

\* What the operations add to a thread's todo
LEMMA Values ==
    \A n \in Int : Bytes(n) \in Value /\ Int32(n) \in Value
BY DEF Bytes, Int32, Value

LEMMA WriteOp == ASSUME NEW o \in Object, NEW v \in Value PROVE Write(o, v) \in Op
BY DEF Write, Op

LEMMA UpdateOps ==
    ASSUME NEW o \in Object, NEW v \in Value, NEW w \in Value
    PROVE  Update(o, v, w) \in Seq(Op)
<1>1. /\ [op |-> "set", obj |-> o, new |-> v] \in Op
      /\ [op |-> "parent", obj |-> o, new |-> v, old |-> w] \in Op
      /\ [op |-> "cov", obj |-> o] \in Op
  BY DEF Op
<1>2. QED
  BY <1>1 DEF Update

LEMMA EventOp == \A text \in Text : Event(text) \in Op
BY DEF Event, Op

LEMMA EffectsOps ==
    ASSUME NEW state \in Int, NEW lock \in Int, NEW door \in Int, NEW text \in Text
    PROVE  Effects(state, lock, door, text) \in Seq(Op)
<1>1. /\ Write("state", Int32(state)) \in Op /\ Write("lock", Int32(lock)) \in Op
      /\ Write("door", Int32(door)) \in Op /\ Event(text) \in Op
  BY Values, WriteOp, EventOp DEF Object
<1>2. QED
  BY <1>1 DEF Effects

LEMMA Nothing == <<>> \in Seq(Op)
OBVIOUS

LEMMA LogicOps ==
    ASSUME NEW n
    PROVE  /\ DoorLogic(n) \in Seq(Op) /\ CommandLogic(n) \in Seq(Op)
           /\ \A i \in DOMAIN DoorLogic(n) : DoorLogic(n)[i].op = "event"
           /\ \A i \in DOMAIN CommandLogic(n) :
                 /\ CommandLogic(n)[i].op \in {"write", "event"}
                 /\ CommandLogic(n)[i].op = "write" => CommandLogic(n)[i].new.kind = "int"
<1>1. /\ DoorLogic(n) \in Seq(Op)
      /\ \A i \in DOMAIN DoorLogic(n) : DoorLogic(n)[i].op = "event"
  <2> DEFINE opened == Event("Door Open")
             closed == Event("Door Closed")
  <2>1. opened \in Op /\ closed \in Op /\ opened.op = "event" /\ closed.op = "event"
    BY DEF Event, Op, Text
  <2>2. DoorLogic(n) \in {<<opened>>, <<closed>>, <<>>}
    BY DEF DoorLogic
  <2>3. ASSUME NEW e \in Op, e.op = "event", NEW s, s = <<e>>
        PROVE  s \in Seq(Op) /\ \A i \in DOMAIN s : s[i].op = "event"
    BY <2>3
  <2> HIDE DEF opened, closed
  <2>4. CASE DoorLogic(n) = <<>>
    BY <2>4, Nothing
  <2>5. QED
    BY <2>1, <2>2, <2>3, <2>4
<1> DEFINE Plain(s) ==
             /\ s \in Seq(Op)
             /\ \A i \in DOMAIN s :
                   /\ s[i].op \in {"write", "event"}
                   /\ s[i].op = "write" => s[i].new.kind = "int"
<1>2. ASSUME NEW state \in Int, NEW lock \in Int, NEW door \in Int, NEW text \in Text
      PROVE  Plain(Effects(state, lock, door, text))
  <2>1. Effects(state, lock, door, text) \in Seq(Op)
    BY EffectsOps
  <2>2. QED
    BY <2>1 DEF Effects, Write, Event, Int32
<1>3. /\ Plain(Effects(1, 0, 0, "Lock Unlock")) /\ Plain(Effects(4, 1, 1, "Lock Locked"))
      /\ Plain(Effects(6, 0, 1, "Lock Short Time Release"))
  <2>1. "Lock Unlock" \in Text /\ "Lock Locked" \in Text /\ "Lock Short Time Release" \in Text
    BY DEF Text
  <2>2. 0 \in Int /\ 1 \in Int /\ 4 \in Int /\ 6 \in Int
    OBVIOUS
  <2> HIDE DEF Plain
  <2>3. Plain(Effects(1, 0, 0, "Lock Unlock"))
    BY <1>2, <2>1, <2>2, Zenon
  <2>4. Plain(Effects(4, 1, 1, "Lock Locked"))
    BY <1>2, <2>1, <2>2, Zenon
  <2>5. Plain(Effects(6, 0, 1, "Lock Short Time Release"))
    BY <1>2, <2>1, <2>2, Zenon
  <2>6. QED
    BY <2>3, <2>4, <2>5
<1>4. Plain(<<>>)
  OBVIOUS
<1>5. Plain(CommandLogic(n))
  <2> HIDE DEF Plain
  <2>1. QED
    BY <1>3, <1>4 DEF CommandLogic
<1>6. QED
  BY <1>1, <1>5

LEMMA AskOp ==
    ASSUME NEW o \in Object, NEW c \in Client
    PROVE  /\ [op |-> "isBytes", obj |-> o, client |-> c] \in Op
           /\ [op |-> "isInteger", obj |-> o, client |-> c] \in Op
           /\ [op |-> "cast", obj |-> o, client |-> c, kind |-> "bytes"] \in Op
           /\ [op |-> "cast", obj |-> o, client |-> c, kind |-> "int"] \in Op
           /\ \A v \in Value : [op |-> "send", obj |-> o, client |-> c, val |-> v] \in Op
BY DEF Op

LEMMA NotifyOp ==
    ASSUME NEW o \in Object, NEW may \in SUBSET Client, NEW must \in SUBSET Client,
           NEW done \in SUBSET Client
    PROVE  [op |-> "notify", obj |-> o, may |-> may, must |-> must, done |-> done] \in Op
BY DEF Op

-----------------------------------------------------------------------------
(* What an operation hands on to those that take its place                 *)

\* An operation that will make known to c that o has the value v
Covers(e, o, c, v) ==
    \/ e.op = "cov" /\ e.obj = o
    \/ e.op = "notify" /\ e.obj = o /\ c \in e.must \ e.done
    \/ e.op \in {"isBytes", "isInteger", "cast"} /\ e.obj = o /\ e.client = c
    \/ e.op = "send" /\ e.obj = o /\ e.client = c /\ e.val = v

Pending(s, o, c, v) == \E i \in DOMAIN s : Covers(s[i], o, c, v)

\* A value is set next, and the subscribers are seen to after it.
SetShape(s) ==
    \A i \in DOMAIN s : s[i].op = "set" =>
        i = 1 /\ Len(s) >= 3 /\ s[3].op = "cov" /\ s[3].obj = s[1].obj

\* An array is written to the door next, and only while it holds one.
IsTurn(e) == e.op \in {"write", "set"} /\ e.obj = "door" /\ e.new.kind = "bytes"
TurnShape(s) ==
    \A i \in DOMAIN s : IsTurn(s[i]) => i = 1 /\ value["door"].kind = "bytes"

\* Of those who are owed a notification, all that the operation would have seen to
HandsOn(t, ops) ==
    /\ \A o \in Object : \A c \in due[o] :
          Covers(Head(thread[t].todo), o, c, value[o]) => Pending(ops, o, c, value[o])
    /\ SetShape(ops)
    /\ TurnShape(thread[t].todo) => TurnShape(ops)

Proceeds(t, ops) ==
    /\ Do(t, ops) /\ HandsOn(t, ops)
    /\ invokeId' \in 0..(InvokeIds - 1)
    /\ UNCHANGED <<value, subs, webClient, requests, due, told, refused, failed>>

LEMMA HandsOnNothing ==
    ASSUME NEW t \in Thread,
           \A o \in Object : \A c \in due[o] : ~Covers(Head(thread[t].todo), o, c, value[o])
    PROVE  HandsOn(t, <<>>)
BY DEF HandsOn, SetShape, TurnShape, Pending

\* Operations that neither set a value nor write an array
LEMMA HandsOnPlain ==
    ASSUME NEW t \in Thread, NEW ops,
           \A o \in Object : \A c \in due[o] : ~Covers(Head(thread[t].todo), o, c, value[o]),
           \A i \in DOMAIN ops : ops[i].op # "set" /\ ~IsTurn(ops[i])
    PROVE  HandsOn(t, ops)
BY DEF HandsOn, SetShape, TurnShape

LEMMA HandsOnOne ==
    ASSUME NEW t \in Thread, NEW e \in Op, e.op # "set", ~IsTurn(e),
           \A o \in Object : \A c \in due[o] :
              Covers(Head(thread[t].todo), o, c, value[o]) => Covers(e, o, c, value[o])
    PROVE  HandsOn(t, <<e>>)
BY DEF HandsOn, SetShape, TurnShape, Pending

LEMMA GotoProceeds ==
    ASSUME NEW t \in Thread, Inv, NEW ops, Goto(t, ops), HandsOn(t, ops)
    PROVE  Proceeds(t, ops)
BY DEF Goto, Proceeds, Inv, TypeOK

LEMMA DoingIs ==
    ASSUME NEW t \in Thread, Inv, NEW op, Doing(t, op)
    PROVE  Busy(t) /\ Head(thread[t].todo) \in Op /\ Head(thread[t].todo).op = op
<1>1. thread \in ThreadType
  BY DEF Inv, TypeOK, ThreadType
<1>2. QED
  BY <1>1, Front DEF Doing

LEMMA ExecuteActionStep ==
    ASSUME NEW t \in Thread, Inv, ExecuteAction(t)
    PROVE  FailedCast(t) \/ \E ops \in Seq(Op) : Proceeds(t, ops)
<1> DEFINE w == Write("door", Bytes(1 - value["door"].n))
<1>1. Head(thread[t].todo).op = "executeAction"
  BY DoingIs DEF ExecuteAction
<1>2. CASE value["door"].kind = "bytes" /\ Goto(t, <<w>>)
  <2>1. value["door"].n \in Int
    BY DEF Inv, TypeOK, Object, Value
  <2>2. w \in Op /\ w.op = "write"
    BY <2>1, Values, WriteOp DEF Object, Write
  <2>3. \A o \in Object : \A c \in due[o] : ~Covers(Head(thread[t].todo), o, c, value[o])
    BY <1>1 DEF Covers
  <2> HIDE DEF w
  <2>4. HandsOn(t, <<w>>)
    BY <1>2, <2>2, <2>3 DEF HandsOn, SetShape, TurnShape
  <2>5. Proceeds(t, <<w>>) /\ <<w>> \in Seq(Op)
    BY <1>2, <2>2, <2>4, GotoProceeds
  <2>6. QED
    BY <2>5
<1>3. QED
  BY <1>2 DEF ExecuteAction

LEMMA UpdatePropertyValueStep ==
    ASSUME NEW t \in Thread, Inv, UpdatePropertyValue(t)
    PROVE  \E ops \in Seq(Op) : Proceeds(t, ops)
<1> DEFINE cur == Head(thread[t].todo)
           ops == Update(cur.obj, cur.new, value[cur.obj])
<1>1. cur \in Op /\ cur.op = "write" /\ Busy(t)
  BY DoingIs DEF UpdatePropertyValue
<1>2. cur.obj \in Object /\ cur.new \in Value /\ value[cur.obj] \in Value
  BY <1>1, OpFields DEF Inv, TypeOK
<1>3. \A o \in Object : \A c \in due[o] : ~Covers(cur, o, c, value[o])
  BY <1>1 DEF Covers
<1>4. CASE Goto(t, <<>>)
  BY <1>3, <1>4, HandsOnNothing, GotoProceeds, Nothing
<1>5. CASE Goto(t, ops)
  <2>1. ops \in Seq(Op)
    BY <1>2, UpdateOps
  <2>2. SetShape(ops)
    BY DEF Update, SetShape
  <2>3. ASSUME TurnShape(thread[t].todo) PROVE TurnShape(ops)
    <3>1. thread[t].todo \in Seq(Op) /\ thread[t].todo # <<>>
      BY <1>1 DEF Inv, TypeOK, Busy
    <3>2. 1 \in DOMAIN thread[t].todo /\ cur = thread[t].todo[1]
      BY <3>1
    <3> HIDE DEF cur
    <3>3. IsTurn(cur) => value["door"].kind = "bytes"
      BY <2>3, <3>2 DEF TurnShape
    <3>4. QED
      BY <1>1, <3>3 DEF TurnShape, IsTurn, Update
  <2>4. HandsOn(t, ops)
    BY <1>3, <2>2, <2>3 DEF HandsOn
  <2>5. QED
    BY <1>5, <2>1, <2>4, GotoProceeds
<1>6. QED
  BY <1>4, <1>5 DEF UpdatePropertyValue

LEMMA ParentStep ==
    ASSUME NEW t \in Thread, Inv, ParentLogicListener(t)
    PROVE  FailedCast(t) \/ \E ops \in Seq(Op) : Proceeds(t, ops)
<1> DEFINE cur == Head(thread[t].todo)
<1>1. cur.op = "parent"
  BY DoingIs DEF ParentLogicListener
<1>2. \A o \in Object : \A c \in due[o] : ~Covers(cur, o, c, value[o])
  BY <1>1 DEF Covers
<1>3. \/ FailedCast(t) \/ Goto(t, <<>>)
      \/ Goto(t, DoorLogic(cur.old.n)) \/ Goto(t, CommandLogic(cur.old.n))
  BY DEF ParentLogicListener, OnValueChanged
<1>4. CASE Goto(t, <<>>)
  BY <1>2, <1>4, HandsOnNothing, GotoProceeds, Nothing
<1>5. CASE Goto(t, DoorLogic(cur.old.n))
  <2>1. HandsOn(t, DoorLogic(cur.old.n))
    BY <1>2, LogicOps, HandsOnPlain DEF IsTurn
  <2>2. QED
    BY <1>5, <2>1, LogicOps, GotoProceeds
<1>6. CASE Goto(t, CommandLogic(cur.old.n))
  <2>1. HandsOn(t, CommandLogic(cur.old.n))
    BY <1>2, LogicOps, HandsOnPlain DEF IsTurn
  <2>2. QED
    BY <1>6, <2>1, LogicOps, GotoProceeds
<1>7. QED
  BY <1>3, <1>4, <1>5, <1>6

LEMMA SendEventStep ==
    ASSUME NEW t \in Thread, Inv, SendEvent(t)
    PROVE  FailedCast(t) \/ \E ops \in Seq(Op) : Proceeds(t, ops)
<1>1. Head(thread[t].todo).op = "event"
  BY DoingIs DEF SendEvent
<1>2. \A o \in Object : \A c \in due[o] : ~Covers(Head(thread[t].todo), o, c, value[o])
  BY <1>1 DEF Covers
<1>3. FailedCast(t) \/ Goto(t, <<>>)
  BY DEF SendEvent
<1>4. QED
  BY <1>2, <1>3, HandsOnNothing, GotoProceeds, Nothing

LEMMA SendCovStep ==
    ASSUME NEW t \in Thread, Inv, SendCov(t)
    PROVE  \E ops \in Seq(Op) : Proceeds(t, ops)
<1> DEFINE cur == Head(thread[t].todo)
<1>1. cur \in Op /\ cur.op = "notify"
  BY DoingIs DEF SendCov
<1>2. /\ cur.obj \in Object
      /\ cur = [op |-> "notify", obj |-> cur.obj, may |-> cur.may, must |-> cur.must,
                done |-> cur.done]
      /\ cur.may \subseteq Client /\ cur.must \subseteq Client /\ cur.done \subseteq Client
  BY <1>1, OpFields
<1>3. CASE cur.must \subseteq cur.done /\ Goto(t, <<>>)
  <2>1. \A o \in Object : \A c \in due[o] : ~Covers(cur, o, c, value[o])
    BY <1>1, <1>3 DEF Covers
  <2>2. QED
    BY <1>3, <2>1, HandsOnNothing, GotoProceeds, Nothing
<1>4. ASSUME NEW c \in (subs[cur.obj] \cup cur.may) \ cur.done,
             invokeId' = NextInvokeId,
             Do(t, <<[op |-> "isBytes", obj |-> cur.obj, client |-> c], Notified(cur, c)>>),
             UNCHANGED <<value, subs, webClient, requests, due, told, refused, failed>>
      PROVE  \E ops \in Seq(Op) : Proceeds(t, ops)
  <2> DEFINE ask  == [op |-> "isBytes", obj |-> cur.obj, client |-> c]
             walk == [op |-> "notify", obj |-> cur.obj, may |-> cur.may, must |-> cur.must,
                      done |-> cur.done \cup {c}]
  <2>1. c \in Client
    BY <1>2, <1>4 DEF Inv, TypeOK
  <2>2. Notified(cur, c) = walk
    <3> HIDE DEF cur
    <3>1. QED
      BY <1>2 DEF Notified
  <2>3. ask \in Op /\ walk \in Op
    BY <1>2, <2>1, AskOp, NotifyOp
  <2>4. /\ ask.op = "isBytes" /\ ask.obj = cur.obj /\ ask.client = c
        /\ walk.op = "notify" /\ walk.obj = cur.obj /\ walk.must = cur.must
        /\ walk.done = cur.done \cup {c}
    OBVIOUS
  <2>5. ASSUME NEW o \in Object, NEW d \in due[o], Covers(cur, o, d, value[o])
        PROVE  Covers(ask, o, d, value[o]) \/ Covers(walk, o, d, value[o])
    <3> HIDE DEF ask, walk, cur
    <3>1. QED
      BY <1>1, <2>4, <2>5 DEF Covers
  <2> HIDE DEF ask, walk, cur
  <2>6. HandsOn(t, <<ask, walk>>)
    BY <2>4, <2>5 DEF HandsOn, Pending, SetShape, TurnShape, IsTurn, cur
  <2>7. invokeId' \in 0..(InvokeIds - 1)
    BY <1>4, BoundAssumption DEF NextInvokeId, Inv, TypeOK
  <2>8. Proceeds(t, <<ask, walk>>) /\ <<ask, walk>> \in Seq(Op)
    BY <1>4, <2>2, <2>3, <2>6, <2>7 DEF Proceeds, ask
  <2>9. QED
    BY <2>8
<1>5. QED
  BY <1>3, <1>4 DEF SendCov

\* The reads for one notification: each is taken over by the next one, or fails.
LEMMA TakenOver ==
    ASSUME NEW t \in Thread, Inv, NEW e \in Op, Goto(t, <<e>>), e.op # "set", ~IsTurn(e),
           \A o \in Object : \A c \in due[o] :
              Covers(Head(thread[t].todo), o, c, value[o]) => Covers(e, o, c, value[o])
    PROVE  \E ops \in Seq(Op) : Proceeds(t, ops)
<1>1. Proceeds(t, <<e>>) /\ <<e>> \in Seq(Op)
  BY HandsOnOne, GotoProceeds
<1>2. QED
  BY <1>1

LEMMA IsBytesStep ==
    ASSUME NEW t \in Thread, Inv, IsBytes(t)
    PROVE  \E ops \in Seq(Op) : Proceeds(t, ops)
<1> DEFINE cur == Head(thread[t].todo)
           cast == [op |-> "cast", obj |-> cur.obj, client |-> cur.client, kind |-> "bytes"]
           more == [op |-> "isInteger", obj |-> cur.obj, client |-> cur.client]
<1>1. cur \in Op /\ cur.op = "isBytes"
  BY DoingIs DEF IsBytes
<1>2. cur.obj \in Object /\ cur.client \in Client
  BY <1>1, OpFields
<1>3. cast \in Op /\ more \in Op
  BY <1>2, AskOp
<1>4. /\ cast.op = "cast" /\ cast.obj = cur.obj /\ cast.client = cur.client
      /\ more.op = "isInteger" /\ more.obj = cur.obj /\ more.client = cur.client
  OBVIOUS
<1>5. Goto(t, <<cast>>) \/ Goto(t, <<more>>)
  BY DEF IsBytes
<1> HIDE DEF cast, more
<1>6. \A o \in Object : \A c \in due[o] : Covers(cur, o, c, value[o]) =>
         Covers(cast, o, c, value[o]) /\ Covers(more, o, c, value[o])
  BY <1>1, <1>4 DEF Covers
<1>7. cast.op # "set" /\ ~IsTurn(cast) /\ more.op # "set" /\ ~IsTurn(more)
  BY <1>4 DEF IsTurn
<1>8. QED
  BY <1>3, <1>5, <1>6, <1>7, TakenOver

LEMMA IsIntegerStep ==
    ASSUME NEW t \in Thread, Inv, IsInteger(t)
    PROVE  FailedCast(t) \/ \E ops \in Seq(Op) : Proceeds(t, ops)
<1> DEFINE cur == Head(thread[t].todo)
           cast == [op |-> "cast", obj |-> cur.obj, client |-> cur.client, kind |-> "int"]
<1>1. cur \in Op /\ cur.op = "isInteger"
  BY DoingIs DEF IsInteger
<1>2. cur.obj \in Object /\ cur.client \in Client
  BY <1>1, OpFields
<1>3. cast \in Op
  BY <1>2, AskOp
<1>4. cast.op = "cast" /\ cast.obj = cur.obj /\ cast.client = cur.client
  OBVIOUS
<1>5. FailedCast(t) \/ Goto(t, <<cast>>)
  BY DEF IsInteger
<1> HIDE DEF cast
<1>6. \A o \in Object : \A c \in due[o] :
         Covers(cur, o, c, value[o]) => Covers(cast, o, c, value[o])
  BY <1>1, <1>4 DEF Covers
<1>7. cast.op # "set" /\ ~IsTurn(cast)
  BY <1>4 DEF IsTurn
<1>8. QED
  BY <1>3, <1>5, <1>6, <1>7, TakenOver

LEMMA CastStep ==
    ASSUME NEW t \in Thread, Inv, Cast(t)
    PROVE  FailedCast(t) \/ \E ops \in Seq(Op) : Proceeds(t, ops)
<1> DEFINE cur == Head(thread[t].todo)
           send == [op |-> "send", obj |-> cur.obj, client |-> cur.client, val |-> value[cur.obj]]
<1>1. cur \in Op /\ cur.op = "cast"
  BY DoingIs DEF Cast
<1>2. cur.obj \in Object /\ cur.client \in Client
  BY <1>1, OpFields
<1>3. send \in Op
  BY <1>2, AskOp DEF Inv, TypeOK
<1>4. /\ send.op = "send" /\ send.obj = cur.obj /\ send.client = cur.client
      /\ send.val = value[cur.obj]
  OBVIOUS
<1>5. FailedCast(t) \/ Goto(t, <<send>>)
  BY DEF Cast
<1> HIDE DEF send
<1>6. \A o \in Object : \A c \in due[o] :
         Covers(cur, o, c, value[o]) => Covers(send, o, c, value[o])
  BY <1>1, <1>4 DEF Covers
<1>7. send.op # "set" /\ ~IsTurn(send)
  BY <1>4 DEF IsTurn
<1>8. QED
  BY <1>3, <1>5, <1>6, <1>7, TakenOver

LEMMA CovListenerStep ==
    ASSUME NEW t \in Thread, Inv, \A o \in Object : due[o] \subseteq subs[o], CovListener(t)
    PROVE  \E ops \in Seq(Op) : Proceeds(t, ops)
<1> DEFINE o == Head(thread[t].todo).obj
           walk == [op |-> "notify", obj |-> o, may |-> subs[o], must |-> subs[o], done |-> {}]
<1>1. Head(thread[t].todo) \in Op /\ Head(thread[t].todo).op = "cov"
  BY DoingIs DEF CovListener
<1>2. o \in Object
  BY <1>1, OpFields
<1>3. walk \in Op
  BY <1>2, NotifyOp DEF Inv, TypeOK
<1>4. walk.op = "notify" /\ walk.obj = o /\ walk.must = subs[o] /\ walk.done = {}
  OBVIOUS
<1>5. Goto(t, <<walk>>)
  BY DEF CovListener
<1> HIDE DEF walk
<1>6. \A p \in Object : \A c \in due[p] :
         Covers(Head(thread[t].todo), p, c, value[p]) => Covers(walk, p, c, value[p])
  BY <1>1, <1>4 DEF Covers
<1>7. walk.op # "set" /\ ~IsTurn(walk)
  BY <1>4 DEF IsTurn
<1>8. QED
  BY <1>3, <1>5, <1>6, <1>7, TakenOver

\* A thread goes on, fails, sets a value or sends a notification.
LEMMA StepIs ==
    ASSUME NEW t \in Thread, Inv, \A o \in Object : due[o] \subseteq subs[o], Step(t)
    PROVE  \/ \E ops \in Seq(Op) : Proceeds(t, ops)
           \/ FailedCast(t) \/ SetValue(t) \/ PointToPointMessage(t)
BY ExecuteActionStep, UpdatePropertyValueStep, ParentStep, SendEventStep, CovListenerStep,
   SendCovStep, IsBytesStep, IsIntegerStep, CastStep DEF Step

LEMMA StepBusy == ASSUME NEW t \in Thread, Step(t) PROVE Busy(t)
BY DEF Step, ExecuteAction, UpdatePropertyValue, SetValue, ParentLogicListener, SendEvent,
   CovListener, SendCov, IsBytes, IsInteger, Cast, PointToPointMessage, Doing

-----------------------------------------------------------------------------
(* Types                                                                   *)

LEMMA ProceedsInv ==
    ASSUME NEW t \in Thread, Inv, Busy(t), NEW ops \in Seq(Op), Proceeds(t, ops)
    PROVE  Inv'
BY DoInv DEF Proceeds, Inv, TypeOK, ThreadType

LEMMA SetValueInv == ASSUME NEW t \in Thread, Inv, SetValue(t) PROVE Inv'
<1> DEFINE cur == Head(thread[t].todo)
<1>1. cur \in Op /\ cur.op = "set" /\ Busy(t)
  BY DoingIs DEF SetValue
<1>2. cur.obj \in Object /\ cur.new \in Value
  BY <1>1, OpFields
<1>3. Do(t, <<>>) /\ value' = [value EXCEPT ![cur.obj] = cur.new]
      /\ due' = [due EXCEPT ![cur.obj] = subs[cur.obj]] /\ told' = [told EXCEPT ![cur.obj] = {}]
      /\ refused' = [refused EXCEPT ![cur.obj] = {}]
      /\ UNCHANGED <<subs, invokeId, webClient, requests, failed>>
  BY DEF SetValue
<1> HIDE DEF cur
<1>4. /\ thread' \in ThreadType
      /\ \A u \in Thread : Busy(u)' => thread'[u].request \in Kind
  BY <1>1, <1>3, DoInv, Nothing
<1>5. QED
  BY <1>2, <1>3, <1>4 DEF Inv, TypeOK, ThreadType

LEMMA PointToPointMessageInv ==
    ASSUME NEW t \in Thread, Inv, PointToPointMessage(t) PROVE Inv'
<1> DEFINE cur == Head(thread[t].todo)
<1>1. cur \in Op /\ cur.op = "send" /\ Busy(t)
  BY DoingIs DEF PointToPointMessage
<1>2. cur.obj \in Object /\ cur.client \in Client
  BY <1>1, OpFields
<1>3. Do(t, <<>>) /\ told' \in {told, [told EXCEPT ![cur.obj] = @ \cup {cur.client}]}
      /\ refused' \in {refused, [refused EXCEPT ![cur.obj] = @ \cup {cur.client}]}
      /\ UNCHANGED <<value, subs, invokeId, webClient, requests, due, failed>>
  BY DEF PointToPointMessage, ToClient
<1> HIDE DEF cur
<1>4. /\ thread' \in ThreadType
      /\ \A u \in Thread : Busy(u)' => thread'[u].request \in Kind
  BY <1>1, <1>3, DoInv, Nothing
<1>5. ASSUME NEW h \in [Object -> SUBSET Client], NEW k,
             k \in {h, [h EXCEPT ![cur.obj] = @ \cup {cur.client}]}
      PROVE  k \in [Object -> SUBSET Client]
  BY <1>2, <1>5
<1>6. told' \in [Object -> SUBSET Client] /\ refused' \in [Object -> SUBSET Client]
  BY <1>3, <1>5 DEF Inv, TypeOK
<1>7. QED
  BY <1>3, <1>4, <1>6 DEF Inv, TypeOK, ThreadType

LEMMA BeginInv ==
    ASSUME NEW t \in Thread, Inv, NEW kind \in Kind, NEW e \in Op, Begin(t, kind, e) PROVE Inv'
<1>1. thread' = [thread EXCEPT ![t] = [request |-> kind, todo |-> <<e>>]]
  BY DEF Begin
<1>2. <<e>> \in Seq(Op)
  OBVIOUS
<1>3. /\ thread' \in ThreadType
      /\ \A u \in Thread : Busy(u)' => thread'[u].request \in Kind
  BY <1>1, <1>2 DEF Inv, TypeOK, ThreadType, Busy
<1>4. requests' \in 0..MaxRequests
  BY BoundAssumption DEF Begin, Request, Inv, TypeOK
<1>5. QED
  BY <1>3, <1>4 DEF Begin, Inv, TypeOK, ThreadType

LEMMA Begins ==
    ASSUME Inv, ProcessWritePresentValue \/ \E t \in Web : RestWriteProperty(t) \/ ToggleAll(t)
    PROVE  \E t \in Thread, kind \in Kind, e \in Op : e.op # "set" /\ Begin(t, kind, e)
<1>1. CASE ProcessWritePresentValue
  <2>1. PICK w \in NetWrites : Begin(Reader, "writeProperty", Write(w[1], Int32(w[2])))
    BY <1>1 DEF ProcessWritePresentValue
  <2>2. w[1] \in Object /\ w[2] \in Int
    BY InputAssumption
  <2>3. Write(w[1], Int32(w[2])) \in Op /\ Write(w[1], Int32(w[2])).op # "set"
    BY <2>2, Values, WriteOp DEF Write
  <2>4. QED
    BY <2>1, <2>3 DEF Thread, Kind
<1>2. ASSUME NEW t \in Web, RestWriteProperty(t)
      PROVE  \E kind \in Kind, e \in Op : e.op # "set" /\ Begin(t, kind, e)
  <2>1. PICK w \in RestWrites : Begin(t, "restWrite", Write(w[1], w[2]))
    BY <1>2 DEF RestWriteProperty
  <2>2. w[1] \in Object /\ w[2] \in Value
    BY InputAssumption
  <2>3. Write(w[1], w[2]) \in Op /\ Write(w[1], w[2]).op # "set"
    BY <2>2, WriteOp DEF Write
  <2>4. QED
    BY <2>1, <2>3 DEF Kind
<1>3. ASSUME NEW t \in Web, ToggleAll(t)
      PROVE  \E kind \in Kind, e \in Op : e.op # "set" /\ Begin(t, kind, e)
  <2> DEFINE e == [op |-> "executeAction"]
  <2>1. e \in Op /\ e.op # "set" /\ "toggleAll" \in Kind
    BY DEF Op, Kind
  <2>2. QED
    BY <1>3, <2>1 DEF ToggleAll
<1>4. QED
  BY <1>1, <1>2, <1>3 DEF Thread

\* What a deletion leaves of the todo of a thread
LEMMA UnsettledIs ==
    ASSUME NEW t \in Thread, NEW o \in Object, Inv
    PROVE  /\ Unsettled(t, o) \in [request : Kind \cup {"none"}, todo : Seq(Op)]
           /\ Unsettled(t, o).request = thread[t].request
           /\ Len(Unsettled(t, o).todo) = Len(thread[t].todo)
           /\ \A i \in DOMAIN thread[t].todo :
                 \/ Unsettled(t, o).todo[i] = thread[t].todo[i]
                 \/ /\ thread[t].todo[i].op = "notify" /\ Unsettled(t, o).todo[i].op = "notify"
                    /\ thread[t].todo[i].obj = o /\ Unsettled(t, o).todo[i].obj = o
                    /\ Unsettled(t, o).todo[i].done = thread[t].todo[i].done
<1> DEFINE s == thread[t].todo
           Free(e) == IF e.op = "notify" /\ e.obj = o THEN [e EXCEPT !.must = {}] ELSE e
           r == [i \in DOMAIN s |-> Free(s[i])]
<1>1. s \in Seq(Op) /\ thread[t] \in [request : Kind \cup {"none"}, todo : Seq(Op)]
  BY DEF Inv, TypeOK
<1>2. ASSUME NEW e \in Op
      PROVE  /\ Free(e) \in Op
             /\ \/ Free(e) = e
                \/ e.op = "notify" /\ Free(e).op = "notify" /\ e.obj = o /\ Free(e).obj = o
                   /\ Free(e).done = e.done
  <2>1. CASE e.op = "notify" /\ e.obj = o
    <3>1. /\ e = [op |-> "notify", obj |-> e.obj, may |-> e.may, must |-> e.must,
                  done |-> e.done]
          /\ e.may \subseteq Client /\ e.must \subseteq Client /\ e.done \subseteq Client
      BY <2>1, OpFields
    <3>2. Free(e) = [op |-> "notify", obj |-> o, may |-> e.may, must |-> {}, done |-> e.done]
      BY <2>1, <3>1
    <3>3. Free(e) \in Op
      BY <3>1, <3>2, NotifyOp
    <3> QED BY <2>1, <3>2, <3>3
  <2>2. CASE ~(e.op = "notify" /\ e.obj = o)
    BY <2>2
  <2> QED BY <2>1, <2>2
<1>3. Unsettled(t, o) = [thread[t] EXCEPT !.todo = r]
  BY DEF Unsettled
<1> HIDE DEF Free
<1>4. r \in Seq(Op) /\ Len(r) = Len(s) /\ \A i \in DOMAIN s : s[i] \in Op /\ r[i] = Free(s[i])
  BY <1>1, <1>2
<1> HIDE DEF r
<1>5. Unsettled(t, o).todo = r /\ Unsettled(t, o).request = thread[t].request
      /\ Unsettled(t, o) \in [request : Kind \cup {"none"}, todo : Seq(Op)]
  BY <1>1, <1>3, <1>4
<1> QED BY <1>2, <1>4, <1>5

-----------------------------------------------------------------------------
(* Everyone who is owed a notification is told, was refused or will be told *)

Reported(o, c) ==
    c \in told[o] \cup refused[o] \/ \E t \in Thread : Pending(thread[t].todo, o, c, value[o])

ReportInv ==
    /\ \A o \in Object : due[o] \subseteq subs[o]
    /\ \A t \in Thread : SetShape(thread[t].todo)
    /\ failed = {} => \A o \in Object : \A c \in due[o] : Reported(o, c)

Spliced(s, ops, r) ==
    /\ \A i \in DOMAIN ops : i \in DOMAIN r /\ r[i] = ops[i]
    /\ \A i \in DOMAIN s \ {1} :
          Len(ops) + i - 1 \in DOMAIN r /\ r[Len(ops) + i - 1] = s[i]
    /\ \A j \in DOMAIN r \ DOMAIN ops :
          j - Len(ops) + 1 \in DOMAIN s \ {1} /\ r[j] = s[j - Len(ops) + 1]

\* Where the operations are after the first gave way to others
LEMMA SplicedIs ==
    ASSUME NEW s \in Seq(Op), s # <<>>, NEW ops \in Seq(Op), NEW r, r = ops \o Tail(s)
    PROVE  Spliced(s, ops, r)
<1>1. /\ s \in Seq(Op) /\ Len(s) \in Nat \ {0} /\ DOMAIN s = 1..Len(s) /\ Head(s) = s[1]
      /\ ops \in Seq(Op) /\ Len(ops) \in Nat /\ DOMAIN ops = 1..Len(ops)
      /\ Tail(s) \in Seq(Op) /\ Len(Tail(s)) = Len(s) - 1
  OBVIOUS
<1>2. \A i \in 1..(Len(s) - 1) : Tail(s)[i] = s[i + 1]
  OBVIOUS
<1> DEFINE rest == Tail(s)
<1>3. /\ r = ops \o rest /\ rest \in Seq(Op) /\ Len(rest) = Len(s) - 1
      /\ \A i \in 1..(Len(s) - 1) : rest[i] = s[i + 1]
  BY <1>1, <1>2
<1> HIDE DEF rest
<1>4. /\ Len(r) = Len(ops) + Len(s) - 1 /\ DOMAIN r = 1..(Len(ops) + Len(s) - 1)
      /\ \A i \in 1..Len(ops) : r[i] = ops[i]
      /\ \A i \in 1..(Len(s) - 1) : r[Len(ops) + i] = rest[i]
  BY <1>1, <1>3
<1>5. \A i \in DOMAIN ops : i \in DOMAIN r /\ r[i] = ops[i]
  BY <1>1, <1>4
<1>6. ASSUME NEW i \in DOMAIN s \ {1}
      PROVE  Len(ops) + i - 1 \in DOMAIN r /\ r[Len(ops) + i - 1] = s[i]
  <2>1. i - 1 \in 1..(Len(s) - 1) /\ Len(ops) + (i - 1) = Len(ops) + i - 1 /\ (i - 1) + 1 = i
    BY <1>1
  <2>2. r[Len(ops) + (i - 1)] = s[(i - 1) + 1]
    BY <1>3, <1>4, <2>1
  <2> QED BY <1>1, <1>4, <2>1, <2>2
<1>7. ASSUME NEW j \in DOMAIN r \ DOMAIN ops
      PROVE  j - Len(ops) + 1 \in DOMAIN s \ {1} /\ r[j] = s[j - Len(ops) + 1]
  <2> DEFINE i == j - Len(ops)
  <2>1. /\ i \in 1..(Len(s) - 1) /\ Len(ops) + i = j /\ i + 1 = j - Len(ops) + 1
        /\ i + 1 \in DOMAIN s \ {1}
    BY <1>1, <1>4
  <2> HIDE DEF i
  <2>2. r[Len(ops) + i] = s[i + 1]
    BY <1>3, <1>4, <2>1
  <2> QED BY <2>1, <2>2
<1> QED BY <1>5, <1>6, <1>7 DEF Spliced

LEMMA Joined ==
    ASSUME NEW s \in Seq(Op), s # <<>>, NEW ops \in Seq(Op), NEW r, r = ops \o Tail(s)
    PROVE  /\ \A i \in DOMAIN ops : i \in DOMAIN r /\ r[i] = ops[i]
           /\ \A i \in DOMAIN s \ {1} :
                 Len(ops) + i - 1 \in DOMAIN r /\ r[Len(ops) + i - 1] = s[i]
           /\ \A j \in DOMAIN r \ DOMAIN ops :
                 j - Len(ops) + 1 \in DOMAIN s \ {1} /\ r[j] = s[j - Len(ops) + 1]
           /\ Len(r) >= Len(ops)
           /\ Head(s) = s[1] /\ 1 \in DOMAIN s
<1>1. Spliced(s, ops, r)
  BY SplicedIs, Zenon
<1>2. Len(r) >= Len(ops) /\ Head(s) = s[1] /\ 1 \in DOMAIN s
  OBVIOUS
<1> QED BY <1>1, <1>2 DEF Spliced

LEMMA EmptyShape == SetShape(<<>>)
BY DEF SetShape

LEMMA ShapeJoined ==
    ASSUME NEW s \in Seq(Op), s # <<>>, NEW ops \in Seq(Op), SetShape(s), SetShape(ops)
    PROVE  SetShape(ops \o Tail(s))
<1> DEFINE r == ops \o Tail(s)
<1>1. /\ \A i \in DOMAIN ops : i \in DOMAIN r /\ r[i] = ops[i]
      /\ \A j \in DOMAIN r \ DOMAIN ops :
            j - Len(ops) + 1 \in DOMAIN s \ {1} /\ r[j] = s[j - Len(ops) + 1]
      /\ Len(r) >= Len(ops)
  BY Joined
<1> HIDE DEF r
<1>2. ASSUME NEW i \in DOMAIN r, r[i].op = "set"
      PROVE  i = 1 /\ Len(r) >= 3 /\ r[3].op = "cov" /\ r[3].obj = r[1].obj
  <2>1. CASE i \in DOMAIN ops
    <3>1. i = 1 /\ Len(ops) >= 3 /\ ops[3].op = "cov" /\ ops[3].obj = ops[1].obj
      BY <1>1, <1>2, <2>1 DEF SetShape
    <3>2. 1 \in DOMAIN ops /\ 3 \in DOMAIN ops /\ Len(r) \in Nat /\ Len(ops) \in Nat
      BY <3>1 DEF r
    <3>3. QED
      BY <1>1, <3>1, <3>2
  <2>2. CASE i \notin DOMAIN ops
    BY <1>1, <1>2, <2>2 DEF SetShape
  <2>3. QED
    BY <2>1, <2>2
<1>3. QED
  BY <1>2 DEF SetShape, r

LEMMA PendingJoined ==
    ASSUME NEW s \in Seq(Op), s # <<>>, NEW ops \in Seq(Op), NEW o, NEW c, NEW v
    PROVE  /\ Pending(s, o, c, v) =>
                Covers(Head(s), o, c, v) \/ Pending(ops \o Tail(s), o, c, v)
           /\ Pending(ops, o, c, v) => Pending(ops \o Tail(s), o, c, v)
<1> DEFINE r == ops \o Tail(s)
<1>1. /\ \A i \in DOMAIN ops : i \in DOMAIN r /\ r[i] = ops[i]
      /\ \A i \in DOMAIN s \ {1} :
            Len(ops) + i - 1 \in DOMAIN r /\ r[Len(ops) + i - 1] = s[i]
      /\ Head(s) = s[1]
  <2>1. Spliced(s, ops, r)
    <3>1. r = ops \o Tail(s)
      OBVIOUS
    <3> HIDE DEF r
    <3>2. QED
      BY <3>1, SplicedIs, Zenon
  <2>2. Head(s) = s[1]
    OBVIOUS
  <2> HIDE DEF r
  <2>3. QED
    BY <2>1, <2>2 DEF Spliced
<1> HIDE DEF r
<1>2. /\ Pending(s, o, c, v) => Covers(Head(s), o, c, v) \/ Pending(r, o, c, v)
      /\ Pending(ops, o, c, v) => Pending(r, o, c, v)
  BY <1>1 DEF Pending
<1>3. QED
  BY <1>2 DEF r

\* The other threads go on as they were.
LEMMA DoReport ==
    ASSUME NEW t \in Thread, Inv, Busy(t), NEW ops \in Seq(Op), Do(t, ops), ReportInv
    PROVE  /\ SetShape(ops) => \A u \in Thread : SetShape(thread'[u].todo)
           /\ \A o, c, v : \A u \in Thread :
                 Pending(thread[u].todo, o, c, v) =>
                    \/ u = t /\ Covers(Head(thread[t].todo), o, c, v)
                    \/ Pending(thread'[u].todo, o, c, v)
           /\ \A o, c, v : Pending(ops, o, c, v) => Pending(thread'[t].todo, o, c, v)
<1>1. thread \in ThreadType /\ thread[t].todo \in Seq(Op) /\ thread[t].todo # <<>>
  BY DEF Inv, TypeOK, ThreadType, Busy
<1>2. /\ thread'[t].todo = ops \o Tail(thread[t].todo)
      /\ \A u \in Thread \ {t} : thread'[u] = thread[u]
  BY <1>1, DoType
<1>3. SetShape(thread[t].todo) /\ \A u \in Thread : SetShape(thread[u].todo)
  BY DEF ReportInv
<1>4. SetShape(ops) => SetShape(thread'[t].todo)
  BY <1>1, <1>2, <1>3, ShapeJoined
<1>5. ASSUME NEW o, NEW c, NEW v
      PROVE  /\ Pending(thread[t].todo, o, c, v) =>
                  Covers(Head(thread[t].todo), o, c, v) \/ Pending(thread'[t].todo, o, c, v)
             /\ Pending(ops, o, c, v) => Pending(thread'[t].todo, o, c, v)
  BY <1>1, <1>2, PendingJoined
<1>6. QED
  BY <1>2, <1>3, <1>4, <1>5

LEMMA ProceedsReport ==
    ASSUME NEW t \in Thread, Inv, ReportInv, Busy(t), NEW ops \in Seq(Op), Proceeds(t, ops)
    PROVE  ReportInv'
<1>1. Do(t, ops) /\ HandsOn(t, ops) /\ UNCHANGED <<value, subs, due, told, refused, failed>>
  BY DEF Proceeds
<1>2. \A u \in Thread : SetShape(thread'[u].todo)
  BY <1>1, DoReport DEF HandsOn
<1>3. ASSUME NEW o \in Object, NEW c \in due[o], Reported(o, c) PROVE Reported(o, c)'
  <2>1. CASE c \in told[o] \cup refused[o]
    BY <1>1, <2>1 DEF Reported
  <2>2. ASSUME NEW u \in Thread, Pending(thread[u].todo, o, c, value[o])
        PROVE  \E w \in Thread : Pending(thread'[w].todo, o, c, value[o])
    <3>1. \/ u = t /\ Covers(Head(thread[t].todo), o, c, value[o])
          \/ Pending(thread'[u].todo, o, c, value[o])
      BY <1>1, <2>2, DoReport
    <3>2. CASE Covers(Head(thread[t].todo), o, c, value[o])
      <4>1. Pending(ops, o, c, value[o])
        BY <1>1, <3>2 DEF HandsOn
      <4>2. QED
        BY <1>1, <4>1, DoReport
    <3>3. QED
      BY <3>1, <3>2
  <2>3. QED
    BY <1>1, <1>3, <2>1, <2>2 DEF Reported
<1>4. QED
  BY <1>1, <1>2, <1>3 DEF ReportInv

LEMMA FailedCastReport ==
    ASSUME NEW t \in Thread, Inv, ReportInv, FailedCast(t) PROVE ReportInv'
<1>1. thread \in ThreadType /\ Fail(t) /\ UNCHANGED <<subs, due>>
  BY DEF Inv, TypeOK, ThreadType, FailedCast
<1>2. /\ thread'[t].todo = <<>> /\ failed' # {}
      /\ \A u \in Thread \ {t} : thread'[u] = thread[u]
  BY <1>1, FailType
<1>3. \A u \in Thread : SetShape(thread'[u].todo)
  BY <1>2 DEF ReportInv, SetShape
<1>4. QED
  BY <1>1, <1>2, <1>3 DEF ReportInv

\* Whoever is subscribed when the value is set is seen to by the walk behind it.
LEMMA SetValueReport ==
    ASSUME NEW t \in Thread, Inv, ReportInv, SetValue(t) PROVE ReportInv'
<1> DEFINE s == thread[t].todo
<1>1. Head(s) \in Op /\ Head(s).op = "set" /\ Busy(t)
  BY DoingIs DEF SetValue
<1> PICK p \in Object : p = Head(s).obj
  BY <1>1, OpFields
<1>2. s \in Seq(Op) /\ s # <<>>
  BY <1>1 DEF Inv, TypeOK, Busy
<1>3. /\ Do(t, <<>>) /\ UNCHANGED <<subs, failed>>
      /\ due' = [due EXCEPT ![p] = subs[p]] /\ told' = [told EXCEPT ![p] = {}]
      /\ refused' = [refused EXCEPT ![p] = {}]
      /\ \A o \in Object \ {p} : value'[o] = value[o]
  BY DEF SetValue, Inv, TypeOK
<1>4. \A u \in Thread : SetShape(thread'[u].todo)
  BY <1>1, <1>3, DoReport, EmptyShape, Nothing
<1>5. \A o \in Object : due'[o] \subseteq subs'[o]
  BY <1>2, <1>3 DEF ReportInv, Inv, TypeOK
<1>6. Head(s) = s[1] /\ Len(s) >= 3 /\ s[3].op = "cov" /\ s[3].obj = p
  BY <1>1, <1>2 DEF ReportInv, SetShape
<1>7. thread'[t].todo = <<>> \o Tail(s)
  BY <1>1, <1>3, DoType, Nothing DEF Inv, TypeOK, ThreadType
<1>8. 2 \in DOMAIN thread'[t].todo /\ thread'[t].todo[2] = s[3]
  BY <1>2, <1>6, <1>7
<1>9. ASSUME NEW c PROVE Reported(p, c)'
  <2>1. Covers(thread'[t].todo[2], p, c, value'[p])
    BY <1>6, <1>8 DEF Covers
  <2>2. Pending(thread'[t].todo, p, c, value'[p])
    BY <1>8, <2>1 DEF Pending
  <2>3. QED
    BY <2>2 DEF Reported
<1>10. ASSUME NEW o \in Object \ {p}, NEW c \in due[o], Reported(o, c) PROVE Reported(o, c)'
  <2>1. ~Covers(Head(s), o, c, value[o])
    BY <1>1 DEF Covers
  <2>2. \A u \in Thread : Pending(thread[u].todo, o, c, value[o]) =>
           Pending(thread'[u].todo, o, c, value[o])
    BY <1>1, <1>3, <2>1, DoReport, Nothing
  <2>3. value'[o] = value[o] /\ told'[o] = told[o] /\ refused'[o] = refused[o]
    BY <1>3 DEF Inv, TypeOK
  <2>4. QED
    BY <1>10, <2>2, <2>3 DEF Reported
<1>11. \A o \in Object \ {p} : due'[o] = due[o]
  BY <1>3 DEF Inv, TypeOK
<1>12. ASSUME NEW o \in Object, failed = {}, NEW c \in due'[o] PROVE Reported(o, c)'
  <2>1. CASE o = p
    BY <1>9, <2>1
  <2>2. CASE o # p
    <3>1. c \in due[o]
      BY <1>11, <1>12, <2>2
    <3>2. Reported(o, c)
      BY <1>12, <3>1 DEF ReportInv
    <3>3. QED
      BY <1>10, <2>2, <3>1, <3>2
  <2>3. QED
    BY <2>1, <2>2
<1>13. QED
  BY <1>3, <1>4, <1>5, <1>12 DEF ReportInv

LEMMA PointToPointMessageReport ==
    ASSUME NEW t \in Thread, Inv, ReportInv, PointToPointMessage(t) PROVE ReportInv'
<1> DEFINE cur == Head(thread[t].todo)
<1>1. cur \in Op /\ cur.op = "send" /\ Busy(t)
  BY DoingIs DEF PointToPointMessage
<1>2. cur.obj \in Object /\ cur.client \in Client
  BY <1>1, OpFields
<1>3. /\ Do(t, <<>>) /\ UNCHANGED <<value, subs, due, failed>>
      /\ \/ told' = ToClient(told, cur) /\ refused' = refused
         \/ refused' = ToClient(refused, cur) /\ told' = told
  BY DEF PointToPointMessage
<1>4. \A u \in Thread : SetShape(thread'[u].todo)
  BY <1>1, <1>3, DoReport, EmptyShape, Nothing
<1>5. ASSUME NEW o \in Object, NEW c \in due[o], Reported(o, c) PROVE Reported(o, c)'
  <2>1. told[o] \subseteq told'[o] /\ refused[o] \subseteq refused'[o]
    BY <1>2, <1>3 DEF Inv, TypeOK, ToClient
  <2>2. CASE Covers(cur, o, c, value[o])
    <3>1. cur.obj = o /\ cur.client = c /\ cur.val = value[o]
      BY <1>1, <2>2 DEF Covers
    <3>2. c \in told'[o] \cup refused'[o]
      BY <1>2, <1>3, <3>1 DEF Inv, TypeOK, ToClient
    <3>3. QED
      BY <3>2 DEF Reported
  <2>3. CASE ~Covers(cur, o, c, value[o])
    <3>1. \A u \in Thread : Pending(thread[u].todo, o, c, value[o]) =>
             Pending(thread'[u].todo, o, c, value[o])
      BY <1>1, <1>3, <2>3, DoReport, Nothing
    <3>2. QED
      BY <1>3, <1>5, <2>1, <3>1 DEF Reported
  <2>4. QED
    BY <2>2, <2>3
<1>6. QED
  BY <1>3, <1>4, <1>5 DEF ReportInv

LEMMA BeginReport ==
    ASSUME NEW t \in Thread, Inv, ReportInv, NEW kind \in Kind, NEW e \in Op, e.op # "set",
           Begin(t, kind, e)
    PROVE  ReportInv'
<1>1. /\ thread[t].todo = <<>> /\ thread'[t].todo = <<e>>
      /\ \A u \in Thread \ {t} : thread'[u] = thread[u]
      /\ UNCHANGED <<value, subs, due, told, refused, failed>>
  BY DEF Begin, Busy, Inv, TypeOK
<1>2. SetShape(<<e>>)
  BY DEF SetShape
<1>3. \A u \in Thread : SetShape(thread'[u].todo)
  BY <1>1, <1>2 DEF ReportInv
<1>4. \A o, c, v : ~Pending(<<>>, o, c, v)
  BY DEF Pending
<1>5. ASSUME NEW o \in Object, NEW c \in due[o], Reported(o, c) PROVE Reported(o, c)'
  BY <1>1, <1>4, <1>5 DEF Reported
<1>6. QED
  BY <1>1, <1>3, <1>5 DEF ReportInv

\* A deletion takes back what is owed for its object, and no other.
LEMMA DeleteCovKeeps ==
    ASSUME NEW o \in Object, Inv, ReportInv, DeleteCov(o) PROVE Inv' /\ ReportInv'
<1>1. /\ subs' = [subs EXCEPT ![o] = {}] /\ due' = [due EXCEPT ![o] = {}]
      /\ thread' = [t \in Thread |-> Unsettled(t, o)]
      /\ UNCHANGED <<value, invokeId, webClient, told, refused, failed>>
  BY DEF DeleteCov
<1>2. requests' \in 0..MaxRequests
  BY BoundAssumption DEF DeleteCov, Request, Inv, TypeOK
<1>3. ASSUME NEW t \in Thread
      PROVE  /\ thread'[t] \in [request : Kind \cup {"none"}, todo : Seq(Op)]
             /\ thread'[t].request = thread[t].request
             /\ Len(thread'[t].todo) = Len(thread[t].todo)
             /\ \A i \in DOMAIN thread[t].todo :
                   \/ thread'[t].todo[i] = thread[t].todo[i]
                   \/ /\ thread[t].todo[i].op = "notify" /\ thread'[t].todo[i].op = "notify"
                      /\ thread[t].todo[i].obj = o
  BY <1>1, UnsettledIs
<1>4. ASSUME NEW t \in Thread
      PROVE  /\ thread[t].todo \in Seq(Op) /\ thread'[t].todo \in Seq(Op)
             /\ DOMAIN thread'[t].todo = DOMAIN thread[t].todo
             /\ thread'[t].todo # <<>> => thread[t].todo # <<>>
  BY <1>3 DEF Inv, TypeOK
<1>5. Inv'
  <2>1. thread' \in ThreadType
    BY <1>1, <1>3 DEF ThreadType
  <2>2. \A t \in Thread : Busy(t)' => thread'[t].request \in Kind
    BY <1>3, <1>4 DEF Inv, Busy
  <2>3. QED
    BY <1>1, <1>2, <2>1, <2>2 DEF Inv, TypeOK, ThreadType
<1>6. \A p \in Object : due'[p] \subseteq subs'[p] /\ (p # o => due'[p] = due[p]) /\ due'[o] = {}
  BY <1>1 DEF ReportInv, Inv, TypeOK
<1>7. ASSUME NEW t \in Thread PROVE SetShape(thread'[t].todo)
  <2> DEFINE s == thread[t].todo
             r == thread'[t].todo
  <2>1. /\ s \in Seq(Op) /\ DOMAIN r = DOMAIN s /\ Len(r) = Len(s)
        /\ \A i \in DOMAIN s : r[i] = s[i] \/ (s[i].op = "notify" /\ r[i].op = "notify")
    BY <1>3, <1>4
  <2>2. SetShape(s)
    BY DEF ReportInv
  <2> HIDE DEF s, r
  <2>3. ASSUME NEW i \in DOMAIN s, s[i].op = "set"
        PROVE  i = 1 /\ 3 \in DOMAIN s /\ s[3].op = "cov" /\ s[3].obj = s[1].obj /\ Len(s) >= 3
    BY <2>1, <2>2, <2>3 DEF SetShape
  <2>4. SetShape(r)
    BY <2>1, <2>3 DEF SetShape
  <2>5. QED
    BY <2>4 DEF r
<1>8. ASSUME NEW p \in Object \ {o}, NEW c, Reported(p, c) PROVE Reported(p, c)'
  <2>1. ASSUME NEW t \in Thread, Pending(thread[t].todo, p, c, value[p])
        PROVE  Pending(thread'[t].todo, p, c, value[p])
    <3>1. PICK i \in DOMAIN thread[t].todo : Covers(thread[t].todo[i], p, c, value[p])
      BY <2>1 DEF Pending
    <3>2. thread[t].todo[i].obj = p
      BY <3>1 DEF Covers
    <3>3. thread'[t].todo[i] = thread[t].todo[i] /\ i \in DOMAIN thread'[t].todo
      BY <1>3, <1>4, <3>2
    <3>4. QED
      BY <3>1, <3>3 DEF Pending
  <2>2. QED
    BY <1>1, <1>8, <2>1 DEF Reported
<1>9. QED
  BY <1>1, <1>5, <1>6, <1>7, <1>8 DEF ReportInv

LEMMA SubscribeCovKeeps ==
    ASSUME NEW c \in Client, NEW o \in Object, Inv, ReportInv, SubscribeCov(c, o)
    PROVE  Inv' /\ ReportInv'
<1>1. requests' \in 0..MaxRequests
  BY BoundAssumption DEF SubscribeCov, Request, Inv, TypeOK
<1>2. Inv'
  BY <1>1 DEF SubscribeCov, Inv, TypeOK, Busy
<1>3. \A p \in Object : subs[p] \subseteq subs'[p]
  BY DEF SubscribeCov, Inv, TypeOK
<1>4. ReportInv'
  BY <1>3 DEF SubscribeCov, ReportInv, Reported
<1>5. QED
  BY <1>2, <1>4

LEMMA InitReport == Init => ReportInv
BY DEF Init, ReportInv, SetShape, Idle

LEMMA NextKeeps == Inv /\ ReportInv /\ [Next]_vars => Inv' /\ ReportInv'
<1> SUFFICES ASSUME Inv, ReportInv, [Next]_vars PROVE Inv' /\ ReportInv'
  OBVIOUS
<1>1. CASE ProcessWritePresentValue \/ \E t \in Web : RestWriteProperty(t) \/ ToggleAll(t)
  BY <1>1, Begins, BeginInv, BeginReport
<1>2. ASSUME NEW c \in Client, NEW o \in Watched, SubscribeCov(c, o) PROVE Inv' /\ ReportInv'
  BY <1>2, SubscribeCovKeeps, InputAssumption
<1>3. ASSUME NEW o \in Watched, DeleteCov(o) PROVE Inv' /\ ReportInv'
  BY <1>3, DeleteCovKeeps, InputAssumption
<1>4. CASE WebSubscribe \/ WebClose \/ UNCHANGED vars
  BY <1>4 DEF WebSubscribe, WebClose, vars, Inv, TypeOK, Busy, ReportInv, Reported
<1>5. ASSUME NEW t \in Thread, Step(t) PROVE Inv' /\ ReportInv'
  <2>1. Busy(t) /\ \A o \in Object : due[o] \subseteq subs[o]
    BY <1>5, StepBusy DEF ReportInv
  <2>2. CASE \E ops \in Seq(Op) : Proceeds(t, ops)
    BY <2>1, <2>2, ProceedsInv, ProceedsReport
  <2>3. CASE FailedCast(t)
    BY <2>1, <2>3, FailedCastInv, FailedCastReport
  <2>4. CASE SetValue(t) \/ PointToPointMessage(t)
    BY <2>4, SetValueInv, SetValueReport, PointToPointMessageInv, PointToPointMessageReport
  <2>5. QED
    BY <1>5, <2>1, <2>2, <2>3, <2>4, StepIs
<1>6. QED
  BY <1>1, <1>2, <1>3, <1>4, <1>5 DEF Next, Receive

LEMMA Invariant == Spec => [](Inv /\ ReportInv)
<1>1. QED
  BY InitInv, InitReport, NextKeeps, PTL DEF Spec

\* Every variable has its type whatever is written to the objects, by however many
\* threads at once (BaseDevice.java:760-860).
THEOREM Typing == Spec => []TypeOK
<1>1. Inv => TypeOK
  BY DEF Inv
<1>2. QED
  BY <1>1, Invariant, PTL

\* For any number of threads and clients, and as long as no request fails: when all is
\* quiet, everyone who is owed the last change of an object was sent a notification of its
\* present value, or the network refused that one; a refusal costs nobody else theirs
\* (BaseDevice.java:760-796, ToggleDoorOpenStateThread.java:86-256).
THEOREM EveryChangeIsReported == Spec => []ChangesReported
<1>1. ReportInv => ChangesReported
  <2> SUFFICES ASSUME ReportInv, Quiescent, failed = {}, NEW o \in Object, NEW c \in due[o]
               PROVE  c \in told[o] \cup refused[o]
    BY DEF ChangesReported
  <2>1. Reported(o, c)
    BY DEF ReportInv
  <2>2. \A t \in Thread : thread[t].todo = <<>>
    BY DEF Quiescent, Busy
  <2>3. \A v : ~Pending(<<>>, o, c, v)
    BY DEF Pending
  <2>4. QED
    BY <2>1, <2>2, <2>3 DEF Reported
<1>2. QED
  BY <1>1, Invariant, PTL

-----------------------------------------------------------------------------
(* One request at a time, none of which writes an array by itself          *)

OneAtATime == MaxActive = 1 /\ IsFiniteSet(Web)
NoArrays   == \A w \in RestWrites : w[2].kind # "bytes"

TurnInv ==
    /\ \A t \in Thread : TurnShape(thread[t].todo)
    /\ \A t, u \in Thread : Busy(t) /\ Busy(u) => t = u

LEMMA NoneBusy ==
    ASSUME OneAtATime, NEW t \in Thread, NEW kind, NEW e, Begin(t, kind, e)
    PROVE  \A u \in Thread : ~Busy(u)
<1> DEFINE B == {u \in Thread : Busy(u)}
<1>1. IsFiniteSet(Thread)
  BY FS_Singleton, FS_Union DEF Thread, OneAtATime
<1>2. IsFiniteSet(B)
  BY <1>1, FS_Subset
<1>3. Cardinality(B) \in Nat /\ Cardinality(B) < 1
  BY <1>2, FS_CardinalityType DEF Begin, OneAtATime
<1>4. B = {}
  BY <1>2, <1>3, FS_EmptySet
<1>5. QED
  BY <1>4

\* What a request begins with is no array.
LEMMA BeginsPlain ==
    ASSUME Inv, NoArrays,
           ProcessWritePresentValue \/ \E t \in Web : RestWriteProperty(t) \/ ToggleAll(t)
    PROVE  \E t \in Thread : \E kind, e : ~IsTurn(e) /\ Begin(t, kind, e)
<1>1. CASE ProcessWritePresentValue
  <2>1. PICK w \in NetWrites : Begin(Reader, "writeProperty", Write(w[1], Int32(w[2])))
    BY <1>1 DEF ProcessWritePresentValue
  <2>2. ~IsTurn(Write(w[1], Int32(w[2])))
    BY DEF IsTurn, Write, Int32
  <2>3. QED
    BY <2>1, <2>2 DEF Thread
<1>2. ASSUME NEW t \in Web, RestWriteProperty(t)
      PROVE  \E kind, e : ~IsTurn(e) /\ Begin(t, kind, e)
  <2>1. PICK w \in RestWrites : Begin(t, "restWrite", Write(w[1], w[2]))
    BY <1>2 DEF RestWriteProperty
  <2>2. ~IsTurn(Write(w[1], w[2]))
    BY DEF IsTurn, Write, NoArrays
  <2>3. QED
    BY <2>1, <2>2
<1>3. ASSUME NEW t \in Web, ToggleAll(t)
      PROVE  \E kind, e : ~IsTurn(e) /\ Begin(t, kind, e)
  <2> DEFINE e == [op |-> "executeAction"]
  <2>1. ~IsTurn(e)
    BY DEF IsTurn
  <2>2. QED
    BY <1>3, <2>1 DEF ToggleAll
<1>4. QED
  BY <1>1, <1>2, <1>3 DEF Thread

LEMMA BeginTurn ==
    ASSUME NEW t \in Thread, Inv, TurnInv, OneAtATime, NEW kind, NEW e, ~IsTurn(e),
           Begin(t, kind, e)
    PROVE  TurnInv' /\ UNCHANGED value
<1>1. \A u \in Thread : ~Busy(u)
  BY NoneBusy
<1>2. /\ thread'[t].todo = <<e>> /\ UNCHANGED value
      /\ \A u \in Thread \ {t} : thread'[u] = thread[u]
  BY DEF Begin, Inv, TypeOK
<1>3. \A u \in Thread \ {t} : thread'[u].todo = <<>>
  BY <1>1, <1>2 DEF Busy
<1>4. QED
  BY <1>2, <1>3 DEF TurnInv, TurnShape, Busy

\* What is left of the thread's todo, and all others, are as they were.
LEMMA DoTurn ==
    ASSUME NEW t \in Thread, Inv, TurnInv, Busy(t), NEW ops \in Seq(Op), Do(t, ops)
    PROVE  /\ \A u \in Thread \ {t} : thread'[u].todo = <<>>
           /\ \A j \in DOMAIN thread'[t].todo : IsTurn(thread'[t].todo[j]) =>
                 j \in DOMAIN ops /\ thread'[t].todo[j] = ops[j]
<1> DEFINE s == thread[t].todo
           r == ops \o Tail(s)
<1>1. thread \in ThreadType /\ s \in Seq(Op) /\ s # <<>>
  BY DEF Inv, TypeOK, ThreadType, Busy
<1>2. thread'[t].todo = r /\ \A u \in Thread \ {t} : thread'[u] = thread[u]
  BY <1>1, DoType
<1>3. \A u \in Thread \ {t} : thread[u].todo = <<>>
  BY DEF TurnInv, Busy
<1>4. r = ops \o Tail(s)
  OBVIOUS
<1>5. \A i \in DOMAIN s \ {1} : ~IsTurn(s[i])
  BY DEF TurnInv, TurnShape
<1> HIDE DEF s, r
<1>6. /\ \A i \in DOMAIN ops : i \in DOMAIN r /\ r[i] = ops[i]
      /\ \A j \in DOMAIN r \ DOMAIN ops :
            j - Len(ops) + 1 \in DOMAIN s \ {1} /\ r[j] = s[j - Len(ops) + 1]
  BY <1>1, <1>4, Joined
<1>7. \A j \in DOMAIN r : IsTurn(r[j]) => j \in DOMAIN ops /\ r[j] = ops[j]
  BY <1>5, <1>6
<1>8. \A u \in Thread \ {t} : thread'[u].todo = <<>>
  BY <1>2, <1>3
<1>9. \A j \in DOMAIN thread'[t].todo : IsTurn(thread'[t].todo[j]) =>
         j \in DOMAIN ops /\ thread'[t].todo[j] = ops[j]
  BY <1>2, <1>7
<1>10. QED
  BY <1>8, <1>9

LEMMA ProceedsTurn ==
    ASSUME NEW t \in Thread, Inv, TurnInv, Busy(t), NEW ops \in Seq(Op), Proceeds(t, ops)
    PROVE  TurnInv' /\ UNCHANGED value
<1>1. Do(t, ops) /\ HandsOn(t, ops) /\ UNCHANGED value
  BY DEF Proceeds
<1>2. TurnShape(ops)
  BY <1>1 DEF HandsOn, TurnInv
<1>3. QED
  BY <1>1, <1>2, DoTurn DEF TurnInv, TurnShape, Busy

LEMMA EndTurn ==
    ASSUME NEW t \in Thread, Inv, TurnInv, Busy(t), Do(t, <<>>)
    PROVE  TurnInv'
<1> DEFINE none == <<>>
<1>1. none \in Seq(Op) /\ DOMAIN none = {} /\ Do(t, none)
  OBVIOUS
<1> HIDE DEF none
<1>2. /\ \A u \in Thread \ {t} : thread'[u].todo = <<>>
      /\ \A j \in DOMAIN thread'[t].todo : IsTurn(thread'[t].todo[j]) => j \in DOMAIN none
  BY <1>1, DoTurn
<1>3. QED
  BY <1>1, <1>2 DEF TurnInv, TurnShape, Busy

LEMMA FailedCastTurn ==
    ASSUME NEW t \in Thread, Inv, TurnInv, FailedCast(t) PROVE TurnInv' /\ UNCHANGED value
<1>1. thread \in ThreadType /\ Fail(t) /\ UNCHANGED value
  BY DEF Inv, TypeOK, ThreadType, FailedCast
<1>2. thread'[t].todo = <<>> /\ \A u \in Thread \ {t} : thread'[u] = thread[u]
  BY <1>1, FailType
<1>3. QED
  BY <1>1, <1>2 DEF TurnInv, TurnShape, Busy

LEMMA DeleteCovTurn ==
    ASSUME NEW o \in Object, Inv, TurnInv, DeleteCov(o) PROVE TurnInv' /\ UNCHANGED value
<1>1. thread' = [t \in Thread |-> Unsettled(t, o)] /\ UNCHANGED value
  BY DEF DeleteCov
<1>2. ASSUME NEW t \in Thread
      PROVE  /\ thread[t].todo \in Seq(Op) /\ thread'[t].todo \in Seq(Op)
             /\ DOMAIN thread'[t].todo = DOMAIN thread[t].todo
             /\ \A i \in DOMAIN thread[t].todo :
                   \/ thread'[t].todo[i] = thread[t].todo[i]
                   \/ thread'[t].todo[i].op = "notify"
             /\ thread'[t].todo # <<>> => thread[t].todo # <<>>
  <2>1. /\ thread'[t].todo \in Seq(Op) /\ thread[t].todo \in Seq(Op)
        /\ Len(thread'[t].todo) = Len(thread[t].todo)
        /\ \A i \in DOMAIN thread[t].todo :
              \/ thread'[t].todo[i] = thread[t].todo[i]
              \/ thread'[t].todo[i].op = "notify"
    <3>1. thread'[t] = Unsettled(t, o)
      BY <1>1
    <3>2. thread[t].todo \in Seq(Op)
      BY DEF Inv, TypeOK
    <3>3. Unsettled(t, o).todo \in Seq(Op)
      BY UnsettledIs
    <3>4. QED
      BY <3>1, <3>2, <3>3, UnsettledIs
  <2>2. QED
    BY <2>1
<1>3. \A t \in Thread : \A i \in DOMAIN thread'[t].todo :
         IsTurn(thread'[t].todo[i]) => i = 1 /\ value'["door"].kind = "bytes"
  BY <1>1, <1>2 DEF TurnInv, TurnShape, IsTurn
<1>4. QED
  BY <1>1, <1>2, <1>3 DEF TurnInv, TurnShape, Busy

\* The array that is set was read from the door, which holds it still.
LEMMA SetValueTurn ==
    ASSUME NEW t \in Thread, Inv, TurnInv, SetValue(t), value["door"].kind # "bytes"
    PROVE  value'["door"].kind # "bytes"
<1> DEFINE s == thread[t].todo
           cur == Head(s)
<1>1. cur \in Op /\ cur.op = "set" /\ Busy(t)
  BY DoingIs DEF SetValue
<1>2. s \in Seq(Op) /\ s # <<>> /\ cur = s[1] /\ 1 \in DOMAIN s
  BY <1>1 DEF Inv, TypeOK, Busy
<1>3. ~IsTurn(s[1])
  BY <1>2 DEF TurnInv, TurnShape
<1>4. value' = [value EXCEPT ![cur.obj] = cur.new] /\ cur.obj \in Object
  BY <1>1, OpFields DEF SetValue
<1> HIDE DEF cur, s
<1>5. QED
  BY <1>1, <1>2, <1>3, <1>4 DEF IsTurn, Inv, TypeOK, Object

LEMMA NextTurn ==
    ASSUME OneAtATime, NoArrays, Inv, ReportInv, TurnInv, [Next]_vars
    PROVE  TurnInv' /\ (value["door"].kind # "bytes" => value'["door"].kind # "bytes")
<1>1. CASE ProcessWritePresentValue \/ \E t \in Web : RestWriteProperty(t) \/ ToggleAll(t)
  BY <1>1, BeginsPlain, BeginTurn
<1>2. ASSUME NEW c \in Client, NEW o \in Watched, SubscribeCov(c, o)
      PROVE  TurnInv' /\ UNCHANGED value
  BY <1>2 DEF SubscribeCov, TurnInv, TurnShape, Busy
<1>3. ASSUME NEW o \in Watched, DeleteCov(o) PROVE TurnInv' /\ UNCHANGED value
  BY <1>3, DeleteCovTurn, InputAssumption
<1>4. CASE WebSubscribe \/ WebClose \/ UNCHANGED vars
  BY <1>4 DEF WebSubscribe, WebClose, vars, TurnInv, TurnShape, Busy
<1>5. ASSUME NEW t \in Thread, Step(t)
      PROVE  TurnInv' /\ (value["door"].kind # "bytes" => value'["door"].kind # "bytes")
  <2>1. Busy(t) /\ \A o \in Object : due[o] \subseteq subs[o]
    BY <1>5, StepBusy DEF ReportInv
  <2>2. CASE \E ops \in Seq(Op) : Proceeds(t, ops)
    BY <2>1, <2>2, ProceedsTurn
  <2>3. CASE FailedCast(t)
    BY <2>3, FailedCastTurn
  <2>4. CASE SetValue(t)
    <3>1. Do(t, <<>>)
      BY <2>4 DEF SetValue
    <3>2. QED
      BY <2>1, <2>4, <3>1, EndTurn, SetValueTurn
  <2>5. CASE PointToPointMessage(t)
    <3>1. Do(t, <<>>) /\ UNCHANGED value
      BY <2>5 DEF PointToPointMessage
    <3>2. QED
      BY <2>1, <3>1, EndTurn
  <2>6. QED
    BY <1>5, <2>1, <2>2, <2>3, <2>4, <2>5, StepIs
<1>6. QED
  BY <1>1, <1>2, <1>3, <1>4, <1>5 DEF Next, Receive

\* For any requests that come one at a time, none of them a JSON value that would be an
\* array of octets: once an Integer was written to the door no toggle succeeds again
\* (TZ320Device.executeAction(), TZ320Device.java:17-29).
THEOREM ToggleIsLost == ASSUME OneAtATime, NoArrays PROVE Spec => ToggleLostForGood
<1>1. Init => TurnInv
  BY DEF Init, Idle, TurnInv, TurnShape, Busy
<1>2. Inv /\ ReportInv /\ TurnInv /\ [Next]_vars => TurnInv'
  BY NextTurn
<1>3. Inv /\ ReportInv /\ TurnInv /\ [Next]_vars =>
         [value["door"].kind # "bytes" => value'["door"].kind # "bytes"]_vars
  BY NextTurn
<1>4. QED
  BY <1>1, <1>2, <1>3, Invariant, PTL DEF Spec, ToggleLostForGood
-----------------------------------------------------------------------------
(* The state and the lock                                                  *)

Sets(e, o) == e.op \in {"write", "set"} /\ e.obj = o
Touches(e) == Sets(e, "state") \/ Sets(e, "lock")

\* What reports the state, an Integer, to others: it neither fails nor writes.
Harmless(e) ==
    /\ e.op \in {"parent", "cov", "notify", "isBytes", "isInteger", "cast", "send"}
    /\ e.obj = "state"
    /\ e.op = "cast" => e.kind = "int"

Matching(l, n) == l = 1 <=> n = 4

\* The lock is written at k, nothing fails before and nothing touches it or the state after.
LockFollows(s, k) ==
    /\ k \in DOMAIN s /\ Sets(s[k], "lock") /\ s[k].new.kind = "int"
    /\ \A j \in DOMAIN s : j > k => ~Touches(s[j])
    /\ \A j \in DOMAIN s : 1 < j /\ j < k => Harmless(s[j])

\* The lock will be what belongs to the state, which is n or will be set next.
Coming(s, n) ==
    \E k \in DOMAIN s :
        /\ LockFollows(s, k)
        /\ \/ k = 1 /\ Matching(s[k].new.n, n)
           \/ k > 1 /\ Harmless(s[1]) /\ Matching(s[k].new.n, n)
           \/ /\ k > 1 /\ Sets(s[1], "state") /\ s[1].new.kind = "int"
              /\ Matching(s[k].new.n, s[1].new.n)

Agree(v) == v["lock"].kind = "int" => Matching(v["lock"].n, v["state"].n)

Settled(s, v) == Agree(v) /\ \A j \in DOMAIN s : ~Touches(s[j])

OnTrack(s, v) == Coming(s, v["state"].n) \/ Settled(s, v)

LockInv ==
    /\ value["state"].kind = "int"
    /\ \A t \in Thread : Busy(t) => OnTrack(thread[t].todo, value)
    /\ Quiescent => Agree(value)
    /\ \A t, u \in Thread : Busy(t) /\ Busy(u) => t = u

StillFollows(r, ops, e) ==
    \E l \in DOMAIN r :
        /\ LockFollows(r, l) /\ r[l] = e
        /\ \/ ops = <<>> /\ (l = 1 \/ (l > 1 /\ Harmless(r[1])))
           \/ ops # <<>> /\ 1 \in DOMAIN ops /\ l > 1 /\ r[1] = ops[1]

\* The lock still follows when the first operation gives way to harmless ones.
LEMMA FollowsJoined ==
    ASSUME NEW s \in Seq(Op), s # <<>>, NEW ops \in Seq(Op), NEW r, r = ops \o Tail(s),
           NEW k \in DOMAIN s, k > 1, LockFollows(s, k),
           \A i \in DOMAIN ops \ {1} : Harmless(ops[i])
    PROVE  StillFollows(r, ops, s[k])
<1> DEFINE l == Len(ops) + k - 1
<1>1. /\ \A i \in DOMAIN ops : i \in DOMAIN r /\ r[i] = ops[i]
      /\ \A i \in DOMAIN s \ {1} :
            Len(ops) + i - 1 \in DOMAIN r /\ r[Len(ops) + i - 1] = s[i]
      /\ \A j \in DOMAIN r \ DOMAIN ops :
            j - Len(ops) + 1 \in DOMAIN s \ {1} /\ r[j] = s[j - Len(ops) + 1]
  <2>1. Spliced(s, ops, r)
    BY SplicedIs, Zenon
  <2> QED BY <2>1 DEF Spliced
<1>2. /\ Len(ops) \in Nat /\ DOMAIN ops = 1..Len(ops) /\ Len(s) \in Nat /\ DOMAIN s = 1..Len(s)
      /\ k \in Nat /\ k \in DOMAIN s \ {1} /\ r \in Seq(Op)
  OBVIOUS
<1>3. DOMAIN r \subseteq Nat \ {0}
  BY <1>2
<1> HIDE DEF l, StillFollows
<1>4. l \in DOMAIN r /\ r[l] = s[k]
  BY <1>1, <1>2 DEF l, StillFollows
<1>5. ASSUME NEW j \in DOMAIN r, j > l PROVE ~Touches(r[j])
  <2>1. j \notin DOMAIN ops /\ j - Len(ops) + 1 > k
    BY <1>2, <1>3, <1>5 DEF l, StillFollows
  <2>2. j - Len(ops) + 1 \in DOMAIN s /\ r[j] = s[j - Len(ops) + 1]
    BY <1>1, <2>1
  <2> QED BY <2>1, <2>2 DEF LockFollows
<1>6. ASSUME NEW j \in DOMAIN r, 1 < j, j < l PROVE Harmless(r[j])
  <2>1. CASE j \in DOMAIN ops
    BY <1>1, <1>6, <2>1
  <2>2. CASE j \notin DOMAIN ops
    <3>1. j - Len(ops) + 1 \in DOMAIN s \ {1} /\ r[j] = s[j - Len(ops) + 1]
      BY <1>1, <2>2
    <3>2. 1 < j - Len(ops) + 1 /\ j - Len(ops) + 1 < k
      BY <1>2, <1>3, <1>6, <3>1 DEF l, StillFollows
    <3> QED BY <3>1, <3>2 DEF LockFollows
  <2> QED BY <2>1, <2>2
<1>7. LockFollows(r, l)
  BY <1>4, <1>5, <1>6 DEF LockFollows
<1>8. CASE ops = <<>>
  <2>1. Len(ops) = 0 /\ l = k - 1
    BY <1>2, <1>8 DEF l, StillFollows
  <2>2. CASE k = 2
    BY <1>4, <1>7, <1>8, <2>1, <2>2 DEF l, StillFollows
  <2>3. CASE k # 2
    <3>1. 2 \in DOMAIN s \ {1} /\ 1 < 2 /\ 2 < k /\ Len(ops) + 2 - 1 = 1 /\ l > 1
      BY <1>2, <2>1, <2>3
    <3>2. r[1] = s[2]
      BY <1>1, <3>1
    <3>3. Harmless(r[1])
      BY <3>1, <3>2 DEF LockFollows
    <3> QED BY <1>4, <1>7, <1>8, <3>1, <3>3 DEF l, StillFollows
  <2> QED BY <2>2, <2>3
<1>9. CASE ops # <<>>
  <2>1. 1 \in DOMAIN ops /\ l > 1
    BY <1>2, <1>9 DEF l, StillFollows
  <2> QED BY <1>1, <1>4, <1>7, <1>9, <2>1 DEF l, StillFollows
<1> QED BY <1>8, <1>9

FollowsIn(r, ops) ==
    /\ \A k \in DOMAIN ops : LockFollows(ops, k) => LockFollows(r, k)
    /\ \A k \in DOMAIN ops : k \in DOMAIN r /\ r[k] = ops[k]
    /\ (\A i \in DOMAIN ops : ~Touches(ops[i])) => \A j \in DOMAIN r : ~Touches(r[j])

\* What follows in what takes the place of the first operation follows in all.
LEMMA FollowsFirst ==
    ASSUME NEW s \in Seq(Op), s # <<>>, NEW ops \in Seq(Op), NEW r, r = ops \o Tail(s),
           \A j \in DOMAIN s \ {1} : ~Touches(s[j])
    PROVE  FollowsIn(r, ops)
<1>1. /\ \A i \in DOMAIN ops : i \in DOMAIN r /\ r[i] = ops[i]
      /\ \A j \in DOMAIN r \ DOMAIN ops :
            j - Len(ops) + 1 \in DOMAIN s \ {1} /\ r[j] = s[j - Len(ops) + 1]
  <2>1. Spliced(s, ops, r)
    BY SplicedIs, Zenon
  <2> QED BY <2>1 DEF Spliced
<1>2. \A j \in DOMAIN r \ DOMAIN ops : ~Touches(r[j])
  BY <1>1
<1>3. ASSUME NEW k \in DOMAIN ops, LockFollows(ops, k) PROVE LockFollows(r, k)
  <2>1. \A j \in DOMAIN r : j > k => ~Touches(r[j])
    BY <1>1, <1>2, <1>3 DEF LockFollows
  <2>2. ASSUME NEW j \in DOMAIN r, 1 < j, j < k PROVE Harmless(r[j])
    <3>1. DOMAIN ops = 1..Len(ops) /\ Len(ops) \in Nat /\ j \in Int
      OBVIOUS
    <3>2. j \in DOMAIN ops
      BY <2>2, <3>1
    <3> QED BY <1>1, <1>3, <2>2, <3>2 DEF LockFollows
  <2> QED BY <1>1, <1>3, <2>1, <2>2 DEF LockFollows
<1> QED BY <1>1, <1>2, <1>3 DEF FollowsIn

\* Reporting the state, an Integer, goes on with more of the same.
LEMMA HarmlessStep ==
    ASSUME NEW t \in Thread, Inv, value["state"].kind = "int", Step(t),
           Harmless(Head(thread[t].todo))
    PROVE  \E ops \in Seq(Op) : /\ Do(t, ops) /\ UNCHANGED value
                                /\ \A i \in DOMAIN ops : Harmless(ops[i])
<1> DEFINE cur == Head(thread[t].todo)
           Told(ops) == /\ ops \in Seq(Op) /\ Do(t, ops) /\ UNCHANGED value
                        /\ \A i \in DOMAIN ops : Harmless(ops[i])
<1>1. /\ Busy(t) /\ cur \in Op /\ cur.obj = "state" /\ "state" \in Object
      /\ cur.op \in {"parent", "cov", "notify", "isBytes", "isInteger", "cast", "send"}
      /\ cur.op = "cast" => cur.kind = "int"
  BY StepBusy, Front DEF Harmless, Inv, TypeOK, ThreadType, Object
<1>2. ASSUME Do(t, <<>>), UNCHANGED value PROVE Told(<<>>)
  BY <1>2
<1>3. ASSUME NEW e \in Op, Harmless(e), Do(t, <<e>>), UNCHANGED value PROVE Told(<<e>>)
  BY <1>3
<1>4. ASSUME NEW e \in Op, NEW f \in Op, Harmless(e), Harmless(f), Do(t, <<e, f>>), UNCHANGED value
      PROVE  Told(<<e, f>>)
  BY <1>4
<1> HIDE DEF Told
<1>5. CASE ParentLogicListener(t)
  <2>1. Do(t, <<>>) /\ UNCHANGED value
    BY <1>1, <1>5 DEF ParentLogicListener, OnValueChanged, Id, Goto
  <2> QED BY <1>2, <2>1 DEF Told
<1>6. CASE CovListener(t)
  <2> DEFINE walk == [op |-> "notify", obj |-> "state", may |-> subs["state"],
                      must |-> subs["state"], done |-> {}]
  <2>1. Do(t, <<walk>>) /\ UNCHANGED value
    BY <1>1, <1>6 DEF CovListener, Goto
  <2>2. walk \in Op /\ Harmless(walk)
    BY <1>1, NotifyOp DEF Inv, TypeOK, Harmless
  <2> HIDE DEF walk
  <2> QED BY <1>3, <2>1, <2>2 DEF Told
<1>7. CASE SendCov(t)
  <2>0. cur.op = "notify"
    BY <1>7, DoingIs DEF SendCov
  <2>1. CASE Do(t, <<>>) /\ UNCHANGED value
    BY <1>2, <2>1 DEF Told
  <2>2. ASSUME NEW c \in (subs["state"] \cup cur.may) \ cur.done,
               Do(t, <<[op |-> "isBytes", obj |-> "state", client |-> c], Notified(cur, c)>>),
               UNCHANGED value
        PROVE  \E ops : Told(ops)
    <3> DEFINE e == [op |-> "isBytes", obj |-> "state", client |-> c]
               f == Notified(cur, c)
    <3>1. /\ cur = [op |-> "notify", obj |-> cur.obj, may |-> cur.may, must |-> cur.must,
                    done |-> cur.done]
          /\ cur.may \subseteq Client /\ cur.must \subseteq Client /\ cur.done \subseteq Client
      BY <1>1, <2>0, OpFields
    <3>2. c \in Client
      BY <1>1, <3>1 DEF Inv, TypeOK
    <3>3. e \in Op /\ Harmless(e)
      BY <1>1, <3>2, AskOp DEF Harmless
    <3>4. f = [op |-> "notify", obj |-> "state", may |-> cur.may, must |-> cur.must,
               done |-> cur.done \cup {c}]
      BY <1>1, <3>1 DEF Notified
    <3>5. f \in Op
      <4>1. /\ cur.may \in SUBSET Client /\ cur.must \in SUBSET Client
            /\ cur.done \cup {c} \in SUBSET Client
        BY <3>1, <3>2
      <4>2. [op |-> "notify", obj |-> "state", may |-> cur.may, must |-> cur.must,
             done |-> cur.done \cup {c}] \in Op
        BY <1>1, <4>1, NotifyOp, Zenon
      <4> QED BY <3>4, <4>2
    <3>6. Harmless(f)
      BY <3>4 DEF Harmless
    <3>7. Do(t, <<e, f>>)
      BY <2>2
    <3> HIDE DEF e, f
    <3> QED BY <1>4, <2>2, <3>3, <3>5, <3>6, <3>7
  <2>3. \/ Do(t, <<>>) /\ UNCHANGED value
        \/ \E c \in (subs["state"] \cup cur.may) \ cur.done :
              /\ Do(t, <<[op |-> "isBytes", obj |-> "state", client |-> c], Notified(cur, c)>>)
              /\ UNCHANGED value
    BY <1>1, <1>7 DEF SendCov, Goto
  <2> QED BY <2>1, <2>2, <2>3 DEF Told
<1>8. CASE IsBytes(t)
  <2> DEFINE e == [op |-> "isInteger", obj |-> "state", client |-> cur.client]
  <2>0. cur.op = "isBytes"
    BY <1>8, DoingIs DEF IsBytes
  <2>1. Do(t, <<e>>) /\ UNCHANGED value
    BY <1>1, <1>8 DEF IsBytes, Goto
  <2>2. cur.client \in Client
    BY <1>1, <2>0, OpFields
  <2>3. e \in Op /\ Harmless(e)
    BY <1>1, <2>2, AskOp DEF Harmless
  <2> HIDE DEF e
  <2> QED BY <1>3, <2>1, <2>3 DEF Told
<1>9. CASE IsInteger(t)
  <2> DEFINE e == [op |-> "cast", obj |-> "state", client |-> cur.client, kind |-> "int"]
  <2>0. cur.op = "isInteger"
    BY <1>9, DoingIs DEF IsInteger
  <2>1. Do(t, <<e>>) /\ UNCHANGED value
    BY <1>1, <1>9 DEF IsInteger, Goto
  <2>2. cur.client \in Client
    BY <1>1, <2>0, OpFields
  <2>3. e \in Op /\ Harmless(e)
    BY <1>1, <2>2, AskOp DEF Harmless
  <2> HIDE DEF e
  <2> QED BY <1>3, <2>1, <2>3 DEF Told
<1>10. CASE Cast(t)
  <2> DEFINE e == [op |-> "send", obj |-> "state", client |-> cur.client, val |-> value["state"]]
  <2>0. cur.op = "cast"
    BY <1>10, DoingIs DEF Cast
  <2>1. Do(t, <<e>>) /\ UNCHANGED value
    BY <1>1, <1>10, <2>0 DEF Cast, Goto
  <2>2. cur.client \in Client /\ value["state"] \in Value
    BY <1>1, <2>0, OpFields DEF Inv, TypeOK
  <2>3. e \in Op /\ Harmless(e)
    BY <1>1, <2>2, AskOp DEF Harmless
  <2> HIDE DEF e
  <2> QED BY <1>3, <2>1, <2>3 DEF Told
<1>11. CASE PointToPointMessage(t)
  <2>1. Do(t, <<>>) /\ UNCHANGED value
    BY <1>11 DEF PointToPointMessage
  <2> QED BY <1>2, <2>1 DEF Told
<1>12. ~ExecuteAction(t) /\ ~UpdatePropertyValue(t) /\ ~SetValue(t) /\ ~SendEvent(t)
  BY <1>1 DEF ExecuteAction, UpdatePropertyValue, SetValue, SendEvent, Doing
<1> QED
  BY <1>5, <1>6, <1>7, <1>8, <1>9, <1>10, <1>11, <1>12 DEF Step, Told

\* What a command writes: the state, then the lock that belongs to it
Command(ops) ==
    /\ 2 \in DOMAIN ops /\ LockFollows(ops, 2)
    /\ Sets(ops[1], "state") /\ ops[1].new.kind = "int"
    /\ Matching(ops[2].new.n, ops[1].new.n)

LEMMA Commands ==
    ASSUME NEW n
    PROVE  CommandLogic(n) \in Seq(Op) /\ (CommandLogic(n) = <<>> \/ Command(CommandLogic(n)))
<1>1. ASSUME NEW state \in Int, NEW lock \in Int, NEW door \in Int, NEW text \in Text,
             Matching(lock, state)
      PROVE  Command(Effects(state, lock, door, text))
  <2> DEFINE ops == Effects(state, lock, door, text)
  <2>1. /\ DOMAIN ops = 1..4 /\ ops[1] = Write("state", Int32(state))
        /\ ops[2] = Write("lock", Int32(lock)) /\ ops[3] = Write("door", Int32(door))
        /\ ops[4] = Event(text)
    BY DEF Effects
  <2> HIDE DEF ops
  <2>2. /\ Sets(ops[1], "state") /\ ops[1].new.kind = "int" /\ ops[1].new.n = state
        /\ Sets(ops[2], "lock") /\ ops[2].new.kind = "int" /\ ops[2].new.n = lock
        /\ ~Touches(ops[3]) /\ ~Touches(ops[4])
    BY <2>1 DEF Sets, Touches, Write, Int32, Event
  <2>3. \A j \in DOMAIN ops : (j > 2 => ~Touches(ops[j])) /\ ~(1 < j /\ j < 2)
    <3>1. \A j \in 1..4 : ~(1 < j /\ j < 2) /\ (j > 2 => j = 3 \/ j = 4)
      OBVIOUS
    <3> QED BY <2>1, <2>2, <3>1
  <2>4. LockFollows(ops, 2)
    BY <2>1, <2>2, <2>3 DEF LockFollows
  <2>5. Command(ops)
    BY <1>1, <2>1, <2>2, <2>4 DEF Command
  <2> QED BY <2>5 DEF ops
<1>2. Matching(0, 1) /\ Matching(1, 4) /\ Matching(0, 6)
  BY DEF Matching
<1>3. "Lock Unlock" \in Text /\ "Lock Locked" \in Text /\ "Lock Short Time Release" \in Text
  BY DEF Text
<1>4. /\ Command(Effects(1, 0, 0, "Lock Unlock")) /\ Command(Effects(4, 1, 1, "Lock Locked"))
      /\ Command(Effects(6, 0, 1, "Lock Short Time Release"))
  <2>1. 0 \in Int /\ 1 \in Int /\ 4 \in Int /\ 6 \in Int
    OBVIOUS
  <2>2. Command(Effects(1, 0, 0, "Lock Unlock"))
    BY <1>1, <1>2, <1>3, <2>1, Zenon
  <2>3. Command(Effects(4, 1, 1, "Lock Locked"))
    BY <1>1, <1>2, <1>3, <2>1, Zenon
  <2>4. Command(Effects(6, 0, 1, "Lock Short Time Release"))
    BY <1>1, <1>2, <1>3, <2>1, Zenon
  <2> QED BY <2>2, <2>3, <2>4
<1>5. CommandLogic(n) \in Seq(Op)
  BY LogicOps
<1>6. CommandLogic(n) = <<>> \/ Command(CommandLogic(n))
  BY <1>4 DEF CommandLogic
<1> QED BY <1>5, <1>6

\* Operations on other objects leave state and lock alone, unless they are a command.
LEMMA CalmStep ==
    ASSUME NEW t \in Thread, Inv, Step(t), ~Touches(Head(thread[t].todo))
    PROVE  \/ FailedCast(t)
           \/ \E ops \in Seq(Op) :
                 /\ Do(t, ops)
                 /\ value'["state"] = value["state"] /\ value'["lock"] = value["lock"]
                 /\ Command(ops) \/ \A i \in DOMAIN ops : ~Touches(ops[i])
<1> DEFINE cur == Head(thread[t].todo)
           Calm == value'["state"] = value["state"] /\ value'["lock"] = value["lock"]
           Goes(ops) == /\ ops \in Seq(Op) /\ Do(t, ops) /\ Calm
                        /\ Command(ops) \/ \A i \in DOMAIN ops : ~Touches(ops[i])
<1>1. Busy(t) /\ cur \in Op
  BY StepBusy, Front DEF Inv, TypeOK, ThreadType
<1>2. ASSUME Do(t, <<>>), Calm PROVE \E ops : Goes(ops)
  <2>1. Goes(<<>>)
    BY <1>2
  <2> QED BY <2>1
<1>3. ASSUME NEW e \in Op, ~Touches(e), Do(t, <<e>>), Calm PROVE \E ops : Goes(ops)
  <2>1. Goes(<<e>>)
    BY <1>3
  <2> QED BY <2>1
<1>4. \A ops : Goto(t, ops) => Do(t, ops) /\ Calm
  BY DEF Goto
<1>5. /\ "state" \in Object /\ "lock" \in Object /\ "door" \in Object
      /\ \A o \in Object : o \notin {"state", "lock"} => \A v : ~Touches(Write(o, v))
  BY DEF Object, Touches, Sets, Write
<1>6. \A e : e.op \notin {"write", "set"} => ~Touches(e)
  BY DEF Touches, Sets
<1> SUFFICES FailedCast(t) \/ \E ops : Goes(ops)
  OBVIOUS
<1> HIDE DEF Goes, Calm
<1>7. CASE ExecuteAction(t)
  <2> DEFINE e == Write("door", Bytes(1 - value["door"].n))
  <2>1. FailedCast(t) \/ Goto(t, <<e>>)
    BY <1>7 DEF ExecuteAction
  <2>2. value["door"].n \in Int
    BY <1>5 DEF Inv, TypeOK, Value
  <2>3. e \in Op /\ ~Touches(e)
    BY <1>5, <2>2, Values, WriteOp
  <2> HIDE DEF e
  <2> QED BY <1>3, <1>4, <2>1, <2>3 DEF Goes
<1>8. CASE UpdatePropertyValue(t)
  <2> DEFINE ops == Update(cur.obj, cur.new, value[cur.obj])
  <2>0. cur.op = "write"
    BY <1>8, DoingIs DEF UpdatePropertyValue
  <2>1. Goto(t, <<>>) \/ Goto(t, ops)
    BY <1>8 DEF UpdatePropertyValue
  <2>2. cur.obj \in Object /\ cur.new \in Value /\ value[cur.obj] \in Value
    BY <1>1, <2>0, OpFields DEF Inv, TypeOK
  <2>3. cur.obj \notin {"state", "lock"}
    BY <2>0 DEF Touches, Sets
  <2>4. /\ ops \in Seq(Op) /\ DOMAIN ops = 1..3
        /\ ops[1].obj = cur.obj /\ ops[2].op = "parent" /\ ops[3].op = "cov"
    BY <2>2, UpdateOps DEF Update
  <2> HIDE DEF ops
  <2>5. ~Touches(ops[1]) /\ ~Touches(ops[2]) /\ ~Touches(ops[3])
    BY <1>6, <2>3, <2>4 DEF Touches, Sets
  <2>6. \A i \in DOMAIN ops : i = 1 \/ i = 2 \/ i = 3
    BY <2>4
  <2>7. \A i \in DOMAIN ops : ~Touches(ops[i])
    BY <2>5, <2>6
  <2> QED BY <1>2, <1>4, <2>1, <2>4, <2>7 DEF Goes
<1>9. CASE SetValue(t)
  <2>0. cur.op = "set"
    BY <1>9, DoingIs DEF SetValue
  <2>1. Do(t, <<>>) /\ value' = [value EXCEPT ![cur.obj] = cur.new]
    BY <1>9 DEF SetValue
  <2>2. cur.obj \notin {"state", "lock"}
    BY <2>0 DEF Touches, Sets
  <2>3. Calm
    BY <1>5, <2>1, <2>2 DEF Calm, Inv, TypeOK
  <2> QED BY <1>2, <2>1, <2>3 DEF Goes
<1>10. CASE ParentLogicListener(t)
  <2>1. \/ FailedCast(t) \/ Goto(t, <<>>)
        \/ Goto(t, DoorLogic(cur.old.n)) \/ Goto(t, CommandLogic(cur.old.n))
    BY <1>10 DEF ParentLogicListener, OnValueChanged
  <2>2. Goto(t, DoorLogic(cur.old.n)) => Goes(DoorLogic(cur.old.n))
    BY <1>4, <1>6, LogicOps DEF Goes
  <2>3. Goto(t, CommandLogic(cur.old.n)) => Goto(t, <<>>) \/ Goes(CommandLogic(cur.old.n))
    BY <1>4, Commands DEF Goes
  <2> QED BY <1>2, <1>4, <2>1, <2>2, <2>3 DEF Goes
<1>11. CASE SendEvent(t)
  BY <1>2, <1>4, <1>11 DEF SendEvent, Goes
<1>12. CASE CovListener(t)
  <2> DEFINE walk == [op |-> "notify", obj |-> cur.obj, may |-> subs[cur.obj],
                      must |-> subs[cur.obj], done |-> {}]
  <2>0. cur.op = "cov"
    BY <1>12, DoingIs DEF CovListener
  <2>1. Goto(t, <<walk>>)
    BY <1>12 DEF CovListener
  <2>2. cur.obj \in Object
    BY <1>1, <2>0, OpFields
  <2>3. walk \in Op /\ ~Touches(walk)
    BY <1>6, <2>2, NotifyOp DEF Inv, TypeOK
  <2> HIDE DEF walk
  <2> QED BY <1>3, <1>4, <2>1, <2>3 DEF Goes
<1>13. CASE SendCov(t)
  <2>0. cur.op = "notify"
    BY <1>13, DoingIs DEF SendCov
  <2>1. CASE Goto(t, <<>>)
    BY <1>2, <1>4, <2>1 DEF Goes
  <2>2. ASSUME NEW c \in (subs[cur.obj] \cup cur.may) \ cur.done, UNCHANGED value,
               Do(t, <<[op |-> "isBytes", obj |-> cur.obj, client |-> c], Notified(cur, c)>>)
        PROVE  \E ops : Goes(ops)
    <3> DEFINE e == [op |-> "isBytes", obj |-> cur.obj, client |-> c]
               f == Notified(cur, c)
               both == <<e, f>>
    <3>1. /\ cur.obj \in Object
          /\ cur = [op |-> "notify", obj |-> cur.obj, may |-> cur.may, must |-> cur.must,
                    done |-> cur.done]
          /\ cur.may \subseteq Client /\ cur.must \subseteq Client /\ cur.done \subseteq Client
      BY <1>1, <2>0, OpFields
    <3>2. c \in Client
      BY <3>1 DEF Inv, TypeOK
    <3>3. e \in Op /\ ~Touches(e)
      BY <1>6, <3>1, <3>2, AskOp
    <3>4. f = [op |-> "notify", obj |-> cur.obj, may |-> cur.may, must |-> cur.must,
               done |-> cur.done \cup {c}]
      BY <3>1 DEF Notified
    <3>5. f \in Op /\ ~Touches(f)
      BY <1>6, <3>1, <3>2, <3>4, NotifyOp
    <3>6. Do(t, both)
      BY <2>2
    <3> HIDE DEF e, f
    <3>7. both \in Seq(Op) /\ \A i \in DOMAIN both : ~Touches(both[i])
      BY <3>3, <3>5
    <3>8. Goes(both)
      BY <2>2, <3>6, <3>7 DEF Goes, Calm
    <3> QED BY <3>8
  <2> QED BY <1>13, <2>1, <2>2 DEF SendCov, Goes
<1>14. CASE IsBytes(t) \/ IsInteger(t) \/ Cast(t)
  <2> DEFINE Later(e) == e.op \in {"isInteger", "cast", "send"} /\ e \in Op
  <2>0. cur.op \in {"isBytes", "isInteger", "cast"}
    BY <1>14, DoingIs DEF IsBytes, IsInteger, Cast
  <2>1. cur.obj \in Object /\ cur.client \in Client /\ value[cur.obj] \in Value
    BY <1>1, <2>0, OpFields DEF Inv, TypeOK
  <2>2. /\ Later([op |-> "isInteger", obj |-> cur.obj, client |-> cur.client])
        /\ Later([op |-> "cast", obj |-> cur.obj, client |-> cur.client, kind |-> "bytes"])
        /\ Later([op |-> "cast", obj |-> cur.obj, client |-> cur.client, kind |-> "int"])
        /\ Later([op |-> "send", obj |-> cur.obj, client |-> cur.client, val |-> value[cur.obj]])
    BY <2>1, AskOp
  <2> HIDE DEF Later
  <2>3. FailedCast(t) \/ \E e : Later(e) /\ Goto(t, <<e>>)
    BY <1>14, <2>2 DEF IsBytes, IsInteger, Cast
  <2> QED BY <1>3, <1>4, <1>6, <2>3 DEF Goes, Later
<1>15. CASE PointToPointMessage(t)
  <2>1. Do(t, <<>>) /\ UNCHANGED value
    BY <1>15 DEF PointToPointMessage
  <2> QED BY <1>2, <2>1 DEF Goes, Calm
<1> QED
  BY <1>7, <1>8, <1>9, <1>10, <1>11, <1>12, <1>13, <1>14, <1>15 DEF Step

\* What an update of the state or the lock puts in the place of the write
LEMMA UpdateIs ==
    ASSUME NEW t \in Thread, Inv, NEW o \in {"state", "lock"}, Step(t),
           Sets(Head(thread[t].todo), o)
    PROVE  LET new == Head(thread[t].todo).new IN
           /\ new \in Value
           /\ \/ Do(t, <<>>) /\ UNCHANGED value /\ value[o] = new
              \/ Do(t, <<>>) /\ value' = [value EXCEPT ![o] = new]
              \/ \E ops \in Seq(Op) :
                    /\ Do(t, ops) /\ UNCHANGED value
                    /\ DOMAIN ops = 1..3 /\ Sets(ops[1], o) /\ ops[1].new = new
                    /\ ops[2].op = "parent" /\ ops[2].obj = o
                    /\ ops[3].op = "cov" /\ ops[3].obj = o
<1> DEFINE cur == Head(thread[t].todo)
           ops == Update(o, cur.new, value[o])
<1>1. Busy(t) /\ cur \in Op /\ cur.op \in {"write", "set"} /\ cur.obj = o /\ o \in Object
  BY StepBusy, Front DEF Sets, Inv, TypeOK, ThreadType, Object
<1>2. cur.new \in Value /\ value[o] \in Value
  BY <1>1, OpFields DEF Inv, TypeOK
<1>3. UpdatePropertyValue(t) \/ SetValue(t)
  BY <1>1 DEF Step, ExecuteAction, ParentLogicListener, SendEvent, CovListener, SendCov, IsBytes,
     IsInteger, Cast, PointToPointMessage, Doing
<1>4. CASE UpdatePropertyValue(t)
  <2>1. /\ UNCHANGED value
        /\ (Do(t, <<>>) /\ value[o] = cur.new) \/ Do(t, ops)
    BY <1>1, <1>4 DEF UpdatePropertyValue, Goto, Equals
  <2>2. /\ ops \in Seq(Op) /\ DOMAIN ops = 1..3 /\ Sets(ops[1], o) /\ ops[1].new = cur.new
        /\ ops[2].op = "parent" /\ ops[2].obj = o
        /\ ops[3].op = "cov" /\ ops[3].obj = o
    BY <1>1, <1>2, UpdateOps DEF Update, Sets
  <2> HIDE DEF ops
  <2> QED BY <1>2, <2>1, <2>2
<1>5. CASE SetValue(t)
  <2>1. Do(t, <<>>) /\ value' = [value EXCEPT ![o] = cur.new]
    BY <1>1, <1>5 DEF SetValue
  <2> QED BY <1>2, <2>1
<1> QED BY <1>3, <1>4, <1>5

\* Whatever a thread does next, the lock will agree with the state.
LEMMA OnTrackStep ==
    ASSUME NEW t \in Thread, Inv, value["state"].kind = "int",
           OnTrack(thread[t].todo, value), Step(t)
    PROVE  value'["state"].kind = "int" /\ OnTrack(thread'[t].todo, value')
<1>1. Busy(t) /\ thread \in ThreadType
  BY StepBusy DEF Inv, TypeOK, ThreadType
<1>2. PICK s \in Seq(Op) : s = thread[t].todo /\ s # <<>> /\ s[1] = Head(s) /\ 1 \in DOMAIN s
  BY <1>1 DEF Inv, TypeOK, Busy
<1>3. ASSUME NEW ops \in Seq(Op), Do(t, ops)
      PROVE  thread'[t].todo = ops \o Tail(s)
  BY <1>1, <1>2, <1>3, DoType
<1>4. <<>> \in Seq(Op) /\ DOMAIN (<<>>) = {}
  OBVIOUS
<1>5. "state" \in Object /\ "lock" \in Object /\ value \in [Object -> Value]
  BY DEF Object, Inv, TypeOK
<1>6. CASE Settled(s, value)
  <2>1. ~Touches(Head(thread[t].todo)) /\ \A j \in DOMAIN s \ {1} : ~Touches(s[j])
    BY <1>2, <1>6 DEF Settled
  <2>2. CASE FailedCast(t)
    <3>1. thread'[t].todo = <<>> /\ value' = value
      BY <1>1, <2>2, FailType DEF FailedCast
    <3> QED BY <1>6, <3>1 DEF OnTrack, Settled
  <2>3. ASSUME NEW ops \in Seq(Op), Do(t, ops),
               value'["state"] = value["state"], value'["lock"] = value["lock"],
               Command(ops) \/ \A i \in DOMAIN ops : ~Touches(ops[i])
        PROVE  value'["state"].kind = "int" /\ OnTrack(thread'[t].todo, value')
    <3>1. PICK r : r = ops \o Tail(s) /\ r = thread'[t].todo
      BY <1>3, <2>3
    <3>2. Agree(value')
      BY <1>6, <2>3 DEF Agree, Settled
    <3>6. FollowsIn(r, ops)
      BY <1>2, <2>1, <3>1, FollowsFirst, Zenon
    <3>3. CASE Command(ops)
      <4>1. /\ 2 \in DOMAIN ops /\ LockFollows(ops, 2) /\ 1 \in DOMAIN ops
            /\ Sets(ops[1], "state") /\ ops[1].new.kind = "int"
            /\ Matching(ops[2].new.n, ops[1].new.n)
        BY <3>3 DEF Command
      <4>2. LockFollows(r, 2) /\ r[1] = ops[1] /\ r[2] = ops[2] /\ 2 \in DOMAIN r
        BY <3>6, <4>1 DEF FollowsIn
      <4>3. \A n : Coming(r, n)
        BY <4>1, <4>2 DEF Coming
      <4> QED BY <2>3, <3>1, <4>3 DEF OnTrack
    <3>4. CASE \A i \in DOMAIN ops : ~Touches(ops[i])
      <4>1. \A j \in DOMAIN r : ~Touches(r[j])
        BY <3>4, <3>6 DEF FollowsIn
      <4> QED BY <2>3, <3>1, <3>2, <4>1 DEF OnTrack, Settled
    <3> QED BY <2>3, <3>3, <3>4
  <2> QED BY <2>1, <2>2, <2>3, CalmStep
<1>7. ASSUME NEW k \in DOMAIN s, LockFollows(s, k), k = 1,
             Matching(s[k].new.n, value["state"].n)
      PROVE  value'["state"].kind = "int" /\ OnTrack(thread'[t].todo, value')
  <2> DEFINE new == Head(thread[t].todo).new
  <2>1. /\ Sets(Head(thread[t].todo), "lock") /\ new.kind = "int"
        /\ Matching(new.n, value["state"].n)
        /\ \A j \in DOMAIN s \ {1} : ~Touches(s[j])
    <3>1. \A j \in DOMAIN s \ {1} : j > 1
      OBVIOUS
    <3> QED BY <1>2, <1>7, <3>1 DEF LockFollows
  <2> HIDE DEF new
  <2>2. ASSUME Do(t, <<>>), value'["state"] = value["state"], value'["lock"] = new
        PROVE  value'["state"].kind = "int" /\ OnTrack(thread'[t].todo, value')
    <3>1. PICK none \in Seq(Op) : none = <<>> /\ DOMAIN none = {}
      BY <1>4
    <3>2. PICK r : r = none \o Tail(s) /\ r = thread'[t].todo
      BY <1>3, <2>2, <3>1
    <3>3. \A j \in DOMAIN r : ~Touches(r[j])
      BY <1>2, <2>1, <3>1, <3>2, FollowsFirst DEF FollowsIn
    <3>4. Agree(value')
      BY <2>1, <2>2 DEF Agree
    <3> QED BY <2>2, <3>2, <3>3, <3>4 DEF OnTrack, Settled
  <2>3. ASSUME NEW ops \in Seq(Op), Do(t, ops), UNCHANGED value,
               DOMAIN ops = 1..3, Sets(ops[1], "lock"), ops[1].new = new,
               ops[2].op = "parent", ops[3].op = "cov"
        PROVE  value'["state"].kind = "int" /\ OnTrack(thread'[t].todo, value')
    <3>1. PICK r : r = ops \o Tail(s) /\ r = thread'[t].todo
      BY <1>3, <2>3
    <3>2. ~Touches(ops[2]) /\ ~Touches(ops[3])
      BY <2>3 DEF Touches, Sets
    <3>3. \A j \in DOMAIN ops : (j > 1 => j = 2 \/ j = 3) /\ ~(1 < j /\ j < 1)
      BY <2>3
    <3>4. 1 \in DOMAIN ops /\ LockFollows(ops, 1)
      BY <2>1, <2>3, <3>2, <3>3 DEF LockFollows
    <3>0. FollowsIn(r, ops)
      BY <1>2, <2>1, <3>1, FollowsFirst, Zenon
    <3>5. 1 \in DOMAIN r /\ LockFollows(r, 1) /\ r[1] = ops[1]
      BY <3>0, <3>4 DEF FollowsIn
    <3>6. Coming(r, value["state"].n)
      BY <2>1, <2>3, <3>5 DEF Coming
    <3> QED BY <2>3, <3>1, <3>6 DEF OnTrack
  <2>4. \/ Do(t, <<>>) /\ UNCHANGED value /\ value["lock"] = new
        \/ Do(t, <<>>) /\ value' = [value EXCEPT !["lock"] = new]
        \/ \E ops \in Seq(Op) :
              /\ Do(t, ops) /\ UNCHANGED value
              /\ DOMAIN ops = 1..3 /\ Sets(ops[1], "lock") /\ ops[1].new = new
              /\ ops[2].op = "parent" /\ ops[2].obj = "lock"
              /\ ops[3].op = "cov" /\ ops[3].obj = "lock"
    BY <2>1, UpdateIs DEF new
  <2>5. value' = [value EXCEPT !["lock"] = new]
           => value'["state"] = value["state"] /\ value'["lock"] = new
    BY <1>5
  <2> QED BY <2>2, <2>3, <2>4, <2>5
<1>8. ASSUME NEW k \in DOMAIN s, LockFollows(s, k), k > 1, Harmless(s[1]),
             Matching(s[k].new.n, value["state"].n)
      PROVE  value'["state"].kind = "int" /\ OnTrack(thread'[t].todo, value')
  <2>1. PICK ops \in Seq(Op) : /\ Do(t, ops) /\ UNCHANGED value
                               /\ \A i \in DOMAIN ops : Harmless(ops[i])
    BY <1>2, <1>8, HarmlessStep
  <2>2. PICK r : r = ops \o Tail(s) /\ r = thread'[t].todo
    BY <1>3, <2>1
  <2>3. \A i \in DOMAIN ops \ {1} : Harmless(ops[i])
    BY <2>1
  <2>4a. StillFollows(r, ops, s[k])
    BY <1>2, <1>8, <2>2, <2>3, FollowsJoined, Zenon
  <2>4. PICK l \in DOMAIN r :
          /\ LockFollows(r, l) /\ r[l] = s[k]
          /\ \/ ops = <<>> /\ (l = 1 \/ (l > 1 /\ Harmless(r[1])))
             \/ ops # <<>> /\ 1 \in DOMAIN ops /\ l > 1 /\ r[1] = ops[1]
    BY <2>4a DEF StillFollows
  <2>5. l = 1 \/ (l > 1 /\ Harmless(r[1]))
    BY <2>1, <2>4
  <2>6. Coming(r, value["state"].n)
    BY <1>8, <2>4, <2>5 DEF Coming
  <2> QED BY <2>1, <2>2, <2>6 DEF OnTrack
<1>9. ASSUME NEW k \in DOMAIN s, LockFollows(s, k), k > 1, Sets(s[1], "state"),
             s[1].new.kind = "int", Matching(s[k].new.n, s[1].new.n)
      PROVE  value'["state"].kind = "int" /\ OnTrack(thread'[t].todo, value')
  <2> DEFINE new == Head(thread[t].todo).new
  <2>1. /\ Sets(Head(thread[t].todo), "state") /\ new.kind = "int"
        /\ Matching(s[k].new.n, new.n)
    BY <1>2, <1>9
  <2> HIDE DEF new
  <2>2. ASSUME Do(t, <<>>), value'["state"] = new
        PROVE  value'["state"].kind = "int" /\ OnTrack(thread'[t].todo, value')
    <3>1. PICK none \in Seq(Op) : none = <<>> /\ DOMAIN none = {}
      BY <1>4
    <3>2. PICK r : r = none \o Tail(s) /\ r = thread'[t].todo
      BY <1>3, <2>2, <3>1
    <3>3. \A i \in DOMAIN none \ {1} : Harmless(none[i])
      BY <3>1
    <3>4a. StillFollows(r, none, s[k])
      BY <1>2, <1>9, <3>2, <3>3, FollowsJoined, Zenon
    <3>4. PICK l \in DOMAIN r :
            /\ LockFollows(r, l) /\ r[l] = s[k]
            /\ \/ none = <<>> /\ (l = 1 \/ (l > 1 /\ Harmless(r[1])))
               \/ none # <<>> /\ 1 \in DOMAIN none /\ l > 1 /\ r[1] = none[1]
      BY <3>4a DEF StillFollows
    <3>5. Coming(r, new.n)
      BY <2>1, <3>1, <3>4 DEF Coming
    <3> QED BY <2>1, <2>2, <3>2, <3>5 DEF OnTrack
  <2>3. ASSUME NEW ops \in Seq(Op), Do(t, ops), UNCHANGED value,
               DOMAIN ops = 1..3, Sets(ops[1], "state"), ops[1].new = new,
               ops[2].op = "parent", ops[2].obj = "state",
               ops[3].op = "cov", ops[3].obj = "state"
        PROVE  value'["state"].kind = "int" /\ OnTrack(thread'[t].todo, value')
    <3>1. PICK r : r = ops \o Tail(s) /\ r = thread'[t].todo
      BY <1>3, <2>3
    <3>2. Harmless(ops[2]) /\ Harmless(ops[3])
      BY <2>3 DEF Harmless
    <3>3. \A i \in DOMAIN ops \ {1} : i = 2 \/ i = 3
      BY <2>3
    <3>4. \A i \in DOMAIN ops \ {1} : Harmless(ops[i])
      BY <3>2, <3>3
    <3>5. ops # <<>>
      <4>1. 1 \in DOMAIN ops /\ 1 \notin DOMAIN (<<>>)
        BY <1>4, <2>3
      <4> QED BY <4>1
    <3>6a. StillFollows(r, ops, s[k])
      BY <1>2, <1>9, <3>1, <3>4, FollowsJoined, Zenon
    <3>6. PICK l \in DOMAIN r :
            /\ LockFollows(r, l) /\ r[l] = s[k]
            /\ \/ ops = <<>> /\ (l = 1 \/ (l > 1 /\ Harmless(r[1])))
               \/ ops # <<>> /\ 1 \in DOMAIN ops /\ l > 1 /\ r[1] = ops[1]
      BY <3>6a DEF StillFollows
    <3>7. l > 1 /\ r[1] = ops[1]
      BY <3>5, <3>6
    <3>8. Coming(r, value["state"].n)
      BY <2>1, <2>3, <3>6, <3>7 DEF Coming
    <3> QED BY <2>3, <3>1, <3>8 DEF OnTrack
  <2>4. \/ Do(t, <<>>) /\ UNCHANGED value /\ value["state"] = new
        \/ Do(t, <<>>) /\ value' = [value EXCEPT !["state"] = new]
        \/ \E ops \in Seq(Op) :
              /\ Do(t, ops) /\ UNCHANGED value
              /\ DOMAIN ops = 1..3 /\ Sets(ops[1], "state") /\ ops[1].new = new
              /\ ops[2].op = "parent" /\ ops[2].obj = "state"
              /\ ops[3].op = "cov" /\ ops[3].obj = "state"
    BY <2>1, UpdateIs DEF new
  <2>5. value' = [value EXCEPT !["state"] = new] => value'["state"] = new
    BY <1>5
  <2> QED BY <2>2, <2>3, <2>4, <2>5
<1> QED BY <1>2, <1>6, <1>7, <1>8, <1>9 DEF OnTrack, Coming

\* State and lock themselves are written by commands alone.
CommandsOnly == \A w \in NetWrites \cup RestWrites : w[1] \notin {"state", "lock"}

LEMMA InitLock == Init => LockInv
<1> SUFFICES ASSUME Init PROVE LockInv
  OBVIOUS
<1>1. value["state"].kind = "int" /\ value["lock"].kind = "bytes"
  BY DEF Init, Int32, Bytes
<1>2. \A t \in Thread : ~Busy(t)
  BY DEF Init, Idle, Busy
<1> QED BY <1>1, <1>2 DEF LockInv, Agree

\* A request begins when all is quiet, and with something else.
LEMMA BeginsElsewhere ==
    ASSUME CommandsOnly,
           ProcessWritePresentValue \/ \E t \in Web : RestWriteProperty(t) \/ ToggleAll(t)
    PROVE  \E t \in Thread : \E kind, e : ~Touches(e) /\ Begin(t, kind, e)
<1>1. \A w \in NetWrites \cup RestWrites : \A v : ~Touches(Write(w[1], v))
  BY DEF CommandsOnly, Touches, Sets, Write
<1>2. CASE ProcessWritePresentValue
  <2>1. PICK w \in NetWrites : Begin(Reader, "writeProperty", Write(w[1], Int32(w[2])))
    BY <1>2 DEF ProcessWritePresentValue
  <2> QED BY <1>1, <2>1 DEF Thread
<1>3. ASSUME NEW t \in Web, RestWriteProperty(t)
      PROVE  \E kind, e : ~Touches(e) /\ Begin(t, kind, e)
  <2>1. PICK w \in RestWrites : Begin(t, "restWrite", Write(w[1], w[2]))
    BY <1>3 DEF RestWriteProperty
  <2> QED BY <1>1, <2>1
<1>4. ASSUME NEW t \in Web, ToggleAll(t)
      PROVE  \E kind, e : ~Touches(e) /\ Begin(t, kind, e)
  <2> DEFINE e == [op |-> "executeAction"]
  <2>1. ~Touches(e)
    BY DEF Touches, Sets
  <2> QED BY <1>4, <2>1 DEF ToggleAll
<1> QED BY <1>2, <1>3, <1>4 DEF Thread

LEMMA BeginLock ==
    ASSUME OneAtATime, NEW t \in Thread, Inv, LockInv, NEW kind, NEW e, ~Touches(e),
           Begin(t, kind, e)
    PROVE  LockInv'
<1>1. \A u \in Thread : ~Busy(u)
  BY NoneBusy
<1>2. Agree(value) /\ value["state"].kind = "int"
  BY <1>1 DEF LockInv, Quiescent
<1>3. /\ thread'[t].todo = <<e>> /\ value' = value
      /\ \A u \in Thread \ {t} : thread'[u] = thread[u]
  BY DEF Begin, Inv, TypeOK
<1>4. \A u \in Thread \ {t} : thread'[u].todo = <<>>
  BY <1>1, <1>3 DEF Busy
<1>5. Settled(<<e>>, value)
  BY <1>2 DEF Settled
<1>6. Agree(value')
  BY <1>2, <1>3
<1>7. OnTrack(thread'[t].todo, value')
  BY <1>3, <1>5 DEF OnTrack
<1>8. \A u \in Thread : Busy(u)' => u = t
  BY <1>4 DEF Busy
<1> QED BY <1>2, <1>3, <1>6, <1>7, <1>8 DEF LockInv, Busy, Quiescent

\* A step is that of the only thread there is.
LEMMA StepLock ==
    ASSUME NEW t \in Thread, Inv, ReportInv, LockInv, Step(t) PROVE LockInv'
<1>1. Busy(t) /\ thread \in ThreadType
  BY StepBusy DEF Inv, TypeOK, ThreadType
<1>2. value["state"].kind = "int" /\ OnTrack(thread[t].todo, value)
  BY <1>1 DEF LockInv
<1>3. value'["state"].kind = "int" /\ OnTrack(thread'[t].todo, value')
  BY <1>2, OnTrackStep
<1>4. \A u \in Thread \ {t} : thread'[u] = thread[u]
  <2>1. \A o \in Object : due[o] \subseteq subs[o]
    BY DEF ReportInv
  <2>2. (\E ops \in Seq(Op) : Do(t, ops)) \/ Fail(t)
    <3>1. CASE SetValue(t) \/ PointToPointMessage(t)
      BY <3>1, Nothing DEF SetValue, PointToPointMessage
    <3> QED BY <2>1, <3>1, StepIs DEF Proceeds, FailedCast
  <2> QED BY <1>1, <2>2, DoType, FailType
<1>5. \A u \in Thread \ {t} : ~Busy(u)
  BY <1>1 DEF LockInv
<1>6. \A u \in Thread : Busy(u)' => u = t
  BY <1>4, <1>5 DEF Busy
<1>7. ASSUME thread'[t].todo = <<>> PROVE Agree(value')
  <2>1. \A n : ~Coming(<<>>, n)
    BY DEF Coming
  <2> QED BY <1>3, <1>7, <2>1 DEF OnTrack, Settled
<1>8. Quiescent' => thread'[t].todo = <<>>
  BY DEF Quiescent, Busy
<1> QED BY <1>3, <1>6, <1>7, <1>8 DEF LockInv, Busy

\* A walk that lost its obligations is as harmless as before.
LEMMA DeleteCovLock ==
    ASSUME NEW o \in Object, Inv, LockInv, DeleteCov(o) PROVE LockInv'
<1>1. thread' = [t \in Thread |-> Unsettled(t, o)] /\ value' = value
  BY DEF DeleteCov
<1>2. ASSUME NEW t \in Thread
      PROVE  /\ thread[t].todo \in Seq(Op) /\ thread'[t].todo \in Seq(Op)
             /\ DOMAIN thread'[t].todo = DOMAIN thread[t].todo
             /\ \A i \in DOMAIN thread[t].todo :
                   \/ thread'[t].todo[i] = thread[t].todo[i]
                   \/ /\ thread[t].todo[i].op = "notify" /\ thread'[t].todo[i].op = "notify"
                      /\ thread'[t].todo[i].obj = thread[t].todo[i].obj
             /\ thread'[t].todo = <<>> <=> thread[t].todo = <<>>
  <2>1. /\ thread'[t].todo \in Seq(Op) /\ thread[t].todo \in Seq(Op)
        /\ Len(thread'[t].todo) = Len(thread[t].todo)
        /\ \A i \in DOMAIN thread[t].todo :
              \/ thread'[t].todo[i] = thread[t].todo[i]
              \/ /\ thread[t].todo[i].op = "notify" /\ thread'[t].todo[i].op = "notify"
                 /\ thread'[t].todo[i].obj = thread[t].todo[i].obj
    <3>1. thread'[t] = Unsettled(t, o)
      BY <1>1
    <3>2. thread[t].todo \in Seq(Op)
      BY DEF Inv, TypeOK
    <3>3. Unsettled(t, o).todo \in Seq(Op)
      BY UnsettledIs
    <3> QED BY <3>1, <3>2, <3>3, UnsettledIs
  <2> QED BY <2>1
<1>3. ASSUME NEW s \in Seq(Op), NEW r \in Seq(Op), DOMAIN r = DOMAIN s,
             \A i \in DOMAIN s :
                \/ r[i] = s[i]
                \/ s[i].op = "notify" /\ r[i].op = "notify" /\ r[i].obj = s[i].obj,
             OnTrack(s, value)
      PROVE  OnTrack(r, value)
  <2>1. \A i \in DOMAIN s : /\ Touches(r[i]) => Touches(s[i])
                            /\ Harmless(s[i]) => Harmless(r[i])
                            /\ s[i].op # "notify" => r[i] = s[i]
    BY <1>3 DEF Touches, Sets, Harmless
  <2>2. Settled(s, value) => Settled(r, value)
    BY <1>3, <2>1 DEF Settled
  <2>3. ASSUME NEW k \in DOMAIN s, LockFollows(s, k)
        PROVE  LockFollows(r, k) /\ r[k] = s[k] /\ 1 \in DOMAIN s
    <3>1. r[k] = s[k]
      BY <2>1, <2>3 DEF LockFollows, Sets
    <3>2. \A j \in DOMAIN r : j > k => ~Touches(r[j])
      BY <1>3, <2>1, <2>3 DEF LockFollows
    <3>3. \A j \in DOMAIN r : 1 < j /\ j < k => Harmless(r[j])
      BY <1>3, <2>1, <2>3 DEF LockFollows
    <3>4. LockFollows(r, k)
      BY <1>3, <2>3, <3>1, <3>2, <3>3 DEF LockFollows
    <3> QED BY <3>1, <3>4
  <2>4. Sets(s[1], "state") /\ 1 \in DOMAIN s => r[1] = s[1]
    BY <2>1 DEF Sets
  <2>5. ASSUME Coming(s, value["state"].n) PROVE Coming(r, value["state"].n)
    <3>1. PICK k \in DOMAIN s :
            /\ LockFollows(s, k)
            /\ \/ k = 1 /\ Matching(s[k].new.n, value["state"].n)
               \/ k > 1 /\ Harmless(s[1]) /\ Matching(s[k].new.n, value["state"].n)
               \/ /\ k > 1 /\ Sets(s[1], "state") /\ s[1].new.kind = "int"
                  /\ Matching(s[k].new.n, s[1].new.n)
      BY <2>5 DEF Coming
    <3>2. LockFollows(r, k) /\ r[k] = s[k] /\ 1 \in DOMAIN s /\ k \in DOMAIN r
      BY <1>3, <2>3, <3>1
    <3>3. Harmless(s[1]) => Harmless(r[1])
      BY <2>1, <3>2
    <3> QED BY <2>4, <3>1, <3>2, <3>3 DEF Coming
  <2> QED BY <1>3, <2>2, <2>5 DEF OnTrack
<1>4. \A t \in Thread : Busy(t)' <=> Busy(t)
  BY <1>2 DEF Busy
<1>5. \A t \in Thread : OnTrack(thread[t].todo, value) => OnTrack(thread'[t].todo, value)
  BY <1>2, <1>3
<1> QED BY <1>1, <1>4, <1>5 DEF LockInv, Quiescent

LEMMA NextLock ==
    ASSUME OneAtATime, CommandsOnly, Inv, ReportInv, LockInv, [Next]_vars PROVE LockInv'
<1>1. CASE ProcessWritePresentValue \/ \E t \in Web : RestWriteProperty(t) \/ ToggleAll(t)
  BY <1>1, BeginsElsewhere, BeginLock
<1>2. ASSUME NEW o \in Watched, DeleteCov(o) PROVE LockInv'
  BY <1>2, DeleteCovLock, InputAssumption
<1>3. CASE \/ \E c \in Client, o \in Watched : SubscribeCov(c, o)
           \/ WebSubscribe \/ WebClose \/ UNCHANGED vars
  <2>1. thread' = thread /\ value' = value
    BY <1>3 DEF SubscribeCov, WebSubscribe, WebClose, vars
  <2> QED BY <2>1 DEF LockInv, Busy, Quiescent
<1>4. ASSUME NEW t \in Thread, Step(t) PROVE LockInv'
  BY <1>4, StepLock
<1> QED BY <1>1, <1>2, <1>3, <1>4 DEF Next, Receive

\* For any commands, toggles and other writes that come one at a time: whatever a request
\* did, and wherever it failed, the lock object agrees with the state object when it is over
\* (TZ320Device.onValueChanged()).
THEOREM LockMatches == ASSUME OneAtATime, CommandsOnly PROVE Spec => []StateMatchesLock
<1>1. LockInv => StateMatchesLock
  BY DEF LockInv, StateMatchesLock, Agree, Matching
<1>2. Inv /\ ReportInv /\ LockInv /\ [Next]_vars => LockInv'
  BY NextLock
<1> QED BY <1>1, <1>2, InitLock, Invariant, PTL DEF Spec

-----------------------------------------------------------------------------
(* The total of the costs: induction over the members of a sequence        *)

\* Every set of natural numbers has a least one.
LEMMA Least ==
    ASSUME NEW T \in SUBSET Nat, T # {}
    PROVE  \E m \in T : \A k \in T : m <= k
<1> DEFINE R == OpToRel(<, Nat)
<1>1. IsWellFoundedOn(R, Nat)
  BY NatLessThanWellFounded
<1>2. \A x, y \in Nat : <<y, x>> \in R <=> y < x
  BY DEF OpToRel
<1> HIDE DEF R
<1>3. PICK m \in T : \A k \in T : ~(<<k, m>> \in R)
  BY <1>1, WFMin
<1>4. \A k \in T : ~(k < m)
  BY <1>2, <1>3
<1> QED BY <1>4

\* A set with 0 and with each of its members' successors has all natural numbers.
LEMMA Induction ==
    ASSUME NEW S \in SUBSET Nat, 0 \in S, \A n \in S : n + 1 \in S
    PROVE  S = Nat
<1> SUFFICES ASSUME Nat \ S # {} PROVE FALSE
  OBVIOUS
<1>1. PICK m \in Nat \ S : \A k \in Nat \ S : m <= k
  BY Least
<1>2. m - 1 \in Nat /\ m - 1 \in S
  BY <1>1
<1> QED BY <1>2

\* f[n] is what the last n operations of s cost together, up to m of them.
Sum(s, f, n) == IF n = 0 THEN 0 ELSE f[n - 1] + Cost(s[Len(s) + 1 - n])

Sums(s, m, f) == f = [n \in 0..m |-> Sum(s, f, n)]

LEMMA SumsAt ==
    ASSUME NEW s, NEW m, NEW f, Sums(s, m, f)
    PROVE  \A n \in 0..m : f[n] = Sum(s, f, n)
<1> DEFINE g == [n \in 0..m |-> Sum(s, f, n)]
<1>1. f = g
  BY Zenon DEF Sums
<1>2. \A n \in 0..m : g[n] = Sum(s, f, n)
  OBVIOUS
<1> HIDE DEF g
<1> QED BY <1>1, <1>2

\* There is such a function, so the one Total chooses is one.
LEMMA SumsExist ==
    ASSUME NEW s, NEW n \in Nat
    PROVE  \E f : Sums(s, n, f)
<1> DEFINE S == {m \in Nat : \E f : Sums(s, m, f)}
<1>1. 0 \in S
  <2> DEFINE zero == [k \in 0..0 |-> 0]
  <2>1. \A k \in 0..0 : Sum(s, zero, k) = 0 /\ zero[k] = 0
    BY DEF Sum
  <2>2. zero = [k \in 0..0 |-> Sum(s, zero, k)]
    BY <2>1
  <2>3. Sums(s, 0, zero)
    BY <2>2, Zenon DEF Sums
  <2> QED BY <2>3
<1>2. ASSUME NEW m \in S PROVE m + 1 \in S
  <2>1. PICK f : Sums(s, m, f)
    OBVIOUS
  <2> DEFINE next == f[m] + Cost(s[Len(s) + 1 - (m + 1)])
             g == [k \in 0..m + 1 |-> IF k = m + 1 THEN next ELSE f[k]]
  <2>2. ASSUME NEW k \in 0..m + 1
        PROVE  g[k] = Sum(s, g, k)
    <3>1. CASE k = m + 1
      <4>1. k # 0 /\ k - 1 = m /\ m \in 0..m + 1 /\ m # m + 1
        BY <3>1
      <4>2. g[k - 1] = f[m]
        BY <4>1
      <4> QED BY <3>1, <4>1, <4>2 DEF Sum
    <3>2. CASE k # m + 1
      <4>1. k \in 0..m
        BY <3>2
      <4>2. f[k] = Sum(s, f, k)
        BY <2>1, <4>1, SumsAt
      <4>3. g[k] = f[k] /\ (k # 0 => g[k - 1] = f[k - 1])
        BY <4>1
      <4> QED BY <4>2, <4>3 DEF Sum
    <3> QED BY <3>1, <3>2
  <2>3. Sums(s, m + 1, g)
    BY <2>2 DEF Sums
  <2> QED BY <2>3
<1> QED BY <1>1, <1>2, Induction

\* It depends on nothing but the costs.
SameCosts(s, r, n) ==
    \A k \in 1..n : Cost(s[Len(s) + 1 - k]) = Cost(r[Len(r) + 1 - k])

LEMMA SumsAgree ==
    ASSUME NEW s, NEW n \in Nat, NEW f, Sums(s, n, f),
           NEW r, NEW m \in Nat, NEW g, Sums(r, m, g), n <= m,
           SameCosts(s, r, n)
    PROVE  f[n] = g[n]
<1> DEFINE S == {k \in Nat : k \in 0..n => f[k] = g[k]}
<1>1. 0 \in S
  <2>1. 0 \in 0..n /\ 0 \in 0..m
    OBVIOUS
  <2>2. f[0] = Sum(s, f, 0) /\ g[0] = Sum(r, g, 0)
    BY <2>1, SumsAt, Zenon
  <2>3. f[0] = 0 /\ g[0] = 0
    BY <2>2 DEF Sum
  <2> QED BY <2>3
<1>2. ASSUME NEW k \in S PROVE k + 1 \in S
  <2> SUFFICES ASSUME k + 1 \in 0..n PROVE f[k + 1] = g[k + 1]
    OBVIOUS
  <2>1. k + 1 \in 0..m /\ k + 1 # 0 /\ k + 1 - 1 = k /\ k \in 0..n /\ k + 1 \in 1..n
    OBVIOUS
  <2>2. f[k + 1] = Sum(s, f, k + 1) /\ g[k + 1] = Sum(r, g, k + 1)
    BY <2>1, SumsAt, Zenon
  <2>3. /\ Sum(s, f, k + 1) = f[k] + Cost(s[Len(s) + 1 - (k + 1)])
        /\ Sum(r, g, k + 1) = g[k] + Cost(r[Len(r) + 1 - (k + 1)])
    BY <2>1 DEF Sum
  <2>4. Cost(s[Len(s) + 1 - (k + 1)]) = Cost(r[Len(r) + 1 - (k + 1)])
    BY <2>1 DEF SameCosts
  <2> QED BY <2>1, <2>2, <2>3, <2>4
<1>3. S = Nat
  BY <1>1, <1>2, Induction
<1> QED BY <1>3

LEMMA TotalIs ==
    ASSUME NEW s, Len(s) \in Nat
    PROVE  \E f : Sums(s, Len(s), f) /\ Total(s) = f[Len(s)]
<1>1. \E f : Sums(s, Len(s), f)
  BY SumsExist
<1> DEFINE P(f) == f = [n \in 0..Len(s) |->
                          IF n = 0 THEN 0 ELSE f[n - 1] + Cost(s[Len(s) + 1 - n])]
<1>2. \E f : P(f)
  BY <1>1 DEF Sums, Sum
<1>3. P(CHOOSE f : P(f))
  BY <1>2, Zenon
<1>4. Total(s) = (CHOOSE f : P(f))[Len(s)]
  BY DEF Total
<1> QED BY <1>3, <1>4 DEF Sums, Sum

LEMMA TotalSame ==
    ASSUME NEW s \in Seq(Op), NEW r \in Seq(Op), Len(r) = Len(s),
           \A i \in DOMAIN s : Cost(r[i]) = Cost(s[i])
    PROVE  Total(r) = Total(s)
<1>1. Len(s) \in Nat /\ Len(r) \in Nat
  OBVIOUS
<1>2. PICK f : Sums(s, Len(s), f) /\ Total(s) = f[Len(s)]
  BY <1>1, TotalIs
<1>3. PICK g : Sums(r, Len(r), g) /\ Total(r) = g[Len(r)]
  BY <1>1, TotalIs
<1>4. SameCosts(s, r, Len(s)) /\ Len(s) <= Len(r)
  <2>1. \A k \in 1..Len(s) : Len(s) + 1 - k \in DOMAIN s
    BY <1>1
  <2> QED BY <1>1, <2>1 DEF SameCosts
<1>5. f[Len(s)] = g[Len(r)]
  <2>1. Sums(s, Len(s), f) /\ Sums(r, Len(r), g)
    BY <1>2, <1>3
  <2>2. f[Len(s)] = g[Len(s)]
    BY <1>1, <1>4, <2>1, SumsAgree
  <2> QED BY <2>2
<1> QED BY <1>2, <1>3, <1>5

\* The first operation costs what it costs, and the rest as much as before.
LEMMA TotalFirst ==
    ASSUME NEW s \in Seq(Op), s # <<>>
    PROVE  Total(s) = Total(Tail(s)) + Cost(s[1])
<1> DEFINE u == Tail(s)
<1>1. /\ Len(s) \in Nat \ {0} /\ Len(u) \in Nat /\ Len(s) = Len(u) + 1
      /\ \A i \in 1..Len(u) : u[i] = s[i + 1]
  OBVIOUS
<1> HIDE DEF u
<1>2. PICK f : Sums(u, Len(u), f) /\ Total(u) = f[Len(u)]
  BY <1>1, TotalIs
<1>3. PICK g : Sums(s, Len(s), g) /\ Total(s) = g[Len(s)]
  BY <1>1, TotalIs
<1>4. SameCosts(u, s, Len(u))
  <2> SUFFICES ASSUME NEW k \in 1..Len(u)
               PROVE  Cost(u[Len(u) + 1 - k]) = Cost(s[Len(s) + 1 - k])
    BY DEF SameCosts
  <2>1. Len(u) + 1 - k \in 1..Len(u) /\ Len(u) + 1 - k + 1 = Len(s) + 1 - k
    BY <1>1
  <2> QED BY <1>1, <2>1
<1>5. f[Len(u)] = g[Len(u)]
  <2>1. Len(u) <= Len(s) /\ Len(s) \in Nat
    BY <1>1
  <2>2. Sums(u, Len(u), f) /\ Sums(s, Len(s), g)
    BY <1>2, <1>3
  <2> QED BY <1>1, <1>4, <2>1, <2>2, SumsAgree
<1>6. g[Len(s)] = g[Len(u)] + Cost(s[1])
  <2>1. /\ Len(s) \in 0..Len(s) /\ Len(s) # 0 /\ Len(s) - 1 = Len(u)
        /\ Len(s) + 1 - Len(s) = 1
    BY <1>1
  <2>2. g[Len(s)] = Sum(s, g, Len(s))
    BY <1>3, <2>1, SumsAt
  <2> QED BY <2>1, <2>2 DEF Sum
<1>7. Total(s) = Total(u) + Cost(s[1])
  BY <1>2, <1>3, <1>5, <1>6
<1> QED BY <1>7 DEF u

LEMMA TotalOfNothing == Total(<<>>) = 0
<1>1. PICK s : s = <<>> /\ Len(s) = 0
  OBVIOUS
<1>2. PICK f : Sums(s, Len(s), f) /\ Total(s) = f[Len(s)]
  BY <1>1, TotalIs
<1>3. f[0] = Sum(s, f, 0)
  BY <1>1, <1>2, SumsAt
<1> QED BY <1>1, <1>2, <1>3 DEF Sum

-----------------------------------------------------------------------------
(* What the operations cost                                                *)

LEMMA Numbers ==
    ASSUME IsFiniteSet(Client)
    PROVE  /\ Cardinality(Client) \in Nat /\ WalkCost \in Nat
           /\ WalkCost = 2 + 5 * Cardinality(Client)
           /\ \A o \in Object : /\ LogicCost(o) \in Nat /\ LogicCost(o) >= 2
                                /\ WriteCost(o) \in Nat
                                /\ WriteCost(o) = 2 + LogicCost(o) + WalkCost
           /\ LogicCost("command") = 2 + 3 * (WalkCost + 4)
           /\ \A o \in {"state", "lock", "door"} : WriteCost(o) = WalkCost + 4
<1>1. Cardinality(Client) \in Nat
  BY FS_CardinalityType
<1>2. WalkCost \in Nat /\ WalkCost = 2 + 5 * Cardinality(Client)
  BY <1>1 DEF WalkCost
<1>3. \A o \in Object : Id[o] = 4 <=> o = "command"
  BY DEF Object, Id
<1>4. \A o \in Object : LogicCost(o) = IF o = "command" THEN 2 + 3 * (WalkCost + 4) ELSE 2
  BY <1>3 DEF LogicCost
<1>5. \A o \in Object : LogicCost(o) \in Nat /\ LogicCost(o) >= 2
  BY <1>2, <1>4
<1>6. LogicCost("command") = 2 + 3 * (WalkCost + 4)
  BY <1>4 DEF Object
<1>7. \A o \in {"state", "lock", "door"} : LogicCost(o) = 2 /\ o \in Object
  BY <1>4 DEF Object
<1> QED BY <1>1, <1>2, <1>5, <1>6, <1>7 DEF WriteCost

LEMMA Costs ==
    ASSUME NEW e
    PROVE  /\ e.op \in {"set", "event", "send"} => Cost(e) = 1
           /\ e.op = "cast" => Cost(e) = 2
           /\ e.op = "isInteger" => Cost(e) = 3
           /\ e.op = "isBytes" => Cost(e) = 4
           /\ e.op = "notify" => Cost(e) = 1 + 5 * Cardinality(Client \ e.done)
           /\ e.op = "cov" => Cost(e) = WalkCost
           /\ e.op = "parent" => Cost(e) = LogicCost(e.obj)
           /\ e.op = "write" => Cost(e) = WriteCost(e.obj)
           /\ e.op = "executeAction" => Cost(e) = 1 + WriteCost("door")
BY DEF Cost

LEMMA CostType ==
    ASSUME IsFiniteSet(Client), NEW e \in Op PROVE Cost(e) \in Nat \ {0}
<1>1. \/ Cost(e) \in 1..4
      \/ Cost(e) = 1 + 5 * Cardinality(Client \ e.done)
      \/ Cost(e) = WalkCost
      \/ e.op = "parent" /\ Cost(e) = LogicCost(e.obj)
      \/ e.op = "write" /\ Cost(e) = WriteCost(e.obj)
      \/ Cost(e) = 1 + WriteCost("door")
  <2>1. e.op \in {"executeAction", "write", "set", "parent", "cov", "notify", "isBytes",
                  "isInteger", "cast", "send", "event"}
    BY OpFields
  <2>2. 1 \in 1..4 /\ 2 \in 1..4 /\ 3 \in 1..4 /\ 4 \in 1..4
    OBVIOUS
  <2> QED BY <2>1, <2>2, Costs, Zenon
<1>2. e.op \in {"parent", "write"} => e.obj \in Object
  BY OpFields
<1>3. CASE Cost(e) = 1 + 5 * Cardinality(Client \ e.done)
  <2>1. Cardinality(Client \ e.done) \in Nat
    BY FS_Difference, FS_CardinalityType
  <2> QED BY <1>3, <2>1
<1>4. \A o \in Object : /\ LogicCost(o) \in Nat \ {0} /\ WriteCost(o) \in Nat \ {0}
                        /\ WalkCost \in Nat \ {0}
  BY Numbers
<1>5. WriteCost("door") \in Nat /\ WalkCost \in Nat \ {0}
  BY <1>4 DEF Object
<1>6. CASE Cost(e) = LogicCost(e.obj) /\ e.obj \in Object
  BY <1>4, <1>6, Zenon
<1>7. CASE Cost(e) = WriteCost(e.obj) /\ e.obj \in Object
  BY <1>4, <1>7, Zenon
<1>8. CASE Cost(e) = 1 + WriteCost("door")
  BY <1>5, <1>8
<1>9. CASE Cost(e) \in 1..4
  BY <1>9
<1> QED BY <1>1, <1>2, <1>3, <1>5, <1>6, <1>7, <1>8, <1>9

LEMMA TotalType ==
    ASSUME IsFiniteSet(Client), NEW s \in Seq(Op) PROVE Total(s) \in Nat
<1> DEFINE S == {n \in Nat : \A u \in Seq(Op) : Len(u) = n => Total(u) \in Nat}
<1>1. 0 \in S
  <2>1. \A u \in Seq(Op) : Len(u) = 0 => u = <<>>
    OBVIOUS
  <2> QED BY <2>1, TotalOfNothing
<1>2. ASSUME NEW n \in S PROVE n + 1 \in S
  <2> SUFFICES ASSUME NEW u \in Seq(Op), Len(u) = n + 1 PROVE Total(u) \in Nat
    OBVIOUS
  <2>1. u # <<>> /\ u[1] \in Op /\ Tail(u) \in Seq(Op) /\ Len(Tail(u)) = n
    OBVIOUS
  <2>2. Total(Tail(u)) \in Nat
    BY <2>1
  <2>3. Cost(u[1]) \in Nat
    BY <2>1, CostType
  <2>4. Total(u) = Total(Tail(u)) + Cost(u[1])
    BY <2>1, TotalFirst
  <2> QED BY <2>2, <2>3, <2>4
<1>3. S = Nat
  BY <1>1, <1>2, Induction
<1>4. Len(s) \in S
  BY <1>3
<1> QED BY <1>4

\* The operations cost k, whatever comes after them.
Weighs(ops, k) ==
    /\ ops \in Seq(Op) /\ k \in Nat
    /\ \A u \in Seq(Op) : Total(ops \o u) = Total(u) + k

LEMMA WeighsNothing == ASSUME IsFiniteSet(Client) PROVE Weighs(<<>>, 0)
<1>1. \A u \in Seq(Op) : <<>> \o u = u /\ Total(u) \in Nat
  BY TotalType
<1> QED BY <1>1, Nothing DEF Weighs

LEMMA WeighsMore ==
    ASSUME IsFiniteSet(Client), NEW s \in Seq(Op), s # <<>>, NEW k, Weighs(Tail(s), k)
    PROVE  Weighs(s, Cost(s[1]) + k)
<1>1. k \in Nat /\ s[1] \in Op /\ Cost(s[1]) \in Nat
  <2>1. s[1] \in Op
    OBVIOUS
  <2> QED BY <2>1, CostType DEF Weighs
<1>2. ASSUME NEW u \in Seq(Op)
      PROVE  Total(s \o u) = Total(u) + (Cost(s[1]) + k)
  <2>1. PICK r : r = s \o u
    OBVIOUS
  <2>2. PICK v : v = Tail(s) \o u
    OBVIOUS
  <2>3. r \in Seq(Op) /\ r # <<>> /\ r[1] = s[1] /\ Tail(r) = v
    BY <2>1, <2>2
  <2>4. Total(r) = Total(v) + Cost(s[1])
    BY <2>3, TotalFirst
  <2>5. Total(v) = Total(u) + k /\ Total(u) \in Nat
    BY <2>2, TotalType DEF Weighs
  <2> QED BY <1>1, <2>1, <2>4, <2>5
<1> QED BY <1>1, <1>2 DEF Weighs

LEMMA TailIs ==
    ASSUME NEW s \in Seq(Op), NEW n \in Nat, Len(s) = n + 1
    PROVE  /\ s # <<>> /\ s[1] \in Op /\ Tail(s) \in Seq(Op) /\ Len(Tail(s)) = n
           /\ \A i \in 1..n : Tail(s)[i] = s[i + 1]
OBVIOUS

LEMMA WeighsOne ==
    ASSUME IsFiniteSet(Client), NEW s \in Seq(Op), Len(s) = 1
    PROVE  Weighs(s, Cost(s[1]))
<1>1. 0 \in Nat /\ Len(s) = 0 + 1
  OBVIOUS
<1>2. s # <<>> /\ s[1] \in Op /\ Tail(s) \in Seq(Op) /\ Len(Tail(s)) = 0
  BY <1>1, TailIs
<1>3. Tail(s) = <<>>
  <2>1. \A u \in Seq(Op) : Len(u) = 0 => u = <<>>
    OBVIOUS
  <2> QED BY <1>2, <2>1, Zenon
<1>4. Weighs(Tail(s), 0)
  BY <1>3, WeighsNothing
<1>5. Weighs(s, Cost(s[1]) + 0)
  BY <1>2, <1>4, WeighsMore
<1>6. Cost(s[1]) + 0 = Cost(s[1])
  BY <1>2, CostType
<1> QED BY <1>5, <1>6

LEMMA WeighsTwo ==
    ASSUME IsFiniteSet(Client), NEW s \in Seq(Op), Len(s) = 2
    PROVE  Weighs(s, Cost(s[1]) + Cost(s[2]))
<1>1. 1 \in Nat /\ Len(s) = 1 + 1 /\ 1 \in 1..1 /\ 1 + 1 = 2
  OBVIOUS
<1>2. s # <<>> /\ Tail(s) \in Seq(Op) /\ Len(Tail(s)) = 1 /\ Tail(s)[1] = s[1 + 1]
  BY <1>1, TailIs, Zenon
<1>3. Weighs(Tail(s), Cost(Tail(s)[1]))
  BY <1>2, WeighsOne, Zenon
<1>4. Weighs(s, Cost(s[1]) + Cost(Tail(s)[1]))
  BY <1>2, <1>3, WeighsMore, Zenon
<1> QED BY <1>1, <1>2, <1>4, Zenon

LEMMA WeighsThree ==
    ASSUME IsFiniteSet(Client), NEW s \in Seq(Op), Len(s) = 3
    PROVE  Weighs(s, Cost(s[1]) + (Cost(s[2]) + Cost(s[3])))
<1>1. 2 \in Nat /\ Len(s) = 2 + 1 /\ 1 \in 1..2 /\ 2 \in 1..2 /\ 1 + 1 = 2 /\ 2 + 1 = 3
  OBVIOUS
<1>2. /\ s # <<>> /\ Tail(s) \in Seq(Op) /\ Len(Tail(s)) = 2
      /\ Tail(s)[1] = s[1 + 1] /\ Tail(s)[2] = s[2 + 1]
  BY <1>1, TailIs, Zenon
<1>3. Weighs(Tail(s), Cost(Tail(s)[1]) + Cost(Tail(s)[2]))
  BY <1>2, WeighsTwo, Zenon
<1>4. Weighs(s, Cost(s[1]) + (Cost(Tail(s)[1]) + Cost(Tail(s)[2])))
  BY <1>2, <1>3, WeighsMore, Zenon
<1> QED BY <1>1, <1>2, <1>4, Zenon

LEMMA WeighsFour ==
    ASSUME IsFiniteSet(Client), NEW s \in Seq(Op), Len(s) = 4
    PROVE  Weighs(s, Cost(s[1]) + (Cost(s[2]) + (Cost(s[3]) + Cost(s[4]))))
<1>1. /\ 3 \in Nat /\ Len(s) = 3 + 1 /\ 1 \in 1..3 /\ 2 \in 1..3 /\ 3 \in 1..3
      /\ 1 + 1 = 2 /\ 2 + 1 = 3 /\ 3 + 1 = 4
  OBVIOUS
<1>2. /\ s # <<>> /\ Tail(s) \in Seq(Op) /\ Len(Tail(s)) = 3
      /\ Tail(s)[1] = s[1 + 1] /\ Tail(s)[2] = s[2 + 1] /\ Tail(s)[3] = s[3 + 1]
  BY <1>1, TailIs, Zenon
<1>3. Weighs(Tail(s), Cost(Tail(s)[1]) + (Cost(Tail(s)[2]) + Cost(Tail(s)[3])))
  BY <1>2, WeighsThree, Zenon
<1>4. Weighs(s, Cost(s[1]) + (Cost(Tail(s)[1]) + (Cost(Tail(s)[2]) + Cost(Tail(s)[3]))))
  BY <1>2, <1>3, WeighsMore, Zenon
<1> QED BY <1>1, <1>2, <1>4, Zenon

-----------------------------------------------------------------------------
(* Each step costs less than the operation it takes the place of           *)

Lighter(t, ops) ==
    \E k \in Nat : Weighs(ops, k) /\ k < Cost(Head(thread[t].todo))

LEMMA FirstIs ==
    ASSUME NEW s \in Seq(Op), s # <<>>
    PROVE  Head(s) = s[1] /\ s[1] \in Op /\ Tail(s) \in Seq(Op)
OBVIOUS

LEMMA DoLess ==
    ASSUME IsFiniteSet(Client), NEW t \in Thread, Inv, Busy(t), NEW ops, Lighter(t, ops),
           Do(t, ops)
    PROVE  Left(t)' < Left(t) /\ \A u \in Thread \ {t} : Left(u)' = Left(u)
<1> DEFINE s == thread[t].todo
<1>1. s \in Seq(Op) /\ s # <<>> /\ thread \in ThreadType
  BY DEF Inv, TypeOK, Busy, ThreadType
<1>2. Head(s) = s[1] /\ s[1] \in Op /\ Tail(s) \in Seq(Op)
  BY <1>1, FirstIs
<1>3. PICK k \in Nat : Weighs(ops, k) /\ k < Cost(s[1])
  BY <1>2 DEF Lighter
<1>4. /\ thread'[t].todo = ops \o Tail(s)
      /\ \A u \in Thread \ {t} : thread'[u] = thread[u]
  BY <1>1, <1>3, DoType DEF Weighs
<1> HIDE DEF s
<1>5. Total(ops \o Tail(s)) = Total(Tail(s)) + k
  BY <1>2, <1>3 DEF Weighs
<1>6. Total(s) = Total(Tail(s)) + Cost(s[1])
  BY <1>1, TotalFirst
<1>7. Total(Tail(s)) \in Nat /\ Cost(s[1]) \in Nat
  BY <1>2, TotalType, CostType
<1>8. Total(ops \o Tail(s)) < Total(s)
  BY <1>3, <1>5, <1>6, <1>7
<1> QED BY <1>4, <1>8 DEF Left, s

LEMMA FailLess ==
    ASSUME IsFiniteSet(Client), NEW t \in Thread, Inv, Busy(t), Fail(t)
    PROVE  Left(t)' < Left(t) /\ \A u \in Thread \ {t} : Left(u)' = Left(u)
<1> DEFINE s == thread[t].todo
<1>1. s \in Seq(Op) /\ s # <<>> /\ thread \in ThreadType
  BY DEF Inv, TypeOK, Busy, ThreadType
<1>2. s[1] \in Op /\ Tail(s) \in Seq(Op)
  BY <1>1, FirstIs
<1>3. thread'[t].todo = <<>> /\ \A u \in Thread \ {t} : thread'[u] = thread[u]
  BY <1>1, FailType
<1> HIDE DEF s
<1>4. Total(s) = Total(Tail(s)) + Cost(s[1])
  BY <1>1, TotalFirst
<1>5. Total(Tail(s)) \in Nat /\ Cost(s[1]) \in Nat \ {0}
  BY <1>2, TotalType, CostType
<1>6. Total(<<>>) < Total(s)
  BY <1>4, <1>5, TotalOfNothing
<1> QED BY <1>3, <1>6 DEF Left, s

LEMMA LighterNothing ==
    ASSUME IsFiniteSet(Client), NEW t \in Thread, Inv, Busy(t)
    PROVE  Lighter(t, <<>>)
<1>1. Head(thread[t].todo) \in Op
  BY Front DEF Inv, TypeOK, ThreadType
<1>2. Cost(Head(thread[t].todo)) \in Nat \ {0}
  BY <1>1, CostType
<1>3. 0 \in Nat /\ 0 < Cost(Head(thread[t].todo))
  BY <1>2
<1> QED BY <1>3, WeighsNothing DEF Lighter

LEMMA LighterOne ==
    ASSUME IsFiniteSet(Client), NEW t \in Thread, NEW e \in Op,
           Cost(e) < Cost(Head(thread[t].todo))
    PROVE  Lighter(t, <<e>>)
<1>1. PICK s : s = <<e>>
  OBVIOUS
<1>2. s \in Seq(Op) /\ Len(s) = 1 /\ s[1] = e
  BY <1>1
<1>3. Weighs(s, Cost(e)) /\ Cost(e) \in Nat
  BY <1>2, WeighsOne, CostType
<1> QED BY <1>1, <1>3 DEF Lighter

\* What an operation puts in its place, or that it fails
Shrinks(t) ==
    Busy(t) /\ (Fail(t) \/ \E ops : Do(t, ops) /\ Lighter(t, ops))

LEMMA ExecuteActionShrinks ==
    ASSUME IsFiniteSet(Client), NEW t \in Thread, Inv, ExecuteAction(t)
    PROVE  Shrinks(t)
<1> DEFINE w == Write("door", Bytes(1 - value["door"].n))
<1>1. Busy(t) /\ Head(thread[t].todo).op = "executeAction"
  BY DoingIs DEF ExecuteAction
<1>2. CASE Goto(t, <<w>>)
  <2>1. value["door"].n \in Int
    BY DEF Inv, TypeOK, Object, Value
  <2>2. w \in Op /\ w.op = "write" /\ w.obj = "door"
    BY <2>1, Values, WriteOp DEF Object, Write
  <2> HIDE DEF w
  <2>3. Cost(w) = WriteCost("door") /\ Cost(Head(thread[t].todo)) = 1 + WriteCost("door")
    BY <1>1, <2>2, Costs
  <2>4. WriteCost("door") \in Nat
    BY Numbers DEF Object
  <2>5. Cost(w) < Cost(Head(thread[t].todo))
    BY <2>3, <2>4
  <2>6. Lighter(t, <<w>>)
    BY <2>2, <2>5, LighterOne
  <2> QED BY <1>1, <1>2, <2>6 DEF Shrinks, Goto
<1> QED BY <1>1, <1>2 DEF ExecuteAction, FailedCast, Shrinks

LEMMA UpdateShrinks ==
    ASSUME IsFiniteSet(Client), NEW t \in Thread, Inv, UpdatePropertyValue(t)
    PROVE  Shrinks(t)
<1> DEFINE cur == Head(thread[t].todo)
           ops == Update(cur.obj, cur.new, value[cur.obj])
<1>1. cur \in Op /\ cur.op = "write" /\ Busy(t)
  BY DoingIs DEF UpdatePropertyValue
<1>2. cur.obj \in Object /\ cur.new \in Value /\ value[cur.obj] \in Value
  BY <1>1, OpFields DEF Inv, TypeOK
<1>3. /\ ops \in Seq(Op) /\ Len(ops) = 3
      /\ ops[1].op = "set" /\ ops[2].op = "parent" /\ ops[2].obj = cur.obj
      /\ ops[3].op = "cov"
  BY <1>2, UpdateOps DEF Update
<1>4. Goto(t, <<>>) \/ Goto(t, ops)
  BY DEF UpdatePropertyValue
<1> HIDE DEF ops, cur
<1>5. Weighs(ops, Cost(ops[1]) + (Cost(ops[2]) + Cost(ops[3])))
  BY <1>3, WeighsThree
<1>6. /\ Cost(ops[1]) = 1 /\ Cost(ops[2]) = LogicCost(cur.obj) /\ Cost(ops[3]) = WalkCost
      /\ Cost(cur) = WriteCost(cur.obj)
  BY <1>1, <1>3, Costs
<1>7. /\ LogicCost(cur.obj) \in Nat /\ WalkCost \in Nat
      /\ WriteCost(cur.obj) = 2 + LogicCost(cur.obj) + WalkCost
  BY <1>2, Numbers
<1>8. PICK k \in Nat : Weighs(ops, k) /\ k < Cost(cur)
  <2>1. 1 + (LogicCost(cur.obj) + WalkCost) \in Nat
        /\ 1 + (LogicCost(cur.obj) + WalkCost) < Cost(cur)
    BY <1>6, <1>7
  <2> QED BY <1>5, <1>6, <2>1
<1>9. Lighter(t, ops)
  BY <1>8 DEF Lighter, cur
<1>10. Lighter(t, <<>>)
  BY <1>1, LighterNothing
<1> QED BY <1>1, <1>4, <1>9, <1>10 DEF Shrinks, Goto

LEMMA DoorLogicWeighs ==
    ASSUME IsFiniteSet(Client), NEW n
    PROVE  \E k \in Nat : Weighs(DoorLogic(n), k) /\ k < 2
<1> DEFINE One(s) == Len(s) = 1 /\ s[1].op = "event"
<1>1. One(<<Event("Door Open")>>) /\ One(<<Event("Door Closed")>>)
  BY DEF Event
<1> HIDE DEF One
<1>2. DoorLogic(n) = <<>> \/ One(DoorLogic(n))
  BY <1>1 DEF DoorLogic
<1>3. CASE DoorLogic(n) = <<>>
  BY <1>3, WeighsNothing
<1>4. CASE One(DoorLogic(n))
  <2>1. Weighs(DoorLogic(n), Cost(DoorLogic(n)[1])) /\ Cost(DoorLogic(n)[1]) = 1
    BY <1>4, LogicOps, WeighsOne, Costs DEF One
  <2> QED BY <2>1
<1> QED BY <1>2, <1>3, <1>4

LEMMA CommandLogicWeighs ==
    ASSUME IsFiniteSet(Client), NEW n
    PROVE  \E k \in Nat : Weighs(CommandLogic(n), k) /\ k < LogicCost("command")
<1>1. WalkCost \in Nat /\ LogicCost("command") = 2 + 3 * (WalkCost + 4)
  BY Numbers
<1>2. CASE CommandLogic(n) = <<>>
  <2>1. 0 \in Nat /\ 0 < LogicCost("command")
    BY <1>1
  <2> QED BY <1>2, <2>1, WeighsNothing
<1>3. CASE CommandLogic(n) # <<>>
  <2> DEFINE ops == CommandLogic(n)
  <2>2. /\ Len(ops) = 4
        /\ ops[1].op = "write" /\ ops[1].obj = "state"
        /\ ops[2].op = "write" /\ ops[2].obj = "lock"
        /\ ops[3].op = "write" /\ ops[3].obj = "door"
        /\ ops[4].op = "event"
    <3> DEFINE Four(s) ==
                 /\ Len(s) = 4
                 /\ s[1].op = "write" /\ s[1].obj = "state"
                 /\ s[2].op = "write" /\ s[2].obj = "lock"
                 /\ s[3].op = "write" /\ s[3].obj = "door"
                 /\ s[4].op = "event"
    <3>1. \A state, lock, door, text : Four(Effects(state, lock, door, text))
      BY DEF Effects, Write, Event
    <3> HIDE DEF Four
    <3>2. Four(CommandLogic(n))
      BY <1>3, <3>1 DEF CommandLogic
    <3> QED BY <3>2 DEF Four
  <2>3. ops \in Seq(Op)
    BY LogicOps
  <2> HIDE DEF ops
  <2>4. /\ Cost(ops[1]) = WalkCost + 4 /\ Cost(ops[2]) = WalkCost + 4
        /\ Cost(ops[3]) = WalkCost + 4 /\ Cost(ops[4]) = 1
    <3>1. /\ Cost(ops[1]) = WriteCost("state") /\ Cost(ops[2]) = WriteCost("lock")
          /\ Cost(ops[3]) = WriteCost("door") /\ Cost(ops[4]) = 1
      BY <2>2, Costs
    <3> QED BY <3>1, Numbers
  <2>5. Weighs(ops, Cost(ops[1]) + (Cost(ops[2]) + (Cost(ops[3]) + Cost(ops[4]))))
    BY <2>2, <2>3, WeighsFour
  <2>6. Weighs(ops, (WalkCost + 4) + ((WalkCost + 4) + ((WalkCost + 4) + 1)))
    BY <2>4, <2>5
  <2>7. /\ (WalkCost + 4) + ((WalkCost + 4) + ((WalkCost + 4) + 1)) \in Nat
        /\ (WalkCost + 4) + ((WalkCost + 4) + ((WalkCost + 4) + 1)) < LogicCost("command")
    BY <1>1
  <2> QED BY <2>6, <2>7 DEF ops
<1> QED BY <1>2, <1>3

LEMMA ParentShrinks ==
    ASSUME IsFiniteSet(Client), NEW t \in Thread, Inv, ParentLogicListener(t)
    PROVE  Shrinks(t)
<1> DEFINE cur == Head(thread[t].todo)
<1>1. Busy(t) /\ cur \in Op /\ cur.op = "parent"
  BY DoingIs DEF ParentLogicListener
<1>2. cur.obj \in Object /\ Cost(cur) = LogicCost(cur.obj)
  BY <1>1, OpFields, Costs
<1>3. \/ FailedCast(t) \/ Goto(t, <<>>)
      \/ Goto(t, DoorLogic(cur.old.n))
      \/ Id[cur.obj] = 4 /\ Goto(t, CommandLogic(cur.old.n))
  BY DEF ParentLogicListener, OnValueChanged
<1>4. Lighter(t, DoorLogic(cur.old.n))
  <2>1. PICK k \in Nat : Weighs(DoorLogic(cur.old.n), k) /\ k < 2
    BY DoorLogicWeighs
  <2>2. LogicCost(cur.obj) \in Nat /\ LogicCost(cur.obj) >= 2
    BY <1>2, Numbers
  <2>3. k < Cost(cur)
    BY <1>2, <2>1, <2>2
  <2> QED BY <2>1, <2>3 DEF Lighter
<1>5. ASSUME Id[cur.obj] = 4 PROVE Lighter(t, CommandLogic(cur.old.n))
  <2>1. cur.obj = "command"
    BY <1>2, <1>5 DEF Id, Object
  <2>2. PICK k \in Nat : Weighs(CommandLogic(cur.old.n), k) /\ k < LogicCost("command")
    BY CommandLogicWeighs
  <2> QED BY <1>2, <2>1, <2>2 DEF Lighter
<1>6. Lighter(t, <<>>)
  BY <1>1, LighterNothing
<1> QED BY <1>1, <1>3, <1>4, <1>5, <1>6 DEF Shrinks, Goto, FailedCast

LEMMA CovShrinks ==
    ASSUME IsFiniteSet(Client), NEW t \in Thread, Inv, CovListener(t)
    PROVE  Shrinks(t)
<1> DEFINE o == Head(thread[t].todo).obj
           walk == [op |-> "notify", obj |-> o, may |-> subs[o], must |-> subs[o],
                    done |-> {}]
<1>1. /\ Busy(t) /\ Head(thread[t].todo) \in Op /\ Head(thread[t].todo).op = "cov"
      /\ Goto(t, <<walk>>)
  BY DoingIs DEF CovListener
<1>2. o \in Object /\ subs[o] \subseteq Client
  BY <1>1, OpFields DEF Inv, TypeOK
<1>3. walk \in Op /\ walk.op = "notify" /\ Client \ walk.done = Client
  BY <1>2, NotifyOp
<1> HIDE DEF walk, o
<1>4. Cost(walk) = 1 + 5 * Cardinality(Client) /\ Cost(Head(thread[t].todo)) = WalkCost
  BY <1>1, <1>3, Costs
<1>5. Cost(walk) < Cost(Head(thread[t].todo))
  BY <1>4, Numbers
<1>6. Lighter(t, <<walk>>)
  BY <1>3, <1>5, LighterOne
<1> QED BY <1>1, <1>6 DEF Shrinks, Goto

LEMMA NotifiedIs ==
    ASSUME NEW o, NEW may, NEW must, NEW done, NEW c
    PROVE  Notified([op |-> "notify", obj |-> o, may |-> may, must |-> must, done |-> done], c)
             = [op |-> "notify", obj |-> o, may |-> may, must |-> must, done |-> done \cup {c}]
BY DEF Notified

LEMMA SendCovShrinks ==
    ASSUME IsFiniteSet(Client), NEW t \in Thread, Inv, SendCov(t)
    PROVE  Shrinks(t)
<1> DEFINE cur == Head(thread[t].todo)
<1>1. Busy(t) /\ cur \in Op /\ cur.op = "notify"
  BY DoingIs DEF SendCov
<1>2. /\ cur.obj \in Object /\ cur.may \subseteq Client /\ cur.done \subseteq Client
      /\ cur.must \subseteq Client /\ subs[cur.obj] \subseteq Client
      /\ cur = [op |-> "notify", obj |-> cur.obj, may |-> cur.may, must |-> cur.must,
                done |-> cur.done]
  BY <1>1, OpFields DEF Inv, TypeOK
<1>3. CASE Goto(t, <<>>)
  BY <1>1, <1>3, LighterNothing DEF Shrinks, Goto
<1>4. ASSUME NEW c \in (subs[cur.obj] \cup cur.may) \ cur.done,
             Do(t, <<[op |-> "isBytes", obj |-> cur.obj, client |-> c], Notified(cur, c)>>)
      PROVE  Shrinks(t)
  <2> DEFINE ask == [op |-> "isBytes", obj |-> cur.obj, client |-> c]
             walk == Notified(cur, c)
             ops == <<ask, walk>>
  <2>1. c \in Client \ cur.done /\ cur.done \cup {c} \subseteq Client
    BY <1>2
  <2>2. ask \in Op /\ ask.op = "isBytes"
    BY <1>2, <2>1, AskOp
  <2>3. walk = [op |-> "notify", obj |-> cur.obj, may |-> cur.may, must |-> cur.must,
                done |-> cur.done \cup {c}]
    <3>1. PICK o, may, must, done :
            /\ o = cur.obj /\ may = cur.may /\ must = cur.must /\ done = cur.done
            /\ cur = [op |-> "notify", obj |-> o, may |-> may, must |-> must, done |-> done]
      BY <1>2, Zenon
    <3>2. Notified(cur, c) = [op |-> "notify", obj |-> o, may |-> may, must |-> must,
                              done |-> done \cup {c}]
      BY <3>1, NotifiedIs
    <3> QED BY <3>1, <3>2
  <2> HIDE DEF ask, walk
  <2>4. walk \in Op /\ walk.op = "notify" /\ walk.done = cur.done \cup {c}
    <3>1. /\ cur.may \in SUBSET Client /\ cur.must \in SUBSET Client
          /\ cur.done \cup {c} \in SUBSET Client
      BY <1>2, <2>1
    <3>2. [op |-> "notify", obj |-> cur.obj, may |-> cur.may, must |-> cur.must,
           done |-> cur.done \cup {c}] \in Op
      BY <1>2, <3>1, NotifyOp, Zenon
    <3> QED BY <2>3, <3>2
  <2>5. ops \in Seq(Op) /\ Len(ops) = 2 /\ ops[1] = ask /\ ops[2] = walk
    BY <2>2, <2>4
  <2>6. Client \ walk.done = (Client \ cur.done) \ {c}
    BY <2>4
  <2>7. /\ Cardinality(Client \ cur.done) \in Nat
        /\ Cardinality(Client \ walk.done) = Cardinality(Client \ cur.done) - 1
    <3>1. PICK S : S = Client \ cur.done
      OBVIOUS
    <3>2. IsFiniteSet(S) /\ c \in S
      BY <2>1, <3>1, FS_Difference
    <3>3. Cardinality(S \ {c}) = Cardinality(S) - 1 /\ Cardinality(S) \in Nat
      BY <3>2, FS_RemoveElement, FS_CardinalityType
    <3> QED BY <2>6, <3>1, <3>3
  <2>8. /\ Cost(ask) = 4 /\ Cost(cur) = 1 + 5 * Cardinality(Client \ cur.done)
        /\ Cost(walk) = 1 + 5 * Cardinality(Client \ walk.done)
    BY <1>1, <2>2, <2>4, Costs
  <2>9. Weighs(ops, Cost(ask) + Cost(walk))
    BY <2>5, WeighsTwo
  <2>10. /\ Cost(ask) + Cost(walk) < Cost(cur)
         /\ Cost(ask) + Cost(walk) \in Nat
    <3>1. Cost(ask) \in Nat /\ Cost(walk) \in Nat
      BY <2>2, <2>4, CostType
    <3> QED BY <2>7, <2>8, <3>1
  <2>11. Lighter(t, ops)
    BY <2>9, <2>10 DEF Lighter
  <2> QED BY <1>1, <1>4, <2>11 DEF Shrinks, ask, walk
<1> QED BY <1>3, <1>4 DEF SendCov

LEMMA AskingShrinks ==
    ASSUME IsFiniteSet(Client), NEW t \in Thread, Inv,
           IsBytes(t) \/ IsInteger(t) \/ Cast(t)
    PROVE  Shrinks(t)
<1> DEFINE cur == Head(thread[t].todo)
           v == value[cur.obj]
           bytes == [op |-> "cast", obj |-> cur.obj, client |-> cur.client, kind |-> "bytes"]
           int == [op |-> "cast", obj |-> cur.obj, client |-> cur.client, kind |-> "int"]
           integer == [op |-> "isInteger", obj |-> cur.obj, client |-> cur.client]
           send == [op |-> "send", obj |-> cur.obj, client |-> cur.client, val |-> v]
<1>1. Busy(t) /\ cur \in Op /\ cur.op \in {"isBytes", "isInteger", "cast"}
  BY DoingIs DEF IsBytes, IsInteger, Cast
<1>2. cur.obj \in Object /\ cur.client \in Client /\ v \in Value
  BY <1>1, OpFields DEF Inv, TypeOK
<1>3. /\ bytes \in Op /\ bytes.op = "cast" /\ int \in Op /\ int.op = "cast"
      /\ integer \in Op /\ integer.op = "isInteger" /\ send \in Op /\ send.op = "send"
  BY <1>2, AskOp
<1>4. \/ FailedCast(t)
      \/ cur.op = "isBytes" /\ Goto(t, <<bytes>>)
      \/ cur.op = "isBytes" /\ Goto(t, <<integer>>)
      \/ cur.op = "isInteger" /\ Goto(t, <<int>>)
      \/ cur.op = "cast" /\ Goto(t, <<send>>)
  BY DEF IsBytes, IsInteger, Cast, Doing
<1> HIDE DEF bytes, int, integer, send, cur
<1>5. Cost(bytes) = 2 /\ Cost(int) = 2 /\ Cost(integer) = 3 /\ Cost(send) = 1
  BY <1>3, Costs
<1>6. /\ cur.op = "isBytes" => Cost(cur) = 4
      /\ cur.op = "isInteger" => Cost(cur) = 3
      /\ cur.op = "cast" => Cost(cur) = 2
  BY Costs
<1>7. ASSUME NEW e \in Op, Cost(e) < Cost(cur), Goto(t, <<e>>) PROVE Shrinks(t)
  <2>1. Lighter(t, <<e>>)
    BY <1>7, LighterOne DEF cur
  <2> QED BY <1>1, <1>7, <2>1 DEF Shrinks, Goto
<1>8. /\ cur.op = "isBytes" => Cost(bytes) < Cost(cur) /\ Cost(integer) < Cost(cur)
      /\ cur.op = "isInteger" => Cost(int) < Cost(cur)
      /\ cur.op = "cast" => Cost(send) < Cost(cur)
  BY <1>5, <1>6
<1>9. FailedCast(t) => Shrinks(t)
  BY <1>1 DEF FailedCast, Shrinks
<1> QED BY <1>3, <1>4, <1>7, <1>8, <1>9, Zenon

LEMMA StepShrinks ==
    ASSUME IsFiniteSet(Client), NEW t \in Thread, Inv, Step(t)
    PROVE  Shrinks(t)
<1>1. CASE SetValue(t) \/ PointToPointMessage(t)
  <2>1. Busy(t) /\ Do(t, <<>>)
    BY <1>1 DEF SetValue, PointToPointMessage, Doing
  <2> QED BY <2>1, LighterNothing DEF Shrinks
<1>2. CASE SendEvent(t)
  <2>1. Busy(t) /\ (Do(t, <<>>) \/ Fail(t))
    BY <1>2 DEF SendEvent, Doing, Goto, FailedCast
  <2> QED BY <2>1, LighterNothing DEF Shrinks
<1> QED BY <1>1, <1>2, ExecuteActionShrinks, UpdateShrinks, ParentShrinks, CovShrinks,
           SendCovShrinks, AskingShrinks DEF Step

LEMMA StepLess ==
    ASSUME IsFiniteSet(Client), NEW t \in Thread, Inv, Step(t)
    PROVE  Left(t)' < Left(t) /\ \A u \in Thread \ {t} : Left(u)' = Left(u)
<1>1. Shrinks(t)
  BY StepShrinks
<1> QED BY <1>1, DoLess, FailLess DEF Shrinks

LEMMA LeftType ==
    ASSUME IsFiniteSet(Client), Inv, NEW t \in Thread PROVE Left(t) \in Nat
<1>1. thread[t].todo \in Seq(Op)
  BY DEF Inv, TypeOK
<1> QED BY <1>1, TotalType DEF Left

\* A new request is no work of the threads that are busy.
LEMMA BeginAdds ==
    ASSUME NEW u \in Thread, NEW kind, NEW e, Begin(u, kind, e), Inv
    PROVE  \A t \in Thread : Busy(t) => Left(t)' = Left(t)
<1>1. \A t \in Thread \ {u} : thread'[t] = thread[t]
  BY DEF Begin, Inv, TypeOK
<1> QED BY <1>1 DEF Begin, Left

\* A walk that loses its obligations still reaches whom it had not reached.
LEMMA DeleteCovAdds ==
    ASSUME NEW o \in Object, DeleteCov(o), Inv
    PROVE  \A t \in Thread : Left(t)' = Left(t)
<1> SUFFICES ASSUME NEW t \in Thread PROVE Left(t)' = Left(t)
  OBVIOUS
<1> DEFINE s == thread[t].todo
           r == Unsettled(t, o).todo
<1>1. s \in Seq(Op) /\ r \in Seq(Op) /\ Len(r) = Len(s)
  BY UnsettledIs DEF Inv, TypeOK
<1>2. \A i \in DOMAIN s :
         \/ r[i] = s[i]
         \/ s[i].op = "notify" /\ r[i].op = "notify" /\ r[i].done = s[i].done
  BY UnsettledIs
<1>3. thread'[t].todo = r
  BY DEF DeleteCov
<1> HIDE DEF s, r
<1>4. ASSUME NEW i \in DOMAIN s PROVE Cost(r[i]) = Cost(s[i])
  <2>1. CASE r[i] = s[i]
    BY <2>1
  <2>2. CASE s[i].op = "notify" /\ r[i].op = "notify" /\ r[i].done = s[i].done
    BY <2>2, Costs
  <2> QED BY <1>2, <2>1, <2>2
<1>5. Total(r) = Total(s)
  BY <1>1, <1>4, TotalSame
<1> QED BY <1>3, <1>5 DEF Left, s

LEMMA NextLess ==
    ASSUME IsFiniteSet(Client), Inv, ReportInv, [Next]_vars
    PROVE  \A t \in Thread : Busy(t) => /\ Left(t)' <= Left(t)
                                        /\ Step(t) => Left(t)' < Left(t)
<1> SUFFICES ASSUME NEW t \in Thread, Busy(t) PROVE Left(t)' <= Left(t)
  BY StepLess
<1>1. Left(t) \in Nat /\ Left(t)' \in Nat
  <2>1. thread'[t].todo \in Seq(Op)
    BY NextKeeps DEF Inv, TypeOK
  <2> QED BY <2>1, LeftType, TotalType DEF Left
<1>2. Left(t)' = Left(t) => Left(t)' <= Left(t)
  BY <1>1
<1>3. CASE ProcessWritePresentValue \/ \E u \in Web : RestWriteProperty(u) \/ ToggleAll(u)
  <2>1. \E u \in Thread : \E kind, e : Begin(u, kind, e)
    BY <1>3 DEF ProcessWritePresentValue, RestWriteProperty, ToggleAll, Thread
  <2> QED BY <1>2, <2>1, BeginAdds
<1>4. ASSUME NEW o \in Watched, DeleteCov(o) PROVE Left(t)' <= Left(t)
  BY <1>2, <1>4, DeleteCovAdds, InputAssumption
<1>5. CASE \/ \E c \in Client, o \in Watched : SubscribeCov(c, o)
           \/ WebSubscribe \/ WebClose \/ UNCHANGED vars
  <2>1. thread' = thread
    BY <1>5 DEF SubscribeCov, WebSubscribe, WebClose, vars
  <2> QED BY <1>2, <2>1 DEF Left
<1>6. ASSUME NEW u \in Thread, Step(u) PROVE Left(t)' <= Left(t)
  <2>1. Left(u)' < Left(u) /\ (t # u => Left(t)' = Left(t))
    BY <1>6, StepLess
  <2>2. Left(t)' < Left(t) => Left(t)' <= Left(t)
    BY <1>1
  <2> QED BY <1>2, <2>1, <2>2
<1> QED BY <1>3, <1>4, <1>5, <1>6 DEF Next, Receive

\* For any threads and values, and any finite number of clients: what the request of a thread
\* has left falls with each step of it and is never raised by what the other threads write,
\* subscribe or delete, so no chain of listeners that write to each other goes on for ever
\* (updatePropertyValue(), TZ320Device.onValueChanged(), COVListener).
THEOREM RequestsRunOut == ASSUME IsFiniteSet(Client) PROVE Spec => WorkRunsOut
<1>1. Inv /\ ReportInv /\ [Next]_vars
        => [\A t \in Thread : Busy(t) => /\ Left(t)' <= Left(t)
                                         /\ Step(t) => Left(t)' < Left(t)]_vars
  BY NextLess
<1> QED BY <1>1, Invariant, PTL DEF Spec, WorkRunsOut
=============================================================================
