----------------------------- MODULE DoorServer -----------------------------
(***************************************************************************)
(* One simulated TZ320 door: the present values of its objects, the COV    *)
(* subscriptions on them, the door logic that a change of one object runs  *)
(* on the others, and the threads that run all this at the same time: the  *)
(* reader thread of the device's own socket and the HTTP threads of the    *)
(* REST interface.  None of them takes a lock.                             *)
(*                                                                         *)
(* The code is one synchronous call tree per request (writeProperty calls  *)
(* the listeners, which call writeProperty of other objects ...).  A       *)
(* thread's todo is what is left of that tree, the next operation first.   *)
(* An exception drops the rest of it: nothing on the way catches one, only *)
(* the reader thread (which then sends no response) and the HTTP server.   *)
(***************************************************************************)
EXTENDS Integers, Sequences, FiniteSets

CONSTANTS
    Client,         \* BACnet clients that subscribe
    Reader,         \* the thread of the MulticastListenerReaderThread
    Web,            \* the threads that serve HTTP requests
    NetWrites,      \* the <<object, number>> pairs BACnet clients write
    RestWrites,     \* the <<object, value>> pairs REST clients write
    Watched,        \* the objects BACnet clients subscribe to
    InvokeIds,      \* the number of invoke ids an octet can hold: 256
    MaxRequests,    \* bound on the requests of a behaviour
    MaxActive       \* bound on the requests that are served at once

Thread == {Reader} \cup Web

(***************************************************************************)
(* The objects with a present value and listeners, and their instance      *)
(* numbers: the alarm (MULTI_STATE_VALUE 2), the lock and the door         *)
(* (BINARY_INPUT 1 and 2), the state and the command (MULTI_STATE_VALUE 3  *)
(* and 4).                                                                 *)
(***************************************************************************)
Object == {"alarm", "lock", "door", "state", "command"}

Id == [alarm |-> 2, lock |-> 1, door |-> 2, state |-> 3, command |-> 4]

(***************************************************************************)
(* A present value is any Java Object: a byte[], an Integer, or what else  *)
(* JSON can name (a String, a Boolean, ...).  Two arrays are never equal,  *)
(* the others compare by value.                                            *)
(***************************************************************************)
Bytes(n) == [kind |-> "bytes", n |-> n]
Int32(n) == [kind |-> "int", n |-> n]
Other(n) == [kind |-> "other", n |-> n]
Value    == [kind : {"bytes", "int", "other"}, n : Int]

Equals(v, w) == v = w /\ v.kind # "bytes"

ASSUME ThreadAssumption == Reader \notin Web
ASSUME InputAssumption  == /\ NetWrites \subseteq Object \X Int
                           /\ RestWrites \subseteq Object \X Value
                           /\ Watched \subseteq Object
ASSUME BoundAssumption  == /\ InvokeIds \in Nat \ {0}
                           /\ MaxRequests \in Nat /\ MaxActive \in Nat

VARIABLES
    value,      \* the present value of each object
    subs,       \* covSubscriptions of each object
    invokeId,   \* the last invoke id, as the octet that is sent
    thread,     \* the request a thread serves and what is left of it
    webClient,  \* a web client's websocket subscription to the device
    requests,   \* number of requests so far
    due,        \* history: who was subscribed when an object last changed
    told,       \* history: who was sent the present value since then
    refused,    \* history: whose notification of it the network refused
    failed      \* history: the kinds of requests that ended with an exception

vars == <<value, subs, invokeId, thread, webClient, requests,
          due, told, refused, failed>>

Idle == [request |-> "none", todo |-> <<>>]

Init ==
    /\ value = [alarm |-> Int32(1), lock |-> Bytes(1), door |-> Bytes(1),
                state |-> Int32(1), command |-> Int32(1)]
    /\ subs = [o \in Object |-> {}]
    /\ invokeId = 0
    /\ thread = [t \in Thread |-> Idle]
    /\ webClient = "none"
    /\ requests = 0
    /\ due = [o \in Object |-> {}] /\ told = [o \in Object |-> {}]
    /\ refused = [o \in Object |-> {}]
    /\ failed = {}

----------------------------------------------------------------------------
(***************************************************************************)
(* Requests.                                                               *)
(***************************************************************************)
Busy(t) == thread[t].todo # <<>>

Write(o, v) == [op |-> "write", obj |-> o, new |-> v]

Request ==
    /\ requests < MaxRequests
    /\ requests' = requests + 1

Begin(t, kind, op) ==
    /\ ~Busy(t)
    /\ Cardinality({u \in Thread : Busy(u)}) < MaxActive
    /\ Request
    /\ thread' = [thread EXCEPT ![t] = [request |-> kind, todo |-> <<op>>]]
    /\ UNCHANGED <<value, subs, invokeId, webClient, due, told, refused, failed>>

(***************************************************************************)
(* WriteProperty of a present value: over the network the payload's first  *)
(* octet arrives as an Integer, over REST the value as JSON gives it,      *)
(* whatever the object holds.                                              *)
(***************************************************************************)
ProcessWritePresentValue ==
    \E w \in NetWrites : Begin(Reader, "writeProperty", Write(w[1], Int32(w[2])))

RestWriteProperty(t) ==
    \E w \in RestWrites : Begin(t, "restWrite", Write(w[1], w[2]))

ToggleAll(t) == Begin(t, "toggleAll", [op |-> "executeAction"])

(***************************************************************************)
(* SubscribeCOV.  Renewing a subscription keeps the old one.               *)
(***************************************************************************)
SubscribeCov(c, o) ==
    /\ ~Busy(Reader) /\ Request
    /\ subs' = [subs EXCEPT ![o] = @ \cup {c}]
    /\ UNCHANGED <<value, invokeId, thread, webClient, due, told, refused, failed>>

(***************************************************************************)
(* SubscribeCOV with two parameters clears the subscriptions of all        *)
(* clients, also while another thread iterates over them: what it has not  *)
(* reached yet it may then see or not, even if it is added again.          *)
(***************************************************************************)
Unsettled(t, o) ==
    LET todo == thread[t].todo
    IN  [thread[t] EXCEPT !.todo =
            [i \in DOMAIN todo |-> IF todo[i].op = "notify" /\ todo[i].obj = o
                                   THEN [todo[i] EXCEPT !.must = {}] ELSE todo[i]]]

DeleteCov(o) ==
    /\ ~Busy(Reader) /\ Request
    /\ subs' = [subs EXCEPT ![o] = {}]
    /\ due'  = [due EXCEPT ![o] = {}]
    /\ thread' = [t \in Thread |-> Unsettled(t, o)]
    /\ UNCHANGED <<value, invokeId, webClient, told, refused, failed>>

(***************************************************************************)
(* A websocket subscription puts a listener on the device.  Nothing takes  *)
(* it off again when the socket closes.                                    *)
(***************************************************************************)
WebSubscribe ==
    /\ webClient = "none" /\ webClient' = "open"
    /\ UNCHANGED <<value, subs, invokeId, thread, requests, due, told, refused, failed>>

WebClose ==
    /\ webClient = "open" /\ webClient' = "closed"
    /\ UNCHANGED <<value, subs, invokeId, thread, requests, due, told, refused, failed>>

----------------------------------------------------------------------------
(***************************************************************************)
(* The operations of a thread.  Do replaces the operation by others, Fail  *)
(* ends the request with an exception.                                     *)
(***************************************************************************)
Doing(t, op) == Busy(t) /\ Head(thread[t].todo).op = op

Do(t, ops) ==
    LET rest == ops \o Tail(thread[t].todo)
    IN  thread' = [thread EXCEPT ![t] =
            IF rest = <<>> THEN Idle ELSE [@ EXCEPT !.todo = rest]]

Fail(t) ==
    /\ thread' = [thread EXCEPT ![t] = Idle]
    /\ failed' = failed \cup {thread[t].request}

FailedCast(t) ==
    Fail(t) /\ UNCHANGED <<value, subs, invokeId, webClient, requests, due, told, refused>>

Goto(t, ops) ==
    Do(t, ops) /\ UNCHANGED <<value, subs, invokeId, webClient, requests,
                              due, told, refused, failed>>

(***************************************************************************)
(* executeAction(): the door's present value is cast to byte[], inverted   *)
(* and written back.                                                       *)
(***************************************************************************)
ExecuteActionUncast(t) ==  \* mutant
    /\ Doing(t, "executeAction")
    /\ Goto(t, <<Write("door", Bytes(1 - value["door"].n))>>)

ExecuteAction(t) ==
    /\ Doing(t, "executeAction")
    /\ \/ /\ value["door"].kind = "bytes"
          /\ Goto(t, <<Write("door", Bytes(1 - value["door"].n))>>)
       \/ value["door"].kind # "bytes" /\ FailedCast(t)

(***************************************************************************)
(* updatePropertyValue(): the old value is read and compared, the new one  *)
(* is set, and the listeners are called, the parent's logic before the COV *)
(* listener (the order their keys have in the HashMap).                    *)
(***************************************************************************)
UpdateNotifyingFirst(o, new, old) ==  \* mutant
    <<[op |-> "parent", obj |-> o, new |-> new, old |-> old],
      [op |-> "cov", obj |-> o],
      [op |-> "set", obj |-> o, new |-> new]>>

Update(o, new, old) ==
    <<[op |-> "set", obj |-> o, new |-> new],
      [op |-> "parent", obj |-> o, new |-> new, old |-> old],
      [op |-> "cov", obj |-> o]>>

UpdatePropertyValue(t) ==
    LET cur == Head(thread[t].todo)
        old == value[cur.obj]
    IN  /\ Doing(t, "write")
        /\ Goto(t, IF Equals(old, cur.new) THEN <<>> ELSE Update(cur.obj, cur.new, old))

SetValue(t) ==
    LET cur == Head(thread[t].todo)
    IN  /\ Doing(t, "set")
        /\ value' = [value EXCEPT ![cur.obj] = cur.new]
        /\ due'   = [due EXCEPT ![cur.obj] = subs[cur.obj]]
        /\ told'  = [told EXCEPT ![cur.obj] = {}]
        /\ refused' = [refused EXCEPT ![cur.obj] = {}]
        /\ Do(t, <<>>)
        /\ UNCHANGED <<subs, invokeId, webClient, requests, failed>>

(***************************************************************************)
(* TZ320Device.onValueChanged().  It knows objects by their instance       *)
(* number alone, casts before it looks, and writes what a command means.   *)
(***************************************************************************)
Event(text) == [op |-> "event", text |-> text]

DoorLogic(n) ==
    CASE n = 0 -> <<Event("Door Open")>>
      [] n = 1 -> <<Event("Door Closed")>>
      [] OTHER -> <<>>

EffectsDoorFirst(state, lock, door, text) ==  \* mutant
    <<Write("state", Int32(state)), Write("door", Int32(door)),
      Write("lock", Int32(lock)), Event(text)>>

Effects(state, lock, door, text) ==
    <<Write("state", Int32(state)), Write("lock", Int32(lock)),
      Write("door", Int32(door)), Event(text)>>

CommandLogic(n) ==
    CASE n = 2 -> Effects(1, 0, 0, "Lock Unlock")
      [] n = 3 -> Effects(4, 1, 1, "Lock Locked")
      [] n = 4 -> Effects(6, 0, 1, "Lock Short Time Release")
      [] OTHER -> <<>>

OnValueChanged(t, o, oldPresentValue, newPresentValue) ==
    LET n == newPresentValue.n
        kind == newPresentValue.kind
    IN  \/ Id[o] = 2 /\ kind = "bytes" /\ Goto(t, DoorLogic(n))
        \/ Id[o] = 4 /\ kind = "int" /\ Goto(t, CommandLogic(n))
        \/ Id[o] = 2 /\ kind # "bytes" /\ FailedCast(t)
        \/ Id[o] = 4 /\ kind # "int" /\ FailedCast(t)
        \/ Id[o] \notin {2, 4} /\ Goto(t, <<>>)

(***************************************************************************)
(* The ParentLogicListener passes the new value where onValueChanged()     *)
(* declares the old one, and the old one for the new one.                  *)
(***************************************************************************)
ParentLogicListener(t) ==
    LET cur == Head(thread[t].todo)
    IN  Doing(t, "parent") /\ OnValueChanged(t, cur.obj, cur.new, cur.old)

(***************************************************************************)
(* An event goes to the web client's session, which throws once closed.    *)
(***************************************************************************)
SendEvent(t) ==
    /\ Doing(t, "event")
    /\ \/ webClient # "closed" /\ Goto(t, <<>>)
       \/ webClient = "closed" /\ FailedCast(t)

(***************************************************************************)
(* The COVListener walks over the concurrent set of subscriptions: it sees *)
(* those that stay, and may or may not see those that come or go.          *)
(***************************************************************************)
CovListener(t) ==
    LET o == Head(thread[t].todo).obj
    IN  /\ Doing(t, "cov")
        /\ Goto(t, <<[op |-> "notify", obj |-> o, may |-> subs[o], must |-> subs[o],
                      done |-> {}]>>)

(***************************************************************************)
(* ToggleDoorOpenStateThread.sendCOV() reads the present value when it     *)
(* builds the notification, once to see its type and once more to cast it. *)
(***************************************************************************)
NextInvokeIdWide == invokeId + 1  \* mutant

NextInvokeId == (invokeId + 1) % InvokeIds

NotifiedForgetful(cur, c) == [cur EXCEPT !.done = {c}]  \* mutant

Notified(cur, c) == [cur EXCEPT !.done = @ \cup {c}]

SendCovExact(t) ==  \* mutant
    LET cur == Head(thread[t].todo)
    IN  /\ Doing(t, "notify")
        /\ \/ cur.must = cur.done /\ Goto(t, <<>>)
           \/ \E c \in (subs[cur.obj] \cup cur.may) \ cur.done :
              /\ invokeId' = NextInvokeId
              /\ Do(t, <<[op |-> "isBytes", obj |-> cur.obj, client |-> c],
                         Notified(cur, c)>>)
              /\ UNCHANGED <<value, subs, webClient, requests, due, told, refused, failed>>

SendCov(t) ==
    LET cur == Head(thread[t].todo)
    IN  /\ Doing(t, "notify")
        /\ \/ /\ cur.must \subseteq cur.done
              /\ Goto(t, <<>>)
           \/ \E c \in (subs[cur.obj] \cup cur.may) \ cur.done :
              /\ invokeId' = NextInvokeId
              /\ Do(t, <<[op |-> "isBytes", obj |-> cur.obj, client |-> c],
                         Notified(cur, c)>>)
              /\ UNCHANGED <<value, subs, webClient, requests, due, told, refused, failed>>

IsBytes(t) ==
    LET cur == Head(thread[t].todo)
    IN  /\ Doing(t, "isBytes")
        /\ Goto(t, IF value[cur.obj].kind = "bytes"
                   THEN <<[op |-> "cast", obj |-> cur.obj, client |-> cur.client,
                           kind |-> "bytes"]>>
                   ELSE <<[op |-> "isInteger", obj |-> cur.obj, client |-> cur.client]>>)

IsInteger(t) ==
    LET cur == Head(thread[t].todo)
    IN  /\ Doing(t, "isInteger")
        /\ \/ /\ value[cur.obj].kind = "int"
              /\ Goto(t, <<[op |-> "cast", obj |-> cur.obj, client |-> cur.client,
                            kind |-> "int"]>>)
           \/ value[cur.obj].kind # "int" /\ FailedCast(t)

Cast(t) ==
    LET cur == Head(thread[t].todo)
    IN  /\ Doing(t, "cast")
        /\ \/ /\ value[cur.obj].kind = cur.kind
              /\ Goto(t, <<[op |-> "send", obj |-> cur.obj, client |-> cur.client,
                            val |-> value[cur.obj]]>>)
           \/ value[cur.obj].kind # cur.kind /\ FailedCast(t)

(***************************************************************************)
(* The finished notification goes to the subscriber's address, or the      *)
(* network refuses it (UnknownHostException, IOException): sendCOV()       *)
(* catches and logs that, and the walk goes on to the next subscription.   *)
(* Either counts for the object's last change when it carries the present  *)
(* value.                                                                  *)
(***************************************************************************)
ToClient(history, cur) ==
    IF cur.val = value[cur.obj]
    THEN [history EXCEPT ![cur.obj] = @ \cup {cur.client}] ELSE history

PointToPointMessage(t) ==
    LET cur == Head(thread[t].todo)
    IN  /\ Doing(t, "send")
        /\ \/ told' = ToClient(told, cur) /\ UNCHANGED refused
           \/ refused' = ToClient(refused, cur) /\ UNCHANGED told
        /\ Do(t, <<>>)
        /\ UNCHANGED <<value, subs, invokeId, webClient, requests, due, failed>>

Step(t) ==
    \/ ExecuteAction(t)        \/ UpdatePropertyValue(t) \/ SetValue(t)
    \/ ParentLogicListener(t)  \/ SendEvent(t)
    \/ CovListener(t)          \/ SendCov(t)
    \/ IsBytes(t) \/ IsInteger(t) \/ Cast(t) \/ PointToPointMessage(t)

Receive ==
    \/ ProcessWritePresentValue
    \/ \E t \in Web : RestWriteProperty(t) \/ ToggleAll(t)
    \/ \E c \in Client, o \in Watched : SubscribeCov(c, o)
    \/ \E o \in Watched : DeleteCov(o)
    \/ WebSubscribe
    \/ WebClose

Next == Receive \/ \E t \in Thread : Step(t)

Spec == Init /\ [][Next]_vars

(***************************************************************************)
(* Fairness: the JVM runs every thread that has something left to do.  No  *)
(* request is promised.                                                    *)
(***************************************************************************)
LiveSpec == Spec /\ \A t \in Thread : WF_vars(Step(t))

----------------------------------------------------------------------------
Text == {"Door Open", "Door Closed", "Lock Unlock", "Lock Locked", "Lock Short Time Release"}

Op ==
    [op : {"executeAction"}]
        \cup [op : {"write", "set"}, obj : Object, new : Value]
        \cup [op : {"parent"}, obj : Object, new : Value, old : Value]
        \cup [op : {"cov"}, obj : Object]
        \cup [op : {"notify"}, obj : Object, may : SUBSET Client,
              must : SUBSET Client, done : SUBSET Client]
        \cup [op : {"isBytes", "isInteger"}, obj : Object, client : Client]
        \cup [op : {"cast"}, obj : Object, client : Client, kind : {"bytes", "int"}]
        \cup [op : {"send"}, obj : Object, client : Client, val : Value]
        \cup [op : {"event"}, text : Text]

Kind == {"writeProperty", "restWrite", "toggleAll"}

TypeOK ==
    /\ value \in [Object -> Value]
    /\ subs \in [Object -> SUBSET Client]
    /\ invokeId \in 0..(InvokeIds - 1)
    /\ thread \in [Thread -> [request : Kind \cup {"none"}, todo : Seq(Op)]]
    /\ webClient \in {"none", "open", "closed"}
    /\ requests \in 0..MaxRequests
    /\ due \in [Object -> SUBSET Client] /\ told \in [Object -> SUBSET Client]
    /\ refused \in [Object -> SUBSET Client]
    /\ failed \subseteq Kind

Quiescent == \A t \in Thread : ~Busy(t)

(***************************************************************************)
(* However the threads interleave: when all is quiet and no request ended  *)
(* with an exception, every client that was subscribed when an object last *)
(* changed (and has not been deleted since) had a notification made for it *)
(* from the value the object now has, and was sent it unless the network   *)
(* refused that very one: a refusal costs no other subscriber anything.    *)
(* Two threads may write the same object at once, subscriptions may come   *)
(* and go while they are iterated, and the value is read only when the     *)
(* notification is built (updatePropertyValue(), sendCOV(), which writes   *)
(* one octet of an Integer).                                               *)
(***************************************************************************)
ChangesReported ==
    Quiescent /\ failed = {} => \A o \in Object : due[o] \subseteq told[o] \cup refused[o]

(***************************************************************************)
(* State object and lock object agree (4 is locked, lock 1 is locked) once *)
(* a command has been executed, one request at a time, even when the       *)
(* command's logic failed half way: it fails only at the door, after both  *)
(* were written (TZ320Device.onValueChanged()).                            *)
(***************************************************************************)
StateMatchesLock ==
    Quiescent /\ value["lock"].kind = "int" =>
        (value["lock"].n = 1 <=> value["state"].n = 4)

(***************************************************************************)
(* The first Integer written to the door is for good: only a toggle writes *)
(* a byte[], and it no longer can, so from then on no toggle ever succeeds *)
(* (executeAction() casts what it reads).                                  *)
(***************************************************************************)
ToggleLostForGood ==
    [][value["door"].kind # "bytes" => value'["door"].kind # "bytes"]_vars

(***************************************************************************)
(* Every request ends: the listeners that write to other objects do not    *)
(* call each other for ever, and the walk over a set of subscriptions that *)
(* changes under it comes to its end.                                      *)
(***************************************************************************)
RequestsFinish == \A t \in Thread : Busy(t) ~> ~Busy(t)

(***************************************************************************)
(* The steps that an operation may still cost its thread, with all that it *)
(* leads to: five at each subscriber (the walk, isBytes, isInteger, cast   *)
(* and send), and three writes for a command.                              *)
(***************************************************************************)
WalkCost == 2 + 5 * Cardinality(Client)

LogicCost(o) == IF Id[o] = 4 THEN 2 + 3 * (WalkCost + 4) ELSE 2

WriteCost(o) == 2 + LogicCost(o) + WalkCost

Cost(e) ==
    CASE e.op \in {"set", "event", "send"} -> 1
      [] e.op = "cast"                     -> 2
      [] e.op = "isInteger"                -> 3
      [] e.op = "isBytes"                  -> 4
      [] e.op = "notify"                   -> 1 + 5 * Cardinality(Client \ e.done)
      [] e.op = "cov"                      -> WalkCost
      [] e.op = "parent"                   -> LogicCost(e.obj)
      [] e.op = "write"                    -> WriteCost(e.obj)
      [] e.op = "executeAction"            -> 1 + WriteCost("door")

Total(todo) ==
    LET last[n \in 0..Len(todo)] ==
            IF n = 0 THEN 0 ELSE last[n - 1] + Cost(todo[Len(todo) + 1 - n])
    IN  last[Len(todo)]

Left(t) == Total(thread[t].todo)

(***************************************************************************)
(* No thread goes on for ever: each of its steps lowers what is left, and  *)
(* nothing that others write, subscribe or delete meanwhile raises it,     *)
(* although what a step leads to depends on values that change under it    *)
(* (updatePropertyValue(), TZ320Device.onValueChanged(), COVListener).     *)
(***************************************************************************)
WorkRunsOut ==
    [][\A t \in Thread : Busy(t) =>
          /\ Left(t)' <= Left(t)
          /\ Step(t) => Left(t)' < Left(t)]_vars

(***************************************************************************)
(* What the sources say of the program, and it does not do.                *)
(* "when the command property changed, also update the state accordingly"  *)
(***************************************************************************)
StateFollowsCommand ==
    Quiescent /\ failed = {} =>
        /\ value["command"].n = 2 => value["state"].n = 1
        /\ value["command"].n = 3 => value["state"].n = 4
        /\ value["command"].n = 4 => value["state"].n = 6

(***************************************************************************)
(* The objects "send updates via the COV feature when their state          *)
(* changes": also when the request that changed it fails later.  What the  *)
(* network refuses does not count against it.                              *)
(***************************************************************************)
EveryChangeReported ==
    Quiescent => \A o \in Object : due[o] \subseteq told[o] \cup refused[o]
=============================================================================
