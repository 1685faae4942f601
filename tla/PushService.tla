---------------------------- MODULE PushService ----------------------------
(***************************************************************************)
(* What a browser can rely on from the websocket side of the server,       *)
(* without the registries, lists and locks behind it: a message on an open *)
(* session is answered once or the session ends, only who asked for an id  *)
(* is ever told of its device's events, and a subscription may get lost.   *)
(* WebSubscriptions implements it, the web pages are built on it.          *)
(***************************************************************************)
CONSTANTS
    Session,        \* websocket sessions, each opened at most once
    Id, Device,     \* subscription ids, and the devices they name
    Target,         \* what each id names
    Nobody          \* no session, no id

Answer == "answer"  \* asked of a session that is owed its answer only

VARIABLES
    open,           \* the sessions whose connection is up
    used,           \* the sessions that have ever been open
    asked,          \* the id a session asks for, then Answer until it is answered
    listeners,      \* for each device, the ids and the session each one tells
    told            \* for each device, the session it sends an event to

serviceVars == <<open, used, asked, listeners, told>>

Listener == [id : Id, session : Session]

Init ==
    /\ open = {} /\ used = {}
    /\ asked = [s \in Session |-> Nobody]
    /\ listeners = [d \in Device |-> {}]
    /\ told = [d \in Device |-> Nobody]

Connect(s) ==
    /\ s \notin used
    /\ open' = open \cup {s} /\ used' = used \cup {s}
    /\ UNCHANGED <<asked, listeners, told>>

\* The browser's doing or the server's, at any time
Close(s) ==
    /\ s \in open /\ open' = open \ {s}
    /\ UNCHANGED <<used, asked, listeners, told>>

\* A message arrives: a subscription, or anything else.
Ask(s, request) ==
    /\ s \in open /\ asked[s] = Nobody
    /\ asked' = [asked EXCEPT ![s] = request]
    /\ UNCHANGED <<open, used, listeners, told>>

\* There is at most one listener per id; which one, and which of the others stay,
\* is not promised.
Subscribe(s) ==
    /\ asked[s] \in Id /\ Target[asked[s]] \in Device
    /\ \E result \in SUBSET (listeners[Target[asked[s]]] \cup {[id |-> asked[s], session |-> s]}) :
         /\ \A k, l \in result : k.id = l.id => k = l
         /\ listeners' = [listeners EXCEPT ![Target[asked[s]]] = result]
    /\ asked' = [asked EXCEPT ![s] = Answer]
    /\ UNCHANGED <<open, used, told>>

\* The id names no device, or it is heard of already.
Skip(s) ==
    /\ asked[s] \in Id
    /\ asked' = [asked EXCEPT ![s] = Answer]
    /\ UNCHANGED <<open, used, listeners, told>>

\* The answer reaches a session that is still open afterwards.
Reply(s) ==
    /\ asked[s] = Answer
    /\ asked' = [asked EXCEPT ![s] = Nobody]
    /\ open' \in {open, open \ {s}}
    /\ UNCHANGED <<used, listeners, told>>

\* A device tells one of its listeners.
Tell(d, s) ==
    /\ told[d] = Nobody /\ s \in open
    /\ \E l \in listeners[d] : l.session = s
    /\ told' = [told EXCEPT ![d] = s]
    /\ UNCHANGED <<open, used, asked, listeners>>

Told(d) ==
    /\ told[d] # Nobody
    /\ told' = [told EXCEPT ![d] = Nobody]
    /\ UNCHANGED <<open, used, asked, listeners>>

Next ==
    \/ \E s \in Session :
         \/ Connect(s) \/ Close(s) \/ Subscribe(s) \/ Skip(s) \/ Reply(s)
         \/ \E request \in Id \cup {Answer} : Ask(s, request)
         \/ \E d \in Device : Tell(d, s)
    \/ \E d \in Device : Told(d)

ServiceSpec == Init /\ [][Next]_serviceVars
=============================================================================
