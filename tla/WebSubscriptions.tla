-------------------------- MODULE WebSubscriptions --------------------------
(***************************************************************************)
(* The browsers of the web application: what the server registers when a   *)
(* websocket session opens (DefaultSocketHandler, UserSocketManager), what *)
(* the session subscribes to (DefaultSubscriptionManager), the listeners   *)
(* this leaves at the devices, and the events that devices push.           *)
(*                                                                         *)
(* The container serves each session on a thread of its own, one message   *)
(* at a time; devices push on the threads of DoorServer.  Nobody takes a   *)
(* lock, and userSockets, the sockets of a ConnectedUser, subscriptions    *)
(* and the listeners of a device are a HashMap or an ArrayList: a write    *)
(* that overlaps another one may lose entries of either.                   *)
(***************************************************************************)
EXTENDS Integers, FiniteSets

CONSTANTS
    Session,        \* websocket sessions, each opened at most once
    Id,             \* subscription ids, such as DEVICE_14_RWS_hdm
    Device,         \* the devices subscription ids name
    Target,         \* what each id names
    Nobody,         \* no session, no id
    MaxMessages,    \* bound on the messages of all sessions
    MaxPushes       \* bound on the events of all devices

(***************************************************************************)
(* An id without RWS_hdm is "plain"; the others name a device, or "none"   *)
(* the server has, or nothing parseInt can read.                           *)
(***************************************************************************)
ASSUME TargetAssumption == Target \in [Id -> Device \cup {"plain", "none", "unreadable"}]
ASSUME NobodyAssumption == Nobody \notin Session \cup Id
ASSUME BoundAssumption  == MaxMessages \in Nat /\ MaxPushes \in Nat

VARIABLES
    open,           \* the sessions whose connection is up
    at,             \* what the thread of each session does next
    id,             \* the id of the message it handles, until it has
    user,           \* the ConnectedUser addSocket or removeSocket works on, until it has
    sessions,       \* DefaultSocketHandler.sessions
    userSockets,    \* the keys of DefaultSocketHandler.userSockets
    connectedUser,  \* the ConnectedUser in UserSocketManager.sockets
    sockets,        \* the sockets of each ConnectedUser, named by its creator
    subscriptions,  \* the keys of DefaultSubscriptionManager.subscriptions
    listeners,      \* for each device, the ids and the session each one tells
    push,           \* for each device, the event it pushes
    writing,        \* the unsynchronised collection each thread writes
    overlapped,     \* sessions whose present write overlaps another one
    lost,           \* history: a write of userSockets or sockets was lost, or a read missed one
    lostTopic,      \* history: a write of subscriptions or of listeners was lost
    subscribers,    \* history: session and id of the subscriptions to devices that were handled
    messages, pushes

handler  == <<open, at, id, user, writing, overlapped, lost>>
registry == <<sessions, userSockets, connectedUser, sockets>>
topics   == <<subscriptions, listeners, lostTopic, subscribers>>
vars     == <<handler, registry, topics, push, messages, pushes>>

None          == <<>>
UserSockets   == <<"userSockets">>
Sockets(u)    == <<"sockets", u>>
Subscriptions == <<"subscriptions">>
Listeners(d)  == <<"listeners", d>>

Quiet == [left |-> {}, to |-> Nobody, active |-> FALSE]

Init ==
    /\ open = {} /\ sessions = {} /\ userSockets = {}
    /\ at = [s \in Session |-> "new"]
    /\ id = [s \in Session |-> Nobody]
    /\ user = [s \in Session |-> Nobody]
    /\ connectedUser = Nobody
    /\ sockets = [s \in Session |-> {}]
    /\ subscriptions = {}
    /\ listeners = [d \in Device |-> {}]
    /\ push = [d \in Device |-> Quiet]
    /\ writing = [s \in Session |-> None] /\ overlapped = {}
    /\ lost = FALSE /\ lostTopic = FALSE /\ subscribers = {}
    /\ messages = 0 /\ pushes = 0

-----------------------------------------------------------------------------
(* Writes without a lock.  A thread that has reached a write is in it until *)
(* the write ends.                                                         *)

Write(s, step, collection) ==
    LET others == {t \in Session \ {s} : writing[t] = collection}
    IN  /\ at' = [at EXCEPT ![s] = step]
        /\ writing' = [writing EXCEPT ![s] = collection]
        /\ overlapped' = IF others = {} THEN overlapped \ {s}
                         ELSE overlapped \cup others \cup {s}

Goto(s, step) ==
    /\ at' = [at EXCEPT ![s] = step]
    /\ writing' = [writing EXCEPT ![s] = None]
    /\ overlapped' = overlapped \ {s}

\* What a write of s leaves of a collection, given what it should leave.
Outcome(s, before, after) ==
    IF s \in overlapped THEN SUBSET (before \cup after) ELSE {after}

\* A lookup of a present entry misses it only while a thread writes the collection.
MayMiss(s, collection) == \E t \in Session \ {s} : writing[t] = collection

\* Two sends to one session at once are refused, and so is a send after the close.
Sending(s) == at[s] \in {"listing", "replying"} \/ \E d \in Device : push[d].to = s
Refused(s) == s \notin open \/ Sending(s)

-----------------------------------------------------------------------------
(* A session opens: afterConnectionEstablished.                            *)

Connect(s) ==
    /\ at[s] = "new"
    /\ open' = open \cup {s} /\ sessions' = sessions \cup {s}
    /\ Write(s, "putUserSocket", UserSockets)
    /\ UNCHANGED <<id, user, lost, userSockets, connectedUser, sockets, topics, push, messages, pushes>>

PutUserSocket(s) ==
    /\ at[s] = "putUserSocket"
    /\ \E result \in Outcome(s, userSockets, userSockets \cup {s}) :
         /\ userSockets' = result
         /\ lost' = (lost \/ result # userSockets \cup {s})
    /\ Goto(s, "findUser")
    /\ UNCHANGED <<open, id, user, sessions, connectedUser, sockets, topics, push, messages, pushes>>

\* UserSocketManager.sockets is a ConcurrentHashMap, but the check and the put
\* are two steps.
FindUser(s) ==
    /\ at[s] = "findUser"
    /\ user' = [user EXCEPT ![s] = IF connectedUser = Nobody THEN s ELSE connectedUser]
    /\ Goto(s, IF connectedUser = Nobody THEN "putUser" ELSE "getUser")
    /\ UNCHANGED <<open, id, lost, registry, topics, push, messages, pushes>>

\* Another session may have replaced the ConnectedUser since the check.
GetUser(s) ==
    /\ at[s] = "getUser"
    /\ user' = [user EXCEPT ![s] = connectedUser]
    /\ Write(s, "addSocket", Sockets(connectedUser))
    /\ UNCHANGED <<open, id, lost, registry, topics, push, messages, pushes>>

PutUser(s) ==
    /\ at[s] = "putUser"
    /\ connectedUser' = s
    /\ Write(s, "addSocket", Sockets(s))
    /\ UNCHANGED <<open, id, user, lost, sessions, userSockets, sockets, topics, push, messages, pushes>>

\* An ArrayList grown by two threads at once may also throw; the container then
\* closes the session.
AddSocket(s) ==
    /\ at[s] = "addSocket"
    /\ \E result \in Outcome(s, sockets[user[s]], sockets[user[s]] \cup {s}) :
         /\ sockets' = [sockets EXCEPT ![user[s]] = result]
         /\ lost' = (lost \/ result # sockets[user[s]] \cup {s})
    /\ Goto(s, "idle") /\ user' = [user EXCEPT ![s] = Nobody]
    /\ \/ open' = open
       \/ s \in overlapped /\ open' = open \ {s}
    /\ UNCHANGED <<id, sessions, userSockets, connectedUser, topics, push, messages, pushes>>

-----------------------------------------------------------------------------
(* A message: handleTextMessage.  Whatever the handler throws is caught; the *)
(* reply is sent outside of that, and closes the session when it fails.    *)

Message(s) ==
    /\ at[s] = "idle" /\ s \in open
    /\ messages < MaxMessages /\ messages' = messages + 1
    /\ \/ \E i \in Id : /\ id' = [id EXCEPT ![s] = i]
                        /\ \E step \in {"put", "remove"} : Write(s, step, Subscriptions)
       \/ \E step \in {"list", "reply"} : Goto(s, step) /\ id' = id
    /\ UNCHANGED <<open, user, lost, registry, topics, push, pushes>>

HandledUnanswered(s) == Goto(s, "idle") /\ id' = [id EXCEPT ![s] = Nobody]  \* mutant

Handled(s) == Goto(s, "reply") /\ id' = [id EXCEPT ![s] = Nobody]

\* addSubscription and addSubscriptionToDevice begin alike; the latter then looks
\* for the device, and returns or throws when there is none.
Put(s) ==
    /\ at[s] = "put"
    /\ \E result \in Outcome(s, subscriptions, subscriptions \cup {id[s]}) :
         /\ subscriptions' = result
         /\ lostTopic' = (lostTopic \/ result # subscriptions \cup {id[s]})
    /\ IF Target[id[s]] \in Device THEN Goto(s, "findListener") /\ id' = id ELSE Handled(s)
    /\ UNCHANGED <<open, user, lost, registry, listeners, subscribers, push, messages, pushes>>

\* A subscription to a device is handled.
Subscribed(s) == Handled(s) /\ subscribers' = subscribers \cup {<<s, id[s]>>}

\* The ids of the listeners at a device
Heard(d) == {l.id : l \in listeners[d]}

\* Subscriptions are equal when their ids are, whichever session made them.
FindListener(s) ==
    LET d == Target[id[s]]
    IN  /\ at[s] = "findListener"
        /\ \/ /\ id[s] \notin Heard(d) \/ MayMiss(s, Listeners(d))
              /\ Write(s, "putListener", Listeners(d)) /\ UNCHANGED <<id, subscribers>>
           \/ id[s] \in Heard(d) /\ Subscribed(s)
        /\ UNCHANGED <<open, user, lost, registry, subscriptions, listeners, lostTopic,
                       push, messages, pushes>>

PutListenerPerSession(s) ==  \* mutant
    LET d == Target[id[s]]
    IN  /\ at[s] = "putListener"
        /\ listeners' = [listeners EXCEPT ![d] = @ \cup {[id |-> id[s], session |-> s]}]
        /\ Subscribed(s)
        /\ UNCHANGED <<open, user, lost, registry, subscriptions, lostTopic, push, messages, pushes>>

\* The key of an equal subscription is kept, its listener replaced.  A walk over
\* the listeners that is under way may come by the new one.
PutListener(s) ==
    LET d     == Target[id[s]]
        after == {l \in listeners[d] : l.id # id[s]} \cup {[id |-> id[s], session |-> s]}
    IN  /\ at[s] = "putListener"
        /\ \E result \in Outcome(s, listeners[d], after) :
             /\ \A k, l \in result : k.id = l.id => k = l
             /\ listeners' = [listeners EXCEPT ![d] = result]
             /\ lostTopic' = (lostTopic \/ result # after)
        /\ \/ push' = push
           \/ push[d].active /\ push' = [push EXCEPT ![d].left = @ \cup {id[s]}]
        /\ Subscribed(s)
        /\ UNCHANGED <<open, user, lost, registry, subscriptions, messages, pushes>>

\* removeSubscription and removeSubscriptionFromDevice: the listener stays.
Remove(s) ==
    /\ at[s] = "remove"
    /\ \E result \in Outcome(s, subscriptions, subscriptions \ {id[s]}) :
         /\ subscriptions' = result
         /\ lostTopic' = (lostTopic \/ result # subscriptions \ {id[s]})
    /\ Handled(s)
    /\ UNCHANGED <<open, user, lost, registry, listeners, subscribers, push, messages, pushes>>

\* A list that cannot be read or sent is followed by the reply all the same.
List(s) ==
    /\ at[s] = "list"
    /\ \/ ~Refused(s) /\ Goto(s, "listing")
       \/ (Refused(s) \/ MayMiss(s, Subscriptions)) /\ Goto(s, "reply")
    /\ UNCHANGED <<open, id, user, lost, registry, topics, push, messages, pushes>>

Listed(s) ==
    /\ at[s] = "listing"
    /\ Goto(s, "reply")
    /\ UNCHANGED <<open, id, user, lost, registry, topics, push, messages, pushes>>

Reply(s) ==
    /\ at[s] = "reply"
    /\ \/ ~Refused(s) /\ Goto(s, "replying") /\ open' = open
       \/ Refused(s) /\ Goto(s, "idle") /\ open' = open \ {s}
    /\ UNCHANGED <<id, user, lost, registry, topics, push, messages, pushes>>

Replied(s) ==
    /\ at[s] = "replying"
    /\ Goto(s, "idle")
    /\ UNCHANGED <<open, id, user, lost, registry, topics, push, messages, pushes>>

-----------------------------------------------------------------------------
(* A session closes: the browser leaves, or the server closed it above;    *)
(* then afterConnectionClosed, on the same thread.                         *)

BrowserLeaves(s) ==
    /\ s \in open /\ open' = open \ {s}
    /\ UNCHANGED <<at, id, user, writing, overlapped, lost, registry, topics, push, messages, pushes>>

LeaveSilencing(s) ==  \* mutant
    /\ at[s] = "idle" /\ s \notin open
    /\ sessions' = sessions \ {s}
    /\ listeners' = [d \in Device |-> {l \in listeners[d] : l.session # s}]
    /\ Goto(s, "leaving")
    /\ UNCHANGED <<open, id, user, lost, userSockets, connectedUser, sockets, subscriptions,
                   lostTopic, subscribers, push, messages, pushes>>

LeaveUnforgotten(s) ==  \* mutant
    /\ at[s] = "idle" /\ s \notin open
    /\ Goto(s, "leaving")
    /\ UNCHANGED <<open, id, user, lost, registry, topics, push, messages, pushes>>

\* removeAllSubscriptions does nothing.
Leave(s) ==
    /\ at[s] = "idle" /\ s \notin open
    /\ sessions' = sessions \ {s}
    /\ Goto(s, "leaving")
    /\ UNCHANGED <<open, id, user, lost, userSockets, connectedUser, sockets, topics, push, messages, pushes>>

FindUserSocket(s) ==
    /\ at[s] = "leaving"
    /\ \/ s \in userSockets /\ Write(s, "removeSocket", Sockets(connectedUser)) /\ lost' = lost
       \/ s \notin userSockets /\ Goto(s, "gone") /\ lost' = lost
       \/ s \in userSockets /\ MayMiss(s, UserSockets) /\ Goto(s, "gone") /\ lost' = TRUE
    /\ user' = [user EXCEPT ![s] = IF at'[s] = "gone" THEN Nobody ELSE connectedUser]
    /\ UNCHANGED <<open, id, registry, topics, push, messages, pushes>>

RemoveSocketOnly(s) ==  \* mutant
    /\ at[s] = "removeSocket"
    /\ sockets' = [sockets EXCEPT ![user[s]] = @ \ {s}]
    /\ user' = [user EXCEPT ![s] = Nobody]
    /\ Goto(s, "gone")
    /\ UNCHANGED <<open, id, lost, sessions, userSockets, connectedUser, topics, push, messages, pushes>>

\* From the ConnectedUser of now, which need not be the one it was added to.  If
\* the list throws, which it may when two threads shrink it, the handler ends.
RemoveSocket(s) ==
    /\ at[s] = "removeSocket"
    /\ \E result \in Outcome(s, sockets[user[s]], sockets[user[s]] \ {s}) :
         /\ sockets' = [sockets EXCEPT ![user[s]] = result]
         /\ \/ /\ Write(s, "removeUserSocket", UserSockets)
               /\ lost' = (lost \/ result # sockets[user[s]] \ {s})
            \/ s \in overlapped /\ Goto(s, "gone") /\ lost' = TRUE
    /\ user' = [user EXCEPT ![s] = Nobody]
    /\ UNCHANGED <<open, id, sessions, userSockets, connectedUser, topics, push, messages, pushes>>

RemoveUserSocket(s) ==
    /\ at[s] = "removeUserSocket"
    /\ \E result \in Outcome(s, userSockets, userSockets \ {s}) :
         /\ userSockets' = result
         /\ lost' = (lost \/ result # userSockets \ {s})
    /\ Goto(s, "gone")
    /\ UNCHANGED <<open, id, user, sessions, connectedUser, sockets, topics, push, messages, pushes>>

-----------------------------------------------------------------------------
(* A device tells its listeners (TZ320Device.onValueChanged and            *)
(* DefaultSubscriptionListener.event).  An IOException is caught; what else *)
(* a send throws ends the walk, and so does, when it is over, a listener   *)
(* that was put during it.  A device pushes one event at a time here.      *)

Push(d) ==
    /\ ~push[d].active
    /\ pushes < MaxPushes /\ pushes' = pushes + 1
    /\ push' = [push EXCEPT ![d] = [left |-> Heard(d), to |-> Nobody, active |-> TRUE]]
    /\ UNCHANGED <<handler, registry, topics, messages>>

PushNext(d) ==
    /\ push[d].active /\ push[d].to = Nobody
    /\ \E l \in listeners[d] :
         /\ l.id \in push[d].left
         /\ push' = [push EXCEPT ![d] =
                    IF Refused(l.session) THEN Quiet
                    ELSE [left |-> push[d].left \ {l.id}, to |-> l.session, active |-> TRUE]]
    /\ UNCHANGED <<handler, registry, topics, messages, pushes>>

Pushed(d) ==
    /\ push[d].to # Nobody
    /\ push' = [push EXCEPT ![d].to = Nobody]
    /\ UNCHANGED <<handler, registry, topics, messages, pushes>>

PushEnds(d) ==
    /\ push[d].active /\ push[d].to = Nobody
    /\ push[d].left \cap Heard(d) = {}
    /\ push' = [push EXCEPT ![d] = Quiet]
    /\ UNCHANGED <<handler, registry, topics, messages, pushes>>

-----------------------------------------------------------------------------
Serve(s) ==
    \/ PutUserSocket(s) \/ FindUser(s) \/ GetUser(s) \/ PutUser(s) \/ AddSocket(s)
    \/ Put(s) \/ FindListener(s) \/ PutListener(s) \/ Remove(s)
    \/ List(s) \/ Listed(s) \/ Reply(s) \/ Replied(s)
    \/ Leave(s) \/ FindUserSocket(s) \/ RemoveSocket(s) \/ RemoveUserSocket(s)

Tell(d) == PushNext(d) \/ Pushed(d) \/ PushEnds(d)

Next ==
    \/ \E s \in Session : Connect(s) \/ Message(s) \/ BrowserLeaves(s) \/ Serve(s)
    \/ \E d \in Device : Push(d) \/ Tell(d)

Spec == Init /\ [][Next]_vars

\* A thread that has something to do runs; browsers and events come as they like.
LiveSpec == Spec /\ (\A s \in Session : WF_vars(Serve(s))) /\ (\A d \in Device : WF_vars(Tell(d)))

-----------------------------------------------------------------------------
(* Properties                                                              *)

Step == {"new", "putUserSocket", "findUser", "getUser", "putUser", "addSocket",
         "idle", "put", "findListener", "putListener", "remove", "list", "listing",
         "reply", "replying", "leaving", "removeSocket", "removeUserSocket", "gone"}

Collection == {None, UserSockets, Subscriptions}
                \cup {Sockets(u) : u \in Session} \cup {Listeners(d) : d \in Device}

Listener == [id : Id, session : Session]

\* Every variable has its type; a thread writes a ConnectedUser it has found, and
\* an id has at most one listener at a device.
TypeOK ==
    /\ open \subseteq Session /\ sessions \subseteq Session /\ userSockets \subseteq Session
    /\ at \in [Session -> Step] /\ id \in [Session -> Id \cup {Nobody}]
    /\ writing \in [Session -> Collection]
    /\ user \in [Session -> Session \cup {Nobody}]
    /\ connectedUser \in Session \cup {Nobody}
    /\ sockets \in [Session -> SUBSET Session]
    /\ subscriptions \subseteq Id
    /\ listeners \in [Device -> SUBSET Listener]
    /\ \A d \in Device : \A k, l \in listeners[d] : k.id = l.id => k = l
    /\ push \in [Device -> [left : SUBSET Id, to : Session \cup {Nobody}, active : BOOLEAN]]
    /\ overlapped \subseteq Session /\ lost \in BOOLEAN /\ lostTopic \in BOOLEAN
    /\ subscribers \subseteq Session \X Id
    /\ messages \in 0..MaxMessages /\ pushes \in 0..MaxPushes

Connecting == {"putUserSocket", "findUser", "getUser", "putUser", "addSocket"}
Leaving    == {"leaving", "removeSocket", "removeUserSocket"}
Served     == Step \ (Connecting \cup Leaving \cup {"new", "gone"})

\* The handler knows the sessions it serves and forgets the ones that are gone,
\* whatever was lost elsewhere; so do the two maps of sockets, and the ConnectedUser that
\* counts keeps no session that is gone, as long as no write to those maps was lost or
\* missed because it overlapped another one: from then on they promise nothing
\* (DefaultSocketHandler.java:196-203, 215-221; UserSocketManager.java:31-42, 65-69).
RegistryAgrees ==
    \A s \in Session :
        /\ at[s] \in Served => s \in sessions
        /\ at[s] = "gone" => s \notin sessions
        /\ ~lost =>
             /\ at[s] \in Served => s \in userSockets
             /\ at[s] = "gone" => /\ s \notin userSockets
                                  /\ connectedUser # Nobody => s \notin sockets[connectedUser]

\* What the list shows for a device has some listener there, or the message that asked
\* for it is still being handled.
ListedIsHeard ==
    \A i \in subscriptions :
        Target[i] \in Device =>
            \/ i \in Heard(Target[i])
            \/ \E s \in Session : id[s] = i /\ at[s] \in {"findListener", "putListener"}

\* A listener tells a session that subscribed to its id itself.  Once a subscription to
\* a device is handled its id has such a listener for good, whoever unsubscribes or
\* leaves: the session's own if no other one ever subscribed to that id, else that of any
\* of them.  The list is kept in step.  All but the first holds as long as no two writes
\* to the subscriptions or the listeners overlap and one is lost
\* (DefaultSubscriptionManager.java:46, 61-75).
SubscribedIsHeard ==
    /\ \A d \in Device : \A l \in listeners[d] : <<l.session, l.id>> \in subscribers
    /\ ~lostTopic => ListedIsHeard /\ \A p \in subscribers : p[2] \in Heard(Target[p[2]])

\* A session whose connection is gone leaves the sessions of the handler, whatever
\* its thread was doing and whoever was sending to it
\* (DefaultSocketHandler.java:133-135, 208-223).
SessionsLeave ==
    \A s \in Session : (s \in sessions /\ s \notin open) ~> s \notin sessions

-----------------------------------------------------------------------------
(* What browsers rely on                                                   *)

Asking    == {"put", "findListener", "putListener"}
Answering == {"remove", "list", "listing", "reply", "replying"}

Service == INSTANCE PushService WITH
    used  <- {s \in Session : at[s] # "new"},
    asked <- [s \in Session |-> IF at[s] \in Asking THEN id[s]
                               ELSE IF at[s] \in Answering THEN "answer" ELSE Nobody],
    told  <- [d \in Device |-> push[d].to]

\* Whatever the registries and lists of the server go through, a browser sees the
\* service it relies on: each message on a session that stays open is answered once
\* and only after it was handled, an id has one listener at most, which was put
\* there for a session that asked for that id, and events reach listeners only
\* (DefaultSocketHandler.java:89-136, DefaultSubscriptionManager.java:44-77).
ServiceSpec == Service!ServiceSpec

\* isConnected: the sockets of a ConnectedUser never say otherwise
UserIsConnected == connectedUser # Nobody /\ sockets[connectedUser] # {}

\* UserSocketManager.java:72, "Returns the users which are currently connected with
\* a Websocket": while no session comes or goes, the user is among them if a session
\* is open.  Not so: of two sessions that connect at once, one replaces the
\* ConnectedUser the other is added to, and when it leaves nobody is connected.
UsersConnected ==
    ~lost /\ (\A s \in Session : at[s] \in {"new", "idle", "gone"})
        => ((\E s \in open : at[s] = "idle") => UserIsConnected)
=============================================================================
