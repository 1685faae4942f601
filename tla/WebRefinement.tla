---------------------------- MODULE WebRefinement ----------------------------
(***************************************************************************)
(* The websocket side of the server is the service that browsers rely on:  *)
(* WebSubscriptions implements PushService, proved for any number of       *)
(* sessions, ids and devices.                                              *)
(***************************************************************************)
EXTENDS WebSubscriptionsProofs

\* What the service knows of a session and of a device
AskedOf(s) == IF at[s] \in Asking THEN id[s] ELSE IF at[s] \in Answering THEN "answer" ELSE Nobody

Used  == {s \in Session : at[s] # "new"}
Asked == [s \in Session |-> AskedOf(s)]
Told  == [d \in Device |-> push[d].to]

\* The thread of s goes on, without any other one.
Alone(s) == \A t \in Session \ {s} : at'[t] = at[t] /\ id'[t] = id[t]

LEMMA AskedAlone ==
    ASSUME NEW s \in Session, Alone(s)
    PROVE  Asked' = [Asked EXCEPT ![s] = AskedOf(s)']
BY DEF Alone, Asked, AskedOf

LEMMA AskedSame ==
    ASSUME NEW s \in Session, Alone(s), AskedOf(s)' = AskedOf(s)
    PROVE  Asked' = Asked
BY DEF Alone, Asked, AskedOf

LEMMA UsedSame ==
    ASSUME NEW s \in Session, Alone(s), at[s] # "new", at'[s] # "new"
    PROVE  Used' = Used
BY DEF Alone, Used

LEMMA NothingSeen ==
    ASSUME open' = open, Used' = Used, Asked' = Asked, listeners' = listeners, Told' = Told
    PROVE  UNCHANGED Service!serviceVars
BY DEF Service!serviceVars, Used, Asked, AskedOf, Told

\* A step of the thread of s that the service does not see
LEMMA Hidden ==
    ASSUME NEW s \in Session, Alone(s), at[s] # "new", at'[s] # "new",
           AskedOf(s)' = AskedOf(s), UNCHANGED <<open, listeners, push>>
    PROVE  UNCHANGED Service!serviceVars
BY AskedSame, UsedSame, NothingSeen DEF Told

\* The end of a message
LEMMA Skips ==
    ASSUME NEW s \in Session, Alone(s), at[s] \in Asking, id[s] \in Id, at'[s] \in Answering,
           UNCHANGED <<open, listeners, push>>
    PROVE  Service!Skip(s)
<1>1. Asked[s] = id[s] /\ Asked' = [Asked EXCEPT ![s] = "answer"]
  BY AskedAlone DEF Asked, AskedOf, Asking, Answering
<1>2. Used' = Used
  BY UsedSame DEF Asking, Answering
<1>3. QED
  BY <1>1, <1>2 DEF Service!Skip, Asked, AskedOf, Used, Told, Service!Answer

LEMMA InitService == Init => Service!Init
BY DEF Init, Service!Init, Asking, Answering, Quiet

LEMMA ConnectService ==
    ASSUME NEW s \in Session, Inv, Connect(s) PROVE Service!Connect(s)
<1>1. Alone(s) /\ at[s] = "new" /\ at'[s] = "putUserSocket"
  BY ConnectMoves DEF Connect, Moved, Alone
<1>2. Asked' = Asked
  BY <1>1, AskedSame DEF AskedOf, Asking, Answering
<1>3. s \notin Used /\ Used' = Used \cup {s}
  BY <1>1 DEF Used, Alone
<1>4. QED
  BY <1>2, <1>3 DEF Connect, topics, Service!Connect, Asked, AskedOf, Used, Told

LEMMA BrowserLeavesService ==
    ASSUME NEW s \in Session, Inv, BrowserLeaves(s) PROVE Service!Close(s)
BY DEF BrowserLeaves, topics, Service!Close

LEMMA MessageService ==
    ASSUME NEW s \in Session, Inv, Message(s)
    PROVE  \E request \in Id \cup {"answer"} : Service!Ask(s, request)
<1>1. Alone(s) /\ at[s] = "idle" /\ at'[s] \in {"put", "remove", "list", "reply"}
  BY MessageMoves DEF Message, Moved, Alone, Inv, TypeOK
<1>2. at'[s] = "put" => id'[s] \in Id
  BY <1>1, MessageInv DEF Inv, WorkInv, OfMessage, Asking
<1>3. Asked[s] = Nobody /\ Asked' = [Asked EXCEPT ![s] = AskedOf(s)']
  BY <1>1, AskedAlone DEF Asked, AskedOf, Asking, Answering
<1>4. AskedOf(s)' \in Id \cup {"answer"}
  BY <1>1, <1>2 DEF AskedOf, Asking, Answering
<1>5. Used' = Used
  BY <1>1, UsedSame
<1>6. PICK request \in Id \cup {"answer"} : request = AskedOf(s)'
  BY <1>4
<1>7. Service!Ask(s, request)
  BY <1>3, <1>5, <1>6 DEF Message, topics, Service!Ask, Asked, AskedOf, Used, Told
<1>8. QED
  BY <1>7

LEMMA ConnectingHidden ==
    ASSUME NEW s \in Session, Inv, PutUserSocket(s) \/ FindUser(s) \/ GetUser(s) \/ PutUser(s)
    PROVE  UNCHANGED Service!serviceVars
<1>1. /\ at[s] \in {"putUserSocket", "findUser", "getUser", "putUser"}
      /\ at'[s] \in {"findUser", "getUser", "putUser", "addSocket"}
  BY PutUserSocketMoves, FindUserMoves, GetUserMoves, PutUserMoves
     DEF PutUserSocket, FindUser, GetUser, PutUser, Moved
<1>2. Alone(s)
  BY PutUserSocketMoves, FindUserMoves, GetUserMoves, PutUserMoves
     DEF PutUserSocket, FindUser, GetUser, PutUser, Moved, Alone
<1>3. UNCHANGED <<open, topics, push>>
  BY DEF PutUserSocket, FindUser, GetUser, PutUser
<1>4. AskedOf(s)' = AskedOf(s)
  BY <1>1 DEF AskedOf, Asking, Answering
<1>5. QED
  BY <1>1, <1>2, <1>3, <1>4, Hidden DEF topics

LEMMA AddSocketService ==
    ASSUME NEW s \in Session, Inv, AddSocket(s)
    PROVE  Service!Close(s) \/ UNCHANGED Service!serviceVars
<1>1. Alone(s) /\ at[s] = "addSocket" /\ at'[s] = "idle"
  BY AddSocketMoves DEF AddSocket, Moved, Alone
<1>2. Asked' = Asked /\ Used' = Used
  BY <1>1, AskedSame, UsedSame DEF AskedOf, Asking, Answering
<1>3. UNCHANGED <<listeners, push>> /\ open' \in {open, open \ {s}}
  BY DEF AddSocket, topics
<1>4. CASE s \in open /\ open' = open \ {s}
  BY <1>2, <1>3, <1>4 DEF Service!Close, Asked, AskedOf, Used, Told
<1>5. CASE open' = open
  BY <1>2, <1>3, <1>5, NothingSeen DEF Told
<1>6. QED
  BY <1>3, <1>4, <1>5

LEMMA PutService ==
    ASSUME NEW s \in Session, Inv, Put(s)
    PROVE  Service!Skip(s) \/ UNCHANGED Service!serviceVars
<1>1. at[s] = "put" /\ id[s] \in Id /\ UNCHANGED <<open, listeners, push>>
  BY DEF Put, Inv, WorkInv, OfMessage, Asking
<1>2. CASE Target[id[s]] \in Device
  <2>1. Alone(s) /\ at'[s] = "findListener" /\ id' = id
    BY <1>2, PutMoves DEF Put, Goto, Moved, Alone, Inv, TypeOK
  <2>2. QED
    BY <1>1, <2>1, Hidden DEF AskedOf, Asking
<1>3. CASE Target[id[s]] \notin Device
  <2>1. Alone(s) /\ at'[s] = "reply"
    BY <1>3, HandledMoves DEF Put, Moved, Alone, Inv
  <2>2. QED
    BY <1>1, <2>1, Skips DEF Asking, Answering
<1>4. QED
  BY <1>2, <1>3

LEMMA FindListenerService ==
    ASSUME NEW s \in Session, Inv, FindListener(s)
    PROVE  Service!Skip(s) \/ UNCHANGED Service!serviceVars
<1>1. at[s] = "findListener" /\ id[s] \in Id /\ UNCHANGED <<open, listeners, push>>
  BY DEF FindListener, Inv, WorkInv, OfMessage, Asking, topics
<1>2. CASE Subscribed(s)
  <2>1. Alone(s) /\ at'[s] = "reply"
    BY <1>2, HandledMoves DEF Subscribed, Moved, Alone, Inv
  <2>2. QED
    BY <1>1, <2>1, Skips DEF Asking, Answering
<1>3. CASE ~Subscribed(s)
  <2>1. Alone(s) /\ at'[s] = "putListener" /\ id' = id
    BY <1>3, FindListenerMoves DEF FindListener, Write, Moved, Alone, Inv, TypeOK
  <2>2. QED
    BY <1>1, <2>1, Hidden DEF AskedOf, Asking
<1>4. QED
  BY <1>2, <1>3

LEMMA PutListenerService ==
    ASSUME NEW s \in Session, Inv, PutListener(s) PROVE Service!Subscribe(s)
<1> DEFINE D == Target[id[s]]
           new == [id |-> id[s], session |-> s]
           after == {l \in listeners[D] : l.id # id[s]} \cup {new}
<1>1. at[s] = "putListener" /\ id[s] \in Id /\ D \in Device
  BY DEF PutListener, Inv, WorkInv, OfMessage, Asking
<1>2. PICK result \in Outcome(s, listeners[D], after) :
         /\ \A k, l \in result : k.id = l.id => k = l
         /\ listeners' = [listeners EXCEPT ![D] = result]
  BY DEF PutListener
<1>3. result \subseteq listeners[D] \cup {new}
  BY <1>2 DEF Outcome
<1>4. Alone(s) /\ at'[s] = "reply"
  BY PutListenerMoves, HandledMoves DEF PutListener, Moved, Alone, Inv
<1>5. Asked[s] = id[s] /\ Asked' = [Asked EXCEPT ![s] = "answer"] /\ Used' = Used
  BY <1>1, <1>4, AskedAlone, UsedSame DEF Asked, AskedOf, Asking, Answering
<1>6. Told' = Told
  <2>1. \A d \in Device : push'[d].to = push[d].to
    BY <1>1 DEF PutListener, Inv, TypeOK
  <2>2. QED
    BY <2>1 DEF Told
<1>7. open' = open
  BY DEF PutListener
<1>8. QED
  BY <1>1, <1>2, <1>3, <1>5, <1>6, <1>7
     DEF Service!Subscribe, Service!Answer, Asked, AskedOf, Used, Told

LEMMA AnsweringHidden ==
    ASSUME NEW s \in Session, Inv, Remove(s) \/ List(s) \/ Listed(s)
    PROVE  UNCHANGED Service!serviceVars
<1>1. at[s] \in Answering /\ at'[s] \in Answering
  BY RemoveMoves, ListMoves, ListedMoves DEF Remove, List, Listed, Moved, Answering
<1>2. Alone(s)
  BY RemoveMoves, ListMoves, ListedMoves, HandledMoves
     DEF Remove, List, Listed, Moved, Alone, Inv
<1>3. UNCHANGED <<open, listeners, push>>
  BY DEF Remove, List, Listed, topics
<1>4. AskedOf(s)' = AskedOf(s)
  BY <1>1 DEF AskedOf, Asking, Answering
<1>5. QED
  BY <1>1, <1>2, <1>3, <1>4, Hidden DEF Answering

LEMMA ReplyService ==
    ASSUME NEW s \in Session, Inv, Reply(s) \/ Replied(s)
    PROVE  Service!Reply(s) \/ UNCHANGED Service!serviceVars
<1>1. Alone(s) /\ at[s] \in {"reply", "replying"} /\ at'[s] \in {"replying", "idle"}
  BY ReplyMoves, RepliedMoves DEF Reply, Replied, Moved, Alone
<1>2. UNCHANGED <<listeners, push>> /\ open' \in {open, open \ {s}}
  BY DEF Reply, Replied, topics
<1>3. CASE at'[s] = "replying"
  <2>1. open' = open
    BY <1>3, ReplyMoves, RepliedMoves DEF Reply, Replied, Moved, Goto, Inv, TypeOK
  <2>2. QED
    BY <1>1, <1>2, <1>3, <2>1, Hidden DEF AskedOf, Asking, Answering
<1>4. CASE at'[s] = "idle"
  <2>1. Asked[s] = "answer" /\ Asked' = [Asked EXCEPT ![s] = Nobody] /\ Used' = Used
    BY <1>1, <1>4, AskedAlone, UsedSame DEF Asked, AskedOf, Asking, Answering
  <2>2. QED
    BY <1>2, <2>1 DEF Service!Reply, Service!Answer, Asked, AskedOf, Used, Told
<1>5. QED
  BY <1>1, <1>3, <1>4

LEMMA LeavingHidden ==
    ASSUME NEW s \in Session, Inv,
           Leave(s) \/ FindUserSocket(s) \/ RemoveSocket(s) \/ RemoveUserSocket(s)
    PROVE  UNCHANGED Service!serviceVars
<1>1. /\ at[s] \in {"idle"} \cup Leaving /\ at'[s] \in Leaving \cup {"gone"}
  BY LeaveMoves, FindUserSocketMoves, RemoveSocketMoves, RemoveUserSocketMoves
     DEF Leave, FindUserSocket, RemoveSocket, RemoveUserSocket, Moved, Leaving
<1>2. Alone(s)
  BY LeaveMoves, FindUserSocketMoves, RemoveSocketMoves, RemoveUserSocketMoves
     DEF Leave, FindUserSocket, RemoveSocket, RemoveUserSocket, Moved, Alone
<1>3. UNCHANGED <<open, topics, push>>
  BY DEF Leave, FindUserSocket, RemoveSocket, RemoveUserSocket
<1>4. AskedOf(s)' = AskedOf(s)
  BY <1>1 DEF AskedOf, Asking, Answering, Leaving
<1>5. QED
  BY <1>1, <1>2, <1>3, <1>4, Hidden DEF topics, Leaving

\* Only what a device says to whom is seen of its walk over the listeners.
LEMMA DeviceService ==
    ASSUME NEW d \in Device, Inv, Push(d) \/ Tell(d)
    PROVE  \/ \E s \in Session : Service!Tell(d, s)
           \/ Service!Told(d)
           \/ UNCHANGED Service!serviceVars
<1>1. Used' = Used /\ Asked' = Asked /\ UNCHANGED <<open, listeners>>
  BY DEF Push, Tell, PushNext, Pushed, PushEnds, handler, topics, Used, Asked, AskedOf
<1>2. CASE Push(d) \/ PushEnds(d)
  <2>1. \A e \in Device : push'[e].to = push[e].to
    BY <1>2 DEF Push, PushEnds, Quiet, Inv, WorkInv, TypeOK
  <2>2. QED
    BY <1>1, <2>1, NothingSeen DEF Told
<1>3. CASE PushNext(d)
  <2>1. PICK l \in listeners[d] :
           push' = [push EXCEPT ![d] =
                      IF Refused(l.session) THEN Quiet
                      ELSE [left |-> push[d].left \ {l.id}, to |-> l.session, active |-> TRUE]]
    BY <1>3 DEF PushNext
  <2>2. l.session \in Session /\ push[d].to = Nobody
    BY <1>3 DEF PushNext, Inv, TypeOK, Listener
  <2>3. CASE Refused(l.session)
    <3>1. \A e \in Device : push'[e].to = push[e].to
      BY <2>1, <2>2, <2>3 DEF Quiet, Inv, TypeOK
    <3>2. QED
      BY <1>1, <3>1, NothingSeen DEF Told
  <2>4. CASE ~Refused(l.session)
    <3>1. Told[d] = Nobody /\ Told' = [Told EXCEPT ![d] = l.session]
      BY <2>1, <2>2, <2>4 DEF Told, Inv, TypeOK
    <3>2. Service!Tell(d, l.session)
      BY <1>1, <2>4, <3>1 DEF Refused, Service!Tell, Used, Asked, AskedOf, Told
    <3>3. QED
      BY <2>2, <3>2
  <2>5. QED
    BY <2>3, <2>4
<1>4. CASE Pushed(d)
  <2>1. Told[d] # Nobody /\ Told' = [Told EXCEPT ![d] = Nobody]
    BY <1>4 DEF Pushed, Told, Inv, TypeOK
  <2>2. QED
    BY <1>1, <2>1 DEF Service!Told, Used, Asked, AskedOf, Told
<1>5. QED
  BY <1>2, <1>3, <1>4 DEF Tell

LEMMA NextService == Inv /\ [Next]_vars => [Service!Next]_(Service!serviceVars)
<1> SUFFICES ASSUME Inv, [Next]_vars PROVE Service!Next \/ UNCHANGED Service!serviceVars
  OBVIOUS
<1>1. ASSUME NEW s \in Session, Connect(s) \/ Message(s) \/ BrowserLeaves(s) \/ Serve(s)
      PROVE  \/ Service!Connect(s) \/ Service!Close(s) \/ Service!Subscribe(s) \/ Service!Skip(s)
             \/ Service!Reply(s) \/ \E request \in Id \cup {"answer"} : Service!Ask(s, request)
             \/ UNCHANGED Service!serviceVars
  BY <1>1, ConnectService, MessageService, BrowserLeavesService, ConnectingHidden,
     AddSocketService, PutService, FindListenerService, PutListenerService, AnsweringHidden,
     ReplyService, LeavingHidden DEF Serve
<1>2. ASSUME NEW d \in Device, Push(d) \/ Tell(d)
      PROVE  \/ \E s \in Session : Service!Tell(d, s)
             \/ Service!Told(d)
             \/ UNCHANGED Service!serviceVars
  BY <1>2, DeviceService
<1>3. CASE UNCHANGED vars
  BY <1>3, NothingSeen DEF vars, handler, topics, Used, Asked, AskedOf, Told
<1>4. QED
  BY <1>1, <1>2, <1>3 DEF Next, Service!Next, Service!Answer

\* Whatever order the threads of the server take, a browser sees messages answered
\* once, listeners put for those who asked, and events for listeners only
\* (DefaultSocketHandler.java:89-136, DefaultSubscriptionManager.java:44-77).
THEOREM ImplementsService == Spec => ServiceSpec
<1>1. QED
  BY InitService, NextService, Invariant, PTL DEF Spec, ServiceSpec, Service!ServiceSpec
=============================================================================
