----------------------- MODULE WebSubscriptionsProofs -----------------------
(***************************************************************************)
(* The registries and subscriptions of the websocket side, proved for any  *)
(* number of sessions, ids and devices, and that browsers see PushService. *)
(***************************************************************************)
EXTENDS WebSubscriptions, TLAPS

Finding   == {"new", "putUserSocket", "findUser", "putUser"}
OfMessage == Asking \cup {"remove"}

\* What a thread has found out before it gets to a step
WorkInv ==
    /\ \A s \in Session : at[s] \notin Finding => connectedUser \in Session
    /\ \A s \in Session : at[s] \in {"putUser", "addSocket", "removeSocket"} => user[s] \in Session
    /\ \A s \in Session : at[s] \in OfMessage => id[s] \in Id
    /\ \A s \in Session : at[s] \in Asking \ {"put"} => Target[id[s]] \in Device
    /\ \A d \in Device : push[d].active \/ push[d].to = Nobody

Inv == TypeOK /\ WorkInv

-----------------------------------------------------------------------------
(* How a thread goes from step to step                                     *)

\* The thread of s has gone to one of the steps S.
Moved(s, S) ==
    /\ at' \in [Session -> Step] /\ writing' \in [Session -> Collection]
    /\ overlapped' \subseteq Session
    /\ at'[s] \in S /\ \A t \in Session \ {s} : at'[t] = at[t]

LEMMA GotoMoves ==
    ASSUME NEW s \in Session, NEW step \in Step, TypeOK, Goto(s, step)
    PROVE  Moved(s, {step})
BY DEF Goto, TypeOK, Collection, Moved

LEMMA WriteMoves ==
    ASSUME NEW s \in Session, NEW step \in Step, NEW c \in Collection, TypeOK, Write(s, step, c)
    PROVE  Moved(s, {step})
BY DEF Write, TypeOK, Moved

\* The message is done with.
LEMMA HandledMoves ==
    ASSUME NEW s \in Session, TypeOK, Handled(s)
    PROVE  /\ Moved(s, {"reply"})
           /\ id' \in [Session -> Id \cup {Nobody}]
           /\ id'[s] = Nobody /\ \A t \in Session \ {s} : id'[t] = id[t]
BY GotoMoves DEF Handled, TypeOK, Step

\* So is a subscription to a device.
LEMMA SubscribedMoves ==
    ASSUME NEW s \in Session, TypeOK, Subscribed(s), id[s] \in Id
    PROVE  /\ Moved(s, {"reply"})
           /\ id' \in [Session -> Id \cup {Nobody}]
           /\ id'[s] = Nobody /\ \A t \in Session \ {s} : id'[t] = id[t]
           /\ subscribers' \subseteq Session \X Id
<1>1. Handled(s) /\ subscribers' = subscribers \cup {<<s, id[s]>>}
  BY DEF Subscribed
<1>2. subscribers' \subseteq Session \X Id
  BY <1>1 DEF TypeOK
<1> QED BY <1>1, <1>2, HandledMoves

\* A write leaves some of what was there and of what it should leave.
LEMMA OutcomeSubset ==
    ASSUME NEW s, NEW before, NEW after, NEW S, before \subseteq S, after \subseteq S,
           NEW result \in Outcome(s, before, after)
    PROVE  result \subseteq S
BY DEF Outcome

LEMMA Collections ==
    /\ {UserSockets, Subscriptions, None} \subseteq Collection
    /\ \A u \in Session : Sockets(u) \in Collection
    /\ \A d \in Device : Listeners(d) \in Collection
BY DEF Collection

-----------------------------------------------------------------------------
(* Types                                                                   *)

LEMMA InitInv == Init => Inv
<1> SUFFICES ASSUME Init PROVE Inv
  OBVIOUS
<1>1. at \in [Session -> Step] /\ writing \in [Session -> Collection]
  BY DEF Init, Step, Collection
<1>2. push \in [Device -> [left : SUBSET Id, to : Session \cup {Nobody}, active : BOOLEAN]]
  BY DEF Init, Quiet
<1>3. messages \in 0..MaxMessages /\ pushes \in 0..MaxPushes
  BY BoundAssumption DEF Init
<1>4. TypeOK
  BY <1>1, <1>2, <1>3 DEF Init, TypeOK
<1>5. WorkInv
  BY DEF Init, WorkInv, Quiet, Finding, OfMessage, Asking
<1>6. QED
  BY <1>4, <1>5 DEF Inv

LEMMA ConnectMoves ==
    ASSUME NEW s \in Session, Inv, Connect(s)
    PROVE  Moved(s, {"putUserSocket"})
BY WriteMoves, Collections DEF Connect, Inv, Step

LEMMA ConnectInv == ASSUME NEW s \in Session, Inv, Connect(s) PROVE Inv'
<1>1. Moved(s, {"putUserSocket"})
  BY ConnectMoves
<1>2. TypeOK'
  BY <1>1 DEF Moved, Connect, Inv, TypeOK, handler, registry, topics, Listener
<1>3. WorkInv'
  BY <1>1
     DEF Moved, Connect, Inv, TypeOK, WorkInv, handler, registry, topics, Finding,
         OfMessage, Asking
<1>4. QED
  BY <1>2, <1>3 DEF Inv

LEMMA PutUserSocketMoves ==
    ASSUME NEW s \in Session, Inv, PutUserSocket(s)
    PROVE  Moved(s, {"findUser"})
BY GotoMoves DEF PutUserSocket, Inv, Step

LEMMA PutUserSocketInv == ASSUME NEW s \in Session, Inv, PutUserSocket(s) PROVE Inv'
<1>1. Moved(s, {"findUser"})
  BY PutUserSocketMoves
<1>2. userSockets' \subseteq Session /\ lost' \in BOOLEAN
  BY OutcomeSubset DEF PutUserSocket, Inv, TypeOK
<1>3. TypeOK'
  BY <1>1, <1>2 DEF Moved, PutUserSocket, Inv, TypeOK, handler, registry, topics, Listener
<1>4. WorkInv'
  BY <1>1, <1>2
     DEF Moved, PutUserSocket, Inv, TypeOK, WorkInv, handler, registry, topics, Finding,
         OfMessage, Asking
<1>5. QED
  BY <1>3, <1>4 DEF Inv

LEMMA FindUserMoves ==
    ASSUME NEW s \in Session, Inv, FindUser(s)
    PROVE  Moved(s, {IF connectedUser = Nobody THEN "putUser" ELSE "getUser"})
BY GotoMoves DEF FindUser, Inv, Step

LEMMA FindUserInv == ASSUME NEW s \in Session, Inv, FindUser(s) PROVE Inv'
<1>1. Moved(s, {IF connectedUser = Nobody THEN "putUser" ELSE "getUser"})
  BY FindUserMoves
<1>2. user' \in [Session -> Session \cup {Nobody}]
  BY DEF FindUser, Inv, TypeOK
<1>3. TypeOK'
  BY <1>1, <1>2 DEF Moved, FindUser, Inv, TypeOK, handler, registry, topics, Listener
<1>4. WorkInv'
  BY <1>1, <1>2
     DEF Moved, FindUser, Inv, TypeOK, WorkInv, handler, registry, topics, Finding,
         OfMessage, Asking
<1>5. QED
  BY <1>3, <1>4 DEF Inv

LEMMA GetUserMoves == ASSUME NEW s \in Session, Inv, GetUser(s) PROVE Moved(s, {"addSocket"})
<1>1. connectedUser \in Session
  BY DEF GetUser, Inv, WorkInv, Finding
<1>2. QED
  BY <1>1, WriteMoves, Collections DEF GetUser, Inv, Step

LEMMA GetUserInv == ASSUME NEW s \in Session, Inv, GetUser(s) PROVE Inv'
<1>1. Moved(s, {"addSocket"})
  BY GetUserMoves
<1>2. connectedUser \in Session /\ user' \in [Session -> Session \cup {Nobody}]
  BY DEF GetUser, Inv, TypeOK, WorkInv, Finding
<1>3. TypeOK'
  BY <1>1, <1>2 DEF Moved, GetUser, Inv, TypeOK, handler, registry, topics, Listener
<1>4. WorkInv'
  BY <1>1, <1>2
     DEF Moved, GetUser, Inv, TypeOK, WorkInv, handler, registry, topics, Finding,
         OfMessage, Asking
<1>5. QED
  BY <1>3, <1>4 DEF Inv

LEMMA PutUserMoves == ASSUME NEW s \in Session, Inv, PutUser(s) PROVE Moved(s, {"addSocket"})
BY WriteMoves, Collections DEF PutUser, Inv, Step

LEMMA PutUserInv == ASSUME NEW s \in Session, Inv, PutUser(s) PROVE Inv'
<1>1. Moved(s, {"addSocket"})
  BY PutUserMoves
<1>2. TypeOK'
  BY <1>1 DEF Moved, PutUser, Inv, TypeOK, handler, registry, topics, Listener
<1>3. WorkInv'
  BY <1>1
     DEF Moved, PutUser, Inv, TypeOK, WorkInv, handler, registry, topics, Finding,
         OfMessage, Asking
<1>4. QED
  BY <1>2, <1>3 DEF Inv

LEMMA AddSocketMoves == ASSUME NEW s \in Session, Inv, AddSocket(s) PROVE Moved(s, {"idle"})
BY GotoMoves DEF AddSocket, Inv, Step

LEMMA AddSocketInv == ASSUME NEW s \in Session, Inv, AddSocket(s) PROVE Inv'
<1>1. Moved(s, {"idle"})
  BY AddSocketMoves
<1>2. sockets' \in [Session -> SUBSET Session] /\ lost' \in BOOLEAN /\ connectedUser \in Session
  <2>1. user[s] \in Session /\ connectedUser \in Session
    BY DEF AddSocket, Inv, WorkInv, Finding
  <2>2. sockets[user[s]] \subseteq Session /\ sockets[user[s]] \cup {s} \subseteq Session
    BY <2>1 DEF Inv, TypeOK
  <2>3. QED
    BY <2>1, <2>2, OutcomeSubset DEF AddSocket, Inv, TypeOK
<1>3. TypeOK'
  BY <1>1, <1>2 DEF Moved, AddSocket, Inv, TypeOK, handler, registry, topics, Listener
<1>4. WorkInv'
  BY <1>1, <1>2
     DEF Moved, AddSocket, Inv, TypeOK, WorkInv, handler, registry, topics, Finding,
         OfMessage, Asking
<1>5. QED
  BY <1>3, <1>4 DEF Inv

LEMMA MessageMoves ==
    ASSUME NEW s \in Session, Inv, Message(s)
    PROVE  Moved(s, {"put", "remove", "list", "reply"})
BY WriteMoves, GotoMoves, Collections DEF Message, Inv, Step, Moved

LEMMA MessageInv == ASSUME NEW s \in Session, Inv, Message(s) PROVE Inv'
<1>1. Moved(s, {"put", "remove", "list", "reply"})
  BY MessageMoves
<1>2. id' \in [Session -> Id \cup {Nobody}] /\ messages' \in 0..MaxMessages
  BY BoundAssumption DEF Message, Inv, TypeOK
<1>3. (at'[s] \in {"put", "remove"} => id'[s] \in Id) /\ (\A t \in Session \ {s} : id'[t] = id[t])
  BY DEF Message, Inv, TypeOK, Write, Goto
<1>4. TypeOK'
  BY <1>1, <1>2, <1>3 DEF Moved, Message, Inv, TypeOK, handler, registry, topics, Listener
<1>5. WorkInv'
  BY <1>1, <1>2, <1>3
     DEF Moved, Message, Inv, TypeOK, WorkInv, handler, registry, topics, Finding,
         OfMessage, Asking
<1>6. QED
  BY <1>4, <1>5 DEF Inv

LEMMA PutMoves ==
    ASSUME NEW s \in Session, Inv, Put(s)
    PROVE  Moved(s, {"findListener", "reply"})
BY GotoMoves, HandledMoves DEF Put, Inv, Step, Moved

LEMMA PutInv == ASSUME NEW s \in Session, Inv, Put(s) PROVE Inv'
<1>1. Moved(s, {"findListener", "reply"})
  BY PutMoves
<1>2. subscriptions' \subseteq Id /\ lostTopic' \in BOOLEAN
  <2>1. id[s] \in Id
    BY DEF Put, Inv, WorkInv, OfMessage, Asking
  <2>2. QED
    BY <2>1, OutcomeSubset DEF Put, Inv, TypeOK
<1>3. /\ id' \in [Session -> Id \cup {Nobody}] /\ \A t \in Session \ {s} : id'[t] = id[t]
      /\ at'[s] = "findListener" => id'[s] \in Id /\ Target[id'[s]] \in Device
  <2>1. id[s] \in Id
    BY DEF Put, Inv, WorkInv, OfMessage, Asking
  <2>2. CASE Target[id[s]] \in Device
    BY <2>1, <2>2 DEF Put, Inv, TypeOK
  <2>3. CASE Target[id[s]] \notin Device
    BY <2>3, HandledMoves DEF Put, Inv, Moved
  <2>4. QED
    BY <2>2, <2>3
<1>4. TypeOK'
  BY <1>1, <1>2, <1>3 DEF Moved, Put, Inv, TypeOK, handler, registry, topics, Listener
<1>5. WorkInv'
  BY <1>1, <1>2, <1>3
     DEF Moved, Put, Inv, TypeOK, WorkInv, handler, registry, topics, Finding, OfMessage,
         Asking
<1>6. QED
  BY <1>4, <1>5 DEF Inv

LEMMA FindListenerMoves ==
    ASSUME NEW s \in Session, Inv, FindListener(s)
    PROVE  Moved(s, {"putListener", "reply"})
<1>1. id[s] \in Id /\ Target[id[s]] \in Device
  BY DEF FindListener, Inv, WorkInv, OfMessage, Asking
<1>2. QED
  BY <1>1, WriteMoves, SubscribedMoves, Collections DEF FindListener, Inv, Step, Moved

LEMMA FindListenerInv == ASSUME NEW s \in Session, Inv, FindListener(s) PROVE Inv'
<1>1. Moved(s, {"putListener", "reply"})
  BY FindListenerMoves
<1>3. id[s] \in Id /\ Target[id[s]] \in Device
  BY DEF FindListener, Inv, WorkInv, OfMessage, Asking
<1>2. /\ id' \in [Session -> Id \cup {Nobody}] /\ \A t \in Session \ {s} : id'[t] = id[t]
      /\ at'[s] = "putListener" => id'[s] = id[s]
      /\ subscribers' \subseteq Session \X Id
  BY <1>3, SubscribedMoves DEF FindListener, Inv, TypeOK, Moved
<1>4. TypeOK'
  BY <1>1, <1>2, <1>3 DEF Moved, FindListener, Inv, TypeOK, handler, registry, topics, Listener
<1>5. WorkInv'
  BY <1>1, <1>2, <1>3
     DEF Moved, FindListener, Inv, TypeOK, WorkInv, handler, registry, topics, Finding,
         OfMessage, Asking
<1>6. QED
  BY <1>4, <1>5 DEF Inv

LEMMA PutListenerMoves ==
    ASSUME NEW s \in Session, Inv, PutListener(s)
    PROVE  /\ Moved(s, {"reply"})
           /\ id' \in [Session -> Id \cup {Nobody}]
           /\ id'[s] = Nobody /\ \A t \in Session \ {s} : id'[t] = id[t]
           /\ subscribers' \subseteq Session \X Id
<1>1. id[s] \in Id
  BY DEF PutListener, Inv, WorkInv, OfMessage, Asking
<1> QED BY <1>1, SubscribedMoves DEF PutListener, Inv

LEMMA PutListenerInv == ASSUME NEW s \in Session, Inv, PutListener(s) PROVE Inv'
<1>1. Moved(s, {"reply"})
  BY PutListenerMoves
<1>2. /\ id' \in [Session -> Id \cup {Nobody}] /\ \A t \in Session \ {s} : id'[t] = id[t]
      /\ subscribers' \subseteq Session \X Id
  BY PutListenerMoves
<1>3. id[s] \in Id /\ Target[id[s]] \in Device
  BY DEF PutListener, Inv, WorkInv, OfMessage, Asking
<1>4. /\ listeners' \in [Device -> SUBSET Listener] /\ lostTopic' \in BOOLEAN
      /\ \A d \in Device : \A k, l \in listeners'[d] : k.id = l.id => k = l
  <2> DEFINE D == Target[id[s]]
             new == [id |-> id[s], session |-> s]
             after == {l \in listeners[D] : l.id # id[s]} \cup {new}
  <2>1. D \in Device /\ new \in Listener /\ listeners[D] \subseteq Listener /\ after \subseteq Listener
    BY <1>3 DEF Inv, TypeOK, Listener
  <2>2. PICK result \in Outcome(s, listeners[D], after) :
           /\ \A k, l \in result : k.id = l.id => k = l
           /\ listeners' = [listeners EXCEPT ![D] = result]
           /\ lostTopic' = (lostTopic \/ result # after)
    BY DEF PutListener
  <2>3. result \subseteq Listener
    BY <2>1, OutcomeSubset
  <2> HIDE DEF D, after
  <2>4. QED
    BY <2>1, <2>2, <2>3 DEF Inv, TypeOK
<1>5. /\ push' \in [Device -> [left : SUBSET Id, to : Session \cup {Nobody}, active : BOOLEAN]]
      /\ \A d \in Device : push'[d].active = push[d].active /\ push'[d].to = push[d].to
  <2>1. push' = push \/ push' = [push EXCEPT ![Target[id[s]]].left = @ \cup {id[s]}]
    BY DEF PutListener
  <2>2. Target[id[s]] \in Device /\ id[s] \in Id
    BY <1>3
  <2>3. push \in [Device -> [left : SUBSET Id, to : Session \cup {Nobody}, active : BOOLEAN]]
    BY DEF Inv, TypeOK
  <2>4. QED
    BY <2>1, <2>2, <2>3
<1>6. TypeOK'
  BY <1>1, <1>2, <1>3, <1>4, <1>5
     DEF Moved, PutListener, Inv, TypeOK, handler, registry, topics, Listener
<1>7. WorkInv'
  BY <1>1, <1>2, <1>3, <1>4, <1>5
     DEF Moved, PutListener, Inv, TypeOK, WorkInv, handler, registry, topics, Finding,
         OfMessage, Asking
<1>8. QED
  BY <1>6, <1>7 DEF Inv

LEMMA RemoveMoves == ASSUME NEW s \in Session, Inv, Remove(s) PROVE Moved(s, {"reply"})
BY HandledMoves DEF Remove, Inv

LEMMA RemoveInv == ASSUME NEW s \in Session, Inv, Remove(s) PROVE Inv'
<1>1. Moved(s, {"reply"})
  BY RemoveMoves
<1>2. id' \in [Session -> Id \cup {Nobody}] /\ \A t \in Session \ {s} : id'[t] = id[t]
  BY HandledMoves DEF Remove, Inv
<1>3. subscriptions' \subseteq Id /\ lostTopic' \in BOOLEAN
  BY OutcomeSubset DEF Remove, Inv, TypeOK
<1>4. TypeOK'
  BY <1>1, <1>2, <1>3 DEF Moved, Remove, Inv, TypeOK, handler, registry, topics, Listener
<1>5. WorkInv'
  BY <1>1, <1>2, <1>3
     DEF Moved, Remove, Inv, TypeOK, WorkInv, handler, registry, topics, Finding, OfMessage,
         Asking
<1>6. QED
  BY <1>4, <1>5 DEF Inv

LEMMA ListMoves == ASSUME NEW s \in Session, Inv, List(s) PROVE Moved(s, {"listing", "reply"})
BY GotoMoves DEF List, Inv, Step, Moved

LEMMA ListInv == ASSUME NEW s \in Session, Inv, List(s) PROVE Inv'
<1>1. Moved(s, {"listing", "reply"})
  BY ListMoves
<1>2. TypeOK'
  BY <1>1 DEF Moved, List, Inv, TypeOK, handler, registry, topics, Listener
<1>3. WorkInv'
  BY <1>1
     DEF Moved, List, Inv, TypeOK, WorkInv, handler, registry, topics, Finding, OfMessage,
         Asking
<1>4. QED
  BY <1>2, <1>3 DEF Inv

LEMMA ListedMoves == ASSUME NEW s \in Session, Inv, Listed(s) PROVE Moved(s, {"reply"})
BY GotoMoves DEF Listed, Inv, Step

LEMMA ListedInv == ASSUME NEW s \in Session, Inv, Listed(s) PROVE Inv'
<1>1. Moved(s, {"reply"})
  BY ListedMoves
<1>2. TypeOK'
  BY <1>1 DEF Moved, Listed, Inv, TypeOK, handler, registry, topics, Listener
<1>3. WorkInv'
  BY <1>1
     DEF Moved, Listed, Inv, TypeOK, WorkInv, handler, registry, topics, Finding, OfMessage,
         Asking
<1>4. QED
  BY <1>2, <1>3 DEF Inv

LEMMA ReplyMoves == ASSUME NEW s \in Session, Inv, Reply(s) PROVE Moved(s, {"replying", "idle"})
BY GotoMoves DEF Reply, Inv, Step, Moved

LEMMA ReplyInv == ASSUME NEW s \in Session, Inv, Reply(s) PROVE Inv'
<1>1. Moved(s, {"replying", "idle"})
  BY ReplyMoves
<1>2. open' \subseteq Session
  BY DEF Reply, Inv, TypeOK
<1>3. TypeOK'
  BY <1>1, <1>2 DEF Moved, Reply, Inv, TypeOK, handler, registry, topics, Listener
<1>4. WorkInv'
  BY <1>1, <1>2
     DEF Moved, Reply, Inv, TypeOK, WorkInv, handler, registry, topics, Finding, OfMessage,
         Asking
<1>5. QED
  BY <1>3, <1>4 DEF Inv

LEMMA RepliedMoves == ASSUME NEW s \in Session, Inv, Replied(s) PROVE Moved(s, {"idle"})
BY GotoMoves DEF Replied, Inv, Step

LEMMA RepliedInv == ASSUME NEW s \in Session, Inv, Replied(s) PROVE Inv'
<1>1. Moved(s, {"idle"})
  BY RepliedMoves
<1>2. TypeOK'
  BY <1>1 DEF Moved, Replied, Inv, TypeOK, handler, registry, topics, Listener
<1>3. WorkInv'
  BY <1>1
     DEF Moved, Replied, Inv, TypeOK, WorkInv, handler, registry, topics, Finding,
         OfMessage, Asking
<1>4. QED
  BY <1>2, <1>3 DEF Inv

LEMMA BrowserLeavesInv == ASSUME NEW s \in Session, Inv, BrowserLeaves(s) PROVE Inv'
<1>2. TypeOK'
  BY DEF Moved, BrowserLeaves, Inv, TypeOK, handler, registry, topics, Listener
<1>3. WorkInv'
  BY DEF Moved, BrowserLeaves, Inv, TypeOK, WorkInv, handler, registry, topics, Finding,
     OfMessage, Asking
<1>4. QED
  BY <1>2, <1>3 DEF Inv

LEMMA LeaveMoves == ASSUME NEW s \in Session, Inv, Leave(s) PROVE Moved(s, {"leaving"})
BY GotoMoves DEF Leave, Inv, Step

LEMMA LeaveInv == ASSUME NEW s \in Session, Inv, Leave(s) PROVE Inv'
<1>1. Moved(s, {"leaving"})
  BY LeaveMoves
<1>2. TypeOK'
  BY <1>1 DEF Moved, Leave, Inv, TypeOK, handler, registry, topics, Listener
<1>3. WorkInv'
  BY <1>1
     DEF Moved, Leave, Inv, TypeOK, WorkInv, handler, registry, topics, Finding, OfMessage,
         Asking
<1>4. QED
  BY <1>2, <1>3 DEF Inv

LEMMA FindUserSocketMoves ==
    ASSUME NEW s \in Session, Inv, FindUserSocket(s)
    PROVE  Moved(s, {"removeSocket", "gone"})
<1>1. connectedUser \in Session
  BY DEF FindUserSocket, Inv, WorkInv, Finding
<1>2. QED
  BY <1>1, WriteMoves, GotoMoves, Collections DEF FindUserSocket, Inv, Step, Moved

LEMMA FindUserSocketInv == ASSUME NEW s \in Session, Inv, FindUserSocket(s) PROVE Inv'
<1>1. Moved(s, {"removeSocket", "gone"})
  BY FindUserSocketMoves
<1>2. connectedUser \in Session /\ lost' \in BOOLEAN
  BY DEF FindUserSocket, Inv, TypeOK, WorkInv, Finding
<1>3. /\ user' \in [Session -> Session \cup {Nobody}] /\ \A t \in Session \ {s} : user'[t] = user[t]
      /\ at'[s] = "removeSocket" => user'[s] \in Session
  BY <1>1, <1>2 DEF Moved, FindUserSocket, Inv, TypeOK
<1>4. TypeOK'
  BY <1>1, <1>2, <1>3
     DEF Moved, FindUserSocket, Inv, TypeOK, handler, registry, topics, Listener
<1>5. WorkInv'
  BY <1>1, <1>2, <1>3
     DEF Moved, FindUserSocket, Inv, TypeOK, WorkInv, handler, registry, topics, Finding,
         OfMessage, Asking
<1>6. QED
  BY <1>4, <1>5 DEF Inv

LEMMA RemoveSocketMoves ==
    ASSUME NEW s \in Session, Inv, RemoveSocket(s)
    PROVE  Moved(s, {"removeUserSocket", "gone"})
BY WriteMoves, GotoMoves, Collections DEF RemoveSocket, Inv, Step, Moved

LEMMA RemoveSocketInv == ASSUME NEW s \in Session, Inv, RemoveSocket(s) PROVE Inv'
<1>1. Moved(s, {"removeUserSocket", "gone"})
  BY RemoveSocketMoves
<1>2. sockets' \in [Session -> SUBSET Session] /\ lost' \in BOOLEAN /\ connectedUser \in Session
  <2>1. user[s] \in Session /\ connectedUser \in Session
    BY DEF RemoveSocket, Inv, WorkInv, Finding
  <2>2. sockets[user[s]] \subseteq Session /\ sockets[user[s]] \ {s} \subseteq Session
    BY <2>1 DEF Inv, TypeOK
  <2>3. PICK result \in Outcome(s, sockets[user[s]], sockets[user[s]] \ {s}) :
           /\ sockets' = [sockets EXCEPT ![user[s]] = result]
           /\ lost' = (lost \/ result # sockets[user[s]] \ {s}) \/ lost' = TRUE
    BY DEF RemoveSocket
  <2>4. result \subseteq Session
    BY <2>2, OutcomeSubset
  <2>5. QED
    BY <2>1, <2>3, <2>4 DEF Inv, TypeOK
<1>3. user' \in [Session -> Session \cup {Nobody}]
  BY DEF RemoveSocket, Inv, TypeOK
<1>4. TypeOK'
  BY <1>1, <1>2, <1>3 DEF Moved, RemoveSocket, Inv, TypeOK, handler, registry, topics, Listener
<1>5. WorkInv'
  BY <1>1, <1>2, <1>3
     DEF Moved, RemoveSocket, Inv, TypeOK, WorkInv, handler, registry, topics, Finding,
         OfMessage, Asking
<1>6. QED
  BY <1>4, <1>5 DEF Inv

LEMMA RemoveUserSocketMoves ==
    ASSUME NEW s \in Session, Inv, RemoveUserSocket(s)
    PROVE  Moved(s, {"gone"})
BY GotoMoves DEF RemoveUserSocket, Inv, Step

LEMMA RemoveUserSocketInv == ASSUME NEW s \in Session, Inv, RemoveUserSocket(s) PROVE Inv'
<1>1. Moved(s, {"gone"})
  BY RemoveUserSocketMoves
<1>2. userSockets' \subseteq Session /\ lost' \in BOOLEAN
  BY OutcomeSubset DEF RemoveUserSocket, Inv, TypeOK
<1>3. TypeOK'
  BY <1>1, <1>2 DEF Moved, RemoveUserSocket, Inv, TypeOK, handler, registry, topics, Listener
<1>4. WorkInv'
  BY <1>1, <1>2
     DEF Moved, RemoveUserSocket, Inv, TypeOK, WorkInv, handler, registry, topics, Finding,
         OfMessage, Asking
<1>5. QED
  BY <1>3, <1>4 DEF Inv

LEMMA PushInv == ASSUME NEW d \in Device, Inv, Push(d) PROVE Inv'
<1>2. /\ push' \in [Device -> [left : SUBSET Id, to : Session \cup {Nobody}, active : BOOLEAN]]
      /\ \A e \in Device : push'[e].active \/ push'[e].to = Nobody
      /\ pushes' \in 0..MaxPushes
  BY BoundAssumption DEF Push, Inv, TypeOK, WorkInv, Heard, Listener
<1>3. TypeOK'
  BY <1>2 DEF Moved, Push, Inv, TypeOK, handler, registry, topics, Listener
<1>4. WorkInv'
  BY <1>2
     DEF Moved, Push, Inv, TypeOK, WorkInv, handler, registry, topics, Finding, OfMessage,
         Asking
<1>5. QED
  BY <1>3, <1>4 DEF Inv

LEMMA PushNextInv == ASSUME NEW d \in Device, Inv, PushNext(d) PROVE Inv'
<1>2. /\ push' \in [Device -> [left : SUBSET Id, to : Session \cup {Nobody}, active : BOOLEAN]]
      /\ \A e \in Device : push'[e].active \/ push'[e].to = Nobody
  <2>1. PICK l \in listeners[d] :
           push' = [push EXCEPT ![d] =
                      IF Refused(l.session) THEN Quiet
                      ELSE [left |-> push[d].left \ {l.id}, to |-> l.session, active |-> TRUE]]
    BY DEF PushNext
  <2>2. l.session \in Session
    BY DEF Inv, TypeOK, Listener
  <2>3. QED
    BY <2>1, <2>2 DEF Inv, TypeOK, WorkInv, Quiet
<1>3. TypeOK'
  BY <1>2 DEF Moved, PushNext, Inv, TypeOK, handler, registry, topics, Listener
<1>4. WorkInv'
  BY <1>2
     DEF Moved, PushNext, Inv, TypeOK, WorkInv, handler, registry, topics, Finding,
         OfMessage, Asking
<1>5. QED
  BY <1>3, <1>4 DEF Inv

LEMMA PushedInv == ASSUME NEW d \in Device, Inv, Pushed(d) PROVE Inv'
<1>2. /\ push' \in [Device -> [left : SUBSET Id, to : Session \cup {Nobody}, active : BOOLEAN]]
      /\ \A e \in Device : push'[e].active \/ push'[e].to = Nobody
  BY BoundAssumption DEF Pushed, Inv, TypeOK, WorkInv
<1>3. TypeOK'
  BY <1>2 DEF Moved, Pushed, Inv, TypeOK, handler, registry, topics, Listener
<1>4. WorkInv'
  BY <1>2
     DEF Moved, Pushed, Inv, TypeOK, WorkInv, handler, registry, topics, Finding, OfMessage,
         Asking
<1>5. QED
  BY <1>3, <1>4 DEF Inv

LEMMA PushEndsInv == ASSUME NEW d \in Device, Inv, PushEnds(d) PROVE Inv'
<1>2. /\ push' \in [Device -> [left : SUBSET Id, to : Session \cup {Nobody}, active : BOOLEAN]]
      /\ \A e \in Device : push'[e].active \/ push'[e].to = Nobody
  BY BoundAssumption DEF PushEnds, Inv, TypeOK, WorkInv, Quiet
<1>3. TypeOK'
  BY <1>2 DEF Moved, PushEnds, Inv, TypeOK, handler, registry, topics, Listener
<1>4. WorkInv'
  BY <1>2
     DEF Moved, PushEnds, Inv, TypeOK, WorkInv, handler, registry, topics, Finding,
         OfMessage, Asking
<1>5. QED
  BY <1>3, <1>4 DEF Inv

-----------------------------------------------------------------------------
LEMMA NextInv == Inv /\ [Next]_vars => Inv'
<1> SUFFICES ASSUME Inv, [Next]_vars PROVE Inv'
  OBVIOUS
<1>1. ASSUME NEW s \in Session, Connect(s) \/ Message(s) \/ BrowserLeaves(s) PROVE Inv'
  BY <1>1, ConnectInv, MessageInv, BrowserLeavesInv
<1>2. ASSUME NEW s \in Session, Serve(s) PROVE Inv'
  BY <1>2, PutUserSocketInv, FindUserInv, GetUserInv, PutUserInv, AddSocketInv, PutInv,
     FindListenerInv, PutListenerInv, RemoveInv, ListInv, ListedInv, ReplyInv, RepliedInv,
     LeaveInv, FindUserSocketInv, RemoveSocketInv, RemoveUserSocketInv DEF Serve
<1>3. ASSUME NEW d \in Device, Push(d) \/ Tell(d) PROVE Inv'
  BY <1>3, PushInv, PushNextInv, PushedInv, PushEndsInv DEF Tell
<1>4. CASE UNCHANGED vars
  BY <1>4 DEF vars, handler, registry, topics, Inv, TypeOK, WorkInv, Listener
<1>5. QED
  BY <1>1, <1>2, <1>3, <1>4 DEF Next

LEMMA Invariant == Spec => []Inv
<1>1. QED
  BY InitInv, NextInv, PTL DEF Spec

\* Every variable has its type, and no id has two listeners at a device
\* (DefaultSocketHandler.java:81-223, DefaultSubscriptionManager.java:44-90).
THEOREM Typing == Spec => []TypeOK
<1>1. Inv => TypeOK
  BY DEF Inv
<1>2. QED
  BY <1>1, Invariant, PTL

-----------------------------------------------------------------------------
(* The registries                                                          *)

Early == {"new", "putUserSocket", "findUser", "getUser", "putUser"}

\* Nobody knows a ConnectedUser before its creator has put it.
FreshInv ==
    \A u \in Session : at[u] \in Early =>
        /\ connectedUser # u /\ sockets[u] = {}
        /\ \A t \in Session \ {u} : user[t] # u

\* A session that leaves has been found in the ConnectedUser of now, or is not in it.
PresenceAt(s) ==
    /\ at[s] \in (Served \cup Connecting \cup Leaving) \ {"putUserSocket"} => s \in userSockets
    /\ at[s] = "gone" => s \notin userSockets
    /\ at[s] = "removeSocket" =>
         user[s] = connectedUser \/ s \notin sockets[connectedUser]
    /\ at[s] \in {"removeUserSocket", "gone"} /\ connectedUser # Nobody =>
         s \notin sockets[connectedUser]

PresenceInv == ~lost => \A s \in Session : PresenceAt(s)

\* The list of sessions loses nothing.
SessionsInv ==
    \A s \in Session :
        /\ at[s] \in Served \cup Connecting => s \in sessions
        /\ at[s] \in Leaving \cup {"gone"} => s \notin sessions

RegistryInv == FreshInv /\ PresenceInv

LEMMA InitRegistry == Init => RegistryInv
BY NobodyAssumption
   DEF Init, RegistryInv, FreshInv, PresenceInv, PresenceAt, Served, Connecting, Leaving,
       Early, Step

\* A step that leaves the users alone, of a thread that was early before if it is now
LEMMA FreshKept ==
    ASSUME NEW s \in Session, FreshInv, UNCHANGED <<connectedUser, sockets, user>>,
           \A t \in Session \ {s} : at'[t] = at[t], at'[s] \in Early => at[s] \in Early
    PROVE  FreshInv'
BY DEF FreshInv

\* The other sessions are where they were.
LEMMA PresenceKept ==
    ASSUME NEW s \in Session, PresenceInv, UNCHANGED <<connectedUser, sockets>>,
           \A t \in Session \ {s} : at'[t] = at[t] /\ user'[t] = user[t],
           ~lost' => /\ ~lost /\ PresenceAt(s)'
                     /\ sessions' \ {s} = sessions \ {s}
                     /\ userSockets' \ {s} = userSockets \ {s}
    PROVE  PresenceInv'
<1> SUFFICES ASSUME ~lost' PROVE PresenceInv'
  BY DEF PresenceInv
<1>1. /\ PresenceAt(s)' /\ \A t \in Session : PresenceAt(t)
      /\ sessions' \ {s} = sessions \ {s} /\ userSockets' \ {s} = userSockets \ {s}
  BY DEF PresenceInv
<1>2. ASSUME NEW t \in Session \ {s} PROVE PresenceAt(t)'
  <2>1. PresenceAt(t) /\ at'[t] = at[t] /\ user'[t] = user[t]
    BY <1>1
  <2>2. (t \in sessions' <=> t \in sessions) /\ (t \in userSockets' <=> t \in userSockets)
    BY <1>1
  <2>3. QED
    BY <2>1, <2>2 DEF PresenceAt
<1>3. QED
  BY <1>1, <1>2 DEF PresenceInv

\* Messages and what answers them leave the registries alone.
LEMMA MessagesApart ==
    ASSUME NEW s \in Session, Inv,
           \/ Message(s) \/ Put(s) \/ FindListener(s) \/ PutListener(s) \/ Remove(s)
           \/ List(s) \/ Listed(s) \/ Reply(s) \/ Replied(s)
    PROVE  /\ at[s] \in Served /\ Moved(s, Served) /\ UNCHANGED <<registry, user>>
           /\ lost => lost'
<1>1. Served = {"idle", "put", "findListener", "putListener", "remove", "list", "listing",
                "reply", "replying"}
  BY DEF Served, Step, Connecting, Leaving
<1>2. CASE Message(s)
  BY <1>1, <1>2, MessageMoves DEF Message, Moved
<1>3. CASE List(s) \/ Listed(s) \/ Reply(s) \/ Replied(s)
  BY <1>1, <1>3, ListMoves, ListedMoves, ReplyMoves, RepliedMoves
     DEF List, Listed, Reply, Replied, Moved
<1>4. CASE Put(s)
  BY <1>1, <1>4, PutMoves DEF Put, Moved
<1>5. CASE FindListener(s)
  BY <1>1, <1>5, FindListenerMoves DEF FindListener, Moved
<1>6. CASE PutListener(s) \/ Remove(s)
  BY <1>1, <1>6, PutListenerMoves, RemoveMoves DEF PutListener, Remove, Moved
<1>7. QED
  BY <1>2, <1>3, <1>4, <1>5, <1>6

LEMMA MessagesRegistry ==
    ASSUME NEW s \in Session, Inv, RegistryInv,
           \/ Message(s) \/ Put(s) \/ FindListener(s) \/ PutListener(s) \/ Remove(s)
           \/ List(s) \/ Listed(s) \/ Reply(s) \/ Replied(s)
    PROVE  RegistryInv'
<1>1. /\ at[s] \in Served /\ at'[s] \in Served /\ UNCHANGED <<registry, user>>
      /\ \A t \in Session \ {s} : at'[t] = at[t]
      /\ lost => lost'
  BY MessagesApart DEF Moved
<1>2. FreshInv'
  <2>1. at'[s] \notin Early
    BY <1>1 DEF Served, Connecting, Leaving, Early
  <2>2. QED
    BY <1>1, <2>1, FreshKept DEF registry, RegistryInv
<1>3. ~lost => PresenceAt(s)'
  <2> SUFFICES ASSUME ~lost PROVE PresenceAt(s)'
    OBVIOUS
  <2>1. s \in userSockets
    BY <1>1 DEF RegistryInv, PresenceInv, PresenceAt, Served, Connecting, Leaving
  <2>2. QED
    BY <1>1, <2>1 DEF registry, PresenceAt, Served, Leaving
<1>4. PresenceInv'
  BY <1>1, <1>3, PresenceKept DEF registry, RegistryInv
<1>5. QED
  BY <1>2, <1>4 DEF RegistryInv

LEMMA ConnectRegistry ==
    ASSUME NEW s \in Session, Inv, RegistryInv, Connect(s) PROVE RegistryInv'
<1>1. /\ at[s] = "new" /\ at'[s] = "putUserSocket" /\ lost' = lost
      /\ \A t \in Session \ {s} : at'[t] = at[t]
      /\ sessions' = sessions \cup {s}
      /\ UNCHANGED <<userSockets, connectedUser, sockets, user>>
  BY ConnectMoves DEF Connect, Moved
<1>2. FreshInv'
  BY <1>1, FreshKept DEF RegistryInv, Early
<1>3. PresenceAt(s)'
  BY <1>1 DEF PresenceAt, Served, Step, Connecting, Leaving
<1>4. PresenceInv'
  BY <1>1, <1>3, PresenceKept DEF RegistryInv
<1>5. QED
  BY <1>2, <1>4 DEF RegistryInv

LEMMA PutUserSocketRegistry ==
    ASSUME NEW s \in Session, Inv, RegistryInv, PutUserSocket(s) PROVE RegistryInv'
<1>1. /\ at[s] = "putUserSocket" /\ at'[s] = "findUser"
      /\ \A t \in Session \ {s} : at'[t] = at[t]
      /\ ~lost' => ~lost /\ userSockets' = userSockets \cup {s}
      /\ UNCHANGED <<sessions, connectedUser, sockets, user>>
  BY PutUserSocketMoves DEF PutUserSocket, Moved
<1>2. FreshInv'
  BY <1>1, FreshKept DEF RegistryInv, Early
<1>3. ~lost' => PresenceAt(s)'
  BY <1>1 DEF RegistryInv, PresenceInv, PresenceAt, Served, Step, Connecting, Leaving
<1>4. PresenceInv'
  BY <1>1, <1>3, PresenceKept DEF RegistryInv
<1>5. QED
  BY <1>2, <1>4 DEF RegistryInv

LEMMA FindUserRegistry ==
    ASSUME NEW s \in Session, Inv, RegistryInv, FindUser(s) PROVE RegistryInv'
<1>1. user'[s] \in {s, connectedUser} /\ \A t \in Session \ {s} : user'[t] = user[t]
  BY DEF FindUser, Inv, TypeOK
<1>2. FreshInv'
  <2> SUFFICES ASSUME NEW u \in Session, at'[u] \in Early
               PROVE  /\ connectedUser' # u /\ sockets'[u] = {}
                      /\ \A t \in Session \ {u} : user'[t] # u
    BY DEF FreshInv
  <2>1. at[u] \in Early
    BY FindUserMoves DEF FindUser, Moved, Early
  <2>2. connectedUser # u /\ sockets[u] = {} /\ \A t \in Session \ {u} : user[t] # u
    BY <2>1 DEF RegistryInv, FreshInv
  <2>3. QED
    BY <1>1, <2>2 DEF FindUser, registry
<1>3. PresenceInv'
  <2>1. /\ at[s] = "findUser" /\ at'[s] \in {"putUser", "getUser"} /\ lost' = lost
        /\ \A t \in Session \ {s} : at'[t] = at[t]
        /\ UNCHANGED <<sessions, userSockets, connectedUser, sockets>>
    BY FindUserMoves DEF FindUser, Moved, registry
  <2>2. ~lost => PresenceAt(s)'
    BY <2>1 DEF RegistryInv, PresenceInv, PresenceAt, Served, Step, Connecting, Leaving
  <2>3. QED
    BY <1>1, <2>1, <2>2, PresenceKept DEF RegistryInv
<1>4. QED
  BY <1>2, <1>3 DEF RegistryInv

LEMMA GetUserRegistry ==
    ASSUME NEW s \in Session, Inv, RegistryInv, GetUser(s) PROVE RegistryInv'
<1>1. user'[s] = connectedUser /\ \A t \in Session \ {s} : user'[t] = user[t]
  BY DEF GetUser, Inv, TypeOK
<1>2. FreshInv'
  <2> SUFFICES ASSUME NEW u \in Session, at'[u] \in Early
               PROVE  /\ connectedUser' # u /\ sockets'[u] = {}
                      /\ \A t \in Session \ {u} : user'[t] # u
    BY DEF FreshInv
  <2>1. at[u] \in Early
    BY GetUserMoves DEF GetUser, Moved, Early
  <2>2. connectedUser # u /\ sockets[u] = {} /\ \A t \in Session \ {u} : user[t] # u
    BY <2>1 DEF RegistryInv, FreshInv
  <2>3. QED
    BY <1>1, <2>2 DEF GetUser, registry
<1>3. PresenceInv'
  <2>1. /\ at[s] = "getUser" /\ at'[s] = "addSocket" /\ lost' = lost
        /\ \A t \in Session \ {s} : at'[t] = at[t]
        /\ UNCHANGED <<sessions, userSockets, connectedUser, sockets>>
    BY GetUserMoves DEF GetUser, Moved, registry
  <2>2. ~lost => PresenceAt(s)'
    BY <2>1 DEF RegistryInv, PresenceInv, PresenceAt, Served, Step, Connecting, Leaving
  <2>3. QED
    BY <1>1, <2>1, <2>2, PresenceKept DEF RegistryInv
<1>4. QED
  BY <1>2, <1>3 DEF RegistryInv

LEMMA PutUserRegistry ==
    ASSUME NEW s \in Session, Inv, RegistryInv, PutUser(s) PROVE RegistryInv'
<1>1. sockets[s] = {}
  BY DEF PutUser, RegistryInv, FreshInv, Early
<1>2. FreshInv'
  BY PutUserMoves DEF PutUser, Moved, RegistryInv, FreshInv, Early
<1>3. PresenceInv'
  BY <1>1, PutUserMoves
     DEF PutUser, Moved, RegistryInv, PresenceInv, PresenceAt, Served, Step, Connecting, Leaving
<1>4. QED
  BY <1>2, <1>3 DEF RegistryInv

LEMMA AddSocketRegistry ==
    ASSUME NEW s \in Session, Inv, RegistryInv, AddSocket(s) PROVE RegistryInv'
<1>1. user[s] \in Session /\ connectedUser \in Session
  BY DEF AddSocket, Inv, WorkInv, Finding
<1>2. /\ \A u \in Session \ {user[s]} : sockets'[u] = sockets[u]
      /\ ~lost' => ~lost /\ sockets'[user[s]] = sockets[user[s]] \cup {s}
  BY <1>1 DEF AddSocket, Inv, TypeOK
<1>3. /\ user' \in [Session -> Session \cup {Nobody}] /\ user'[s] = Nobody
      /\ \A t \in Session \ {s} : user'[t] = user[t]
  BY DEF AddSocket, Inv, TypeOK
<1>4. FreshInv'
  <2> SUFFICES ASSUME NEW u \in Session, at'[u] \in Early
               PROVE  /\ connectedUser' # u /\ sockets'[u] = {}
                      /\ \A t \in Session \ {u} : user'[t] # u
    BY DEF FreshInv
  <2>1. u # s /\ at[u] \in Early
    BY AddSocketMoves DEF Moved, Early
  <2>2. connectedUser # u /\ sockets[u] = {} /\ \A t \in Session \ {u} : user[t] # u
    BY <2>1 DEF RegistryInv, FreshInv
  <2>3. QED
    BY <1>2, <1>3, <2>1, <2>2, NobodyAssumption DEF AddSocket
<1>5. PresenceInv'
  <2> SUFFICES ASSUME ~lost' PROVE PresenceInv'
    BY DEF PresenceInv
  <2>1. \A t \in Session \ {s} : t \notin sockets[connectedUser] => t \notin sockets'[connectedUser]
    BY <1>1, <1>2
  <2>2. /\ UNCHANGED <<sessions, userSockets, connectedUser>> /\ ~lost
        /\ at[s] = "addSocket" /\ at'[s] = "idle"
        /\ \A t \in Session \ {s} : at'[t] = at[t] /\ user'[t] = user[t]
    BY <1>2, <1>3, AddSocketMoves DEF AddSocket, Moved
  <2>3. PresenceInv
    BY DEF RegistryInv
  <2>4. ASSUME NEW t \in Session \ {s} PROVE PresenceAt(t)'
    BY <2>1, <2>2, <2>3 DEF PresenceInv, PresenceAt
  <2>5. PresenceAt(s)'
    BY <1>1, <1>2, <2>2, <2>3
       DEF PresenceInv, PresenceAt, Served, Step, Connecting, Leaving
  <2>6. QED
    BY <2>4, <2>5 DEF PresenceInv
<1>6. QED
  BY <1>4, <1>5 DEF RegistryInv

LEMMA LeaveRegistry ==
    ASSUME NEW s \in Session, Inv, RegistryInv, Leave(s) PROVE RegistryInv'
<1>1. /\ at[s] = "idle" /\ at'[s] = "leaving" /\ lost' = lost
      /\ \A t \in Session \ {s} : at'[t] = at[t]
      /\ sessions' = sessions \ {s}
      /\ UNCHANGED <<userSockets, connectedUser, sockets, user>>
  BY LeaveMoves DEF Leave, Moved
<1>2. FreshInv'
  BY <1>1, FreshKept DEF RegistryInv, Early
<1>3. ~lost => PresenceAt(s)'
  BY <1>1 DEF RegistryInv, PresenceInv, PresenceAt, Served, Step, Connecting, Leaving
<1>4. PresenceInv'
  BY <1>1, <1>3, PresenceKept DEF RegistryInv
<1>5. QED
  BY <1>2, <1>4 DEF RegistryInv

LEMMA FindUserSocketRegistry ==
    ASSUME NEW s \in Session, Inv, RegistryInv, FindUserSocket(s) PROVE RegistryInv'
<1>1. /\ \A t \in Session \ {s} : user'[t] = user[t]
      /\ at'[s] = "removeSocket" => user'[s] = connectedUser
      /\ user'[s] \in {Nobody, connectedUser}
      /\ lost => lost'
      /\ at'[s] = "gone" => s \notin userSockets \/ lost'
  BY FindUserSocketMoves DEF FindUserSocket, Moved, Inv, TypeOK, Write
<1>2. FreshInv'
  <2> SUFFICES ASSUME NEW u \in Session, at'[u] \in Early
               PROVE  /\ connectedUser' # u /\ sockets'[u] = {}
                      /\ \A t \in Session \ {u} : user'[t] # u
    BY DEF FreshInv
  <2>1. u # s /\ at[u] \in Early
    BY FindUserSocketMoves DEF Moved, Early
  <2>2. connectedUser # u /\ sockets[u] = {} /\ \A t \in Session \ {u} : user[t] # u
    BY <2>1 DEF RegistryInv, FreshInv
  <2>3. QED
    BY <1>1, <2>1, <2>2, NobodyAssumption DEF FindUserSocket, registry
<1>3. at[s] = "leaving" /\ UNCHANGED registry
  BY DEF FindUserSocket
<1>4. PresenceInv'
  BY <1>1, <1>3, FindUserSocketMoves
     DEF Moved, registry, RegistryInv, PresenceInv, PresenceAt, Served, Step, Connecting, Leaving
<1>5. QED
  BY <1>2, <1>4 DEF RegistryInv

LEMMA RemoveSocketRegistry ==
    ASSUME NEW s \in Session, Inv, RegistryInv, RemoveSocket(s) PROVE RegistryInv'
<1>1. user[s] \in Session /\ connectedUser \in Session
  BY DEF RemoveSocket, Inv, WorkInv, Finding
<1>2. /\ \A u \in Session \ {user[s]} : sockets'[u] = sockets[u]
      /\ ~lost' => /\ ~lost /\ sockets'[user[s]] = sockets[user[s]] \ {s}
                   /\ at'[s] = "removeUserSocket"
  <2>1. PICK result \in Outcome(s, sockets[user[s]], sockets[user[s]] \ {s}) :
           /\ sockets' = [sockets EXCEPT ![user[s]] = result]
           /\ \/ /\ Write(s, "removeUserSocket", UserSockets)
                 /\ lost' = (lost \/ result # sockets[user[s]] \ {s})
              \/ s \in overlapped /\ Goto(s, "gone") /\ lost' = TRUE
    BY DEF RemoveSocket
  <2>2. Write(s, "removeUserSocket", UserSockets) => at'[s] = "removeUserSocket"
    BY DEF Write, Inv, TypeOK
  <2>3. QED
    BY <1>1, <2>1, <2>2 DEF Inv, TypeOK
<1>3. /\ user' \in [Session -> Session \cup {Nobody}] /\ user'[s] = Nobody
      /\ \A t \in Session \ {s} : user'[t] = user[t]
  BY DEF RemoveSocket, Inv, TypeOK
<1>4. FreshInv'
  <2> SUFFICES ASSUME NEW u \in Session, at'[u] \in Early
               PROVE  /\ connectedUser' # u /\ sockets'[u] = {}
                      /\ \A t \in Session \ {u} : user'[t] # u
    BY DEF FreshInv
  <2>1. u # s /\ at[u] \in Early
    BY RemoveSocketMoves DEF Moved, Early
  <2>2. connectedUser # u /\ sockets[u] = {} /\ \A t \in Session \ {u} : user[t] # u
    BY <2>1 DEF RegistryInv, FreshInv
  <2>3. QED
    BY <1>2, <1>3, <2>1, <2>2, NobodyAssumption DEF RemoveSocket
<1>5. PresenceInv'
  <2> SUFFICES ASSUME ~lost' PROVE PresenceInv'
    BY DEF PresenceInv
  <2>1. \A t \in Session \ {s} : t \notin sockets[connectedUser] => t \notin sockets'[connectedUser]
    BY <1>1, <1>2
  <2>2. /\ UNCHANGED <<sessions, userSockets, connectedUser>> /\ ~lost
        /\ at[s] = "removeSocket" /\ at'[s] = "removeUserSocket"
        /\ \A t \in Session \ {s} : at'[t] = at[t] /\ user'[t] = user[t]
    BY <1>2, <1>3, RemoveSocketMoves DEF RemoveSocket, Moved
  <2>3. PresenceInv
    BY DEF RegistryInv
  <2>4. ASSUME NEW t \in Session \ {s} PROVE PresenceAt(t)'
    BY <2>1, <2>2, <2>3 DEF PresenceInv, PresenceAt
  <2>5. PresenceAt(s)'
    BY <1>1, <1>2, <2>2, <2>3
       DEF PresenceInv, PresenceAt, Served, Step, Connecting, Leaving
  <2>6. QED
    BY <2>4, <2>5 DEF PresenceInv
<1>6. QED
  BY <1>4, <1>5 DEF RegistryInv

LEMMA RemoveUserSocketRegistry ==
    ASSUME NEW s \in Session, Inv, RegistryInv, RemoveUserSocket(s) PROVE RegistryInv'
<1>1. /\ at[s] = "removeUserSocket" /\ at'[s] = "gone"
      /\ \A t \in Session \ {s} : at'[t] = at[t]
      /\ ~lost' => ~lost /\ userSockets' = userSockets \ {s}
      /\ UNCHANGED <<sessions, connectedUser, sockets, user>>
  BY RemoveUserSocketMoves DEF RemoveUserSocket, Moved
<1>2. FreshInv'
  BY <1>1, FreshKept DEF RegistryInv, Early
<1>3. ~lost' => PresenceAt(s)'
  BY <1>1 DEF RegistryInv, PresenceInv, PresenceAt, Served, Step, Connecting, Leaving
<1>4. PresenceInv'
  BY <1>1, <1>3, PresenceKept DEF RegistryInv
<1>5. QED
  BY <1>2, <1>4 DEF RegistryInv

LEMMA NextRegistry == Inv /\ RegistryInv /\ [Next]_vars => RegistryInv'
<1> SUFFICES ASSUME Inv, RegistryInv, [Next]_vars PROVE RegistryInv'
  OBVIOUS
<1>1. ASSUME NEW s \in Session, Connect(s) \/ Message(s) \/ Serve(s) PROVE RegistryInv'
  BY <1>1, ConnectRegistry, PutUserSocketRegistry, FindUserRegistry, GetUserRegistry,
     PutUserRegistry, AddSocketRegistry, MessagesRegistry, LeaveRegistry,
     FindUserSocketRegistry, RemoveSocketRegistry, RemoveUserSocketRegistry DEF Serve
<1>2. ASSUME NEW s \in Session, BrowserLeaves(s) PROVE RegistryInv'
  BY <1>2 DEF BrowserLeaves, registry, RegistryInv, FreshInv, PresenceInv, PresenceAt
<1>3. ASSUME NEW d \in Device, Push(d) \/ Tell(d) PROVE RegistryInv'
  BY <1>3 DEF Push, Tell, PushNext, Pushed, PushEnds, handler, registry, RegistryInv,
     FreshInv, PresenceInv, PresenceAt
<1>4. CASE UNCHANGED vars
  BY <1>4 DEF vars, handler, registry, RegistryInv, FreshInv, PresenceInv, PresenceAt
<1>5. QED
  BY <1>1, <1>2, <1>3, <1>4 DEF Next

LEMMA InitSessions == Init => SessionsInv
BY DEF Init, SessionsInv, Served, Connecting, Leaving, Step

\* A thread only leaves the list in Leave, and only enters it in Connect.
LEMMA SessionsKept ==
    ASSUME NEW s \in Session, SessionsInv, \A t \in Session \ {s} : at'[t] = at[t],
           sessions' = sessions,
           \/ at[s] \in Served \cup Connecting /\ at'[s] \in Served \cup Connecting
           \/ at[s] \in Leaving /\ at'[s] \in Leaving \cup {"gone"}
    PROVE  SessionsInv'
<1>1. \A k \in Served \cup Connecting : k \notin Leaving \cup {"gone"}
  BY DEF Served, Connecting, Leaving, Step
<1> QED BY <1>1 DEF SessionsInv

LEMMA NextSessions == Inv /\ SessionsInv /\ [Next]_vars => SessionsInv'
<1> SUFFICES ASSUME Inv, SessionsInv, [Next]_vars PROVE SessionsInv'
  OBVIOUS
<1>0. /\ Connecting = {"putUserSocket", "findUser", "getUser", "putUser", "addSocket"}
      /\ Leaving = {"leaving", "removeSocket", "removeUserSocket"}
      /\ Served = {"idle", "put", "findListener", "putListener", "remove", "list", "listing",
                   "reply", "replying"}
  BY DEF Served, Step, Connecting, Leaving
<1>1. ASSUME NEW s \in Session, Connect(s) PROVE SessionsInv'
  <2>1. /\ at'[s] = "putUserSocket" /\ sessions' = sessions \cup {s}
        /\ \A t \in Session \ {s} : at'[t] = at[t]
    BY <1>1, ConnectMoves DEF Connect, Moved
  <2> QED BY <1>0, <2>1 DEF SessionsInv
<1>2. ASSUME NEW s \in Session, Leave(s) PROVE SessionsInv'
  <2>1. /\ at'[s] = "leaving" /\ sessions' = sessions \ {s}
        /\ \A t \in Session \ {s} : at'[t] = at[t]
    BY <1>2, LeaveMoves DEF Leave, Moved
  <2> QED BY <1>0, <2>1 DEF SessionsInv
<1>3. ASSUME NEW s \in Session,
             \/ PutUserSocket(s) \/ FindUser(s) \/ GetUser(s) \/ PutUser(s) \/ AddSocket(s)
      PROVE  SessionsInv'
  <2>1. /\ at[s] \in Connecting /\ at'[s] \in Connecting \cup {"idle"}
        /\ sessions' = sessions /\ \A t \in Session \ {s} : at'[t] = at[t]
    BY <1>0, <1>3, PutUserSocketMoves, FindUserMoves, GetUserMoves, PutUserMoves, AddSocketMoves
       DEF PutUserSocket, FindUser, GetUser, PutUser, AddSocket, Moved, registry
  <2> QED BY <1>0, <2>1, SessionsKept
<1>4. ASSUME NEW s \in Session,
             \/ Message(s) \/ Put(s) \/ FindListener(s) \/ PutListener(s) \/ Remove(s)
             \/ List(s) \/ Listed(s) \/ Reply(s) \/ Replied(s)
      PROVE  SessionsInv'
  <2>1. /\ at[s] \in Served /\ at'[s] \in Served /\ sessions' = sessions
        /\ \A t \in Session \ {s} : at'[t] = at[t]
    BY <1>4, MessagesApart DEF Moved, registry
  <2> QED BY <2>1, SessionsKept
<1>5. ASSUME NEW s \in Session, FindUserSocket(s) \/ RemoveSocket(s) \/ RemoveUserSocket(s)
      PROVE  SessionsInv'
  <2>1. /\ at[s] \in Leaving /\ at'[s] \in Leaving \cup {"gone"}
        /\ sessions' = sessions /\ \A t \in Session \ {s} : at'[t] = at[t]
    BY <1>0, <1>5, FindUserSocketMoves, RemoveSocketMoves, RemoveUserSocketMoves
       DEF FindUserSocket, RemoveSocket, RemoveUserSocket, Moved, registry
  <2> QED BY <2>1, SessionsKept
<1>6. ASSUME UNCHANGED <<at, sessions>> PROVE SessionsInv'
  BY <1>6 DEF SessionsInv
<1>7. ASSUME NEW s \in Session, BrowserLeaves(s) PROVE SessionsInv'
  BY <1>6, <1>7 DEF BrowserLeaves, registry
<1>8. ASSUME NEW d \in Device, Push(d) \/ Tell(d) PROVE SessionsInv'
  BY <1>6, <1>8 DEF Push, Tell, PushNext, Pushed, PushEnds, handler, registry
<1>9. CASE UNCHANGED vars
  BY <1>6, <1>9 DEF vars, handler, registry
<1> QED
  BY <1>1, <1>2, <1>3, <1>4, <1>5, <1>7, <1>8, <1>9 DEF Next, Serve

\* For any number of sessions that come and go at once, the handler's list knows those it
\* serves and forgets those that are gone, in every interleaving.  The maps of sockets do so
\* until a write to one of them that overlaps another one is lost, or a lookup meanwhile
\* misses an entry; nothing is claimed of them from then on
\* (DefaultSocketHandler.java:196-223, UserSocketManager.java:31-69).
THEOREM RegistriesAgree == Spec => []RegistryAgrees
<1>1. RegistryInv /\ SessionsInv => RegistryAgrees
  BY DEF RegistryInv, PresenceInv, PresenceAt, SessionsInv, RegistryAgrees, Served, Connecting,
         Leaving
<1>2. QED
  BY <1>1, InitRegistry, NextRegistry, InitSessions, NextSessions, Invariant, PTL DEF Spec
-----------------------------------------------------------------------------
(* Subscriptions and listeners                                             *)

\* A browser can only have subscribed to what names a device.
SubscribedInv ==
    SubscribedIsHeard /\ \A p \in subscribers : Target[p[2]] \in Device

LEMMA InitSubscribed == Init => SubscribedInv
BY DEF Init, SubscribedInv, SubscribedIsHeard, ListedIsHeard

LEMMA PutSubscribed ==
    ASSUME NEW s \in Session, Inv, SubscribedInv, Put(s) PROVE SubscribedInv'
<1>1. /\ ~lostTopic' => ~lostTopic /\ subscriptions' = subscriptions \cup {id[s]}
      /\ listeners' = listeners /\ subscribers' = subscribers
  BY DEF Put
<1>2. \A t \in Session \ {s} : at'[t] = at[t] /\ id'[t] = id[t]
  <2>1. CASE Target[id[s]] \in Device
    BY <2>1, PutMoves DEF Put, Moved
  <2>2. CASE Target[id[s]] \notin Device
    BY <2>2, PutMoves, HandledMoves DEF Put, Moved, Inv
  <2>3. QED
    BY <2>1, <2>2
<1>3. Target[id[s]] \in Device => at'[s] = "findListener" /\ id'[s] = id[s]
  BY DEF Put, Goto, Inv, TypeOK
<1>4. at[s] = "put"
  BY DEF Put
<1>5. ~lostTopic' => ListedIsHeard'
  BY <1>1, <1>2, <1>3, <1>4 DEF SubscribedInv, SubscribedIsHeard, ListedIsHeard, Heard
<1> QED
  BY <1>1, <1>5 DEF SubscribedInv, SubscribedIsHeard, Heard

LEMMA FindListenerSubscribed ==
    ASSUME NEW s \in Session, Inv, SubscribedInv, FindListener(s) PROVE SubscribedInv'
<1>0. id[s] \in Id /\ Target[id[s]] \in Device
  BY DEF FindListener, Inv, WorkInv, OfMessage, Asking
<1>1. UNCHANGED <<lostTopic, subscriptions, listeners>>
  BY DEF FindListener
<1>2. \A t \in Session \ {s} : at'[t] = at[t] /\ id'[t] = id[t]
  BY <1>0, FindListenerMoves, SubscribedMoves DEF FindListener, Moved, Inv
<1>3. \/ at'[s] = "putListener" /\ id'[s] = id[s] /\ subscribers' = subscribers
      \/ /\ id[s] \in Heard(Target[id[s]])
         /\ subscribers' = subscribers \cup {<<s, id[s]>>}
  BY DEF FindListener, Subscribed, Write, Inv, TypeOK
<1>4. ~lostTopic' => ListedIsHeard'
  BY <1>1, <1>2, <1>3 DEF SubscribedInv, SubscribedIsHeard, ListedIsHeard, Heard
<1> QED
  BY <1>0, <1>1, <1>3, <1>4 DEF SubscribedInv, SubscribedIsHeard, Heard

LEMMA PutListenerSubscribed ==
    ASSUME NEW s \in Session, Inv, SubscribedInv, PutListener(s) PROVE SubscribedInv'
<1> DEFINE D == Target[id[s]]
           new == [id |-> id[s], session |-> s]
           after == {l \in listeners[D] : l.id # id[s]} \cup {new}
<1>1. D \in Device /\ id[s] \in Id
  BY DEF PutListener, Inv, WorkInv, OfMessage, Asking
<1>2. PICK result \in Outcome(s, listeners[D], after) :
         /\ listeners' = [listeners EXCEPT ![D] = result]
         /\ lostTopic' = (lostTopic \/ result # after)
  BY DEF PutListener
<1>3. /\ listeners'[D] = result /\ \A d \in Device \ {D} : listeners'[d] = listeners[d]
      /\ ~lostTopic' => ~lostTopic /\ listeners'[D] = after
  BY <1>1, <1>2 DEF Inv, TypeOK
<1>4. /\ after = {l \in listeners[D] : l.id # id[s]} \cup {new}
      /\ new.id = id[s] /\ new.session = s
  OBVIOUS
<1>5. ASSUME ~lostTopic', NEW d \in Device, NEW i \in Heard(d) \cup {id[s]}, i = id[s] => d = D
      PROVE  i \in Heard(d)'
  <2> HIDE DEF D, after, new
  <2>1. CASE i = id[s]
    BY <1>3, <1>4, <1>5, <2>1 DEF Heard
  <2>2. CASE i # id[s]
    <3>1. PICK l \in listeners[d] : l.id = i
      BY <2>2 DEF Heard
    <3>2. l \in listeners'[d]
      BY <1>3, <1>4, <1>5, <2>2, <3>1
    <3>3. QED
      BY <3>1, <3>2 DEF Heard
  <2>3. QED
    BY <2>1, <2>2
<1>6. \A t \in Session \ {s} : at'[t] = at[t] /\ id'[t] = id[t]
  BY PutListenerMoves DEF Moved
<1>7. subscriptions' = subscriptions /\ subscribers' = subscribers \cup {<<s, id[s]>>}
  BY DEF PutListener, Subscribed
<1>8. ASSUME ~lostTopic', NEW i \in subscriptions, Target[i] \in Device
      PROVE  \/ i \in Heard(Target[i])'
             \/ \E t \in Session : id'[t] = i /\ at'[t] \in {"findListener", "putListener"}
  <2>1. \/ i \in Heard(Target[i]) \/ i = id[s]
        \/ \E t \in Session \ {s} : id[t] = i /\ at[t] \in {"findListener", "putListener"}
    BY <1>3, <1>8 DEF SubscribedInv, SubscribedIsHeard, ListedIsHeard
  <2>2. CASE i \in Heard(Target[i]) \/ i = id[s]
    BY <1>5, <1>8, <2>2
  <2> QED BY <1>6, <2>1, <2>2
<1>9. ASSUME ~lostTopic', NEW p \in subscribers' PROVE p[2] \in Heard(Target[p[2]])'
  <2>1. CASE p \in subscribers
    <3>1. Target[p[2]] \in Device /\ p[2] \in Heard(Target[p[2]])
      BY <1>3, <1>9, <2>1 DEF SubscribedInv, SubscribedIsHeard
    <3> QED BY <1>5, <1>9, <3>1
  <2>2. CASE p = <<s, id[s]>>
    BY <1>1, <1>5, <1>9, <2>2
  <2> QED BY <1>7, <1>9, <2>1, <2>2
<1>10. ASSUME NEW d \in Device, NEW l \in listeners'[d] PROVE <<l.session, l.id>> \in subscribers'
  <2>1. l \in listeners[d] \/ l = new
    <3>1. result \subseteq listeners[D] \cup {new}
      <4>1. listeners[D] \subseteq listeners[D] \cup {new} /\ after \subseteq listeners[D] \cup {new}
        OBVIOUS
      <4> HIDE DEF D, after, new
      <4> QED BY <1>2, <4>1, OutcomeSubset
    <3> HIDE DEF D, after, new
    <3> QED BY <1>3, <1>10, <3>1
  <2> HIDE DEF new, after, D
  <2> QED BY <1>4, <1>7, <2>1 DEF SubscribedInv, SubscribedIsHeard
<1>11. \A p \in subscribers' : Target[p[2]] \in Device
  BY <1>1, <1>7 DEF SubscribedInv
<1> HIDE DEF D, new, after
<1> QED
  BY <1>7, <1>8, <1>9, <1>10, <1>11 DEF SubscribedInv, SubscribedIsHeard, ListedIsHeard

\* Nothing else puts a subscription on the list, drops a listener or ends a message
\* in between.
LEMMA OthersSubscribed ==
    ASSUME Inv, SubscribedInv, lostTopic => lostTopic', subscribers' = subscribers,
           \A d \in Device : listeners'[d] = listeners[d],
           subscriptions' \subseteq subscriptions \/ lostTopic',
           \A t \in Session : at[t] \in {"findListener", "putListener"} =>
                                 at'[t] = at[t] /\ id'[t] = id[t]
    PROVE  SubscribedInv'
BY DEF SubscribedInv, SubscribedIsHeard, ListedIsHeard, Heard

LEMMA NextSubscribed == Inv /\ SubscribedInv /\ [Next]_vars => SubscribedInv'
<1> SUFFICES ASSUME Inv, SubscribedInv, [Next]_vars PROVE SubscribedInv'
  OBVIOUS
<1>1. ASSUME NEW s \in Session, Put(s) \/ FindListener(s) \/ PutListener(s)
      PROVE  SubscribedInv'
  BY <1>1, PutSubscribed, FindListenerSubscribed, PutListenerSubscribed
<1>2. ASSUME NEW s \in Session, Remove(s) PROVE SubscribedInv'
  <2>1. lostTopic => lostTopic'
    BY <1>2 DEF Remove
  <2>2. subscriptions' \subseteq subscriptions \/ lostTopic'
    BY <1>2 DEF Remove
  <2>3. \A t \in Session \ {s} : at'[t] = at[t] /\ id'[t] = id[t]
    BY <1>2, RemoveMoves, HandledMoves DEF Remove, Moved, Inv
  <2>4. QED
    BY <1>2, <2>1, <2>2, <2>3, OthersSubscribed DEF Remove
<1>3. ASSUME NEW s \in Session, Message(s) PROVE SubscribedInv'
  <2>1. \A t \in Session \ {s} : at'[t] = at[t] /\ id'[t] = id[t]
    BY <1>3, MessageMoves DEF Message, Moved, Inv, TypeOK
  <2>2. QED
    BY <1>3, <2>1, OthersSubscribed DEF Message, topics
<1>4. ASSUME NEW s \in Session,
             \/ Connect(s) \/ PutUserSocket(s) \/ FindUser(s) \/ GetUser(s) \/ PutUser(s)
             \/ AddSocket(s) \/ List(s) \/ Listed(s) \/ Reply(s) \/ Replied(s) \/ Leave(s)
             \/ FindUserSocket(s) \/ RemoveSocket(s) \/ RemoveUserSocket(s)
      PROVE  SubscribedInv'
  <2>1. (\A t \in Session \ {s} : at'[t] = at[t]) /\ UNCHANGED id
    BY <1>4, ConnectMoves, PutUserSocketMoves, FindUserMoves, GetUserMoves, PutUserMoves,
       AddSocketMoves, ListMoves, ListedMoves, ReplyMoves, RepliedMoves, LeaveMoves,
       FindUserSocketMoves, RemoveSocketMoves, RemoveUserSocketMoves
       DEF Moved, Connect, PutUserSocket, FindUser, GetUser, PutUser, AddSocket, List, Listed,
           Reply, Replied, Leave, FindUserSocket, RemoveSocket, RemoveUserSocket
  <2>2. at[s] \notin {"findListener", "putListener"}
    BY <1>4 DEF Connect, PutUserSocket, FindUser, GetUser, PutUser, AddSocket, List, Listed,
       Reply, Replied, Leave, FindUserSocket, RemoveSocket, RemoveUserSocket
  <2>3. UNCHANGED topics
    BY <1>4 DEF Connect, PutUserSocket, FindUser, GetUser, PutUser, AddSocket, List, Listed,
       Reply, Replied, Leave, FindUserSocket, RemoveSocket, RemoveUserSocket
  <2>4. QED
    BY <2>1, <2>2, <2>3, OthersSubscribed DEF topics
<1>5. ASSUME NEW s \in Session, BrowserLeaves(s) PROVE SubscribedInv'
  BY <1>5, OthersSubscribed DEF BrowserLeaves, topics
<1>6. ASSUME NEW d \in Device, Push(d) \/ Tell(d) PROVE SubscribedInv'
  BY <1>6, OthersSubscribed DEF Push, Tell, PushNext, Pushed, PushEnds, handler, topics
<1>7. CASE UNCHANGED vars
  BY <1>7, OthersSubscribed DEF vars, handler, topics
<1>8. QED
  BY <1>1, <1>2, <1>3, <1>4, <1>5, <1>6, <1>7 DEF Next, Serve

\* A listener tells a session that subscribed to its id itself.  Until a write to the
\* subscriptions or the listeners is lost because it overlaps another one, what is listed
\* for a device has some listener there or is about to get it, and what was subscribed to
\* keeps one: it is the subscriber's own if nobody else subscribed to the same id, and may
\* be another subscriber's if somebody did (DefaultSubscriptionManager.java:44-90).
THEOREM SubscriptionsHeard == Spec => []SubscribedIsHeard
<1>1. SubscribedInv => SubscribedIsHeard
  BY DEF SubscribedInv
<1>2. QED
  BY <1>1, InitSubscribed, NextSubscribed, Invariant, PTL DEF Spec
=============================================================================
