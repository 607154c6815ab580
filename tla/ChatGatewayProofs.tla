-------------------------- MODULE ChatGatewayProofs --------------------------
(***************************************************************************)
(* Theorems about the gateway composed with the conversation store: what   *)
(* is proved of the store's calls holds behind the gateway too, a socket's *)
(* room is named after the conversation it has open, and nobody stays in a *)
(* room that is sent to after their removal unless its event passed them   *)
(* by.                                                                     *)
(***************************************************************************)
EXTENDS ChatGateway, ChatServiceProofs

(***************************************************************************)
(* Sockets.                                                                *)
(***************************************************************************)

\* Leaving keeps a socket's connection and takes it out of what it has open.
LEMMA OutsideTyped ==
  ASSUME NEW k \in Socket
  PROVE  /\ Outside(k) \in Socket
         /\ Outside(k).connected = k.connected
         /\ Outside(k).rooms = k.rooms \ {Room(k.current.conv)}
         /\ Outside(k).current.conv = None
BY DEF Outside, NoConversation, Socket

\* A list of participants that arrives changes nothing else.
LEMMA RefreshedTyped ==
  ASSUME NEW k \in Socket, NEW c, NEW users \in SUBSET Users
  PROVE  /\ Refreshed(k, c, users) \in Socket
         /\ Refreshed(k, c, users).connected = k.connected
         /\ Refreshed(k, c, users).rooms = k.rooms
         /\ Refreshed(k, c, users).current.conv = k.current.conv
BY DEF Refreshed, Socket

\* A socket that enters c has c open, and if it is connected is in one room of c's.
LEMMA EnteredTyped ==
  ASSUME NEW s \in Sockets, socket[s] \in Socket,
         NEW c \in Conversations, NEW spelling \in Spellings, NEW users \in SUBSET Users
  PROVE  /\ Entered(s, c, spelling, users) \in Socket
         /\ Entered(s, c, spelling, users).connected = socket[s].connected
         /\ Entered(s, c, spelling, users).rooms =
              IF socket[s].connected THEN {<<c, spelling>>} ELSE socket[s].rooms
         /\ Entered(s, c, spelling, users).current.conv = c
<1>1. {<<c, spelling>>} \in SUBSET (Conversations \X Spellings)
  OBVIOUS
<1>2. socket[s].rooms \in SUBSET (Conversations \X Spellings)
  BY DEF Socket
<1> QED BY <1>1, <1>2 DEF Entered, Socket

(***************************************************************************)
(* The store's part.                                                       *)
(***************************************************************************)

\* Whatever the gateway does is a step of the store's calls, or none.
LEMMA ServiceStep ==
  ASSUME GatewayInvariant, [GwNext]_gwvars
  PROVE  [Next]_vars
<1>1. CASE UNCHANGED gwvars
  BY <1>1 DEF gwvars
<1>2. ASSUME NEW r \in Requests, GwRequest(r) PROVE Next
  <2>1. CASE BeginSendMessage(r)
    <3>1. PICK s \in Sockets : IsRoomed(s) /\ StartSend(r, UserOf[s], socket[s].current.conv)
      BY <2>1 DEF BeginSendMessage
    <3>2. socket[s].current.conv \in Existing /\ UserOf[s] \in Users
      BY <3>1, UserOfAssumption DEF GatewayInvariant, IsRoomed
    <3> QED BY <3>1, <3>2 DEF Next, Begin, BeginSend
  <2>2. CASE ~BeginSendMessage(r)
    BY <1>2, <2>2 DEF GwRequest, HandleParticipantAdded, HandleParticipantRemoved,
       FinishSendMessage, GwAbort, Next, Begin, Continue, Answer
  <2> QED BY <2>1, <2>2
<1>3. ASSUME NEW j \in Joins, BeginJoin(j) \/ FinishJoin(j) PROVE UNCHANGED vars
  BY <1>3 DEF BeginJoin, FinishJoin
<1>4. ASSUME NEW s \in Sockets, HandleLeave(s) \/ Disconnect(s) PROVE UNCHANGED vars
  BY <1>4 DEF HandleLeave, Disconnect
<1>5. CASE AllAnswered
  BY <1>5 DEF Next
<1> QED BY <1>1, <1>2, <1>3, <1>4, <1>5 DEF GwNext

\* Conversations that exist go on existing.
LEMMA ConversationsStay ==
  ASSUME OwnerInvariant, [Next]_vars
  PROVE  \A c \in Existing : kind'[c] = kind[c] /\ c \in Existing'
<1>1. CASE UNCHANGED kind
  BY <1>1 DEF Existing
<1>2. ASSUME NEW r \in Requests, CommitCreate(r)
      PROVE  \A c \in Existing : kind'[c] = kind[c] /\ c \in Existing'
  <2>1. kind[request[r].conv] = "NONE"
    BY <1>2 DEF CommitCreate, At, OwnerInvariant, CallOK
  <2>2. kind' = [kind EXCEPT ![request[r].conv] = request[r].kind]
    BY <1>2 DEF CommitCreate
  <2> QED BY <2>1, <2>2 DEF OwnerInvariant, TypeOK, Existing
<1> QED
  BY <1>1, <1>2
     DEF Next, AllAnswered, vars, store, Begin, BeginHttp, RefuseIds, BeginCreate, BeginAdd,
         BeginRemove, BeginSend, StartSend, Continue, Work, Answer, ReadLeft, CommitAdd,
         CommitRemove, RereadAdd, RereadRemove, Reread, CommitSend, EmitCreated, EmitAdded,
         EmitRemoved, ReturnMessage, Abort

(***************************************************************************)
(* Who may listen.                                                         *)
(***************************************************************************)

\* A removal's announcement stays under way until its call ends.
LEMMA RemovalGoesOn ==
  ASSUME OwnerInvariant, [Next]_vars, NEW r \in Requests,
         request[r].step \in {"remove.committed", "remove.reread"},
         request'[r].step # "ended"
  PROVE  /\ request'[r].step \in {"remove.committed", "remove.reread"}
         /\ request'[r].conv = request[r].conv /\ request'[r].users = request[r].users
<1> PICK q : q = request[r]
  OBVIOUS
<1>1. q \in Request /\ request \in [Requests -> Request]
  BY DEF OwnerInvariant, TypeOK
<1>2. CASE request'[r] = request[r]
  BY <1>2
<1>3. CASE RereadRemove(r)
  <2>1. At(r, "remove.committed")
    BY <1>3 DEF RereadRemove, Reread
  <2>2. q.by \in ActiveIn(q.conv)
    BY <2>1, RemoverStays
  <2>3. request'[r] = [q EXCEPT !.step = "remove.reread", !.seen = ActiveIn(q.conv)]
    BY <1>1, <1>3, <2>2 DEF RereadRemove, Reread, Proceed, Becomes
  <2> QED BY <1>1, <2>3 DEF Request
<1>4. \A t \in Requests : (Begin(t) \/ Continue(t) \/ Abort(t)) => (t # r => request'[r] = request[r])
  BY <1>1 DEF Begin, BeginHttp, RefuseIds, BeginCreate, BeginAdd,
         BeginRemove, BeginSend, StartSend, Continue, Work, Answer, ReadLeft, CommitAdd,
         CommitCreate, CommitRemove, RereadAdd, RereadRemove, Reread, CommitSend, EmitCreated,
         EmitAdded, EmitRemoved, ReturnMessage, Abort, Becomes, Proceed
<1>5. (Begin(r) \/ Continue(r)) => RereadRemove(r) \/ EmitRemoved(r)
  BY DEF Begin, BeginHttp, RefuseIds, BeginCreate, BeginAdd, CanBegin,
         BeginRemove, BeginSend, StartSend, Continue, Work, Answer, ReadLeft, CommitAdd,
         CommitCreate, CommitRemove, RereadAdd, Reread, CommitSend, EmitCreated,
         EmitAdded, ReturnMessage, At
<1>6. ~EmitRemoved(r) /\ ~Abort(r)
  BY <1>1, EndedOK DEF EmitRemoved, Abort, Becomes
<1> QED
  BY <1>2, <1>3, <1>4, <1>5, <1>6 DEF Next, AllAnswered, vars

\* Removals of user u from c that are committed and not announced.
Unannounced(r, c, u) ==
  /\ request[r].step \in {"remove.committed", "remove.reread"}
  /\ request[r].conv = c /\ u \in request[r].users

\* The right to listen lasts until a removal is announced, or fails.
LEMMA ListenersStay ==
  ASSUME OwnerInvariant, [Next]_vars, missed \subseteq missed',
         NEW s \in Sockets, NEW c \in Existing, MayListen(s, c),
         \A r \in Requests : Unannounced(r, c, UserOf[s]) => request'[r].step # "ended"
  PROVE  MayListen(s, c)'
<1>1. UserOf[s] \in Users
  BY UserOfAssumption
<1>2. CASE UserOf[s] \in ActiveIn(c)
  <2>1. CASE UserOf[s] \in ActiveIn(c)'
    BY <2>1 DEF MayListen
  <2>2. CASE UserOf[s] \notin ActiveIn(c)'
    <3>1. PICK r \in Requests :
            CommitRemove(r) /\ request[r].conv = c /\ request[r].users = {UserOf[s]}
      BY <1>1, <1>2, <2>2, ActiveShrinks
    <3>2. /\ request'[r].step = "remove.committed" /\ request'[r].conv = request[r].conv
          /\ request'[r].users = request[r].users
      BY <3>1 DEF CommitRemove, Becomes, OwnerInvariant, TypeOK, Request
    <3> QED BY <3>1, <3>2 DEF MayListen, RemovalUnderway
  <2> QED BY <2>1, <2>2
<1>3. CASE RemovalUnderway(c, UserOf[s])
  <2>1. PICK r \in Requests : Unannounced(r, c, UserOf[s])
    BY <1>3 DEF RemovalUnderway, Unannounced
  <2>2. /\ request'[r].step \in {"remove.committed", "remove.reread"}
        /\ request'[r].conv = request[r].conv /\ request'[r].users = request[r].users
    BY <2>1, RemovalGoesOn DEF Unannounced
  <2> QED BY <2>1, <2>2 DEF MayListen, RemovalUnderway, Unannounced
<1>4. CASE <<s, c>> \in missed
  BY <1>4 DEF MayListen
<1> QED BY <1>2, <1>3, <1>4 DEF MayListen

\* A call that ends takes nobody's right but that of the users it removes.
LEMMA EndsTakeNoOther ==
  ASSUME OwnerInvariant, [Next]_vars, missed \subseteq missed',
         NEW r \in Requests, Becomes(r, Ended),
         NEW s \in Sockets, NEW c \in Existing, MayListen(s, c),
         ~Unannounced(r, c, UserOf[s])
  PROVE  MayListen(s, c)'
<1>1. \A t \in Requests : Unannounced(t, c, UserOf[s]) => request'[t].step # "ended"
  <2> SUFFICES ASSUME NEW t \in Requests, Unannounced(t, c, UserOf[s])
               PROVE  request'[t].step # "ended"
    OBVIOUS
  <2>1. t # r
    OBVIOUS
  <2>2. request'[t] = request[t]
    BY <2>1 DEF Becomes, OwnerInvariant, TypeOK
  <2> QED BY <2>2 DEF Unannounced
<1> QED BY <1>1, ListenersStay

\* The steps of calls that announce no removal take nobody's right.
LEMMA QuietStepsKeep ==
  ASSUME OwnerInvariant, [Next]_vars, missed \subseteq missed',
         NEW r \in Requests,
         \/ Begin(r) \/ Work(r) \/ EmitCreated(r) \/ EmitAdded(r) \/ ReturnMessage(r),
         NEW s \in Sockets, NEW c \in Existing, MayListen(s, c)
  PROVE  MayListen(s, c)'
<1> PICK q : q = request[r]
  OBVIOUS
<1>1. q \in Request /\ request \in [Requests -> Request]
  BY DEF OwnerInvariant, TypeOK
<1>2. \A t \in Requests : t # r => request'[t] = request[t]
  BY <1>1 DEF Begin, BeginHttp, RefuseIds, BeginCreate, BeginAdd,
         BeginRemove, BeginSend, StartSend, Work, ReadLeft, CommitAdd,
         CommitCreate, CommitRemove, RereadAdd, RereadRemove, Reread, CommitSend, EmitCreated,
         EmitAdded, ReturnMessage, Becomes, Proceed
<1>3. q.step \in {"remove.committed", "remove.reread"} => RereadRemove(r)
  BY DEF Begin, BeginHttp, RefuseIds, BeginCreate, BeginAdd, CanBegin,
         BeginRemove, BeginSend, StartSend, Work, ReadLeft, CommitAdd,
         CommitCreate, CommitRemove, RereadAdd, Reread, CommitSend, EmitCreated,
         EmitAdded, ReturnMessage, At
<1>4. RereadRemove(r) => request'[r].step = "remove.reread"
  <2> SUFFICES ASSUME RereadRemove(r) PROVE request'[r].step = "remove.reread"
    OBVIOUS
  <2>1. q.by \in ActiveIn(q.conv)
    BY RemoverStays DEF RereadRemove, Reread
  <2>2. request'[r] = [q EXCEPT !.step = "remove.reread", !.seen = ActiveIn(q.conv)]
    BY <1>1, <2>1 DEF RereadRemove, Reread, Proceed, Becomes
  <2> QED BY <1>1, <2>2 DEF Request
<1>5. \A t \in Requests : Unannounced(t, c, UserOf[s]) => request'[t].step # "ended"
  BY <1>2, <1>3, <1>4 DEF Unannounced
<1> QED BY <1>5, ListenersStay

(***************************************************************************)
(* The invariant.                                                          *)
(***************************************************************************)

\* With no calls and no events, nobody listens to anything.
LEMMA InitGateway == GwInit => GatewayInvariant
<1> SUFFICES ASSUME GwInit PROVE GatewayInvariant
  OBVIOUS
<1> USE DEF GwInit, NoEvents
<1>1. OwnerInvariant
  BY InitOwner
<1>2. GwTypeOK
  <2>1. [connected |-> TRUE, rooms |-> {}, current |-> NoConversation] \in Socket
    BY DEF Socket, NoConversation
  <2>2. IdleJoin \in Join
    BY DEF IdleJoin, Join, Spellings
  <2> QED BY <1>1, <2>1, <2>2 DEF GwTypeOK, OwnerInvariant
<1>3. \A s \in Sockets : socket[s].rooms = {} /\ socket[s].current.conv = None
  BY DEF NoConversation
<1>4. \A j \in Joins : join[j].step = "idle"
  BY DEF IdleJoin
<1>5. RoomIsCurrent /\ NobodyLingers
  BY <1>3 DEF RoomIsCurrent, NobodyLingers, IsRoomed
<1> QED BY <1>1, <1>2, <1>3, <1>4, <1>5 DEF GatewayInvariant, JoinOK

\* A socket's room and what it has open.
RoomOK(k) ==
  /\ k.connected /\ k.current.conv # None =>
       \E spelling \in Spellings : k.rooms = {<<k.current.conv, spelling>>}
  /\ k.current.conv = None => \A c \in Conversations : Room(c) \notin k.rooms
  /\ ~k.connected => k.rooms = {}
  /\ k.current.conv \in Existing \cup {None}

\* A socket in a room that is sent to has that conversation open, and is in no other.
LEMMA RoomTells ==
  ASSUME NEW k \in Socket, RoomOK(k), NEW c \in Conversations, Room(c) \in k.rooms
  PROVE  k.connected /\ k.current.conv = c /\ c \in Existing /\ k.rooms = {Room(c)}
<1>1. k.connected /\ k.current.conv # None
  BY DEF RoomOK, Socket
<1>2. PICK spelling \in Spellings : k.rooms = {<<k.current.conv, spelling>>}
  BY <1>1 DEF RoomOK
<1>3. <<c, "public">> = <<k.current.conv, spelling>>
  BY <1>2 DEF Room
<1> QED BY <1>1, <1>2, <1>3 DEF Room, RoomOK

\* What a join that has read relies on: conversations exist, and whoever will enter
\* the room that is sent to has a right to.
LetIn(h, s, c) == h.socket = s /\ h.conv = c /\ (h.spelling = "public" => MayListen(s, c))

\* What a step must keep of sockets and joins; the store's part follows.
LEMMA GatewayKeeps ==
  ASSUME GatewayInvariant, [Next]_vars,
         socket' \in [Sockets -> Socket], join' \in [Joins -> Join],
         sender' \in [Requests -> Sockets \cup {None}],
         missed' \subseteq Sockets \X Conversations,
         \A s \in Sockets : RoomOK(socket'[s]),
         \A s \in Sockets, c \in Conversations : Room(c) \in socket'[s].rooms => MayListen(s, c)',
         \A j \in Joins : join'[j].step = "read" =>
           \E s \in Sockets, c \in Existing : LetIn(join[j], s, c)'
  PROVE  GatewayInvariant'
<1>1. OwnerInvariant' /\ \A c \in Existing : c \in Existing'
  BY NextOwner, ConversationsStay DEF GatewayInvariant
<1>2. GwTypeOK'
  BY <1>1 DEF GwTypeOK, OwnerInvariant
<1>3. RoomIsCurrent'
  BY DEF RoomIsCurrent, RoomOK, IsRoomed
<1>4. NobodyLingers'
  BY DEF NobodyLingers
<1>5. (\A s \in Sockets : socket[s].current.conv \in Existing \cup {None})'
  BY <1>1 DEF RoomOK
<1>6. (\A j \in Joins : JoinOK(join[j]))'
  <2> SUFFICES ASSUME NEW j \in Joins, join'[j].step = "read"
               PROVE  JoinOK(join[j])'
    BY DEF JoinOK
  <2>1. PICK s \in Sockets, c \in Existing : LetIn(join[j], s, c)'
    OBVIOUS
  <2>2. /\ join'[j].socket = s /\ join'[j].conv = c
        /\ join'[j].spelling = "public" => MayListen(s, c)'
    BY <2>1 DEF LetIn
  <2> QED BY <1>1, <2>2 DEF JoinOK, MayListen, ActiveIn, RemovalUnderway
<1> QED BY <1>1, <1>2, <1>3, <1>4, <1>5, <1>6 DEF GatewayInvariant

\* What the invariant says of one socket and of one join.
LEMMA SocketFacts ==
  ASSUME GatewayInvariant, NEW s \in Sockets
  PROVE  /\ socket[s] \in Socket /\ RoomOK(socket[s])
         /\ \A c \in Conversations : Room(c) \in socket[s].rooms =>
              c \in Existing /\ MayListen(s, c)
<1>1. socket[s] \in Socket /\ RoomOK(socket[s])
  BY DEF GatewayInvariant, GwTypeOK, RoomIsCurrent, RoomOK, IsRoomed
<1>2. \A c \in Conversations : Room(c) \in socket[s].rooms => c \in Existing
  BY <1>1, RoomTells
<1>3. \A c \in Conversations : Room(c) \in socket[s].rooms => MayListen(s, c)
  BY DEF GatewayInvariant, NobodyLingers
<1> QED BY <1>1, <1>2, <1>3

LEMMA JoinFacts ==
  ASSUME GatewayInvariant, NEW j \in Joins, join[j].step = "read"
  PROVE  \E s \in Sockets, c \in Existing : LetIn(join[j], s, c)
BY DEF GatewayInvariant, JoinOK, LetIn

\* Steps that touch no conversation and no call change nobody's right.
LEMMA SameRights ==
  ASSUME UNCHANGED vars, UNCHANGED missed, NEW s, NEW c, MayListen(s, c)
  PROVE  MayListen(s, c)'
BY DEF vars, MayListen, ActiveIn, RemovalUnderway

\* Calls that announce nothing: sockets and joins stay as they are.
LEMMA CallKeeps ==
  ASSUME GatewayInvariant, [Next]_vars, UNCHANGED <<socket, join>>,
         sender' \in [Requests -> Sockets \cup {None}],
         missed' \subseteq Sockets \X Conversations,
         \A s \in Sockets, c \in Existing : MayListen(s, c) => MayListen(s, c)'
  PROVE  GatewayInvariant'
<1>1. socket \in [Sockets -> Socket] /\ join \in [Joins -> Join]
  BY DEF GatewayInvariant, GwTypeOK
<1>2. \A s \in Sockets : RoomOK(socket'[s])
  BY SocketFacts
<1>3. \A s \in Sockets, c \in Conversations : Room(c) \in socket'[s].rooms => MayListen(s, c)'
  BY SocketFacts
<1>4. \A j \in Joins : join'[j].step = "read" =>
        \E s \in Sockets, c \in Existing : LetIn(join[j], s, c)'
  BY JoinFacts DEF LetIn
<1> QED BY <1>1, <1>2, <1>3, <1>4, GatewayKeeps

\* HTTP calls, database work, sent messages and failures.
LEMMA RequestKeeps ==
  ASSUME GatewayInvariant, [Next]_vars, NEW r \in Requests,
         \/ (BeginHttp(r) \/ Work(r) \/ EmitCreated(r)) /\ UNCHANGED gateway
         \/ BeginSendMessage(r) \/ FinishSendMessage(r) \/ GwAbort(r)
  PROVE  GatewayInvariant'
<1>1. CASE (BeginHttp(r) \/ Work(r) \/ EmitCreated(r) \/ ReturnMessage(r)) /\ UNCHANGED gateway
  <2>1. UNCHANGED <<socket, join, sender, missed>>
    BY <1>1 DEF gateway
  <2>2. Begin(r) \/ Work(r) \/ EmitCreated(r) \/ EmitAdded(r) \/ ReturnMessage(r)
    BY <1>1 DEF Begin
  <2>3. \A s \in Sockets, c \in Existing : MayListen(s, c) => MayListen(s, c)'
    BY <2>1, <2>2, QuietStepsKeep DEF GatewayInvariant
  <2> QED BY <2>1, <2>3, CallKeeps DEF GatewayInvariant, GwTypeOK
<1>2. CASE FinishSendMessage(r)
  BY <1>1, <1>2 DEF FinishSendMessage
<1>3. CASE BeginSendMessage(r)
  <2>1. UNCHANGED <<socket, join, missed>>
    BY <1>3 DEF BeginSendMessage
  <2>2. PICK s \in Sockets : /\ IsRoomed(s) /\ StartSend(r, UserOf[s], socket[s].current.conv)
                             /\ sender' = [sender EXCEPT ![r] = s]
    BY <1>3 DEF BeginSendMessage
  <2>3. UserOf[s] \in Users /\ socket[s].current.conv \in Existing
    BY <2>2, UserOfAssumption DEF GatewayInvariant, IsRoomed
  <2>4. Begin(r)
    BY <2>2, <2>3 DEF Begin, BeginSend
  <2>5. \A t \in Sockets, c \in Existing : MayListen(t, c) => MayListen(t, c)'
    BY <2>1, <2>4, QuietStepsKeep DEF GatewayInvariant
  <2>6. /\ sender' \in [Requests -> Sockets \cup {None}]
        /\ missed' \subseteq Sockets \X Conversations
    BY <2>1, <2>2 DEF GatewayInvariant, GwTypeOK
  <2> QED BY <2>1, <2>5, <2>6, CallKeeps
<1>4. CASE GwAbort(r)
  <2> PICK q : q = request[r]
    OBVIOUS
  <2>1. q \in Request /\ CallOK(q)
    BY DEF GatewayInvariant, OwnerInvariant, TypeOK
  <2>2. /\ Becomes(r, Ended) /\ UNCHANGED <<socket, join, sender>>
        /\ q.step \in {"remove.committed", "remove.reread"} =>
             missed' = missed \cup (SocketsOf(q.users) \X {q.conv})
        /\ q.step \notin {"remove.committed", "remove.reread"} => missed' = missed
    BY <1>4 DEF GwAbort, Abort
  <2>3. missed \subseteq missed' /\ missed' \subseteq Sockets \X Conversations
    BY <2>1, <2>2 DEF GatewayInvariant, GwTypeOK, CallOK, SocketsOf
  <2>4. ASSUME NEW s \in Sockets, NEW c \in Existing, MayListen(s, c)
        PROVE  MayListen(s, c)'
    <3>1. CASE Unannounced(r, c, UserOf[s])
      <4>1. <<s, c>> \in missed'
        BY <2>2, <3>1 DEF Unannounced, SocketsOf
      <4> QED BY <4>1 DEF MayListen
    <3>2. CASE ~Unannounced(r, c, UserOf[s])
      BY <2>2, <2>3, <2>4, <3>2, EndsTakeNoOther DEF GatewayInvariant
    <3> QED BY <3>1, <3>2
  <2>5. sender' \in [Requests -> Sockets \cup {None}]
    BY <2>2 DEF GatewayInvariant, GwTypeOK
  <2> QED BY <2>2, <2>3, <2>4, <2>5, CallKeeps
<1> QED BY <1>1, <1>2, <1>3, <1>4

\* An addition's event: new lists of participants, the same rooms.
LEMMA AddedKeeps ==
  ASSUME GatewayInvariant, [Next]_vars, NEW r \in Requests, HandleParticipantAdded(r)
  PROVE  GatewayInvariant'
<1> PICK q : q = request[r]
  OBVIOUS
<1>1. q.seen \in SUBSET Users
  BY DEF GatewayInvariant, OwnerInvariant, TypeOK, Request
<1>2. /\ socket' = [s \in Sockets |-> Refreshed(socket[s], q.conv, q.seen)]
      /\ EmitAdded(r) /\ UNCHANGED <<join, sender, missed>>
  BY DEF HandleParticipantAdded
<1>3. \A s \in Sockets : /\ socket'[s] \in Socket /\ socket'[s].rooms = socket[s].rooms
                          /\ RoomOK(socket'[s])
  <2> SUFFICES ASSUME NEW s \in Sockets
               PROVE  /\ socket'[s] \in Socket /\ socket'[s].rooms = socket[s].rooms
                      /\ RoomOK(socket'[s])
    OBVIOUS
  <2>1. socket[s] \in Socket /\ RoomOK(socket[s])
    BY SocketFacts
  <2>2. socket'[s] = Refreshed(socket[s], q.conv, q.seen)
    BY <1>2
  <2>3. /\ socket'[s] \in Socket /\ socket'[s].connected = socket[s].connected
        /\ socket'[s].rooms = socket[s].rooms
        /\ socket'[s].current.conv = socket[s].current.conv
    BY <1>1, <2>1, <2>2, RefreshedTyped
  <2> QED BY <2>1, <2>3 DEF RoomOK
<1>4. \A s \in Sockets, c \in Existing : MayListen(s, c) => MayListen(s, c)'
  BY <1>2, QuietStepsKeep DEF GatewayInvariant
<1>5. \A s \in Sockets, c \in Conversations : Room(c) \in socket'[s].rooms => MayListen(s, c)'
  BY <1>3, <1>4, SocketFacts
<1>6. \A j \in Joins : join'[j].step = "read" =>
        \E s \in Sockets, c \in Existing : LetIn(join[j], s, c)'
  BY <1>2, <1>4, JoinFacts DEF LetIn
<1>7. /\ socket' \in [Sockets -> Socket] /\ join' \in [Joins -> Join]
      /\ sender' \in [Requests -> Sockets \cup {None}]
      /\ missed' \subseteq Sockets \X Conversations
  BY <1>2, <1>3 DEF GatewayInvariant, GwTypeOK
<1> QED BY <1>3, <1>5, <1>6, <1>7, GatewayKeeps

\* The kick: a socket in the room of c has c open, so those of the removed user's
\* sockets all leave it; joins that have read c are remembered as passed by.
LEMMA RemovedKeeps ==
  ASSUME GatewayInvariant, [Next]_vars, NEW r \in Requests, HandleParticipantRemoved(r)
  PROVE  GatewayInvariant'
<1> PICK q : q = request[r]
  OBVIOUS
<1>1. /\ q.seen \in SUBSET Users /\ q.conv \in Conversations
      /\ q.step = "remove.reread"
  BY DEF GatewayInvariant, OwnerInvariant, TypeOK, Request, CallOK, HandleParticipantRemoved,
         EmitRemoved, At
<1>2. /\ socket' = [s \in Sockets |-> Refreshed(Kicked(s, q.conv, q.users), q.conv, q.seen)]
      /\ missed' = missed \cup (Reading(q.conv, q.users) \X {q.conv})
      /\ Becomes(r, Ended) /\ UNCHANGED <<join, sender>>
  BY DEF HandleParticipantRemoved, EmitRemoved
<1>3. missed \subseteq missed' /\ missed' \subseteq Sockets \X Conversations
  BY <1>1, <1>2 DEF GatewayInvariant, GwTypeOK, Reading, SocketsOf
<1>4. ASSUME NEW s \in Sockets, NEW c \in Existing, MayListen(s, c),
             ~(c = q.conv /\ UserOf[s] \in q.users)
      PROVE  MayListen(s, c)'
  BY <1>2, <1>3, <1>4, EndsTakeNoOther DEF GatewayInvariant, Unannounced
<1>5. ASSUME NEW s \in Sockets
      PROVE  /\ socket'[s] \in Socket /\ RoomOK(socket'[s])
             /\ socket'[s].rooms \subseteq socket[s].rooms
             /\ UserOf[s] \in q.users => Room(q.conv) \notin socket'[s].rooms
  <2> PICK k : k = Kicked(s, q.conv, q.users)
    OBVIOUS
  <2>1. socket[s] \in Socket /\ RoomOK(socket[s])
    BY SocketFacts
  <2>2. /\ k \in Socket /\ RoomOK(k) /\ k.rooms \subseteq socket[s].rooms
        /\ UserOf[s] \in q.users => Room(q.conv) \notin k.rooms
    <3>1. CASE UserOf[s] \in q.users /\ Room(q.conv) \in socket[s].rooms
      <4>1. socket[s].current.conv = q.conv /\ socket[s].rooms = {Room(q.conv)}
        BY <1>1, <2>1, <3>1, RoomTells
      <4>2. k = Outside(socket[s])
        BY <1>1, <3>1, <4>1, NoneAssumption DEF Kicked, IsRoomed
      <4>3. k \in Socket /\ k.rooms = {} /\ k.current.conv = None
        BY <2>1, <4>1, <4>2, OutsideTyped
      <4> QED BY <4>3 DEF RoomOK
    <3>2. CASE ~(UserOf[s] \in q.users /\ Room(q.conv) \in socket[s].rooms)
      BY <2>1, <3>2 DEF Kicked
    <3> QED BY <3>1, <3>2
  <2>3. socket'[s] = Refreshed(k, q.conv, q.seen)
    BY <1>2
  <2>4. /\ socket'[s] \in Socket /\ socket'[s].connected = k.connected
        /\ socket'[s].rooms = k.rooms /\ socket'[s].current.conv = k.current.conv
    BY <1>1, <2>2, <2>3, RefreshedTyped
  <2> QED BY <2>2, <2>4 DEF RoomOK
<1>6. \A s \in Sockets, c \in Conversations : Room(c) \in socket'[s].rooms => MayListen(s, c)'
  <2> SUFFICES ASSUME NEW s \in Sockets, NEW c \in Conversations, Room(c) \in socket'[s].rooms
               PROVE  MayListen(s, c)'
    OBVIOUS
  <2>1. Room(c) \in socket[s].rooms /\ ~(c = q.conv /\ UserOf[s] \in q.users)
    BY <1>5
  <2>2. c \in Existing /\ MayListen(s, c)
    BY <2>1, SocketFacts
  <2> QED BY <1>4, <2>1, <2>2
<1>7. \A j \in Joins : join'[j].step = "read" =>
        \E s \in Sockets, c \in Existing : LetIn(join[j], s, c)'
  <2> SUFFICES ASSUME NEW j \in Joins, join[j].step = "read"
               PROVE  \E s \in Sockets, c \in Existing : LetIn(join[j], s, c)'
    BY <1>2
  <2>1. PICK s \in Sockets, c \in Existing : LetIn(join[j], s, c)
    BY JoinFacts
  <2>2. join[j].socket = s /\ join[j].conv = c /\ join'[j] = join[j]
    BY <1>2, <2>1 DEF LetIn
  <2>3. ASSUME join[j].spelling = "public" PROVE MayListen(s, c)'
    <3>1. CASE c = q.conv /\ UserOf[s] \in q.users
      <4>1. <<s, c>> \in missed'
        BY <1>2, <2>2, <2>3, <3>1 DEF Reading, SocketsOf
      <4> QED BY <4>1 DEF MayListen
    <3>2. CASE ~(c = q.conv /\ UserOf[s] \in q.users)
      BY <1>4, <2>1, <2>3, <3>2 DEF LetIn
    <3> QED BY <3>1, <3>2
  <2> QED BY <2>2, <2>3 DEF LetIn
<1>8. /\ socket' \in [Sockets -> Socket] /\ join' \in [Joins -> Join]
      /\ sender' \in [Requests -> Sockets \cup {None}]
  BY <1>2, <1>5 DEF GatewayInvariant, GwTypeOK
<1> QED BY <1>3, <1>5, <1>6, <1>7, <1>8, GatewayKeeps

\* Joins, leaves and disconnections: nobody's right changes, and a socket only
\* enters a room by a join that has the right.
LEMMA SocketKeeps ==
  ASSUME GatewayInvariant, UNCHANGED <<vars, sender, missed>>,
         join' \in [Joins -> Join],
         \A j \in Joins : join'[j].step = "read" /\ join'[j] # join[j] =>
           \E s \in Sockets, c \in Existing : LetIn(join'[j], s, c),
         socket' \in [Sockets -> Socket],
         \A s \in Sockets : RoomOK(socket'[s]),
         \A s \in Sockets, c \in Conversations :
           Room(c) \in socket'[s].rooms => Room(c) \in socket[s].rooms \/ MayListen(s, c)
  PROVE  GatewayInvariant'
<1>1. \A s \in Sockets, c \in Conversations : Room(c) \in socket'[s].rooms => MayListen(s, c)'
  <2> SUFFICES ASSUME NEW s \in Sockets, NEW c \in Conversations, Room(c) \in socket'[s].rooms
               PROVE  MayListen(s, c)'
    OBVIOUS
  <2>1. MayListen(s, c)
    BY SocketFacts
  <2> QED BY <2>1, SameRights
<1>2. \A j \in Joins : join'[j].step = "read" =>
        \E s \in Sockets, c \in Existing : LetIn(join[j], s, c)'
  <2> SUFFICES ASSUME NEW j \in Joins, join'[j].step = "read"
               PROVE  \E s \in Sockets, c \in Existing : LetIn(join[j], s, c)'
    OBVIOUS
  <2>1. PICK s \in Sockets, c \in Existing : LetIn(join'[j], s, c)
    BY JoinFacts
  <2>2. MayListen(s, c) => MayListen(s, c)'
    BY SameRights
  <2> QED BY <2>1, <2>2 DEF LetIn
<1>3. [Next]_vars
  OBVIOUS
<1>4. sender' \in [Requests -> Sockets \cup {None}] /\ missed' \subseteq Sockets \X Conversations
  BY DEF GatewayInvariant, GwTypeOK
<1> QED BY <1>1, <1>2, <1>3, <1>4, GatewayKeeps

LEMMA JoinKeeps ==
  ASSUME GatewayInvariant, NEW j \in Joins, BeginJoin(j) \/ FinishJoin(j)
  PROVE  GatewayInvariant'
<1>1. CASE BeginJoin(j)
  <2>1. PICK s \in Sockets, c \in Existing, spelling \in Spellings :
          join' = [join EXCEPT ![j] =
            IF UserOf[s] \in ActiveIn(c)
            THEN [step |-> "read", socket |-> s, conv |-> c, spelling |-> spelling,
                  users |-> ActiveIn(c)]
            ELSE EndedJoin]
    BY <1>1 DEF BeginJoin
  <2>2. UNCHANGED <<vars, socket, sender, missed>>
    BY <1>1 DEF BeginJoin
  <2>3. EndedJoin \in Join /\ EndedJoin.step = "ended"
    BY DEF EndedJoin, IdleJoin, Join, Spellings
  <2>4. [step |-> "read", socket |-> s, conv |-> c, spelling |-> spelling,
         users |-> ActiveIn(c)] \in Join
    BY DEF Join, ActiveIn, Existing
  <2>5. join \in [Joins -> Join]
    BY DEF GatewayInvariant, GwTypeOK
  <2>6. join' \in [Joins -> Join]
    BY <2>1, <2>3, <2>4, <2>5
  <2>7. \A i \in Joins : join'[i].step = "read" /\ join'[i] # join[i] =>
          LetIn(join'[i], s, c)
    BY <2>1, <2>3, <2>5 DEF MayListen, LetIn
  <2>8. socket' \in [Sockets -> Socket] /\ \A t \in Sockets : RoomOK(socket'[t])
    BY <2>2, SocketFacts DEF GatewayInvariant, GwTypeOK
  <2> QED BY <2>2, <2>6, <2>7, <2>8, SocketKeeps
<1>2. CASE FinishJoin(j)
  <2> PICK h : h = join[j]
    OBVIOUS
  <2>1. /\ h.step = "read" /\ join' = [join EXCEPT ![j] = EndedJoin]
        /\ socket' = [socket EXCEPT
             ![h.socket] = Entered(h.socket, h.conv, h.spelling, h.users)]
        /\ UNCHANGED <<vars, sender, missed>>
    BY <1>2 DEF FinishJoin
  <2>2. PICK s \in Sockets, c \in Existing :
          h.socket = s /\ h.conv = c /\ (h.spelling = "public" => MayListen(s, c))
    BY <2>1, JoinFacts DEF LetIn
  <2>3. h.users \in SUBSET Users /\ h.spelling \in Spellings /\ c \in Conversations
    BY DEF GatewayInvariant, GwTypeOK, Join, Existing
  <2> PICK k : k = Entered(s, c, h.spelling, h.users)
    OBVIOUS
  <2>4. socket[s] \in Socket /\ RoomOK(socket[s])
    BY SocketFacts
  <2>5. /\ k \in Socket /\ k.connected = socket[s].connected /\ k.current.conv = c
        /\ k.rooms = IF socket[s].connected THEN {<<c, h.spelling>>} ELSE socket[s].rooms
    BY <2>3, <2>4, EnteredTyped
  <2>6. RoomOK(k)
    BY <2>3, <2>4, <2>5, NoneAssumption DEF RoomOK
  <2>7. socket' = [socket EXCEPT ![s] = k] /\ socket \in [Sockets -> Socket]
    BY <2>1, <2>2 DEF GatewayInvariant, GwTypeOK
  <2>8. socket' \in [Sockets -> Socket] /\ \A t \in Sockets : RoomOK(socket'[t])
    BY <2>5, <2>6, <2>7, SocketFacts
  <2>9. \A t \in Sockets, d \in Conversations :
          Room(d) \in socket'[t].rooms => Room(d) \in socket[t].rooms \/ MayListen(t, d)
    <3> SUFFICES ASSUME NEW t \in Sockets, NEW d \in Conversations,
                        Room(d) \in socket'[t].rooms, Room(d) \notin socket[t].rooms
                 PROVE  MayListen(t, d)
      OBVIOUS
    <3>1. t = s /\ Room(d) = <<c, h.spelling>>
      BY <2>5, <2>7
    <3> QED BY <2>2, <3>1 DEF Room
  <2>10. EndedJoin \in Join /\ EndedJoin.step = "ended" /\ join \in [Joins -> Join]
    BY DEF EndedJoin, IdleJoin, Join, Spellings, GatewayInvariant, GwTypeOK
  <2>11. join' \in [Joins -> Join] /\ \A i \in Joins : join'[i].step = "read" => join'[i] = join[i]
    BY <2>1, <2>10
  <2> QED BY <2>1, <2>8, <2>9, <2>11, SocketKeeps
<1> QED BY <1>1, <1>2

LEMMA LeaveKeeps ==
  ASSUME GatewayInvariant, NEW s \in Sockets, HandleLeave(s) \/ Disconnect(s)
  PROVE  GatewayInvariant'
<1>1. UNCHANGED <<vars, join, sender, missed>>
  BY DEF HandleLeave, Disconnect
<1>2. socket[s] \in Socket /\ RoomOK(socket[s]) /\ socket \in [Sockets -> Socket]
  BY SocketFacts DEF GatewayInvariant, GwTypeOK
<1>3. PICK k : /\ socket' = [socket EXCEPT ![s] = k]
              /\ k \in Socket /\ RoomOK(k) /\ k.rooms \subseteq socket[s].rooms
  <2>1. CASE HandleLeave(s)
    <3>1. socket' = [socket EXCEPT ![s] = Outside(socket[s])]
      BY <2>1 DEF HandleLeave
    <3>2. /\ Outside(socket[s]) \in Socket
          /\ Outside(socket[s]).connected = socket[s].connected
          /\ Outside(socket[s]).rooms = socket[s].rooms \ {Room(socket[s].current.conv)}
          /\ Outside(socket[s]).current.conv = None
      BY <1>2, OutsideTyped
    <3>3. \A c \in Conversations : Room(c) \notin Outside(socket[s]).rooms
      BY <1>2, <3>2, RoomTells
    <3> QED BY <1>2, <3>1, <3>2, <3>3 DEF RoomOK
  <2>2. CASE Disconnect(s)
    <3> DEFINE k == [socket[s] EXCEPT !.connected = FALSE, !.rooms = {}]
    <3>1. socket' = [socket EXCEPT ![s] = k]
      BY <1>2, <2>2 DEF Disconnect
    <3>2. /\ k \in Socket /\ ~k.connected /\ k.rooms = {}
          /\ k.current.conv = socket[s].current.conv
      BY <1>2 DEF Socket
    <3> QED BY <1>2, <3>1, <3>2 DEF RoomOK
  <2> QED BY <2>1, <2>2
<1>4. socket' \in [Sockets -> Socket] /\ \A t \in Sockets : RoomOK(socket'[t])
  BY <1>2, <1>3, SocketFacts
<1>5. \A t \in Sockets : socket'[t].rooms \subseteq socket[t].rooms
  BY <1>2, <1>3
<1>6. join' = join /\ join \in [Joins -> Join]
  BY <1>1 DEF GatewayInvariant, GwTypeOK
<1> QED BY <1>1, <1>4, <1>5, <1>6, SocketKeeps

\* Every step, and stuttering, keeps the invariant.
LEMMA GatewayStep ==
  ASSUME GatewayInvariant, [GwNext]_gwvars
  PROVE  GatewayInvariant'
<1>1. [Next]_vars
  BY ServiceStep
<1>2. CASE UNCHANGED gwvars
  <2>1. /\ UNCHANGED <<vars, sender, missed, socket, join>>
        /\ socket \in [Sockets -> Socket] /\ join \in [Joins -> Join]
    BY <1>2 DEF gwvars, gateway, GatewayInvariant, GwTypeOK
  <2> QED BY <2>1, SocketFacts, SocketKeeps
<1>3. CASE AllAnswered /\ UNCHANGED gateway
  BY <1>2, <1>3 DEF AllAnswered, gwvars
<1>4. ASSUME NEW r \in Requests, GwRequest(r) PROVE GatewayInvariant'
  BY <1>1, <1>4, RequestKeeps, AddedKeeps, RemovedKeeps DEF GwRequest
<1> QED BY <1>2, <1>3, <1>4, JoinKeeps, LeaveKeeps DEF GwNext

(***************************************************************************)
(* What follows.                                                           *)
(***************************************************************************)

\* ChatGateway: what calls, sockets and joins rely on holds whatever overlaps.
THEOREM GatewayStays == GwSpec => []GatewayInvariant
<1>1. GwInit => GatewayInvariant
  BY InitGateway
<1>2. GatewayInvariant /\ [GwNext]_gwvars => GatewayInvariant'
  BY GatewayStep
<1> QED BY <1>1, <1>2, PTL DEF GwSpec

\* The gateway changes the store only by the calls of ChatService, so all that is
\* proved of those holds behind the gateway.
THEOREM GatewayImplementsService == GwSpec => Spec
<1>1. GwInit => Init
  BY DEF GwInit
<1>2. GatewayInvariant /\ [GwNext]_gwvars => [Next]_vars
  BY ServiceStep
<1> QED BY <1>1, <1>2, GatewayStays, PTL DEF GwSpec, Spec

\* handleJoinConversation, leaveConversation and the kick: the one room of a socket
\* is named after its currentConversation, however the client spelt the id, and a
\* socket with none open is in no room that is sent to.
THEOREM RoomsAreCurrent == GwSpec => []RoomIsCurrent
<1>1. GatewayInvariant => RoomIsCurrent
  BY DEF GatewayInvariant
<1> QED BY <1>1, GatewayStays, PTL

\* handleParticipantRemoved: nobody stays in the room of a conversation they were
\* removed from unless a join or a failure let the kick pass by.
THEOREM NobodyStaysOn == GwSpec => []NobodyLingers
<1>1. GatewayInvariant => NobodyLingers
  BY DEF GatewayInvariant
<1> QED BY <1>1, GatewayStays, PTL

\* Sockets, joins and senders keep their types.
THEOREM GatewayTypeCorrect == GwSpec => []GwTypeOK
<1>1. GatewayInvariant => GwTypeOK
  BY DEF GatewayInvariant
<1> QED BY <1>1, GatewayStays, PTL
=============================================================================
